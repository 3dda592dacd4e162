------------------------------- MODULE PageAlloc -------------------------------
(***************************************************************************)
(* The paged allocator front end of src/lj_alloc_page.c.  Requests of up   *)
(* to LJ_PAGE_ALLOC_MAX_SIZE bytes take a block of a page of their size    *)
(* class, larger ones go to the backend allocator.  Which of the two a     *)
(* block came from is told by its size alone.                              *)
(*                                                                         *)
(* The backend hands out chunks, each of which is a page, a large block or *)
(* free.  A call to which the backend refuses memory has no action: that   *)
(* it changes nothing is read off the code, not checked.                   *)
(***************************************************************************)
EXTENDS PageClass, Sequences, SequencesExt, FiniteSets

CONSTANTS
  Chunk,        \* what the backend can hand out at one time
  Sizes,        \* the sizes the program asks for
  SMALL_PAGE, LARGE_PAGE,  \* LJ_PAGE_SMALL_SIZE and LJ_PAGE_LARGE_SIZE
  DATA_OFFSET   \* offsetof(LJPage, data)

Classes == {page_size_class(n) : n \in Sizes \cap 1..LJ_PAGE_ALLOC_MAX_SIZE}
page_size(class) ==
  IF payload_size(class) > LJ_PAGE_SMALL_MAX_PAYLOAD
  THEN LARGE_PAGE ELSE SMALL_PAGE
block_count(class) == blocks(page_size(class), DATA_OFFSET, class)

ASSUME SizesAssumption == Sizes \subseteq Nat \ {0}
ASSUME PageAssumption ==
  /\ SMALL_PAGE \in Nat /\ LARGE_PAGE \in Nat /\ DATA_OFFSET \in Nat
  /\ \A k \in Classes : block_count(k) \in Nat \ {0}

\* A place is a block of a page of some class, or a whole chunk.
Delegated == LJ_PAGE_CLASS_COUNT
Slots(k) == 0..(block_count(k) - 1)
Addr == (UNION {Chunk \X {k} \X Slots(k) : k \in Classes})
          \cup (Chunk \X {Delegated} \X {0})
Overlap(a, b) == a[1] = b[1] /\ (a[2] # b[2] \/ a[3] = b[3])

VARIABLES
  open,     \* the state exists
  use,      \* of each chunk: "free", "page" (one of allpages), "large"
  class, bump_index, free_list, busy_count,  \* fields of the page headers
  nonfull_pages, \* the list of each class, its head first
  size,     \* of each place: the logical size of the block there, or 0
  data      \* what the memory of the place holds

hdr  == <<class, bump_index, free_list, busy_count>>
vars == <<open, use, hdr, nonfull_pages, size, data>>

Live == {a \in Addr : size[a] > 0}
\* Memory that is overwritten at place a, or in all of chunk c.
Scribble(d, a) == [b \in Addr |-> IF Overlap(a, b) THEN "junk" ELSE d[b]]
ScribbleChunk(d, c) == [b \in Addr |-> IF b[1] = c THEN "junk" ELSE d[b]]

\* The allocator as one value, for the calls that allocate and free.
St == [use |-> use, class |-> class, bump |-> bump_index, free |-> free_list,
       busy |-> busy_count, nonfull |-> nonfull_pages, data |-> data]
Becomes(s) ==
  /\ use' = s.use /\ class' = s.class /\ bump_index' = s.bump
  /\ free_list' = s.free /\ busy_count' = s.busy
  /\ nonfull_pages' = s.nonfull /\ data' = s.data

nonfull_insert(s, c) == [s EXCEPT !.nonfull[s.class[c]] = <<c>> \o @]
nonfull_remove(s, c) == [s EXCEPT !.nonfull[s.class[c]] = RemoveFirst(@, c)]
IsFull(s, c) == s.busy[c] = block_count(s.class[c])

-------------------------------------------------------------------------------
(* Allocation *)

page_new(s, k, c) ==
  nonfull_insert([s EXCEPT !.use[c] = "page", !.class[c] = k, !.bump[c] = 0,
                           !.free[c] = <<>>, !.busy[c] = 0,
                           !.data = ScribbleChunk(@, c)], c)

\* The page a small request of class k is served from: the head of the list,
\* else a new one, which the backend may refuse.
PagesFor(s, k) ==
  IF s.nonfull[k] # <<>> THEN {<<s, Head(s.nonfull[k])>>}
  ELSE {<<page_new(s, k, c), c>> : c \in {x \in Chunk : s.use[x] = "free"}}

\* A block never used before, else the one freed last.
BumpFirstAgain(s, c) == s.bump[c] <= block_count(s.class[c])
BumpFirst(s, c) == s.bump[c] < block_count(s.class[c])
TakeKeeping(s, c) ==
  LET t == IF BumpFirst(s, c)
           THEN [s EXCEPT !.bump[c] = @ + 1, !.busy[c] = @ + 1]
           ELSE [s EXCEPT !.busy[c] = @ + 1]
  IN  IF IsFull(t, c) THEN nonfull_remove(t, c) ELSE t
Take(s, c) ==
  LET t == IF BumpFirst(s, c)
           THEN [s EXCEPT !.bump[c] = @ + 1, !.busy[c] = @ + 1]
           ELSE [s EXCEPT !.free[c] = Tail(@), !.busy[c] = @ + 1]
  IN  IF IsFull(t, c) THEN nonfull_remove(t, c) ELSE t
TakenSlot(s, c) == IF BumpFirst(s, c) THEN s.bump[c] ELSE Head(s.free[c])

page_alloc_small(s, n) ==
  {[st |-> Take(p[1], p[2]),
    ptr |-> <<p[2], page_size_class(n), TakenSlot(p[1], p[2])>>] :
      p \in PagesFor(s, page_size_class(n))}
Delegate(s) ==
  {[st |-> [s EXCEPT !.use[c] = "large"], ptr |-> <<c, Delegated, 0>>] :
      c \in {x \in Chunk : s.use[x] = "free"}}
\* What a request for n bytes can return, NULL apart.
Obtain(s, n) ==
  IF n <= LJ_PAGE_ALLOC_MAX_SIZE THEN page_alloc_small(s, n) ELSE Delegate(s)

-------------------------------------------------------------------------------
(* Release *)

\* The backend gets chunk c.  The header of a chunk that is not a page does
\* not exist; its fields have the values of no page.
GiveBack(s, c) ==
  [s EXCEPT !.use[c] = "free", !.data = ScribbleChunk(@, c),
            !.class[c] = Delegated, !.bump[c] = 0, !.free[c] = <<>>,
            !.busy[c] = 0]
page_release(s, c) == GiveBack(nonfull_remove(s, c), c)

\* page_free_small: a full page goes back to its list, the block on the free
\* list of its page, and an empty page to the backend.
FreeListedLate(s, a) ==
  LET c == a[1]
      u == [s EXCEPT !.free[c] = <<a[3]>> \o @, !.busy[c] = @ - 1,
                     !.data = Scribble(@, a)]
      t == IF IsFull(u, c) THEN nonfull_insert(u, c) ELSE u
  IN  IF t.busy[c] = 0 THEN page_release(t, c) ELSE t
page_free_small(s, a) ==
  LET c == a[1]
      t == IF IsFull(s, c) THEN nonfull_insert(s, c) ELSE s
      u == [t EXCEPT !.free[c] = <<a[3]>> \o @, !.busy[c] = @ - 1,
                     !.data = Scribble(@, a)]
  IN  IF u.busy[c] = 0 THEN page_release(u, c) ELSE u

\* The old size says where a block came from.
Release(s, a, osize) ==
  IF osize <= LJ_PAGE_ALLOC_MAX_SIZE
  THEN page_free_small(s, a) ELSE GiveBack(s, a[1])

-------------------------------------------------------------------------------
(* lj_page_alloc_f *)

Malloc(n) ==
  /\ open
  /\ \E r \in Obtain(St, n) :
       /\ Becomes(r.st)
       /\ size' = [size EXCEPT ![r.ptr] = n]
  /\ UNCHANGED open

Free(a) ==
  /\ a \in Live
  /\ Becomes(Release(St, a, size[a]))
  /\ size' = [size EXCEPT ![a] = 0]
  /\ UNCHANGED open

\* The block may stay where it is: it fits into the block it has, or both
\* sizes are the backend's business.
StaysBySizeOnly(a, n) ==
  IF size[a] <= LJ_PAGE_ALLOC_MAX_SIZE
  THEN n <= payload_size(class[a[1]]) ELSE TRUE
Stays(a, n) ==
  IF size[a] <= LJ_PAGE_ALLOC_MAX_SIZE
  THEN n <= payload_size(class[a[1]]) ELSE n > LJ_PAGE_ALLOC_MAX_SIZE

ReallocInPlace(a, n) ==
  /\ a \in Live
  /\ Stays(a, n)
  /\ size' = [size EXCEPT ![a] = n]
  /\ UNCHANGED <<open, use, hdr, nonfull_pages, data>>

\* Otherwise it moves: a new block, a copy, and the old block is freed.
NoCopy(s, a, b) == s
Copy(s, a, b) == [s EXCEPT !.data[b] = s.data[a]]
ReallocMove(a, n) ==
  /\ a \in Live
  /\ size[a] <= LJ_PAGE_ALLOC_MAX_SIZE => ~Stays(a, n)
  /\ \E r \in Obtain(St, n) :
       /\ Becomes(Release(Copy(r.st, a, r.ptr), a, size[a]))
       /\ size' = [size EXCEPT ![a] = 0, ![r.ptr] = n]
  /\ UNCHANGED open

\* The program writes to a block, and to nothing else.
Write(a) ==
  /\ a \in Live
  /\ data' = [Scribble(data, a) EXCEPT ![a] = "data"]
  /\ UNCHANGED <<open, use, hdr, nonfull_pages, size>>

\* lj_page_alloc_create, and lj_page_alloc_destroy with blocks still in use.
Create ==
  /\ ~open /\ open' = TRUE
  /\ UNCHANGED <<use, hdr, nonfull_pages, size, data>>
Destroy ==
  /\ open /\ open' = FALSE
  /\ use' = [c \in Chunk |-> "free"]
  /\ nonfull_pages' = [k \in Classes |-> <<>>]
  /\ size' = [a \in Addr |-> 0]
  /\ data' = [a \in Addr |-> "junk"]
  /\ class' = [c \in Chunk |-> Delegated]
  /\ bump_index' = [c \in Chunk |-> 0] /\ busy_count' = [c \in Chunk |-> 0]
  /\ free_list' = [c \in Chunk |-> <<>>]

Init ==
  /\ open = FALSE
  /\ use = [c \in Chunk |-> "free"]
  /\ class = [c \in Chunk |-> Delegated]
  /\ bump_index = [c \in Chunk |-> 0] /\ busy_count = [c \in Chunk |-> 0]
  /\ free_list = [c \in Chunk |-> <<>>]
  /\ nonfull_pages = [k \in Classes |-> <<>>]
  /\ size = [a \in Addr |-> 0]
  /\ data = [a \in Addr |-> "junk"]

Next ==
  \/ Create \/ Destroy
  \/ \E n \in Sizes : Malloc(n)
  \/ \E a \in Addr : Free(a) \/ Write(a)
  \/ \E a \in Addr, n \in Sizes : ReallocInPlace(a, n) \/ ReallocMove(a, n)

Spec == Init /\ [][Next]_vars

-------------------------------------------------------------------------------
(* Properties *)

TypeOK ==
  /\ open \in BOOLEAN
  /\ use \in [Chunk -> {"free", "page", "large"}]
  /\ class \in [Chunk -> Classes \cup {Delegated}]
  /\ bump_index \in [Chunk -> Nat] /\ busy_count \in [Chunk -> Nat]
  /\ free_list \in [Chunk -> Seq(Nat)]
  /\ \A c \in {x \in Chunk : use[x] = "page"} :
       /\ class[c] \in Classes
       /\ bump_index[c] \in 0..block_count(class[c])
       /\ busy_count[c] \in 0..block_count(class[c])
       /\ free_list[c] \in Seq(Slots(class[c]))
  /\ nonfull_pages \in [Classes -> Seq(Chunk)]
  /\ size \in [Addr -> Sizes \cup {0}]
  /\ data \in [Addr -> {"data", "junk"}]

\* Every block of a page is in use, on the free list once, or has never been
\* handed out, and only one of these; busy_count counts the first.
SlotsAccounted ==
  \A c \in Chunk :
    use[c] = "page" =>
      LET k == class[c]
          L == {i \in Slots(k) : size[<<c, k, i>>] > 0}
          F == Range(free_list[c])
          B == bump_index[c]..(block_count(k) - 1)
      IN  /\ L \cup F \cup B = Slots(k)
          /\ L \cap F = {} /\ L \cap B = {} /\ F \cap B = {}
          /\ IsInjective(free_list[c])
          /\ busy_count[c] = Cardinality(L)

\* The list of a class holds its pages that have a block to give, each once: a
\* small request never finds an exhausted page nor misses a usable one.  README.md:
\* empty pages return to the bundled allocator immediately.
NonfullExact ==
  /\ \A k \in Classes :
       /\ IsInjective(nonfull_pages[k])
       /\ Range(nonfull_pages[k]) =
            {c \in Chunk : /\ use[c] = "page" /\ class[c] = k
                           /\ busy_count[c] < block_count(k)}
  /\ \A c \in Chunk : use[c] = "page" => busy_count[c] > 0

\* The size tells where a block came from, also after reallocations in place,
\* and a block does not exceed the payload of its class.
RoutedBySize ==
  \A a \in Live :
    IF size[a] <= LJ_PAGE_ALLOC_MAX_SIZE
    THEN /\ use[a[1]] = "page" /\ a[2] = class[a[1]]
         /\ size[a] <= payload_size(a[2])
    ELSE use[a[1]] = "large" /\ a[2] = Delegated

\* The front end is an allocator: blocks do not overlap, keep their contents
\* and take them along when they are moved.
Blocks == [a \in Addr |-> IF size[a] > 0 THEN data[a] ELSE "junk"]
Abstract == INSTANCE Allocator WITH data <- Blocks
IsAllocator == Abstract!Spec
================================================================================
