---------------------------- MODULE PageAlloc_proof ----------------------------
(* Theorems about PageAlloc for any chunks, sizes and page sizes. *)
EXTENDS PageAlloc, ListLemmas, FiniteSetTheorems, TLAPS

-------------------------------------------------------------------------------
(* The size classes and the layout of a page. *)

\* Each of the four ranges of page_size_class, with the classes it leads to.
LEMMA Steps8 ==
  ASSUME NEW n \in 1..56
  PROVE  LET k == (n + 7) \div 8 - 1
         IN  k \in 0..6 /\ 8 * k < n /\ n <= 8 * k + 8
  OBVIOUS
LEMMA Steps16 ==
  ASSUME NEW n \in 57..240
  PROVE  LET k == 7 + (n - 49) \div 16
         IN  k \in 7..18 /\ 16 * (k - 7) + 48 < n /\ n <= 16 * (k - 7) + 64
  OBVIOUS
LEMMA Steps32 ==
  ASSUME NEW n \in 241..480
  PROVE  LET k == 19 + (n - 225) \div 32
         IN  k \in 19..26 /\ 32 * (k - 19) + 224 < n /\ n <= 32 * (k - 19) + 256
  OBVIOUS
LEMMA Steps64 ==
  ASSUME NEW n \in 481..1024
  PROVE  LET k == 27 + (n - 449) \div 64
         IN  k \in 27..35 /\ 64 * (k - 27) + 448 < n /\ n <= 64 * (k - 27) + 512
  OBVIOUS

\* The table agrees with the ranges.
LEMMA Table ==
  /\ \A k \in 0..6 : payload_size(k) = 8 * k + 8
  /\ \A k \in 7..18 : payload_size(k) = 16 * (k - 7) + 64
  /\ \A k \in 19..26 : payload_size(k) = 32 * (k - 19) + 256
  /\ \A k \in 27..35 : payload_size(k) = 64 * (k - 27) + 512
  BY DEF payload_size, page_class_size

\* page_size_class picks, for every request up to LJ_PAGE_ALLOC_MAX_SIZE, the
\* smallest class that the request fits into: no block is too small for its
\* request, and the shift arithmetic agrees with the table of sizes.
THEOREM SizeClassFits ==
  \A n \in 1..LJ_PAGE_ALLOC_MAX_SIZE : IsBestFit(n, page_size_class(n))
<1> SUFFICES ASSUME NEW n \in 1..1024
             PROVE  IsBestFit(n, page_size_class(n))
  BY DEF LJ_PAGE_ALLOC_MAX_SIZE
<1>1. CASE n \in 1..56
  <2> DEFINE k == (n + 7) \div 8 - 1
  <2>1. k \in 0..6 /\ 8 * k < n /\ n <= 8 * k + 8
    BY <1>1, Steps8
  <2>2. page_size_class(n) = k
    BY <1>1 DEF page_size_class
  <2> HIDE DEF k
  <2> QED  BY <2>1, <2>2, Table DEF IsBestFit, LJ_PAGE_CLASS_COUNT
<1>2. CASE n \in 57..240
  <2> DEFINE k == 7 + (n - 49) \div 16
  <2>1. k \in 7..18 /\ 16 * (k - 7) + 48 < n /\ n <= 16 * (k - 7) + 64
    BY <1>2, Steps16
  <2>2. page_size_class(n) = k
    BY <1>2 DEF page_size_class
  <2> HIDE DEF k
  <2> QED  BY <1>2, <2>1, <2>2, Table DEF IsBestFit, LJ_PAGE_CLASS_COUNT
<1>3. CASE n \in 241..480
  <2> DEFINE k == 19 + (n - 225) \div 32
  <2>1. k \in 19..26 /\ 32 * (k - 19) + 224 < n /\ n <= 32 * (k - 19) + 256
    BY <1>3, Steps32
  <2>2. page_size_class(n) = k
    BY <1>3 DEF page_size_class
  <2> HIDE DEF k
  <2> QED  BY <1>3, <2>1, <2>2, Table DEF IsBestFit, LJ_PAGE_CLASS_COUNT
<1>4. CASE n \in 481..1024
  <2> DEFINE k == 27 + (n - 449) \div 64
  <2>1. k \in 27..35 /\ 64 * (k - 27) + 448 < n /\ n <= 64 * (k - 27) + 512
    BY <1>4, Steps64
  <2>2. page_size_class(n) = k
    BY <1>4 DEF page_size_class
  <2> HIDE DEF k
  <2> QED  BY <1>4, <2>1, <2>2, Table DEF IsBestFit, LJ_PAGE_CLASS_COUNT
<1> QED  BY <1>1, <1>2, <1>3, <1>4

-------------------------------------------------------------------------------
(* Blocks of a page *)

Class == 0..(LJ_PAGE_CLASS_COUNT - 1)

LEMMA StrideType ==
  ASSUME NEW k \in Class
  PROVE  stride(k) \in Nat \ {0} /\ stride(k) % LJ_PAGE_ALIGNMENT = 0
  BY DEF Class, stride, LJ_PAGE_CLASS_COUNT, LJ_PAGE_ALIGNMENT,
         LJ_PAGE_PREFIX_SIZE, payload_size, page_class_size

\* Every block that page_alloc_small takes below block_count lies inside its
\* page, for every size of the page and of its header.
THEOREM BlockInPage ==
  ASSUME NEW k \in Class, NEW off \in Nat, NEW ps \in Nat, off <= ps,
         NEW i \in 0..(blocks(ps, off, k) - 1)
  PROVE  off <= block_at(off, k, i) /\ block_at(off, k, i) + stride(k) <= ps
<1> DEFINE s == stride(k)
           n == (ps - off) \div s
<1>1. s \in Nat \ {0}
  BY StrideType
<1>2. i \in 0..(n - 1) /\ block_at(off, k, i) = off + i * s
  BY DEF blocks, block_at
<1> HIDE DEF s
<1>3. n \in Nat /\ n * s <= ps - off
  BY <1>1
<1> HIDE DEF n
<1>4. i \in Nat /\ i + 1 <= n
  BY <1>2, <1>3
<1>5. (i + 1) * s <= n * s
  BY <1>1, <1>3, <1>4
<1>6. (i + 1) * s = i * s + s /\ i * s \in Nat
  BY <1>1, <1>4
<1>7. off <= off + i * s /\ off + i * s + s <= ps
  BY <1>1, <1>3, <1>4, <1>5, <1>6
<1> QED  BY <1>2, <1>7 DEF s

\* Two blocks of a page do not overlap, prefixes included.
THEOREM BlocksDisjoint ==
  ASSUME NEW k \in Class, NEW off \in Nat, NEW i \in Nat, NEW j \in Nat, i < j
  PROVE  block_at(off, k, i) + stride(k) <= block_at(off, k, j)
<1> DEFINE s == stride(k)
<1>1. s \in Nat
  BY StrideType
<1>2. block_at(off, k, i) = off + i * s /\ block_at(off, k, j) = off + j * s
  BY DEF block_at
<1> HIDE DEF s
<1>3. (i + 1) * s <= j * s
  BY <1>1
<1>4. (i + 1) * s = i * s + s
  BY <1>1
<1>5. off + i * s + s <= off + j * s
  BY <1>1, <1>3, <1>4
<1> QED  BY <1>2, <1>5 DEF s

\* What page_alloc_small asserts of the pointer it returns: it is aligned when
\* the page is (pages begin at multiples of the alignment, counted from 0 here)
\* and the header is, which the source asserts statically.
THEOREM PointerAligned ==
  ASSUME NEW k \in Class, NEW i \in Nat,
         NEW off \in Nat, off % LJ_PAGE_ALIGNMENT = 0
  PROVE  ptr_at(off, k, i) % LJ_PAGE_ALIGNMENT = 0
<1> DEFINE s == stride(k)
<1>1. s \in Nat /\ s % 8 = 0
  BY StrideType DEF LJ_PAGE_ALIGNMENT
<1>2. ptr_at(off, k, i) = off + i * s + 8 /\ off % 8 = 0
  BY DEF ptr_at, block_at, LJ_PAGE_PREFIX_SIZE, LJ_PAGE_ALIGNMENT
<1> HIDE DEF s
<1>3. PICK a \in Nat : s = 8 * a
  <2>1. s \div 8 \in Nat /\ s = 8 * (s \div 8)
    BY <1>1
  <2> QED  BY <2>1
<1>4. PICK b \in Nat : off = 8 * b
  <2>1. off \div 8 \in Nat /\ off = 8 * (off \div 8)
    BY <1>2
  <2> QED  BY <2>1
<1>5. PICK d \in Nat : d = i * a
  BY <1>3
<1>6. i * s = 8 * d
  BY <1>3, <1>5
<1>7. (8 * b + 8 * d + 8) % 8 = 0
  OBVIOUS
<1> QED  BY <1>2, <1>4, <1>6, <1>7 DEF LJ_PAGE_ALIGNMENT

-------------------------------------------------------------------------------
(***************************************************************************)
(* The inductive invariant.  To the properties of PageAlloc it adds that   *)
(* memory which is in no block holds nothing of the program: this is what  *)
(* makes the blocks that are handed out fresh ones.                        *)
(*                                                                         *)
(* The parts are about an allocator s, a value as St is one, with the      *)
(* sizes z of its blocks, so that they can be stated in the middle of an   *)
(* operation too, where they may not hold of the pages of X.               *)
(***************************************************************************)
Typed(s, z) ==
  /\ s \in [use : [Chunk -> {"free", "page", "large"}],
            class : [Chunk -> Classes \cup {Delegated}],
            bump : [Chunk -> Nat], free : [Chunk -> Seq(Nat)],
            busy : [Chunk -> Nat], nonfull : [Classes -> Seq(Chunk)],
            data : [Addr -> {"data", "junk"}]]
  /\ z \in [Addr -> Sizes \cup {0}]

\* A page of class k with the blocks L in use.
PageOk(k, L, bump, free, busy) ==
  LET F == Range(free)
      B == bump..(block_count(k) - 1)
  IN  /\ k \in Classes /\ bump \in 0..block_count(k)
      /\ free \in Seq(Slots(k)) /\ IsInjective(free)
      /\ L \cup F \cup B = Slots(k)
      /\ L \cap F = {} /\ L \cap B = {} /\ F \cap B = {}
      /\ busy = Cardinality(L)
InUse(z, k, c) == {i \in Slots(k) : z[<<c, k, i>>] > 0}
Accounted(s, z, X) ==
  \A c \in Chunk \ X : s.use[c] = "page" =>
    PageOk(s.class[c], InUse(z, s.class[c], c), s.bump[c], s.free[c], s.busy[c])

Usable(s, k) == {c \in Chunk : /\ s.use[c] = "page" /\ s.class[c] = k
                               /\ s.busy[c] < block_count(k)}
Listed(s, X) ==
  \A k \in Classes : /\ IsInjective(s.nonfull[k])
                     /\ Range(s.nonfull[k]) = Usable(s, k) \ X
Routed(s, z) ==
  \A a \in Addr : z[a] > 0 =>
    IF z[a] <= LJ_PAGE_ALLOC_MAX_SIZE
    THEN /\ s.use[a[1]] = "page" /\ a[2] = s.class[a[1]]
         /\ z[a] <= payload_size(a[2])
    ELSE s.use[a[1]] = "large" /\ a[2] = Delegated
Clean(s, z, X) == \A a \in Addr : z[a] = 0 /\ a[1] \notin X => s.data[a] = "junk"

Good(s, z, X) ==
  /\ Typed(s, z) /\ Accounted(s, z, X) /\ Listed(s, X) /\ Routed(s, z)
  /\ Clean(s, z, X)
Occupied(s, X) == \A c \in Chunk \ X : s.use[c] = "page" => s.busy[c] > 0

IInv == open \in BOOLEAN /\ Good(St, size, {}) /\ Occupied(St, {})

-------------------------------------------------------------------------------
(* Classes, places and single pages *)

LEMMA ClassFacts ==
  /\ \A n \in Sizes : n <= LJ_PAGE_ALLOC_MAX_SIZE =>
       page_size_class(n) \in Classes /\ n <= payload_size(page_size_class(n))
  /\ \A k \in Classes :
       /\ k \in Nat /\ k # Delegated
       /\ payload_size(k) \in Nat /\ payload_size(k) <= LJ_PAGE_ALLOC_MAX_SIZE
       /\ block_count(k) \in Nat \ {0}
       /\ IsFiniteSet(Slots(k)) /\ Cardinality(Slots(k)) = block_count(k)
  <1>1. \A n \in Sizes : n \in Nat \ {0}
    BY SizesAssumption
  <1>2. ASSUME NEW n \in Sizes, n <= LJ_PAGE_ALLOC_MAX_SIZE
        PROVE  page_size_class(n) \in Classes /\ n <= payload_size(page_size_class(n))
    <2>1. n \in 1..LJ_PAGE_ALLOC_MAX_SIZE
      BY <1>1, <1>2 DEF LJ_PAGE_ALLOC_MAX_SIZE
    <2> QED BY <2>1, SizeClassFits DEF Classes, IsBestFit
  <1>3. ASSUME NEW k \in Classes
        PROVE  /\ k \in Nat /\ k # Delegated
               /\ payload_size(k) \in Nat
               /\ payload_size(k) <= LJ_PAGE_ALLOC_MAX_SIZE
               /\ block_count(k) \in Nat \ {0}
               /\ IsFiniteSet(Slots(k)) /\ Cardinality(Slots(k)) = block_count(k)
    <2>1. PICK n \in 1..LJ_PAGE_ALLOC_MAX_SIZE : k = page_size_class(n)
      BY DEF Classes
    <2>2. k \in 0..35
      BY <2>1, SizeClassFits DEF IsBestFit, LJ_PAGE_CLASS_COUNT
    <2>3. payload_size(k) \in Nat /\ payload_size(k) <= LJ_PAGE_ALLOC_MAX_SIZE
      BY <2>2, Table DEF LJ_PAGE_ALLOC_MAX_SIZE
    <2>4. block_count(k) \in Nat \ {0}
      BY PageAssumption
    <2>5. IsFiniteSet(Slots(k)) /\ Cardinality(Slots(k)) = block_count(k)
      <3>1. 0 \in Int /\ block_count(k) - 1 \in Int
        BY <2>4
      <3> QED BY <2>4, <3>1, FS_Interval DEF Slots
    <2> QED BY <2>2, <2>3, <2>4, <2>5 DEF Delegated, LJ_PAGE_CLASS_COUNT
  <1> QED BY <1>2, <1>3

LEMMA SizeOrNone ==
  /\ \A n \in Sizes : n \in Nat /\ n > 0
  /\ \A x \in Sizes \cup {0} : x \in Nat /\ (x = 0 <=> ~(x > 0))
  <1>1. ASSUME NEW n \in Sizes PROVE n \in Nat /\ n > 0
    <2>1. n \in Nat /\ n # 0
      BY SizesAssumption
    <2> QED BY <2>1
  <1> QED BY <1>1

LEMMA Places ==
  /\ \A a \in Addr : \/ \E c \in Chunk, k \in Classes : \E i \in Slots(k) : a = <<c, k, i>>
                     \/ \E c \in Chunk : a = <<c, Delegated, 0>>
  /\ \A c \in Chunk, k \in Classes : \A i \in Slots(k) : <<c, k, i>> \in Addr
  /\ \A c \in Chunk : <<c, Delegated, 0>> \in Addr
  BY DEF Addr

\* A place of a page of class k.
LEMMA SmallPlace ==
  ASSUME NEW a \in Addr, a[2] \in Classes
  PROVE  a[1] \in Chunk /\ a[3] \in Slots(a[2]) /\ a = <<a[1], a[2], a[3]>>
  BY Places, ClassFacts
LEMMA LargePlace ==
  ASSUME NEW a \in Addr, a[2] = Delegated
  PROVE  a[1] \in Chunk /\ a = <<a[1], Delegated, 0>>
  BY Places, ClassFacts
LEMMA InChunk == \A a \in Addr : a[1] \in Chunk
  BY Places

LEMMA PageFacts ==
  ASSUME NEW k, NEW L, NEW bump, NEW free, NEW busy,
         PageOk(k, L, bump, free, busy)
  PROVE  /\ k \in Classes /\ L \subseteq Slots(k) /\ IsFiniteSet(L)
         /\ busy \in 0..block_count(k) /\ (busy = 0 <=> L = {})
         /\ (busy = block_count(k) <=> L = Slots(k))
  <1>1. k \in Classes /\ L \subseteq Slots(k) /\ busy = Cardinality(L)
    BY DEF PageOk
  <1>2. /\ IsFiniteSet(L) /\ Cardinality(L) <= block_count(k)
        /\ Cardinality(L) = block_count(k) => L = Slots(k)
    BY <1>1, ClassFacts, FS_Subset
  <1>3. Cardinality(L) \in Nat /\ (Cardinality(L) = 0 <=> L = {})
    BY <1>2, FS_CardinalityType, FS_EmptySet
  <1>4. L = Slots(k) => Cardinality(L) = block_count(k)
    BY <1>1, ClassFacts
  <1> QED BY <1>1, <1>2, <1>3, <1>4, ClassFacts

LEMMA NewPage ==
  ASSUME NEW k \in Classes
  PROVE  PageOk(k, {}, 0, <<>>, 0)
  <1>1. <<>> \in Seq(Slots(k)) /\ Range(<<>>) = {} /\ IsInjective(<<>>)
    BY DEF Range, IsInjective
  <1>2. 0 \in 0..block_count(k) /\ Cardinality({}) = 0
    BY ClassFacts, FS_EmptySet
  <1> QED BY <1>1, <1>2 DEF PageOk, Slots

\* The two ways to take a block.
LEMMA BumpedPage ==
  ASSUME NEW k, NEW L, NEW bump, NEW free, NEW busy,
         PageOk(k, L, bump, free, busy), bump < block_count(k)
  PROVE  /\ bump \in Slots(k) \ L
         /\ PageOk(k, L \cup {bump}, bump + 1, free, busy + 1)
  <1>1. /\ k \in Classes /\ block_count(k) \in Nat /\ bump \in Nat
        /\ Slots(k) = 0..(block_count(k) - 1)
    BY ClassFacts DEF PageOk, Slots
  <1>2. bump \in bump..(block_count(k) - 1) /\ bump \in Slots(k)
        /\ bump + 1 \in 0..block_count(k)
    BY <1>1
  <1>3. bump \notin L /\ bump \notin Range(free)
    BY <1>2 DEF PageOk
  <1>4. (bump + 1)..(block_count(k) - 1) = (bump..(block_count(k) - 1)) \ {bump}
    BY <1>1
  <1>5. Cardinality(L \cup {bump}) = busy + 1
    BY <1>3, PageFacts, FS_AddElement DEF PageOk
  <1> QED BY <1>2, <1>3, <1>4, <1>5 DEF PageOk

LEMMA PoppedPage ==
  ASSUME NEW k, NEW L, NEW bump, NEW free, NEW busy,
         PageOk(k, L, bump, free, busy), ~(bump < block_count(k)),
         busy < block_count(k)
  PROVE  /\ free # <<>> /\ Head(free) \in Slots(k) \ L
         /\ PageOk(k, L \cup {Head(free)}, bump, Tail(free), busy + 1)
  <1>1. k \in Classes /\ block_count(k) \in Nat /\ bump \in Nat
    BY ClassFacts DEF PageOk
  <1>2. bump..(block_count(k) - 1) = {}
    BY <1>1
  <1>3. L # Slots(k)
    BY <1>1, PageFacts
  <1>4. Range(free) # {}
    BY <1>2, <1>3 DEF PageOk
  <1>5. free # <<>>
    BY <1>4 DEF Range
  <1>6. /\ Head(free) \in Range(free) /\ Tail(free) \in Seq(Slots(k))
        /\ IsInjective(Tail(free)) /\ Range(Tail(free)) = Range(free) \ {Head(free)}
    BY <1>5, DroppedHead DEF PageOk
  <1>7. Head(free) \in Slots(k) \ L
    BY <1>6 DEF PageOk
  <1>8. Cardinality(L \cup {Head(free)}) = busy + 1
    BY <1>7, PageFacts, FS_AddElement DEF PageOk
  <1> QED BY <1>2, <1>5, <1>6, <1>7, <1>8 DEF PageOk

\* A block put on the free list.
LEMMA FreedPage ==
  ASSUME NEW k, NEW L, NEW bump, NEW free, NEW busy,
         PageOk(k, L, bump, free, busy), NEW i \in L
  PROVE  /\ busy > 0 /\ busy - 1 < block_count(k)
         /\ PageOk(k, L \ {i}, bump, <<i>> \o free, busy - 1)
  <1>1. i \in Slots(k) /\ i \notin Range(free)
    BY DEF PageOk
  <1>2. /\ <<i>> \o free \in Seq(Slots(k)) /\ IsInjective(<<i>> \o free)
        /\ Range(<<i>> \o free) = Range(free) \cup {i}
    BY <1>1, PushedFront DEF PageOk
  <1>3. Cardinality(L \ {i}) = busy - 1
    BY PageFacts, FS_RemoveElement DEF PageOk
  <1>4. busy > 0 /\ busy - 1 < block_count(k)
    BY PageFacts, ClassFacts
  <1> QED BY <1>1, <1>2, <1>3, <1>4 DEF PageOk

-------------------------------------------------------------------------------
(* The lists of usable pages *)

\* page c leaves the list of its class.
LEMMA RemoveListed ==
  ASSUME NEW s, NEW z, Typed(s, z), Listed(s, {}), NEW c \in Chunk,
         s.class[c] \in Classes, c \in Range(s.nonfull[s.class[c]])
  PROVE  LET q == nonfull_remove(s, c).nonfull IN
         /\ nonfull_remove(s, c) = [s EXCEPT !.nonfull = q]
         /\ q \in [Classes -> Seq(Chunk)]
         /\ \A k \in Classes : IsInjective(q[k]) /\ Range(q[k]) = Usable(s, k) \ {c}
  <1> DEFINE k == s.class[c]
             r == RemoveFirst(s.nonfull[k], c)
             q == [s.nonfull EXCEPT ![k] = r]
  <1>1. s.nonfull \in [Classes -> Seq(Chunk)]
    BY DEF Typed
  <1>2. nonfull_remove(s, c) = [s EXCEPT !.nonfull = q]
    BY DEF nonfull_remove
  <1>3. nonfull_remove(s, c).nonfull = q
    BY <1>2 DEF Typed
  <1>4. r \in Seq(Chunk) /\ IsInjective(r) /\ Range(r) = Range(s.nonfull[k]) \ {c}
    BY <1>1, Unlinked DEF Listed
  <1>5. ASSUME NEW l \in Classes
        PROVE  IsInjective(q[l]) /\ Range(q[l]) = Usable(s, l) \ {c}
    BY <1>1, <1>4 DEF Listed, Usable
  <1> QED BY <1>1, <1>2, <1>3, <1>4, <1>5

\* Page c joins it.
LEMMA InsertListed ==
  ASSUME NEW s, NEW z, Typed(s, z), NEW c \in Chunk, s.class[c] \in Classes,
         \A k \in Classes : /\ IsInjective(s.nonfull[k])
                            /\ Range(s.nonfull[k]) = Usable(s, k) \ {c}
  PROVE  LET q == nonfull_insert(s, c).nonfull IN
         /\ nonfull_insert(s, c) = [s EXCEPT !.nonfull = q]
         /\ q \in [Classes -> Seq(Chunk)]
         /\ \A k \in Classes :
              /\ IsInjective(q[k])
              /\ Range(q[k]) = (Usable(s, k) \ {c})
                                 \cup (IF k = s.class[c] THEN {c} ELSE {})
  <1> DEFINE k == s.class[c]
             r == <<c>> \o s.nonfull[k]
             q == [s.nonfull EXCEPT ![k] = r]
  <1>1. s.nonfull \in [Classes -> Seq(Chunk)]
    BY DEF Typed
  <1>2. nonfull_insert(s, c) = [s EXCEPT !.nonfull = q]
    BY DEF nonfull_insert
  <1>3. nonfull_insert(s, c).nonfull = q
    BY <1>2 DEF Typed
  <1>4. r \in Seq(Chunk) /\ IsInjective(r) /\ Range(r) = Range(s.nonfull[k]) \cup {c}
    <2>1. /\ s.nonfull[k] \in Seq(Chunk) /\ IsInjective(s.nonfull[k])
          /\ c \notin Range(s.nonfull[k])
      BY <1>1
    <2> HIDE DEF k
    <2> QED BY <2>1, PushedFront
  <1> HIDE DEF r
  <1>5. ASSUME NEW l \in Classes
        PROVE  /\ IsInjective(q[l])
               /\ Range(q[l]) = (Usable(s, l) \ {c})
                                  \cup (IF l = s.class[c] THEN {c} ELSE {})
    BY <1>1, <1>4
  <1> QED BY <1>1, <1>2, <1>3, <1>4, <1>5

-------------------------------------------------------------------------------
(* The operations *)

\* No block in use overlaps a block of a page that is not, or any of a chunk
\* that the backend has.
LEMMA VacantPlace ==
  ASSUME NEW s, NEW z, Routed(s, z), Typed(s, z), NEW a \in Addr, z[a] = 0,
         \/ s.use[a[1]] = "page" /\ a[2] = s.class[a[1]]
         \/ s.use[a[1]] = "free"
  PROVE  \A b \in Addr : z[b] > 0 => ~Overlap(b, a)
  <1> SUFFICES ASSUME NEW b \in Addr, z[b] > 0, Overlap(b, a) PROVE FALSE
    OBVIOUS
  <1>1. b[1] = a[1] /\ (b[2] # a[2] \/ b[3] = a[3])
    BY DEF Overlap
  <1>2. b # a
    BY SizesAssumption DEF Typed
  <1>3. s.use[b[1]] = "page" /\ b[2] = s.class[b[1]]
    BY <1>1 DEF Routed
  <1>4. b[2] = a[2] /\ b[3] = a[3]
    BY <1>1, <1>3
  <1> QED BY <1>1, <1>2, <1>4, Places

\* Take: a block of a page that has one.
LEMMA TakeGood ==
  ASSUME NEW s, NEW z, Good(s, z, {}), NEW c \in Chunk, Occupied(s, {c}),
         s.use[c] = "page", s.busy[c] < block_count(s.class[c]),
         NEW n \in Sizes, n <= payload_size(s.class[c])
  PROVE  LET t == Take(s, c)
             a == <<c, s.class[c], TakenSlot(s, c)>>
         IN  /\ a \in Addr /\ z[a] = 0
             /\ Good(t, [z EXCEPT ![a] = n], {}) /\ Occupied(t, {})
             /\ t.data = s.data
  <1> DEFINE k == s.class[c]
             i == TakenSlot(s, c)
             a == <<c, k, i>>
             y == [z EXCEPT ![a] = n]
             L == InUse(z, k, c)
             b == IF BumpFirst(s, c) THEN [s.bump EXCEPT ![c] = @ + 1] ELSE s.bump
             f == IF BumpFirst(s, c) THEN s.free ELSE [s.free EXCEPT ![c] = Tail(@)]
             m == [s.busy EXCEPT ![c] = @ + 1]
             u == IF BumpFirst(s, c)
                  THEN [s EXCEPT !.bump[c] = @ + 1, !.busy[c] = @ + 1]
                  ELSE [s EXCEPT !.free[c] = Tail(@), !.busy[c] = @ + 1]
             t == Take(s, c)
  <1>1. PageOk(k, L, s.bump[c], s.free[c], s.busy[c])
    BY DEF Good, Accounted
  <1>2. /\ s.bump \in [Chunk -> Nat] /\ s.free \in [Chunk -> Seq(Nat)]
        /\ s.busy \in [Chunk -> Nat] /\ z \in [Addr -> Sizes \cup {0}]
        /\ s.use \in [Chunk -> {"free", "page", "large"}]
        /\ s.class \in [Chunk -> Classes \cup {Delegated}]
        /\ s.nonfull \in [Classes -> Seq(Chunk)]
        /\ s.data \in [Addr -> {"data", "junk"}]
    BY DEF Good, Typed
  <1>3. k \in Classes /\ block_count(k) \in Nat
    BY <1>1, ClassFacts DEF PageOk
  <1>4. /\ i \in Slots(k) \ L /\ f[c] \in Seq(Nat)
        /\ PageOk(k, L \cup {i}, b[c], f[c], m[c])
    <2>1. CASE BumpFirst(s, c)
      <3>1. /\ s.bump[c] \in Slots(k) \ L
            /\ PageOk(k, L \cup {s.bump[c]}, s.bump[c] + 1, s.free[c], s.busy[c] + 1)
        BY <1>1, <2>1, BumpedPage DEF BumpFirst
      <3>2. i = s.bump[c]
        BY <2>1 DEF TakenSlot
      <3>3. b[c] = s.bump[c] + 1 /\ f[c] = s.free[c] /\ m[c] = s.busy[c] + 1
        BY <1>2, <2>1
      <3>4. f[c] \in Seq(Nat)
        BY <1>2, <3>3
      <3> QED BY <3>1, <3>2, <3>3, <3>4
    <2>2. CASE ~BumpFirst(s, c)
      <3>1. /\ s.free[c] # <<>> /\ Head(s.free[c]) \in Slots(k) \ L
            /\ PageOk(k, L \cup {Head(s.free[c])}, s.bump[c], Tail(s.free[c]),
                      s.busy[c] + 1)
        BY <1>1, <2>2, PoppedPage DEF BumpFirst
      <3>2. Tail(s.free[c]) \in Seq(Nat)
        BY <1>2, <3>1, HeadTailProperties
      <3>3. i = Head(s.free[c])
        BY <2>2 DEF TakenSlot
      <3>4. b[c] = s.bump[c] /\ f[c] = Tail(s.free[c]) /\ m[c] = s.busy[c] + 1
        BY <1>2, <2>2
      <3> QED BY <3>1, <3>2, <3>3, <3>4
    <2> QED BY <2>1, <2>2
  <1>5. /\ u.use = s.use /\ u.class = s.class /\ u.bump = b /\ u.free = f
        /\ u.busy = m /\ u.nonfull = s.nonfull /\ u.data = s.data
    BY DEF Good, Typed
  <1>6. t = IF IsFull(u, c) THEN nonfull_remove(u, c) ELSE u
    BY DEF Take
  <1>7. b \in [Chunk -> Nat] /\ f \in [Chunk -> Seq(Nat)] /\ m \in [Chunk -> Nat]
        /\ \A d \in Chunk \ {c} : b[d] = s.bump[d] /\ f[d] = s.free[d] /\ m[d] = s.busy[d]
    BY <1>2, <1>4
  <1>7b. s.busy[c] \in Nat /\ m[c] = s.busy[c] + 1
    BY <1>2
  <1>8. a \in Addr /\ z[a] = 0
    <2>1. a \in Addr
      BY <1>3, <1>4, Places
    <2>2. ~(z[a] > 0)
      BY <1>4 DEF InUse
    <2> HIDE DEF a
    <2>3. z[a] \in Sizes \cup {0}
      BY <1>2, <2>1
    <2> QED BY <2>1, <2>2, <2>3, SizeOrNone
  <1>9. y \in [Addr -> Sizes \cup {0}] /\ \A p \in Addr : y[p] = IF p = a THEN n ELSE z[p]
    BY <1>2, <1>8
  <1> HIDE DEF b, f, m, i, y
  <1>10. Typed(u, z) /\ Typed(u, y)
    <2>1. u = [use |-> s.use, class |-> s.class, bump |-> b, free |-> f,
               busy |-> m, nonfull |-> s.nonfull, data |-> s.data]
      BY DEF Good, Typed, b, f, m
    <2> HIDE DEF u
    <2> QED BY <1>2, <1>7, <1>9, <2>1 DEF Typed
  <1> HIDE DEF u
  <1>11. InUse(y, k, c) = L \cup {i}
    BY <1>3, <1>4, <1>9, SizesAssumption, Places DEF InUse
  <1>12. ASSUME NEW d \in Chunk \ {c}, NEW l \in Classes
         PROVE  InUse(y, l, d) = InUse(z, l, d)
    BY <1>9, Places DEF InUse
  <1>13. Accounted(u, y, {})
    <2> SUFFICES ASSUME NEW d \in Chunk, s.use[d] = "page"
                 PROVE  PageOk(s.class[d], InUse(y, s.class[d], d), b[d], f[d], m[d])
      BY <1>5 DEF Accounted
    <2>1. CASE d = c
      BY <1>4, <1>11, <2>1
    <2>2. CASE d # c
      <3>1. PageOk(s.class[d], InUse(z, s.class[d], d), s.bump[d], s.free[d], s.busy[d])
        BY DEF Good, Accounted
      <3>2. s.class[d] \in Classes
        BY <3>1 DEF PageOk
      <3> QED BY <1>7, <1>12, <2>2, <3>1, <3>2
    <2> QED BY <2>1, <2>2
  <1>14. Routed(u, y)
    <2> SUFFICES ASSUME NEW p \in Addr, y[p] > 0
                 PROVE  IF y[p] <= LJ_PAGE_ALLOC_MAX_SIZE
                        THEN /\ s.use[p[1]] = "page" /\ p[2] = s.class[p[1]]
                             /\ y[p] <= payload_size(p[2])
                        ELSE s.use[p[1]] = "large" /\ p[2] = Delegated
      BY <1>5 DEF Routed
    <2>1. CASE p = a
      <3>1. n <= LJ_PAGE_ALLOC_MAX_SIZE
        BY <1>3, ClassFacts, SizesAssumption DEF LJ_PAGE_ALLOC_MAX_SIZE
      <3> QED BY <1>9, <2>1, <3>1
    <2>2. CASE p # a
      BY <1>9, <2>2 DEF Good, Routed
    <2> QED BY <2>1, <2>2
  <1>15. Clean(u, y, {})
    BY <1>5, <1>9, SizesAssumption DEF Good, Clean
  <1>16. \A l \in Classes : IsInjective(s.nonfull[l]) /\ Range(s.nonfull[l]) = Usable(s, l)
    BY DEF Good, Listed
  <1>17. Usable(u, k) = IF m[c] = block_count(k) THEN Usable(s, k) \ {c} ELSE Usable(s, k)
    <2>1. m[c] <= block_count(k) /\ m[c] \in Nat
      BY <1>3, <1>7b
    <2> QED BY <1>2, <1>3, <1>5, <1>7, <1>7b, <2>1 DEF Usable
  <1>18. \A l \in Classes \ {k} : Usable(u, l) = Usable(s, l) /\ c \notin Usable(s, l)
    BY <1>5, <1>7 DEF Usable
  <1>19. c \in Usable(s, k)
    BY DEF Usable
  <1>20. Occupied(u, {})
    <2>2. \A d \in Chunk \ {c} : s.use[d] = "page" => m[d] > 0
      BY <1>7 DEF Occupied
    <2>3. m[c] > 0
      BY <1>7b
    <2> QED BY <1>5, <2>2, <2>3 DEF Occupied
  <1>21. IsFull(u, c) <=> m[c] = block_count(k)
    BY <1>5 DEF IsFull
  <1>22. CASE ~IsFull(u, c)
    <2>1. Listed(u, {})
      BY <1>5, <1>16, <1>17, <1>18, <1>21, <1>22 DEF Listed
    <2> QED BY <1>5, <1>6, <1>8, <1>10, <1>13, <1>14, <1>15, <1>20, <1>22, <2>1
            DEF Good, y, i
  <1>23. CASE IsFull(u, c)
    <2> DEFINE r == RemoveFirst(s.nonfull[k], c)
               q == [s.nonfull EXCEPT ![k] = r]
    <2>1. r \in Seq(Chunk) /\ IsInjective(r) /\ Range(r) = Usable(s, k) \ {c}
      BY <1>2, <1>3, <1>16, <1>19, Unlinked
    <2>2. t = [u EXCEPT !.nonfull = q]
      BY <1>5, <1>6, <1>23 DEF nonfull_remove
    <2> HIDE DEF r, t
    <2>3. q \in [Classes -> Seq(Chunk)] /\ \A l \in Classes : q[l] = IF l = k THEN r ELSE s.nonfull[l]
      BY <1>2, <1>3, <2>1
    <2> HIDE DEF q
    <2>4. /\ t.use = u.use /\ t.class = u.class /\ t.bump = u.bump /\ t.free = u.free
          /\ t.busy = u.busy /\ t.nonfull = q /\ t.data = u.data
      BY <1>10, <2>2 DEF Typed
    <2>5. Typed(t, y)
      BY <1>10, <2>2, <2>3 DEF Typed
    <2>6. Listed(t, {})
      <3>1. \A l \in Classes : Usable(t, l) = Usable(u, l)
        BY <2>4 DEF Usable
      <3>2. \A l \in Classes : IsInjective(q[l]) /\ Range(q[l]) = Usable(u, l)
        BY <1>16, <1>17, <1>18, <1>21, <1>23, <2>1, <2>3
      <3> QED BY <2>4, <3>1, <3>2 DEF Listed
    <2>7. Accounted(t, y, {}) /\ Routed(t, y) /\ Clean(t, y, {}) /\ Occupied(t, {})
      BY <1>13, <1>14, <1>15, <1>20, <2>4 DEF Accounted, Routed, Clean, Occupied
    <2> QED BY <1>5, <1>8, <2>4, <2>5, <2>6, <2>7 DEF Good, y, i, t
  <1> QED BY <1>22, <1>23

LEMMA FreeChunk ==
  ASSUME NEW s, NEW z, Typed(s, z), Routed(s, z), Clean(s, z, {}), NEW c \in Chunk,
         s.use[c] = "free"
  PROVE  \A b \in Addr : b[1] = c => z[b] = 0 /\ s.data[b] = "junk"
  <1> SUFFICES ASSUME NEW b \in Addr, b[1] = c PROVE z[b] = 0 /\ s.data[b] = "junk"
    OBVIOUS
  <1>1. z[b] \in Sizes \cup {0}
    BY DEF Typed
  <1>2. ~(z[b] > 0)
    BY DEF Routed
  <1>3. z[b] = 0
    BY <1>1, <1>2, SizeOrNone
  <1> QED BY <1>3 DEF Clean

\* page_new: a free chunk becomes an empty page.
LEMMA NewPageGood ==
  ASSUME NEW s, NEW z, Good(s, z, {}), Occupied(s, {}), NEW k \in Classes,
         NEW c \in Chunk, s.use[c] = "free"
  PROVE  LET t == page_new(s, k, c) IN
         /\ Good(t, z, {}) /\ Occupied(t, {c}) /\ t.data = s.data
         /\ t.use[c] = "page" /\ t.class[c] = k /\ t.busy[c] < block_count(k)
  <1> DEFINE e == [s EXCEPT !.use[c] = "page", !.class[c] = k, !.bump[c] = 0,
                            !.free[c] = <<>>, !.busy[c] = 0,
                            !.data = ScribbleChunk(@, c)]
             t == page_new(s, k, c)
  <1>1. /\ s.bump \in [Chunk -> Nat] /\ s.free \in [Chunk -> Seq(Nat)]
        /\ s.busy \in [Chunk -> Nat] /\ z \in [Addr -> Sizes \cup {0}]
        /\ s.use \in [Chunk -> {"free", "page", "large"}]
        /\ s.class \in [Chunk -> Classes \cup {Delegated}]
        /\ s.nonfull \in [Classes -> Seq(Chunk)]
        /\ s.data \in [Addr -> {"data", "junk"}]
    BY DEF Good, Typed
  <1>2. ScribbleChunk(s.data, c) = s.data
    <2>1. \A b \in Addr : b[1] = c => s.data[b] = "junk"
      BY FreeChunk DEF Good
    <2> QED BY <1>1, <2>1 DEF ScribbleChunk
  <1>3. e \in [use : {[s.use EXCEPT ![c] = "page"]},
               class : {[s.class EXCEPT ![c] = k]},
               bump : {[s.bump EXCEPT ![c] = 0]}, free : {[s.free EXCEPT ![c] = <<>>]},
               busy : {[s.busy EXCEPT ![c] = 0]}, nonfull : {s.nonfull},
               data : {s.data}]
    BY <1>2 DEF Good, Typed
  <1>4. t = nonfull_insert(e, c)
    BY DEF page_new
  <1> HIDE DEF e
  <1>5. Typed(e, z)
    <2>1. /\ [s.use EXCEPT ![c] = "page"] \in [Chunk -> {"free", "page", "large"}]
          /\ [s.class EXCEPT ![c] = k] \in [Chunk -> Classes \cup {Delegated}]
          /\ [s.bump EXCEPT ![c] = 0] \in [Chunk -> Nat]
          /\ [s.busy EXCEPT ![c] = 0] \in [Chunk -> Nat]
      BY <1>1
    <2>2. [s.free EXCEPT ![c] = <<>>] \in [Chunk -> Seq(Nat)]
      BY <1>1
    <2> QED BY <1>1, <1>3, <2>1, <2>2 DEF Typed
  <1>6. /\ \A d \in Chunk \ {c} : /\ e.use[d] = s.use[d] /\ e.class[d] = s.class[d]
                                  /\ e.bump[d] = s.bump[d] /\ e.free[d] = s.free[d]
                                  /\ e.busy[d] = s.busy[d]
        /\ e.use[c] = "page" /\ e.class[c] = k /\ e.bump[c] = 0 /\ e.free[c] = <<>>
        /\ e.busy[c] = 0
        /\ e.nonfull = s.nonfull /\ e.data = s.data
    BY <1>1, <1>3
  <1>7. \A l \in Classes : Usable(e, l) \ {c} = Usable(s, l) /\ c \notin Usable(s, l)
    BY <1>6 DEF Usable
  <1>8. block_count(k) \in Nat \ {0}
    BY ClassFacts
  <1>9. c \in Usable(e, k) /\ \A l \in Classes \ {k} : c \notin Usable(e, l)
    BY <1>6, <1>8 DEF Usable
  <1> DEFINE q == t.nonfull
  <1>10. /\ t = [e EXCEPT !.nonfull = q] /\ q \in [Classes -> Seq(Chunk)]
         /\ \A l \in Classes :
              /\ IsInjective(q[l])
              /\ Range(q[l]) = (Usable(e, l) \ {c})
                                 \cup (IF l = e.class[c] THEN {c} ELSE {})
    BY <1>4, <1>5, <1>6, <1>7, InsertListed DEF Good, Listed
  <1> HIDE DEF t, q
  <1>11. /\ t.use = e.use /\ t.class = e.class /\ t.bump = e.bump /\ t.free = e.free
         /\ t.busy = e.busy /\ t.nonfull = q /\ t.data = s.data
    BY <1>5, <1>6, <1>10 DEF Typed
  <1>12. Typed(t, z)
    BY <1>5, <1>10 DEF Typed
  <1>13. Listed(t, {})
    <2>1. \A l \in Classes : Usable(t, l) = Usable(e, l)
      BY <1>11 DEF Usable
    <2>2. \A l \in Classes : Range(q[l]) = Usable(e, l)
      <3>1. e.class[c] = k
        BY <1>6
      <3>2. \A l \in Classes :
              Range(q[l]) = (Usable(e, l) \ {c}) \cup (IF l = k THEN {c} ELSE {})
        BY <3>1, <1>10
      <3>3. Range(q[k]) = Usable(e, k)
        BY <3>2, <1>9
      <3>4. \A l \in Classes \ {k} : Range(q[l]) = Usable(e, l)
        BY <3>2, <1>9
      <3> QED BY <3>3, <3>4
    <2>3. \A l \in Classes : IsInjective(q[l])
      BY <1>10
    <2>4. t.nonfull = q
      BY <1>11
    <2>5. \A l \in Classes : Usable(t, l) \ {} = Range(t.nonfull[l])
      BY <2>1, <2>2, <2>4
    <2> QED BY <2>3, <2>4, <2>5 DEF Listed
  <1>14. Accounted(t, z, {})
    <2> SUFFICES ASSUME NEW d \in Chunk, e.use[d] = "page"
                 PROVE  PageOk(e.class[d], InUse(z, e.class[d], d), e.bump[d],
                               e.free[d], e.busy[d])
      BY <1>11 DEF Accounted
    <2>1. CASE d = c
      <3>1. InUse(z, k, c) = {}
        <4>1. \A i \in Slots(k) : <<c, k, i>> \in Addr /\ z[<<c, k, i>>] = 0
          BY FreeChunk, Places DEF Good
        <4> QED BY <4>1 DEF InUse
      <3> QED BY <1>6, <2>1, <3>1, NewPage
    <2>2. CASE d # c
      BY <1>6, <2>2 DEF Good, Accounted
    <2> QED BY <2>1, <2>2
  <1>15. Routed(t, z)
    <2>1. \A b \in Addr : z[b] > 0 => b[1] # c /\ b[1] \in Chunk
      BY FreeChunk, InChunk, SizeOrNone, <1>1 DEF Good
    <2> QED BY <1>6, <1>11, <2>1 DEF Good, Routed
  <1>16. Clean(t, z, {})
    BY <1>11 DEF Good, Clean
  <1>17. Occupied(t, {c})
    BY <1>6, <1>11 DEF Occupied
  <1> QED BY <1>6, <1>8, <1>11, <1>12, <1>13, <1>14, <1>15, <1>16, <1>17 DEF Good, t

\* What is asked for is given where nothing is, and touches no block.
LEMMA ObtainGood ==
  ASSUME NEW s, NEW z, Good(s, z, {}), Occupied(s, {}), NEW n \in Sizes,
         NEW r \in Obtain(s, n)
  PROVE  LET y == [z EXCEPT ![r.ptr] = n] IN
         /\ r.ptr \in Addr /\ z[r.ptr] = 0
         /\ \A b \in Addr : z[b] > 0 => ~Overlap(b, r.ptr)
         /\ Good(r.st, y, {}) /\ Occupied(r.st, {}) /\ r.st.data = s.data
  <1>1. CASE n <= LJ_PAGE_ALLOC_MAX_SIZE
    <2> DEFINE k == page_size_class(n)
    <2>1. k \in Classes /\ n <= payload_size(k)
      BY <1>1, ClassFacts
    <2>2. PICK p \in PagesFor(s, k) :
            r = [st |-> Take(p[1], p[2]), ptr |-> <<p[2], k, TakenSlot(p[1], p[2])>>]
      BY <1>1 DEF Obtain, page_alloc_small
    <2> DEFINE e == p[1]  c == p[2]
    <2> HIDE DEF k
    <2>3. /\ c \in Chunk /\ Good(e, z, {}) /\ Occupied(e, {c}) /\ e.data = s.data
          /\ e.use[c] = "page" /\ e.class[c] = k /\ e.busy[c] < block_count(k)
      <3>1. CASE s.nonfull[k] # <<>>
        <4>1. p = <<s, Head(s.nonfull[k])>>
          BY <3>1 DEF PagesFor
        <4>2. Head(s.nonfull[k]) \in Usable(s, k)
          <5>1. s.nonfull[k] \in Seq(Chunk)
            BY <2>1 DEF Good, Typed
          <5> QED BY <2>1, <3>1, <5>1, DroppedHead DEF Good, Listed
        <4> QED BY <4>1, <4>2 DEF Usable, Occupied
      <3>2. CASE s.nonfull[k] = <<>>
        <4>1. PICK x \in Chunk : s.use[x] = "free" /\ p = <<page_new(s, k, x), x>>
          BY <3>2 DEF PagesFor
        <4> QED BY <2>1, <4>1, NewPageGood
      <3> QED BY <3>1, <3>2
    <2> DEFINE a == <<c, k, TakenSlot(e, c)>>
    <2>4. r.ptr = a /\ r.st = Take(e, c)
      BY <2>2
    <2> HIDE DEF e, c
    <2>5. /\ a \in Addr /\ z[a] = 0
          /\ Good(Take(e, c), [z EXCEPT ![a] = n], {}) /\ Occupied(Take(e, c), {})
          /\ Take(e, c).data = e.data
      BY <2>1, <2>3, TakeGood
    <2>6. a[1] = c /\ a[2] = k
      OBVIOUS
    <2> HIDE DEF a
    <2>7. \A b \in Addr : z[b] > 0 => ~Overlap(b, a)
      BY <2>3, <2>5, <2>6, VacantPlace DEF Good
    <2> QED BY <2>3, <2>4, <2>5, <2>7
  <1>2. CASE ~(n <= LJ_PAGE_ALLOC_MAX_SIZE)
    <2>1. PICK c \in Chunk : /\ s.use[c] = "free"
                             /\ r = [st |-> [s EXCEPT !.use[c] = "large"],
                                     ptr |-> <<c, Delegated, 0>>]
      BY <1>2 DEF Obtain, Delegate
    <2> DEFINE t == [s EXCEPT !.use[c] = "large"]
               a == <<c, Delegated, 0>>
               y == [z EXCEPT ![a] = n]
    <2>2. r.st = t /\ r.ptr = a
      BY <2>1
    <2>3. /\ a \in Addr /\ z[a] = 0 /\ a[1] = c /\ a[2] = Delegated
          /\ \A b \in Addr : b[1] = c => z[b] = 0
      BY <2>1, Places, FreeChunk DEF Good
    <2> HIDE DEF a
    <2>4. \A b \in Addr : z[b] > 0 => ~Overlap(b, a)
      BY <2>1, <2>3, VacantPlace DEF Good
    <2>5. /\ t.use = [s.use EXCEPT ![c] = "large"] /\ t.class = s.class
          /\ t.bump = s.bump /\ t.free = s.free /\ t.busy = s.busy
          /\ t.nonfull = s.nonfull /\ t.data = s.data
          /\ s.use \in [Chunk -> {"free", "page", "large"}]
      BY DEF Good, Typed
    <2>6. y \in [Addr -> Sizes \cup {0}] /\ \A b \in Addr : y[b] = IF b = a THEN n ELSE z[b]
      BY <2>3 DEF Good, Typed
    <2>7. Typed(t, y)
      BY <2>6 DEF Good, Typed
    <2> HIDE DEF y, t
    <2>8. \A d \in Chunk : t.use[d] = IF d = c THEN "large" ELSE s.use[d]
      BY <2>5
    <2>9. Listed(t, {})
      <3>1. \A l \in Classes : Usable(t, l) = Usable(s, l)
        BY <2>1, <2>5, <2>8 DEF Usable
      <3> QED BY <2>5, <3>1 DEF Good, Listed
    <2>10. Accounted(t, y, {})
      <3> SUFFICES ASSUME NEW d \in Chunk, s.use[d] = "page"
                   PROVE  PageOk(s.class[d], InUse(y, s.class[d], d), s.bump[d],
                                 s.free[d], s.busy[d])
        BY <2>5, <2>8 DEF Accounted
      <3>1. PageOk(s.class[d], InUse(z, s.class[d], d), s.bump[d], s.free[d], s.busy[d])
        BY DEF Good, Accounted
      <3>2. s.class[d] \in Classes /\ d # c
        BY <2>1, <3>1 DEF PageOk
      <3>3. InUse(y, s.class[d], d) = InUse(z, s.class[d], d)
        BY <2>3, <2>6, <3>2, Places DEF InUse
      <3> QED BY <3>1, <3>3
    <2>11. Routed(t, y)
      <3> SUFFICES ASSUME NEW b \in Addr, y[b] > 0
                   PROVE  IF y[b] <= LJ_PAGE_ALLOC_MAX_SIZE
                          THEN /\ t.use[b[1]] = "page" /\ b[2] = s.class[b[1]]
                               /\ y[b] <= payload_size(b[2])
                          ELSE t.use[b[1]] = "large" /\ b[2] = Delegated
        BY <2>5 DEF Routed
      <3>1. CASE b = a
        BY <1>2, <2>3, <2>6, <2>8, <3>1
      <3>2. CASE b # a
        <4>1. y[b] = z[b] /\ b[1] \in Chunk /\ b[1] # c
          BY <2>3, <2>6, <3>2, InChunk, SizeOrNone
        <4> QED BY <2>8, <4>1 DEF Good, Routed
      <3> QED BY <3>1, <3>2
    <2>12. Clean(t, y, {})
      BY <2>5, <2>6, SizeOrNone DEF Good, Clean
    <2>13. Occupied(t, {})
      BY <2>5, <2>8 DEF Occupied
    <2> QED BY <2>2, <2>3, <2>4, <2>5, <2>7, <2>9, <2>10, <2>11, <2>12, <2>13
            DEF Good, y
  <1> QED BY <1>1, <1>2

\* The copy that moves the contents of a block into another one.
LEMMA CopyGood ==
  ASSUME NEW s, NEW z, Good(s, z, {}), Occupied(s, {}), NEW a \in Addr,
         NEW b \in Addr, z[b] > 0
  PROVE  LET t == Copy(s, a, b) IN
         /\ Good(t, z, {}) /\ Occupied(t, {}) /\ t.class = s.class /\ t.use = s.use
         /\ \A x \in Addr : t.data[x] = IF x = b THEN s.data[a] ELSE s.data[x]
  <1> DEFINE t == Copy(s, a, b)
  <1>1. t \in [use : {s.use}, class : {s.class}, bump : {s.bump}, free : {s.free},
               busy : {s.busy}, nonfull : {s.nonfull},
               data : {[s.data EXCEPT ![b] = s.data[a]]}]
    BY DEF Copy, Good, Typed
  <1> HIDE DEF t
  <1>2. s.data \in [Addr -> {"data", "junk"}]
    BY DEF Good, Typed
  <1>3. /\ t.use = s.use /\ t.class = s.class /\ t.bump = s.bump /\ t.free = s.free
        /\ t.busy = s.busy /\ t.nonfull = s.nonfull
        /\ t.data \in [Addr -> {"data", "junk"}]
        /\ \A x \in Addr : t.data[x] = IF x = b THEN s.data[a] ELSE s.data[x]
    BY <1>1, <1>2
  <1>4. Typed(t, z)
    BY <1>1, <1>3 DEF Good, Typed
  <1>5. Accounted(t, z, {}) /\ Listed(t, {}) /\ Routed(t, z) /\ Occupied(t, {})
    BY <1>3 DEF Good, Accounted, Listed, Routed, Occupied, Usable
  <1>6. Clean(t, z, {})
    BY <1>3 DEF Good, Clean
  <1> QED BY <1>3, <1>4, <1>5, <1>6 DEF Good, t

\* GiveBack: a chunk without a block in use goes to the backend.
LEMMA GiveBackGood ==
  ASSUME NEW s, NEW z, NEW c \in Chunk, Good(s, z, {c}), Occupied(s, {c}),
         \A b \in Addr : z[b] > 0 => b[1] # c
  PROVE  LET t == GiveBack(s, c) IN
         /\ Good(t, z, {}) /\ Occupied(t, {})
         /\ \A b \in Addr : z[b] > 0 => t.data[b] = s.data[b]
  <1> DEFINE t == GiveBack(s, c)
             D == ScribbleChunk(s.data, c)
  <1>1. t \in [use : {[s.use EXCEPT ![c] = "free"]},
               class : {[s.class EXCEPT ![c] = Delegated]},
               bump : {[s.bump EXCEPT ![c] = 0]}, free : {[s.free EXCEPT ![c] = <<>>]},
               busy : {[s.busy EXCEPT ![c] = 0]}, nonfull : {s.nonfull}, data : {D}]
    BY DEF GiveBack, Good, Typed
  <1> HIDE DEF t
  <1>2. /\ s.bump \in [Chunk -> Nat] /\ s.free \in [Chunk -> Seq(Nat)]
        /\ s.busy \in [Chunk -> Nat] /\ z \in [Addr -> Sizes \cup {0}]
        /\ s.use \in [Chunk -> {"free", "page", "large"}]
        /\ s.class \in [Chunk -> Classes \cup {Delegated}]
        /\ s.nonfull \in [Classes -> Seq(Chunk)]
        /\ s.data \in [Addr -> {"data", "junk"}]
    BY DEF Good, Typed
  <1>3. /\ D \in [Addr -> {"data", "junk"}]
        /\ \A b \in Addr : D[b] = IF b[1] = c THEN "junk" ELSE s.data[b]
    BY <1>2 DEF ScribbleChunk
  <1> HIDE DEF D
  <1>4. Typed(t, z)
    <2>1. /\ [s.use EXCEPT ![c] = "free"] \in [Chunk -> {"free", "page", "large"}]
          /\ [s.class EXCEPT ![c] = Delegated] \in [Chunk -> Classes \cup {Delegated}]
          /\ [s.bump EXCEPT ![c] = 0] \in [Chunk -> Nat]
          /\ [s.busy EXCEPT ![c] = 0] \in [Chunk -> Nat]
      BY <1>2
    <2>2. [s.free EXCEPT ![c] = <<>>] \in [Chunk -> Seq(Nat)]
      BY <1>2
    <2> QED BY <1>1, <1>2, <1>3, <2>1, <2>2 DEF Typed
  <1>5. /\ \A d \in Chunk \ {c} : /\ t.use[d] = s.use[d] /\ t.class[d] = s.class[d]
                                  /\ t.bump[d] = s.bump[d] /\ t.free[d] = s.free[d]
                                  /\ t.busy[d] = s.busy[d]
        /\ t.use[c] = "free" /\ t.nonfull = s.nonfull /\ t.data = D
    BY <1>1, <1>2
  <1>6. Accounted(t, z, {}) /\ Occupied(t, {})
    BY <1>5 DEF Good, Accounted, Occupied
  <1>7. Listed(t, {})
    <2>1. \A l \in Classes : Usable(t, l) = Usable(s, l) \ {c}
      BY <1>5 DEF Usable
    <2> QED BY <1>5, <2>1 DEF Good, Listed
  <1>8. Routed(t, z)
    BY <1>5, InChunk DEF Good, Routed
  <1>9. Clean(t, z, {}) /\ \A b \in Addr : z[b] > 0 => t.data[b] = s.data[b]
    BY <1>3, <1>5 DEF Good, Clean
  <1> QED BY <1>4, <1>6, <1>7, <1>8, <1>9 DEF Good, t

\* No two blocks in use overlap.
LEMMA Apart ==
  ASSUME NEW s, NEW z, Routed(s, z), NEW a \in Addr, NEW b \in Addr,
         z[a] > 0, z[b] > 0, Overlap(a, b)
  PROVE  a = b
  <1>1. a[1] = b[1] /\ (a[2] # b[2] \/ a[3] = b[3])
    BY DEF Overlap
  <1>2. a[2] = b[2]
    BY <1>1 DEF Routed
  <1> QED BY <1>1, <1>2, Places

\* page_free_small, up to the test for an empty page.
PutBack(s, a) ==
  LET c == a[1]
      e == IF IsFull(s, c) THEN nonfull_insert(s, c) ELSE s
  IN  [e EXCEPT !.free[c] = <<a[3]>> \o @, !.busy[c] = @ - 1,
                !.data = Scribble(@, a)]

LEMMA PutBackGood ==
  ASSUME NEW s, NEW z, Good(s, z, {}), Occupied(s, {}), NEW a \in Addr, z[a] > 0,
         z[a] <= LJ_PAGE_ALLOC_MAX_SIZE,
         NEW y \in [Addr -> Sizes \cup {0}],
         \A b \in Addr : y[b] = IF b = a THEN 0 ELSE z[b]
  PROVE  LET c == a[1]
             u == PutBack(s, a)
         IN  /\ c \in Chunk /\ Good(u, y, {}) /\ Occupied(u, {c})
             /\ u.use[c] = "page"
             /\ \A b \in Addr : y[b] > 0 => u.data[b] = s.data[b]
  <1> DEFINE c == a[1]
             k == a[2]
             e == IF IsFull(s, c) THEN nonfull_insert(s, c) ELSE s
             u == PutBack(s, a)
             L == InUse(z, k, c)
             D == Scribble(s.data, a)
             q == e.nonfull
             f == [s.free EXCEPT ![c] = <<a[3]>> \o @]
             m == [s.busy EXCEPT ![c] = @ - 1]
  <1>1. /\ s.bump \in [Chunk -> Nat] /\ s.free \in [Chunk -> Seq(Nat)]
        /\ s.busy \in [Chunk -> Nat] /\ z \in [Addr -> Sizes \cup {0}]
        /\ s.use \in [Chunk -> {"free", "page", "large"}]
        /\ s.class \in [Chunk -> Classes \cup {Delegated}]
        /\ s.nonfull \in [Classes -> Seq(Chunk)]
        /\ s.data \in [Addr -> {"data", "junk"}]
    BY DEF Good, Typed
  <1>2. c \in Chunk /\ s.use[c] = "page" /\ k = s.class[c]
    BY InChunk DEF Good, Routed
  <1>3. PageOk(k, L, s.bump[c], s.free[c], s.busy[c])
    BY <1>2 DEF Good, Accounted
  <1>4. k \in Classes /\ block_count(k) \in Nat
    BY <1>3, ClassFacts DEF PageOk
  <1>5. a[3] \in Slots(k) /\ a = <<c, k, a[3]>>
    BY <1>4, SmallPlace
  <1>6. a[3] \in L
    BY <1>5 DEF InUse
  <1>7. /\ s.busy[c] > 0 /\ s.busy[c] - 1 < block_count(k)
        /\ PageOk(k, L \ {a[3]}, s.bump[c], <<a[3]>> \o s.free[c], s.busy[c] - 1)
    BY <1>3, <1>6, FreedPage
  <1>8. \A l \in Classes : IsInjective(s.nonfull[l]) /\ Range(s.nonfull[l]) = Usable(s, l)
    BY DEF Good, Listed
  <1>9. \A l \in Classes \ {k} : c \notin Usable(s, l)
    BY <1>2 DEF Usable
  <1>10. /\ e = [s EXCEPT !.nonfull = q] /\ q \in [Classes -> Seq(Chunk)]
         /\ \A l \in Classes :
              /\ IsInjective(q[l])
              /\ Range(q[l]) = (Usable(s, l) \ {c}) \cup (IF l = k THEN {c} ELSE {})
    <2>1. CASE IsFull(s, c)
      <3>1. c \notin Usable(s, k)
        BY <1>1, <1>2, <1>4, <2>1 DEF IsFull, Usable
      <3>2. \A l \in Classes : /\ IsInjective(s.nonfull[l])
                               /\ Range(s.nonfull[l]) = Usable(s, l) \ {c}
        BY <1>8, <1>9, <3>1
      <3>3. e = nonfull_insert(s, c)
        BY <2>1
      <3> HIDE DEF e, c, k
      <3>4. Typed(s, z) /\ s.class[c] = k /\ c \in Chunk /\ k \in Classes
        BY <1>2, <1>4 DEF Good
      <3>5. /\ e = [s EXCEPT !.nonfull = e.nonfull]
            /\ e.nonfull \in [Classes -> Seq(Chunk)]
            /\ \A l \in Classes :
                 /\ IsInjective(e.nonfull[l])
                 /\ Range(e.nonfull[l]) = (Usable(s, l) \ {c})
                                            \cup (IF l = s.class[c] THEN {c} ELSE {})
        BY <3>2, <3>3, <3>4, InsertListed
      <3> QED BY <3>4, <3>5
    <2>2. CASE ~IsFull(s, c)
      <3>1. s.busy[c] < block_count(k)
        <4>1. s.busy[c] <= block_count(k) /\ s.busy[c] # block_count(k)
          BY <1>2, <1>3, <2>2, PageFacts DEF IsFull
        <4>2. s.busy[c] \in Nat
          BY <1>1, <1>2
        <4> QED BY <1>4, <4>1, <4>2
      <3>2. c \in Usable(s, k)
        BY <1>2, <3>1 DEF Usable
      <3>3. e = s
        BY <2>2
      <3>4. e = [s EXCEPT !.nonfull = e.nonfull]
        BY <3>3 DEF Good, Typed
      <3>5. \A l \in Classes : Usable(s, l) = (Usable(s, l) \ {c}) \cup (IF l = k THEN {c} ELSE {})
        BY <1>9, <3>2
      <3> QED BY <1>1, <1>8, <3>3, <3>4, <3>5
    <2> QED BY <2>1, <2>2
  <1> HIDE DEF q, e
  <1>11. e \in [use : {s.use}, class : {s.class}, bump : {s.bump}, free : {s.free},
                busy : {s.busy}, nonfull : {q}, data : {s.data}]
    BY <1>10 DEF Good, Typed
  <1>12. u \in [use : {s.use}, class : {s.class}, bump : {s.bump}, free : {f},
                busy : {m}, nonfull : {q}, data : {D}]
    <2>1. u = [e EXCEPT !.free[c] = <<a[3]>> \o @, !.busy[c] = @ - 1,
                        !.data = Scribble(@, a)]
      BY DEF PutBack, e
    <2> HIDE DEF u, f, m, D
    <2>2. u = [use |-> s.use, class |-> s.class, bump |-> s.bump, free |-> f,
               busy |-> m, nonfull |-> q, data |-> D]
      BY <1>11, <2>1 DEF f, m, D
    <2> QED BY <2>2
  <1> HIDE DEF u
  <1>13. /\ D \in [Addr -> {"data", "junk"}]
         /\ \A b \in Addr : D[b] = IF Overlap(a, b) THEN "junk" ELSE s.data[b]
    BY <1>1 DEF Scribble
  <1>14. y \in [Addr -> Sizes \cup {0}] /\ \A b \in Addr : y[b] = IF b = a THEN 0 ELSE z[b]
    BY <1>1
  <1> HIDE DEF D
  <1>15. /\ f \in [Chunk -> Seq(Nat)]
         /\ f[c] = <<a[3]>> \o s.free[c] /\ \A d \in Chunk \ {c} : f[d] = s.free[d]
    <2>1. a[3] \in Nat
      BY <1>4, <1>5 DEF Slots
    <2>2. <<a[3]>> \o s.free[c] \in Seq(Nat)
      BY <1>1, <1>2, <2>1
    <2> QED BY <1>1, <1>2, <2>2
  <1>16. /\ m \in [Chunk -> Nat]
         /\ m[c] = s.busy[c] - 1 /\ \A d \in Chunk \ {c} : m[d] = s.busy[d]
    <2>1. s.busy[c] \in Nat
      BY <1>1, <1>2
    <2>2. s.busy[c] - 1 \in Nat
      BY <1>7, <2>1
    <2> QED BY <1>1, <1>2, <2>2
  <1> HIDE DEF f, m
  <1>17. Typed(u, y)
    <2>1. /\ s.use \in [Chunk -> {"free", "page", "large"}]
          /\ s.class \in [Chunk -> Classes \cup {Delegated}] /\ s.bump \in [Chunk -> Nat]
      BY <1>1
    <2>2. q \in [Classes -> Seq(Chunk)]
      BY <1>10
    <2>3. /\ D \in [Addr -> {"data", "junk"}] /\ f \in [Chunk -> Seq(Nat)]
          /\ m \in [Chunk -> Nat] /\ y \in [Addr -> Sizes \cup {0}]
      BY <1>13, <1>14, <1>15, <1>16
    <2> QED BY ONLY <1>12, <2>1, <2>2, <2>3 DEF Typed
  <1>18. /\ u.use = s.use /\ u.class = s.class /\ u.bump = s.bump /\ u.free = f
         /\ u.busy = m /\ u.nonfull = q /\ u.data = D
    BY <1>12
  <1>19. InUse(y, k, c) = L \ {a[3]}
    BY <1>2, <1>4, <1>5, <1>14, Places DEF InUse
  <1>20. Accounted(u, y, {})
    <2> SUFFICES ASSUME NEW d \in Chunk, s.use[d] = "page"
                 PROVE  PageOk(s.class[d], InUse(y, s.class[d], d), s.bump[d], f[d], m[d])
      BY <1>18 DEF Accounted
    <2>1. CASE d = c
      BY <1>2, <1>7, <1>15, <1>16, <1>19, <2>1
    <2>2. CASE d # c
      <3>1. PageOk(s.class[d], InUse(z, s.class[d], d), s.bump[d], s.free[d], s.busy[d])
        BY DEF Good, Accounted
      <3>2. s.class[d] \in Classes
        BY <3>1 DEF PageOk
      <3>3. InUse(y, s.class[d], d) = InUse(z, s.class[d], d)
        BY <1>5, <1>14, <2>2, <3>2, Places DEF InUse
      <3> QED BY <1>15, <1>16, <2>2, <3>1, <3>3
    <2> QED BY <2>1, <2>2
  <1>21. Listed(u, {})
    <2>1. \A l \in Classes :
            Usable(u, l) = (Usable(s, l) \ {c}) \cup (IF l = k THEN {c} ELSE {})
      <3>1. c \in Usable(u, k)
        BY <1>2, <1>7, <1>16, <1>18 DEF Usable
      <3>2. \A l \in Classes : Usable(u, l) \ {c} = Usable(s, l) \ {c}
        BY <1>16, <1>18 DEF Usable
      <3>3. \A l \in Classes \ {k} : c \notin Usable(u, l)
        BY <1>2, <1>18 DEF Usable
      <3> QED BY <3>1, <3>2, <3>3
    <2> QED BY <1>10, <1>18, <2>1 DEF Listed
  <1>22. Routed(u, y)
    <2>1. \A b \in Addr : y[b] > 0 => y[b] = z[b]
      BY <1>14
    <2> QED BY <1>18, <2>1 DEF Good, Routed
  <1>23. \A b \in Addr : y[b] > 0 => D[b] = s.data[b]
    <2> SUFFICES ASSUME NEW b \in Addr, y[b] > 0 PROVE ~Overlap(a, b)
      BY <1>13
    <2>1. b # a /\ z[b] > 0
      BY <1>14
    <2> QED BY <2>1, Apart DEF Good
  <1>24. Clean(u, y, {})
    <2> SUFFICES ASSUME NEW b \in Addr, y[b] = 0 PROVE D[b] = "junk"
      BY <1>18 DEF Clean
    <2>1. CASE b = a
      BY <1>13, <2>1 DEF Overlap
    <2>2. CASE b # a
      BY <1>13, <1>14, <2>2 DEF Good, Clean
    <2> QED BY <2>1, <2>2
  <1>25. Occupied(u, {c})
    BY <1>16, <1>18 DEF Occupied
  <1>26. Good(u, y, {})
    BY <1>17, <1>20, <1>21, <1>22, <1>24 DEF Good
  <1>27. u.use[c] = "page" /\ \A b \in Addr : y[b] > 0 => u.data[b] = s.data[b]
    BY <1>2, <1>18, <1>23
  <1> HIDE DEF c
  <1>28. /\ c \in Chunk /\ Good(u, y, {}) /\ Occupied(u, {c}) /\ u.use[c] = "page"
         /\ \A b \in Addr : y[b] > 0 => u.data[b] = s.data[b]
    BY <1>2, <1>25, <1>26, <1>27
  <1> QED BY <1>28 DEF u, c

\* page_free_small, and a free of either kind.
LEMMA ReleaseGood ==
  ASSUME NEW s, NEW z, Good(s, z, {}), Occupied(s, {}), NEW a \in Addr, z[a] > 0,
         NEW t, t = Release(s, a, z[a]),
         NEW y \in [Addr -> Sizes \cup {0}],
         \A b \in Addr : y[b] = IF b = a THEN 0 ELSE z[b]
  PROVE  /\ Good(t, y, {}) /\ Occupied(t, {})
         /\ \A b \in Addr : y[b] > 0 => t.data[b] = s.data[b]
  <1> DEFINE c == a[1]
  <1>1. z \in [Addr -> Sizes \cup {0}]
    BY DEF Good, Typed
  <1>2. \A b \in Addr : y[b] = IF b = a THEN 0 ELSE z[b]
    OBVIOUS
  <1>3. CASE z[a] <= LJ_PAGE_ALLOC_MAX_SIZE
    <2> DEFINE u == PutBack(s, a)
    <2>1. /\ c \in Chunk /\ Good(u, y, {}) /\ Occupied(u, {c}) /\ u.use[c] = "page"
          /\ \A b \in Addr : y[b] > 0 => u.data[b] = s.data[b]
      BY <1>3, PutBackGood
    <2>2. t = IF u.busy[c] = 0 THEN page_release(u, c) ELSE u
      BY <1>3 DEF Release, page_free_small, PutBack
    <2> HIDE DEF u, c
    <2>3. PageOk(u.class[c], InUse(y, u.class[c], c), u.bump[c], u.free[c], u.busy[c])
      BY <2>1 DEF Good, Accounted
    <2>4. u.class[c] \in Classes /\ u.busy[c] \in Nat /\ block_count(u.class[c]) \in Nat \ {0}
      BY <2>3, PageFacts, ClassFacts
    <2>5. CASE u.busy[c] # 0
      <3>1. Occupied(u, {})
        BY <2>1, <2>4, <2>5 DEF Occupied
      <3> QED BY <2>1, <2>2, <2>5, <3>1
    <2>6. CASE u.busy[c] = 0
      <3> DEFINE v == nonfull_remove(u, c)
                 q == v.nonfull
      <3>1. t = GiveBack(v, c)
        BY <2>2, <2>6 DEF page_release
      <3>2. Typed(u, y) /\ Listed(u, {}) /\ Routed(u, y)
        BY <2>1 DEF Good
      <3>3. c \in Range(u.nonfull[u.class[c]])
        <4>1. c \in Usable(u, u.class[c])
          BY <2>1, <2>4, <2>6 DEF Usable
        <4> QED BY <2>4, <3>2, <4>1 DEF Listed
      <3>4. /\ v = [u EXCEPT !.nonfull = q]
            /\ q \in [Classes -> Seq(Chunk)]
            /\ \A l \in Classes : IsInjective(q[l]) /\ Range(q[l]) = Usable(u, l) \ {c}
        BY <2>1, <2>4, <3>2, <3>3, RemoveListed
      <3> HIDE DEF v, q
      <3>5. v \in [use : {u.use}, class : {u.class}, bump : {u.bump}, free : {u.free},
                   busy : {u.busy}, nonfull : {q}, data : {u.data}]
        BY <3>2, <3>4 DEF Typed
      <3>6. Typed(v, y)
        BY <3>2, <3>4, <3>5 DEF Typed
      <3>7. /\ v.use = u.use /\ v.class = u.class /\ v.bump = u.bump
            /\ v.free = u.free /\ v.busy = u.busy /\ v.nonfull = q
            /\ v.data = u.data
        BY <3>5
      <3>8. Listed(v, {c})
        <4>1. \A l \in Classes : Usable(v, l) = Usable(u, l)
          BY <3>7 DEF Usable
        <4> QED BY <3>4, <3>7, <4>1 DEF Listed
      <3>9. /\ Accounted(v, y, {c}) /\ Routed(v, y) /\ Clean(v, y, {c})
            /\ Occupied(v, {c})
        BY <2>1, <3>7 DEF Good, Accounted, Routed, Clean, Occupied
      <3>10. ASSUME NEW b \in Addr, y[b] > 0, b[1] = c PROVE FALSE
        <4>1. b[2] = u.class[c]
          BY <2>1, <3>2, <3>10 DEF Routed
        <4>2. b[3] \in Slots(u.class[c]) /\ b = <<c, u.class[c], b[3]>>
          BY <2>4, <3>10, <4>1, SmallPlace
        <4>3. b[3] \in InUse(y, u.class[c], c)
          BY <3>10, <4>2 DEF InUse
        <4> QED BY <2>3, <2>6, <4>3, PageFacts
      <3>11. Good(v, y, {c})
        BY <3>6, <3>8, <3>9 DEF Good
      <3>12. /\ Good(t, y, {}) /\ Occupied(t, {})
             /\ \A b \in Addr : y[b] > 0 => t.data[b] = v.data[b]
        <4>1. c \in Chunk /\ Occupied(v, {c}) /\ \A b \in Addr : y[b] > 0 => b[1] # c
          BY <2>1, <3>9, <3>10
        <4> QED BY ONLY <3>1, <3>11, <4>1, GiveBackGood
      <3> QED BY <2>1, <3>7, <3>12
    <2> QED BY <2>5, <2>6
  <1>4. CASE ~(z[a] <= LJ_PAGE_ALLOC_MAX_SIZE)
    <2>1. t = GiveBack(s, c)
      BY <1>4 DEF Release
    <2>2. s.use[c] = "large" /\ a[2] = Delegated /\ c \in Chunk
      BY <1>4, InChunk DEF Good, Routed
    <2> HIDE DEF c
    <2>3. \A b \in Addr : y[b] > 0 => b[1] # c
      <3> SUFFICES ASSUME NEW b \in Addr, z[b] > 0, b[1] = c PROVE b = a
        BY <1>2
      <3>1. b[2] = Delegated
        BY <2>2 DEF Good, Routed
      <3> QED BY <2>2, <3>1, LargePlace DEF c
    <2>4. Typed(s, y)
      BY <1>2 DEF Good, Typed
    <2>5. Accounted(s, y, {c})
      <3> SUFFICES ASSUME NEW d \in Chunk, s.use[d] = "page"
                   PROVE  PageOk(s.class[d], InUse(y, s.class[d], d), s.bump[d],
                                 s.free[d], s.busy[d])
        BY DEF Accounted
      <3>1. PageOk(s.class[d], InUse(z, s.class[d], d), s.bump[d], s.free[d], s.busy[d])
        BY DEF Good, Accounted
      <3>2. s.class[d] \in Classes
        BY <3>1 DEF PageOk
      <3>3. InUse(y, s.class[d], d) = InUse(z, s.class[d], d)
        BY <1>2, <2>2, <3>2, Places, ClassFacts DEF InUse
      <3> QED BY <3>1, <3>3
    <2>6. Listed(s, {c})
      <3>1. \A l \in Classes : c \notin Usable(s, l)
        BY <2>2 DEF Usable
      <3> QED BY <3>1 DEF Good, Listed
    <2>7. Routed(s, y) /\ Clean(s, y, {c}) /\ Occupied(s, {c})
      <3>1. Routed(s, y)
        <4>1. \A b \in Addr : y[b] > 0 => y[b] = z[b]
          BY <1>2
        <4> QED BY <4>1 DEF Good, Routed
      <3>2. Clean(s, y, {c})
        BY <1>2 DEF Good, Clean, c
      <3> QED BY <3>1, <3>2 DEF Occupied
    <2>8. Good(s, y, {c})
      BY <2>4, <2>5, <2>6, <2>7 DEF Good
    <2>9. /\ Good(t, y, {}) /\ Occupied(t, {})
          /\ \A b \in Addr : y[b] > 0 => t.data[b] = s.data[b]
      BY <2>1, <2>2, <2>3, <2>7, <2>8, GiveBackGood
    <2> QED BY <2>9
  <1> QED BY <1>3, <1>4

-------------------------------------------------------------------------------
(* The steps *)

LEMMA Settled ==
  ASSUME NEW s, NEW z, Good(s, z, {}), Occupied(s, {}), Becomes(s), size' = z
  PROVE  Good(St, size, {})' /\ Occupied(St, {})'
  <1>1. /\ St'.use = s.use /\ St'.class = s.class /\ St'.bump = s.bump
        /\ St'.free = s.free /\ St'.busy = s.busy /\ St'.nonfull = s.nonfull
        /\ St'.data = s.data
    BY DEF St, Becomes
  <1>2. Typed(St', z)
    BY DEF St, Becomes, Good, Typed
  <1>3. /\ Accounted(St', z, {}) /\ Listed(St', {}) /\ Routed(St', z)
        /\ Clean(St', z, {}) /\ Occupied(St', {})
    BY <1>1 DEF Good, Accounted, Listed, Routed, Clean, Occupied, Usable
  <1>4. Good(St', z, {}) /\ Occupied(St', {})
    BY <1>2, <1>3 DEF Good
  <1> QED BY <1>4

\* What holds memory that is not in a block is "junk" already.
LEMMA BlocksAreData == IInv => Blocks = data
  <1> SUFFICES ASSUME IInv PROVE Blocks = data
    OBVIOUS
  <1>1. /\ data \in [Addr -> {"data", "junk"}] /\ size \in [Addr -> Sizes \cup {0}]
        /\ \A a \in Addr : size[a] = 0 => data[a] = "junk"
    BY DEF IInv, Good, Typed, Clean, St
  <1>2. \A a \in Addr : size[a] > 0 \/ size[a] = 0
    BY <1>1, SizeOrNone
  <1>3. \A a \in Addr : Blocks[a] = data[a]
    BY <1>1, <1>2 DEF Blocks
  <1> QED BY <1>1, <1>3 DEF Blocks

LEMMA InitGood == Init => IInv
  <1> SUFFICES ASSUME Init PROVE IInv
    OBVIOUS
  <1>1. <<>> \in Seq(Nat) /\ <<>> \in Seq(Chunk)
    OBVIOUS
  <1>2. Typed(St, size)
    BY <1>1 DEF Init, Typed, St
  <1>3. /\ St.use = use /\ St.class = class /\ St.nonfull = nonfull_pages
        /\ St.data = data
    BY DEF St
  <1>4. \A c \in Chunk : use[c] = "free"
    BY DEF Init
  <1>5. \A k \in Classes : nonfull_pages[k] = <<>> /\ IsInjective(<<>>) /\ Range(<<>>) = {}
    BY DEF Init, IsInjective, Range
  <1>6. Accounted(St, size, {}) /\ Occupied(St, {})
    BY <1>3, <1>4 DEF Accounted, Occupied
  <1>7. Listed(St, {})
    <2>1. \A k \in Classes : Usable(St, k) = {}
      BY <1>3, <1>4 DEF Usable
    <2> QED BY <1>3, <1>5, <2>1 DEF Listed
  <1>8. Routed(St, size) /\ Clean(St, size, {})
    BY <1>3 DEF Init, Routed, Clean
  <1> QED BY <1>2, <1>6, <1>7, <1>8 DEF IInv, Good, Init

LEMMA DestroyGood ==
  ASSUME IInv, Destroy
  PROVE  IInv' /\ data' = [a \in Addr |-> "junk"] /\ size' = [a \in Addr |-> 0]
  <1>1. <<>> \in Seq(Nat) /\ <<>> \in Seq(Chunk)
    OBVIOUS
  <1>2. Typed(St', size')
    BY <1>1 DEF Destroy, Typed, St
  <1>3. /\ St'.use = use' /\ St'.class = class' /\ St'.nonfull = nonfull_pages'
        /\ St'.data = data'
    BY DEF St
  <1>4. \A c \in Chunk : use'[c] = "free"
    BY DEF Destroy
  <1>5. \A k \in Classes : /\ nonfull_pages'[k] = <<>>
                           /\ IsInjective(<<>>) /\ Range(<<>>) = {}
    BY DEF Destroy, IsInjective, Range
  <1>6. Accounted(St', size', {}) /\ Occupied(St', {})
    BY <1>3, <1>4 DEF Accounted, Occupied
  <1>7. Listed(St', {})
    <2>1. \A k \in Classes : Usable(St', k) = {}
      BY <1>3, <1>4 DEF Usable
    <2> QED BY <1>3, <1>5, <2>1 DEF Listed
  <1>8. Routed(St', size') /\ Clean(St', size', {})
    BY <1>3 DEF Destroy, Routed, Clean
  <1> QED BY <1>2, <1>6, <1>7, <1>8 DEF IInv, Good, Destroy

LEMMA MallocGood ==
  ASSUME IInv, NEW n \in Sizes, Malloc(n)
  PROVE  /\ IInv'
         /\ open /\ open' = open /\ data' = data
         /\ \E p \in Addr : /\ size[p] = 0 /\ \A a \in Live : ~Overlap(a, p)
                            /\ size' = [size EXCEPT ![p] = n]
  <1>1. Good(St, size, {}) /\ Occupied(St, {}) /\ open \in BOOLEAN
    BY DEF IInv
  <1>2. PICK r \in Obtain(St, n) :
          open /\ open' = open /\ Becomes(r.st) /\ size' = [size EXCEPT ![r.ptr] = n]
    BY DEF Malloc
  <1>3. /\ r.ptr \in Addr /\ size[r.ptr] = 0
        /\ \A b \in Addr : size[b] > 0 => ~Overlap(b, r.ptr)
        /\ Good(r.st, size', {}) /\ Occupied(r.st, {}) /\ r.st.data = St.data
    BY <1>1, <1>2, ObtainGood
  <1>4. Good(St, size, {})' /\ Occupied(St, {})'
    BY <1>2, <1>3, Settled
  <1>5. data' = data
    BY <1>2, <1>3 DEF Becomes, St
  <1> QED BY <1>1, <1>2, <1>3, <1>4, <1>5 DEF IInv, Live

LEMMA FreeGood ==
  ASSUME IInv, NEW a \in Addr, Free(a)
  PROVE  /\ IInv'
         /\ a \in Live /\ open' = open /\ size' = [size EXCEPT ![a] = 0]
         /\ data' = [data EXCEPT ![a] = "junk"]
  <1>1. Good(St, size, {}) /\ Occupied(St, {}) /\ open \in BOOLEAN
    BY DEF IInv
  <1>2. /\ a \in Live /\ size[a] > 0 /\ open' = open
        /\ Becomes(Release(St, a, size[a])) /\ size' = [size EXCEPT ![a] = 0]
    BY DEF Free, Live
  <1> DEFINE t == Release(St, a, size[a])
  <1>3. /\ Good(t, size', {}) /\ Occupied(t, {})
        /\ \A b \in Addr : size'[b] > 0 => t.data[b] = St.data[b]
    <2> DEFINE y == [size EXCEPT ![a] = 0]
    <2>1. /\ size[a] > 0 /\ size' = y /\ y \in [Addr -> Sizes \cup {0}]
          /\ \A b \in Addr : y[b] = IF b = a THEN 0 ELSE size[b]
      BY <1>1, <1>2 DEF Good, Typed
    <2> HIDE DEF y
    <2>2. Good(t, y, {}) /\ Occupied(t, {}) /\ \A b \in Addr : y[b] > 0 => t.data[b] = St.data[b]
      BY <1>1, <2>1, ReleaseGood
    <2> QED BY <2>1, <2>2
  <1>4. Becomes(t)
    BY <1>2
  <1> HIDE DEF t
  <1>5. Good(St, size, {})' /\ Occupied(St, {})'
    BY <1>3, <1>4, Settled
  <1>6. IInv'
    BY <1>1, <1>2, <1>5 DEF IInv
  <1>7. /\ data \in [Addr -> {"data", "junk"}] /\ data' \in [Addr -> {"data", "junk"}]
        /\ size \in [Addr -> Sizes \cup {0}] /\ size' \in [Addr -> Sizes \cup {0}]
        /\ \A b \in Addr : size'[b] = 0 => data'[b] = "junk"
        /\ \A b \in Addr : size[b] = 0 => data[b] = "junk"
    BY <1>1, <1>5 DEF Good, Typed, Clean, St
  <1>8. \A b \in Addr : size'[b] > 0 => data'[b] = data[b]
    BY <1>3, <1>4 DEF Becomes, St
  <1>9. ASSUME NEW b \in Addr PROVE data'[b] = [data EXCEPT ![a] = "junk"][b]
    <2>1. CASE b = a
      BY <1>2, <1>7, <2>1
    <2>2. CASE b # a
      <3>1. size'[b] = size[b] /\ (size[b] = 0 \/ size[b] > 0)
        BY <1>2, <1>7, <2>2, SizeOrNone
      <3> QED BY <1>7, <1>8, <2>2, <3>1
    <2> QED BY <2>1, <2>2
  <1> QED BY <1>2, <1>6, <1>7, <1>9

LEMMA InPlaceGood ==
  ASSUME IInv, NEW a \in Addr, NEW n \in Sizes, ReallocInPlace(a, n)
  PROVE  /\ IInv'
         /\ a \in Live /\ open' = open /\ data' = data
         /\ size' = [size EXCEPT ![a] = n]
  <1>1. Good(St, size, {}) /\ Occupied(St, {}) /\ open \in BOOLEAN
    BY DEF IInv
  <1>2. /\ a \in Live /\ size[a] > 0 /\ open' = open /\ data' = data
        /\ size' = [size EXCEPT ![a] = n] /\ Stays(a, n)
        /\ use' = use /\ class' = class /\ bump_index' = bump_index
        /\ free_list' = free_list /\ busy_count' = busy_count
        /\ nonfull_pages' = nonfull_pages
    BY DEF ReallocInPlace, Live, hdr
  <1>3. St' = St
    BY <1>2 DEF St
  <1>4. size \in [Addr -> Sizes \cup {0}]
    BY <1>1 DEF Good, Typed
  <1>5. /\ size' \in [Addr -> Sizes \cup {0}]
        /\ \A b \in Addr : size'[b] = IF b = a THEN n ELSE size[b]
    BY <1>2, <1>4
  <1>6. \A b \in Addr : (size'[b] > 0 <=> size[b] > 0) /\ (size'[b] = 0 => size[b] = 0)
    BY <1>2, <1>5, SizeOrNone
  <1>7. Typed(St, size')
    BY <1>1, <1>5 DEF Good, Typed
  <1>8. Accounted(St, size', {})
    <2> SUFFICES ASSUME NEW c \in Chunk, St.use[c] = "page"
                 PROVE  PageOk(St.class[c], InUse(size', St.class[c], c), St.bump[c],
                               St.free[c], St.busy[c])
      BY DEF Accounted
    <2>1. PageOk(St.class[c], InUse(size, St.class[c], c), St.bump[c], St.free[c],
                 St.busy[c])
      BY <1>1 DEF Good, Accounted
    <2>2. St.class[c] \in Classes
      BY <2>1 DEF PageOk
    <2>3. InUse(size', St.class[c], c) = InUse(size, St.class[c], c)
      BY <1>6, <2>2, Places DEF InUse
    <2> QED BY <2>1, <2>3
  <1>9. Routed(St, size')
    <2> SUFFICES ASSUME NEW b \in Addr, size'[b] > 0
                 PROVE  IF size'[b] <= LJ_PAGE_ALLOC_MAX_SIZE
                        THEN /\ St.use[b[1]] = "page" /\ b[2] = St.class[b[1]]
                             /\ size'[b] <= payload_size(b[2])
                        ELSE St.use[b[1]] = "large" /\ b[2] = Delegated
      BY DEF Routed
    <2>1. CASE b # a
      BY <1>1, <1>5, <2>1 DEF Good, Routed
    <2>2. CASE b = a /\ size[a] <= LJ_PAGE_ALLOC_MAX_SIZE
      <3>1. St.use[a[1]] = "page" /\ a[2] = St.class[a[1]] /\ a[1] \in Chunk
        BY <1>1, <1>2, <2>2, InChunk DEF Good, Routed
      <3>2. n <= payload_size(a[2])
        BY <1>2, <2>2, <3>1 DEF Stays, St
      <3>3. a[2] \in Classes
        BY <1>1, <3>1 DEF Good, Accounted, PageOk
      <3>4. n <= LJ_PAGE_ALLOC_MAX_SIZE
        BY <3>2, <3>3, ClassFacts, SizeOrNone DEF LJ_PAGE_ALLOC_MAX_SIZE
      <3> QED BY <1>5, <2>2, <3>1, <3>2, <3>4
    <2>3. CASE b = a /\ ~(size[a] <= LJ_PAGE_ALLOC_MAX_SIZE)
      <3>1. n > LJ_PAGE_ALLOC_MAX_SIZE
        BY <1>2, <2>3 DEF Stays
      <3>2. ~(n <= LJ_PAGE_ALLOC_MAX_SIZE)
        BY <3>1, SizeOrNone DEF LJ_PAGE_ALLOC_MAX_SIZE
      <3> QED BY <1>1, <1>2, <1>5, <2>3, <3>2 DEF Good, Routed
    <2> QED BY <2>1, <2>2, <2>3
  <1>10. Listed(St, {}) /\ Clean(St, size', {})
    BY <1>1, <1>6 DEF Good, Clean
  <1>11. IInv'
    BY <1>1, <1>2, <1>3, <1>7, <1>8, <1>9, <1>10 DEF IInv, Good
  <1> QED BY <1>2, <1>11

LEMMA MoveGood ==
  ASSUME IInv, NEW a \in Addr, NEW n \in Sizes, ReallocMove(a, n)
  PROVE  /\ IInv'
         /\ a \in Live /\ open' = open
         /\ \E p \in Addr :
              /\ size[p] = 0 /\ \A b \in Live : ~Overlap(b, p)
              /\ size' = [size EXCEPT ![a] = 0, ![p] = n]
              /\ data' = [data EXCEPT ![a] = "junk", ![p] = data[a]]
  <1>1. Good(St, size, {}) /\ Occupied(St, {}) /\ open \in BOOLEAN
    BY DEF IInv
  <1>2. PICK r \in Obtain(St, n) :
          /\ Becomes(Release(Copy(r.st, a, r.ptr), a, size[a]))
          /\ size' = [size EXCEPT ![a] = 0, ![r.ptr] = n]
    BY DEF ReallocMove
  <1>3. a \in Live /\ size[a] > 0 /\ open' = open
    BY DEF ReallocMove, Live
  <1> DEFINE p == r.ptr  e == r.st
             y == [size EXCEPT ![p] = n]
             w == [y EXCEPT ![a] = 0]
             u == Copy(e, a, p)
             t == Release(u, a, size[a])
  <1>4. /\ p \in Addr /\ size[p] = 0
        /\ \A b \in Addr : size[b] > 0 => ~Overlap(b, p)
        /\ Good(e, y, {}) /\ Occupied(e, {}) /\ e.data = St.data
    BY <1>1, <1>2, ObtainGood
  <1>5. Becomes(t) /\ size' = [size EXCEPT ![a] = 0, ![p] = n]
    BY <1>2
  <1>6. /\ size \in [Addr -> Sizes \cup {0}] /\ data \in [Addr -> {"data", "junk"}]
        /\ \A b \in Addr : size[b] = 0 => data[b] = "junk"
    BY <1>1 DEF Good, Typed, Clean, St
  <1> HIDE DEF p, e
  <1>7. p # a
    BY <1>3, <1>4
  <1>8. \A b \in Addr : y[b] = IF b = p THEN n ELSE size[b]
    BY <1>6
  <1>9. \A b \in Addr : w[b] = IF b = p THEN n ELSE IF b = a THEN 0 ELSE size[b]
    BY <1>6, <1>7
  <1>10. size' = w
    BY <1>4, <1>5, <1>6, <1>7
  <1> HIDE DEF y
  <1>11. n > 0 /\ y[p] > 0 /\ y[a] = size[a] /\ y[a] > 0
    BY <1>3, <1>4, <1>7, <1>8, SizeOrNone
  <1>12. /\ Good(u, y, {}) /\ Occupied(u, {})
         /\ \A x \in Addr : u.data[x] = IF x = p THEN e.data[a] ELSE e.data[x]
    <2>1. /\ Good(Copy(e, a, p), y, {}) /\ Occupied(Copy(e, a, p), {})
          /\ \A x \in Addr :
               Copy(e, a, p).data[x] = IF x = p THEN e.data[a] ELSE e.data[x]
      <3> HIDE DEF u, w
      <3>1. Good(e, y, {}) /\ Occupied(e, {}) /\ p \in Addr
        BY <1>4
      <3>2. y[p] > 0
        BY <1>11
      <3> HIDE DEF t
      <3> QED BY ONLY <3>1, <3>2, a \in Addr, CopyGood
    <2> QED BY <2>1
  <1>13. /\ t = Release(u, a, y[a]) /\ w \in [Addr -> Sizes \cup {0}]
         /\ \A b \in Addr : w[b] = IF b = a THEN 0 ELSE y[b]
    <2>1. w \in [Addr -> Sizes \cup {0}]
      BY <1>10, <1>6, <1>7 DEF y
    <2>2. \A b \in Addr : w[b] = IF b = a THEN 0 ELSE y[b]
      BY <1>7, <1>8, <1>9
    <2> QED BY <1>11, <2>1, <2>2
  <1> HIDE DEF u, t, w
  <1>14. /\ Good(t, w, {}) /\ Occupied(t, {})
         /\ \A b \in Addr : w[b] > 0 => t.data[b] = u.data[b]
    BY <1>11, <1>12, <1>13, ReleaseGood
  <1>15. Good(St, size, {})' /\ Occupied(St, {})'
    BY <1>5, <1>10, <1>14, Settled
  <1>16. IInv'
    BY <1>1, <1>3, <1>15 DEF IInv
  <1>17. /\ data' \in [Addr -> {"data", "junk"}]
         /\ \A b \in Addr : size'[b] = 0 => data'[b] = "junk"
    BY <1>15 DEF Good, Typed, Clean, St
  <1>18. \A b \in Addr : size'[b] > 0 => data'[b] = IF b = p THEN data[a] ELSE data[b]
    BY <1>4, <1>5, <1>10, <1>12, <1>14 DEF Becomes, St
  <1>19. ASSUME NEW b \in Addr
         PROVE  data'[b] = [data EXCEPT ![a] = "junk", ![p] = data[a]][b]
    <2>1. CASE b = p
      BY <1>4, <1>6, <1>9, <1>10, <1>11, <1>18, <2>1
    <2>2. CASE b = a
      BY <1>6, <1>7, <1>9, <1>10, <1>17, <2>2
    <2>3. CASE b # a /\ b # p
      <3>1. size'[b] = size[b] /\ (size[b] = 0 \/ size[b] > 0)
        BY <1>6, <1>9, <1>10, <2>3, SizeOrNone
      <3> QED BY <1>6, <1>17, <1>18, <2>3, <3>1
    <2> QED BY <2>1, <2>2, <2>3
  <1>20. data' = [data EXCEPT ![a] = "junk", ![p] = data[a]]
    BY <1>6, <1>17, <1>19
  <1> QED BY <1>3, <1>4, <1>5, <1>16, <1>20 DEF Live

LEMMA WriteGood ==
  ASSUME IInv, NEW a \in Addr, Write(a)
  PROVE  /\ IInv'
         /\ a \in Live /\ open' = open /\ size' = size
         /\ data' = [data EXCEPT ![a] = "data"]
  <1>1. Good(St, size, {}) /\ Occupied(St, {}) /\ open \in BOOLEAN
    BY DEF IInv
  <1>2. /\ a \in Live /\ size[a] > 0 /\ open' = open /\ size' = size
        /\ data' = [Scribble(data, a) EXCEPT ![a] = "data"]
        /\ use' = use /\ class' = class /\ bump_index' = bump_index
        /\ free_list' = free_list /\ busy_count' = busy_count
        /\ nonfull_pages' = nonfull_pages
    BY DEF Write, Live, hdr
  <1>3. /\ size \in [Addr -> Sizes \cup {0}] /\ data \in [Addr -> {"data", "junk"}]
        /\ \A b \in Addr : size[b] = 0 => data[b] = "junk"
    BY <1>1 DEF Good, Typed, Clean, St
  <1>4. ASSUME NEW b \in Addr, b # a, Overlap(a, b) PROVE data[b] = "junk"
    <2>1. ~(size[b] > 0)
      BY <1>1, <1>2, <1>4, Apart DEF Good
    <2>2. size[b] = 0
      BY <1>3, <2>1, SizeOrNone
    <2> QED BY <1>3, <2>2
  <1>5. data' = [data EXCEPT ![a] = "data"]
    BY <1>2, <1>3, <1>4 DEF Scribble
  <1>6. /\ St'.use = St.use /\ St'.class = St.class /\ St'.bump = St.bump
        /\ St'.free = St.free /\ St'.busy = St.busy /\ St'.nonfull = St.nonfull
        /\ St'.data = [data EXCEPT ![a] = "data"]
    BY <1>2, <1>5 DEF St
  <1>7. Typed(St', size)
    <2>1. data' \in [Addr -> {"data", "junk"}]
      BY <1>3, <1>5
    <2>2. Typed(St, size)
      BY <1>1 DEF Good
    <2> QED BY <1>2, <2>1, <2>2 DEF Typed, St
  <1>8. /\ Accounted(St', size, {}) /\ Listed(St', {}) /\ Routed(St', size)
        /\ Occupied(St', {})
    BY <1>1, <1>6 DEF Good, Accounted, Listed, Routed, Occupied, Usable
  <1>9. Clean(St', size, {})
    BY <1>2, <1>3, <1>6 DEF Clean
  <1> QED BY <1>1, <1>2, <1>5, <1>7, <1>8, <1>9 DEF IInv, Good

-------------------------------------------------------------------------------
(* The theorems *)

\* IInv is inductive: after every call of lj_page_alloc_f the pages, the lists
\* and the sizes agree.
LEMMA IInvStep == IInv /\ [Next]_vars => IInv'
  <1> SUFFICES ASSUME IInv, [Next]_vars PROVE IInv'
    OBVIOUS
  <1>1. CASE Create
    <2>1. St' = St /\ size' = size /\ open' \in BOOLEAN
      BY <1>1 DEF Create, St, hdr
    <2> QED BY <2>1 DEF IInv
  <1>2. CASE Destroy
    BY <1>2, DestroyGood
  <1>3. ASSUME NEW n \in Sizes, Malloc(n) PROVE IInv'
    BY <1>3, MallocGood
  <1>4. ASSUME NEW a \in Addr, Free(a) PROVE IInv'
    BY <1>4, FreeGood
  <1>5. ASSUME NEW a \in Addr, Write(a) PROVE IInv'
    BY <1>5, WriteGood
  <1>6. ASSUME NEW a \in Addr, NEW n \in Sizes, ReallocInPlace(a, n) PROVE IInv'
    BY <1>6, InPlaceGood
  <1>7. ASSUME NEW a \in Addr, NEW n \in Sizes, ReallocMove(a, n) PROVE IInv'
    BY <1>7, MoveGood
  <1>8. CASE UNCHANGED vars
    <2>1. St' = St /\ size' = size /\ open' = open
      BY <1>8 DEF vars, St, hdr
    <2> QED BY <2>1 DEF IInv
  <1> QED BY <1>1, <1>2, <1>3, <1>4, <1>5, <1>6, <1>7, <1>8 DEF Next

THEOREM Invariance == Spec => []IInv
  BY InitGood, IInvStep, PTL DEF Spec

\* Page headers, lists, sizes and memory have their types, and in a page the
\* counts are within its number of blocks.
THEOREM Typing == Spec => []TypeOK
  <1>1. IInv => TypeOK
    <2> SUFFICES ASSUME IInv PROVE TypeOK
      OBVIOUS
    <2>1. /\ open \in BOOLEAN /\ use \in [Chunk -> {"free", "page", "large"}]
          /\ class \in [Chunk -> Classes \cup {Delegated}]
          /\ bump_index \in [Chunk -> Nat] /\ busy_count \in [Chunk -> Nat]
          /\ free_list \in [Chunk -> Seq(Nat)]
          /\ nonfull_pages \in [Classes -> Seq(Chunk)]
          /\ size \in [Addr -> Sizes \cup {0}] /\ data \in [Addr -> {"data", "junk"}]
      BY DEF IInv, Good, Typed, St
    <2>2. ASSUME NEW c \in Chunk, use[c] = "page"
          PROVE  /\ class[c] \in Classes
                 /\ bump_index[c] \in 0..block_count(class[c])
                 /\ busy_count[c] \in 0..block_count(class[c])
                 /\ free_list[c] \in Seq(Slots(class[c]))
      <3>1. PageOk(class[c], InUse(size, class[c], c), bump_index[c], free_list[c],
                   busy_count[c])
        BY <2>2 DEF IInv, Good, Accounted, St
      <3> QED BY <3>1, PageFacts DEF PageOk
    <2> QED BY <2>1, <2>2 DEF TypeOK
  <1> QED BY <1>1, Invariance, PTL

\* Every block of a page is in use, free, or has never been handed out, one of
\* the three, and busy_count counts the first: page_alloc_small hands out no
\* block twice, page_free_small loses none.
THEOREM EverySlotAccounted == Spec => []SlotsAccounted
  <1>1. IInv => SlotsAccounted
    <2> SUFFICES ASSUME IInv, NEW c \in Chunk, use[c] = "page"
                 PROVE  LET k == class[c]
                            L == InUse(size, k, c)
                            F == Range(free_list[c])
                            B == bump_index[c]..(block_count(k) - 1)
                        IN  /\ L \cup F \cup B = Slots(k)
                            /\ L \cap F = {} /\ L \cap B = {} /\ F \cap B = {}
                            /\ IsInjective(free_list[c])
                            /\ busy_count[c] = Cardinality(L)
      BY DEF SlotsAccounted, InUse
    <2>1. PageOk(class[c], InUse(size, class[c], c), bump_index[c], free_list[c],
                 busy_count[c])
      BY DEF IInv, Good, Accounted, St
    <2> QED BY <2>1 DEF PageOk
  <1> QED BY <1>1, Invariance, PTL

\* The non-full list of a class has just its pages with a block to give, each
\* once, whatever order they filled up and were freed into; none is empty.
THEOREM NonfullListsExact == Spec => []NonfullExact
  <1>1. IInv => NonfullExact
    BY DEF IInv, Good, Listed, Usable, Occupied, NonfullExact, St
  <1> QED BY <1>1, Invariance, PTL

\* The size that the caller passes back tells a block of a page from one of the
\* backend, also after reallocations in place, and fits the block.
THEOREM SizeTellsOrigin == Spec => []RoutedBySize
  <1>1. IInv => RoutedBySize
    BY DEF IInv, Good, Routed, RoutedBySize, Live, St
  <1> QED BY <1>1, Invariance, PTL

-------------------------------------------------------------------------------
(* The refinement *)

\* Each call does what an allocator may do.
LEMMA StepAllocates ==
  IInv /\ IInv' /\ [Next]_vars => [Abstract!Next]_<<open, size, Blocks>>
  <1> SUFFICES ASSUME IInv, IInv', [Next]_vars
               PROVE  [Abstract!Next]_<<open, size, Blocks>>
    OBVIOUS
  <1>1. Blocks = data /\ Blocks' = data'
    <2>1. Blocks = data
      BY BlocksAreData
    <2>2. (Blocks = data)'
      BY BlocksAreData, PTL
    <2> QED BY <2>1, <2>2
  <1>2. Abstract!Live = Live
    BY DEF Abstract!Live, Live
  <1>3. CASE Create
    <2>1. Abstract!Create
      BY <1>1, <1>3 DEF Create, Abstract!Create
    <2> QED BY <2>1 DEF Abstract!Next
  <1>4. CASE Destroy
    <2>1. Abstract!Destroy
      BY <1>1, <1>4, DestroyGood DEF Destroy, Abstract!Destroy
    <2> QED BY <2>1 DEF Abstract!Next
  <1>5. ASSUME NEW n \in Sizes, Malloc(n) PROVE Abstract!Next
    <2>1. PICK p \in Addr : /\ size[p] = 0 /\ \A a \in Live : ~Overlap(a, p)
                            /\ size' = [size EXCEPT ![p] = n]
                            /\ open /\ open' = open /\ data' = data
      BY <1>5, MallocGood
    <2>2. Abstract!Malloc(p, n)
      BY <1>1, <1>2, <2>1 DEF Abstract!Malloc, Abstract!Vacant, Live
    <2> QED BY <2>2 DEF Abstract!Next
  <1>6. ASSUME NEW a \in Addr, Free(a) PROVE Abstract!Next
    <2>1. Abstract!Free(a) /\ a \in Abstract!Live
      BY <1>1, <1>2, <1>6, FreeGood DEF Abstract!Free
    <2> QED BY <2>1 DEF Abstract!Next
  <1>7. ASSUME NEW a \in Addr, Write(a) PROVE Abstract!Next
    <2>1. Abstract!Write(a) /\ a \in Abstract!Live
      BY <1>1, <1>2, <1>7, WriteGood DEF Abstract!Write
    <2> QED BY <2>1 DEF Abstract!Next
  <1>8. ASSUME NEW a \in Addr, NEW n \in Sizes, ReallocInPlace(a, n)
        PROVE  Abstract!Next
    <2>1. /\ a \in Live /\ open' = open /\ data' = data
          /\ size' = [size EXCEPT ![a] = n]
      BY <1>8, InPlaceGood
    <2>2. size \in [Addr -> Sizes \cup {0}] /\ data \in [Addr -> {"data", "junk"}]
      BY DEF IInv, Good, Typed, St
    <2>3. size' = [size EXCEPT ![a] = 0, ![a] = n]
      BY <2>1, <2>2
    <2>4. data' = [data EXCEPT ![a] = "junk", ![a] = data[a]]
      BY <2>1, <2>2
    <2>5. Abstract!Realloc(a, a, n)
      BY <1>1, <1>2, <2>1, <2>3, <2>4 DEF Abstract!Realloc
    <2> QED BY <1>2, <2>1, <2>5 DEF Abstract!Next
  <1>9. ASSUME NEW a \in Addr, NEW n \in Sizes, ReallocMove(a, n)
        PROVE  Abstract!Next
    <2>1. /\ a \in Live /\ open' = open
          /\ \E p \in Addr :
               /\ size[p] = 0 /\ \A b \in Live : ~Overlap(b, p)
               /\ size' = [size EXCEPT ![a] = 0, ![p] = n]
               /\ data' = [data EXCEPT ![a] = "junk", ![p] = data[a]]
      BY <1>9, MoveGood
    <2>2. PICK p \in Addr :
            /\ size[p] = 0 /\ \A b \in Live : ~Overlap(b, p)
            /\ size' = [size EXCEPT ![a] = 0, ![p] = n]
            /\ data' = [data EXCEPT ![a] = "junk", ![p] = data[a]]
      BY <2>1
    <2>3. Abstract!Vacant(p, Live)
      BY <2>2 DEF Abstract!Vacant, Live
    <2>4. Abstract!Realloc(a, p, n)
      BY <1>1, <1>2, <2>1, <2>2, <2>3 DEF Abstract!Realloc
    <2> QED BY <1>2, <2>1, <2>4 DEF Abstract!Next
  <1>10. CASE UNCHANGED vars
    BY <1>1, <1>10 DEF vars
  <1> QED BY <1>3, <1>4, <1>5, <1>6, <1>7, <1>8, <1>9, <1>10 DEF Next

\* The front end implements the promise of a lua_Alloc function: blocks do not
\* overlap, keep what was written to them and take it along when they move.
THEOREM Refinement == Spec => IsAllocator
  <1>1. Init => Abstract!Init
    <2> SUFFICES ASSUME Init PROVE Abstract!Init
      OBVIOUS
    <2>1. Blocks = data
      BY InitGood, BlocksAreData
    <2> QED BY <2>1 DEF Init, Abstract!Init
  <1> QED BY <1>1, StepAllocates, Invariance, PTL DEF Spec, IsAllocator, Abstract!Spec
================================================================================
