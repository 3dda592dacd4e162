---------------------------------- MODULE Tab ----------------------------------
(***************************************************************************)
(* Lua tables, src/lj_tab.c: an array part for small integers and a        *)
(* chained scatter hash with Brent's variation for all other keys.  A node *)
(* whose value is set to nil keeps its key, and a string key that is dead  *)
(* may be collected: another string can then live at its address, and the  *)
(* old node comes to bear the new string, whose hash differs.              *)
(*                                                                         *)
(* A key of Strs is the address of a string, a key of Ints an integer.     *)
(* What is stored under key k is k itself, which tells it from what is     *)
(* stored under any other key, or NULL, which is nil.                      *)
(***************************************************************************)
EXTENDS Integers, FiniteSets, FiniteSetsExt

CONSTANTS
  Strs, Ints,  \* the keys
  NULL,
  SIDS,        \* the string IDs, which hashstr masks with t->hmask
  HBITS,       \* the sizes lj_tab_new is called with
  MAX_ASIZE    \* bound: the largest size lj_tab_reasize is called with

Keys == Strs \cup Ints

ASSUME KeysAssumption ==
  /\ Ints \subseteq Nat /\ IsFiniteSet(Keys) /\ Strs \cap Ints = {}
  /\ NULL \notin Keys \cup Nat
  /\ SIDS \subseteq Nat /\ HBITS \subseteq Nat /\ MAX_ASIZE \in Nat

VARIABLES
  t,        \* the GCtab: asize, array, hmask, node, freetop
  sid,      \* of each string address: the ID of the string there
  it_state, it_key,  \* a traversal with lj_tab_next, and where it stands
  due,      \* the keys the traversal has yet to come to
  op        \* history: the keys the last operation assigns to, and the value

vars == <<t, sid, it_state, it_key, due, op>>

Assigns(ks, v) == op' = <<ks, v>>
AssignsNone == Assigns({}, NULL)
--------------------------------------------------------------------------------
(* Sizes. *)
fls(x) == Max({b \in 0..x : 2^b <= x})
hsize2hbits(s) == CASE s = 0 -> 0 [] s = 1 -> 1 [] OTHER -> 1 + fls(s - 1)

NilNode == [key |-> NULL, val |-> NULL, next |-> NULL]
HashPart(hbits) == [i \in 0..(2^hbits - 1) |-> NilNode]
NewTab(asize, hbits) ==
  [asize |-> asize, array |-> [i \in 0..(asize - 1) |-> NULL],
   hmask |-> 2^hbits - 1, node |-> HashPart(hbits),
   freetop |-> IF hbits = 0 THEN 0 ELSE 2^hbits]

\* The main position of a key.  The scrambling of numbers is left out.
hashkey(h, k) == (IF k \in Ints THEN k ELSE sid[k]) % (h.hmask + 1)
inarray(h, k) == k \in Ints /\ k < h.asize

\* The nodes from node n on, one after the other, until NULL.
Chain(node, n) ==
  LET next == [i \in DOMAIN node \cup {NULL} |->
                 IF i = NULL THEN NULL ELSE node[i].next]
      c[j \in DOMAIN node] == IF j = 0 THEN n ELSE next[c[j - 1]]
  IN  c

\* The first node that bears key k on its chain, or NULL.
Lookup(h, k) ==
  LET next == [i \in DOMAIN h.node \cup {NULL} |->
                 IF i = NULL \/ h.node[i].key = k THEN i ELSE h.node[i].next]
      at[j \in 0..(h.hmask + 1)] ==
        IF j = 0 THEN hashkey(h, k) ELSE next[at[j - 1]]
  IN  at[h.hmask + 1]

Get(h, k) == LET n == Lookup(h, k) IN
             IF inarray(h, k) THEN h.array[k]
             ELSE IF n = NULL THEN NULL ELSE h.node[n].val

\* What is in the table: the slots of the array part come first, then the
\* nodes.
slot(h, i) ==
  IF i < h.asize THEN [key |-> i, val |-> h.array[i]]
  ELSE [key |-> h.node[i - h.asize].key, val |-> h.node[i - h.asize].val]
Slots(h) == 0..(h.asize + h.hmask)
--------------------------------------------------------------------------------
(* The array part gets the largest size that is used by more than a half. *)
bin(k) == IF k > 2 THEN fls(k - 1) ELSE 0
bestasize(ints) ==
  LET below(b) == {k \in ints : bin(k) <= b}
      halffull == {b \in {bin(k) : k \in ints} : 2 * Cardinality(below(b)) > 2^b}
      best     == Max(halffull) IN
  IF halffull = {} THEN [narray |-> 0, asize |-> 0]
  ELSE [narray |-> Cardinality(below(best)), asize |-> 2^(best + 1) + 1]
--------------------------------------------------------------------------------
(* Inserting a key that is not in the hash part. *)

\* The node behind node f moves to the chain of its main position m.
MoveNext(node, f, m) ==
  LET nn == node[f].next IN
  [node EXCEPT ![f].next = node[nn].next, ![nn].next = node[m].next,
               ![m].next = nn]

\* Rechain pseudo-resurrected string keys, from node f on.  A pass takes a
\* node off the chain or moves on along it: hmask passes reach its end.
RechainAll(h, node, f) ==
  LET pass[j \in DOMAIN node] ==
        IF j = 0 THEN [node |-> node, f |-> f]
        ELSE LET p  == pass[j - 1]
                 nn == p.node[p.f].next
                 mn == hashkey(h, p.node[nn].key) IN
             IF nn = NULL THEN p
             ELSE IF p.node[nn].val # NULL /\ mn \notin {p.f, nn}
             THEN [p EXCEPT !.node = MoveNext(p.node, p.f, mn)]
             ELSE [p EXCEPT !.f = nn]
  IN  pass[h.hmask].node
\* Defective: the evicted node's chain is left as it is.
RechainNever(h, node, f, n) == node
\* They are looked for on the chain of f once node n was vacated.
Rechain(h, node, f, n) ==
  LET c    == Chain(node, f)
      lost == {j \in DOMAIN node \ {0} : /\ c[j] # NULL /\ node[c[j]].val # NULL
                                         /\ hashkey(h, node[c[j]].key) = n}
      last == c[Min(lost) - 1] IN
  IF lost = {} THEN node ELSE RechainAll(h, MoveNext(node, last, n), last)

\* The node before node n on the chain from node m.
Predecessor(node, m, n) ==
  LET c == Chain(node, m) IN
  c[CHOOSE j \in DOMAIN node : c[j] # NULL /\ node[c[j]].next = n]

\* The node that is in the way at main position n moves to free node f.
Evict(h, n, f) ==
  LET pred  == Predecessor(h.node, hashkey(h, h.node[n].key), n)
      moved == [h.node EXCEPT ![pred].next = f, ![f] = h.node[n],
                              ![n].next = NULL, ![n].val = NULL] IN
  [h EXCEPT !.freetop = f, !.node = Rechain(h, moved, f, n)]

\* A free node joins the chain behind its main position n.
Extend(h, n, f) ==
  [h EXCEPT !.freetop = f,
            !.node[f].next = h.node[n].next, !.node[n].next = f]

Fill(h, n, k, v) == [h EXCEPT !.node[n].key = k, !.node[n].val = v]

Free(h) == {i \in 0..(h.freetop - 1) : h.node[i].key = NULL}
newkey(h, k, v) ==
  LET n == hashkey(h, k) IN
  IF h.node[n].val = NULL /\ h.hmask # 0 THEN Fill(h, n, k, v)
  ELSE IF hashkey(h, h.node[n].key) # n
       THEN Fill(Evict(h, n, Max(Free(h))), n, k, v)
       ELSE Fill(Extend(h, n, Max(Free(h))), Max(Free(h)), k, v)

\* The table once v is stored where lj_tab_set has k, if there is room.
\* Defective: a key is dropped along with its value.
StoreErasing(h, k, v) ==
  IF inarray(h, k) THEN [h EXCEPT !.array[k] = v]
  ELSE IF Lookup(h, k) # NULL
       THEN [h EXCEPT !.node[Lookup(h, k)].val = v,
                      !.node[Lookup(h, k)].key = IF v = NULL THEN NULL ELSE k]
  ELSE newkey(h, k, v)
Store(h, k, v) ==
  LET n == Lookup(h, k) IN
  IF inarray(h, k) THEN [h EXCEPT !.array[k] = v]
  ELSE IF n # NULL THEN [h EXCEPT !.node[n].val = v]
  ELSE newkey(h, k, v)

\* Both parts get new sizes, which have room for what moves to the hash part:
\* array slots that are cut off, and the nodes there were.
resize(h, asize, hbits) ==
  LET array == [i \in 0..(asize - 1) |-> IF i < h.asize THEN h.array[i] ELSE NULL]
      moves(i) == /\ i >= IF asize < h.asize THEN asize ELSE h.asize
                  /\ i >= h.asize => h.hmask > 0
                  /\ slot(h, i).val # NULL
      move[i \in 0..(h.asize + h.hmask + 1)] ==  \* before slot i is looked at
        IF i = 0 THEN [NewTab(asize, hbits) EXCEPT !.array = array]
        ELSE LET g == move[i - 1]
                 e == slot(h, i - 1) IN
             IF moves(i - 1) THEN Store(g, e.key, e.val) ELSE g
  IN  move[h.asize + h.hmask + 1]

rehashtab(h, k) ==
  LET keys == {slot(h, i).key : i \in {j \in Slots(h) : slot(h, j).val # NULL}}
      best == bestasize((keys \cup {k}) \cap Ints) IN
  resize(h, best.asize, hsize2hbits(1 + Cardinality(keys) - best.narray))

\* An assignment: lj_tab_newkey makes room first if there is none, once.
HasRoom(h, k) ==
  \/ inarray(h, k) \/ Lookup(h, k) # NULL
  \/ h.node[hashkey(h, k)].val = NULL /\ h.hmask # 0
  \/ Free(h) # {}
Put(h, k, v) == Store(IF HasRoom(h, k) THEN h ELSE rehashtab(h, k), k, v)
--------------------------------------------------------------------------------
(* Traversal, in the order of the slots. *)

\* The index of the successor of a key, none for a key that is not there.
keyindex(h, k) ==
  IF k = NULL THEN {0}
  ELSE IF inarray(h, k) THEN {k + 1}
  ELSE IF Lookup(h, k) = NULL THEN {} ELSE {h.asize + Lookup(h, k) + 1}
\* The indexes of the entries that are left after key k.
Rest(h, k) == {i \in Slots(h) :
                 slot(h, i).val # NULL /\ \E j \in keyindex(h, k) : i >= j}
--------------------------------------------------------------------------------
(* The length of a table: some n with t[n] not nil and t[n+1] nil. *)
\* full: the integers that are known not to be nil.
Bisect(full, lo, hi) ==
  LET range[j \in 0..(hi - lo)] ==
        IF j = 0 THEN <<lo, hi>>
        ELSE LET r   == range[j - 1]
                 mid == (r[1] + r[2]) \div 2 IN
             IF r[2] - r[1] <= 1 THEN r
             ELSE IF mid \in full THEN <<mid, r[2]>> ELSE <<r[1], mid>>
  IN  range[hi - lo][1]
\* The upper bound doubles until it is nil.  Past 0x7fffffff-2 the code counts
\* up from 1 instead, to a border too; that is left out.
Widen(full, lo, hi) ==
  LET n == Max(full \cup {0})
      range[j \in 0..n] ==
        IF j = 0 THEN <<lo, hi>>
        ELSE LET r == range[j - 1] IN
             IF r[2] \in full THEN <<r[2], r[2] + r[2]>> ELSE r
  IN  Bisect(full, range[n][1], range[n][2])

NonNil(h) == {k \in Ints : Get(h, k) # NULL}
\* Defective: a full array part is taken for the whole table.
lenArray(h) ==
  LET hi == IF h.asize > 0 THEN h.asize - 1 ELSE 0 IN
  IF hi > 0 /\ h.array[hi] = NULL THEN Bisect(NonNil(h), 0, hi) ELSE hi
len(h) ==
  LET hi == IF h.asize > 0 THEN h.asize - 1 ELSE 0 IN
  IF hi > 0 /\ h.array[hi] = NULL THEN Bisect(NonNil(h), 0, hi)
  ELSE IF h.hmask > 0 THEN Widen(NonNil(h), hi, hi + 1) ELSE hi
len_hint(h, hint) ==
  LET full(i) == h.array[i] # NULL IN
  IF IF hint + 1 < h.asize THEN full(hint) /\ ~full(hint + 1)
     ELSE hint + 1 <= h.asize /\ h.hmask = 0 /\ full(hint)
  THEN hint ELSE len(h)
--------------------------------------------------------------------------------
Init ==
  /\ \E b \in HBITS : t = NewTab(0, b)
  /\ sid \in [Strs -> SIDS]
  /\ it_state = "none" /\ it_key = NULL /\ due = {} /\ op = <<{}, NULL>>

NoTraversal == it_state' = "none" /\ it_key' = NULL /\ due' = {}

\* An assignment.  It may set fields that exist during a traversal, to nil
\* too, but a traversal is given up when a field is added.
Set(k, v) ==
  /\ t' = Put(t, k, v)
  /\ IF Get(t, k) = NULL /\ it_state = "on" THEN NoTraversal
     ELSE /\ due' = IF v = NULL THEN due \ {k} ELSE due
          /\ UNCHANGED <<it_state, it_key>>
  /\ Assigns({k}, v) /\ UNCHANGED sid

\* Defective: the free pointer is left where it was.
ClearKeepingFreetop ==
  /\ t' = [t EXCEPT !.array = [i \in DOMAIN @ |-> NULL],
                    !.node = [i \in DOMAIN @ |-> NilNode]]
  /\ NoTraversal /\ Assigns(Keys, NULL) /\ UNCHANGED sid
lj_tab_clear ==
  /\ t' = [t EXCEPT !.array = [i \in DOMAIN @ |-> NULL],
                    !.node = [i \in DOMAIN @ |-> NilNode],
                    !.freetop = IF t.hmask > 0 THEN t.hmask + 1 ELSE 0]
  /\ NoTraversal /\ Assigns(Keys, NULL) /\ UNCHANGED sid

\* The array part grows before many elements are stored at once.
lj_tab_reasize(n) ==
  /\ n + 1 > t.asize
  /\ t' = resize(t, n + 1, IF t.hmask > 0 THEN fls(t.hmask) + 1 ELSE 0)
  /\ NoTraversal /\ AssignsNone /\ UNCHANGED sid

\* The collector frees a string that no value refers to, though a node may
\* still bear it as its key, and a new string is allocated at its address.
Recycle(s, id) ==
  /\ Get(t, s) = NULL /\ s # it_key /\ id # sid[s]
  /\ sid' = [sid EXCEPT ![s] = id]
  /\ AssignsNone /\ UNCHANGED <<t, it_state, it_key, due>>

StartTraversal ==
  /\ it_state # "on"
  /\ it_state' = "on" /\ it_key' = NULL
  /\ due' = {k \in Keys : Get(t, k) # NULL}
  /\ AssignsNone /\ UNCHANGED <<t, sid>>

lj_tab_next ==
  /\ it_state = "on"
  /\ IF keyindex(t, it_key) = {}
     THEN it_state' = "invalid" /\ it_key' = NULL /\ due' = {}
     ELSE IF Rest(t, it_key) = {}
     THEN it_state' = "done" /\ it_key' = NULL /\ UNCHANGED due
     ELSE /\ it_key' = slot(t, Min(Rest(t, it_key))).key
          /\ due' = due \ {it_key'}
          /\ UNCHANGED it_state
  /\ AssignsNone /\ UNCHANGED <<t, sid>>

Next ==
  \/ \E k \in Keys : Set(k, k) \/ Set(k, NULL)
  \/ lj_tab_clear
  \/ \E n \in 0..MAX_ASIZE : lj_tab_reasize(n)
  \/ \E s \in Strs, id \in SIDS : Recycle(s, id)
  \/ StartTraversal \/ lj_tab_next

Spec == Init /\ [][Next]_vars
--------------------------------------------------------------------------------
\* Type invariant.  Every node from the free pointer up has been taken, so
\* that none is lost to lj_tab_newkey, and the hash part has at most the
\* size that the keys call for.
TypeOK ==
  /\ t.asize \in Nat /\ t.array \in [0..(t.asize - 1) -> Keys \cup {NULL}]
  /\ \E b \in HBITS \cup 0..(1 + fls(Cardinality(Keys))) : t.hmask = 2^b - 1
  /\ t.node \in [0..t.hmask -> [key : Keys \cup {NULL}, val : Keys \cup {NULL},
                                next : 0..t.hmask \cup {NULL}]]
  /\ t.freetop \in 0..(t.hmask + 1)
  /\ t.hmask > 0 => \A i \in t.freetop..t.hmask : t.node[i].key # NULL
  /\ sid \in [Strs -> SIDS]
  /\ it_state \in {"none", "on", "done", "invalid"}
  /\ it_key \in Keys \cup {NULL} /\ due \subseteq Keys
  /\ op \in (SUBSET Keys) \X (Keys \cup {NULL})

\* Whatever lj_tab_newkey evicts and rechains, however lj_tab_resize moves
\* entries between the two parts, and whichever strings come to live where
\* dead keys were: lj_tab_get finds under a key what was last assigned to it,
\* an assignment changes what it finds for no other key, lj_tab_clear leaves
\* nothing to find, and resizes, traversals and new strings change nothing.
ValueOf(k) == k
Promise == INSTANCE Table WITH Value <- ValueOf,
                               map <- [k \in Keys |-> Get(t, k)]
IsTable == Promise!Spec

\* A traversal during which fields are only assigned to or cleared comes to
\* every field that is there all the time exactly once, to none that was
\* cleared before, and never loses its place (lj_tab_next returning -1).  It
\* ends, as what comes next is always a field it has not come to yet.
TraversalExact ==
  [][/\ it_state = "on" /\ Rest(t, it_key) # {}
        => slot(t, Min(Rest(t, it_key))).key \in due
     /\ it_key' # it_key /\ it_key' # NULL => it_key' \in due
     /\ it_state' = "done" /\ it_state = "on" => due = {}
     /\ it_state' # "invalid"]_vars

\* lj_tab_len, and lj_tab_len_hint given any hint, return a border: t[n] is
\* not nil unless n is 0, and t[n+1] is nil, in whichever part they are.
LenIsBorder ==
  \A n \in {len(t)} \cup {len_hint(t, i) : i \in 0..t.asize} :
    (n > 0 => n \in NonNil(t)) /\ n + 1 \notin NonNil(t)
================================================================================
