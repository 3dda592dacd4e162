-------------------------------- MODULE StrTab --------------------------------
(***************************************************************************)
(* The string interning table of src/lj_str.c and its sweep, one chain per *)
(* collector step, by src/lj_gc.c.  A string is on the chain of its        *)
(* primary, sparse hash, until that chain grows too long: it is flagged    *)
(* then, and the strings that belong to it move to the chains of their     *)
(* secondary, dense hash.                                                  *)
(*                                                                         *)
(* A string object is named by its contents, so that two objects of one    *)
(* contents are beyond the model; that lj_str_new finds every object there *)
(* is (Findable) shows that it never makes the second one.                 *)
(***************************************************************************)
EXTENDS Integers, FiniteSets

CONSTANTS
  Contents,        \* what strings are made of, of one length
  Seeds,           \* what g->str.seed may be
  hash_sparse(_, _), hash_dense(_, _),  \* of a seed and contents
  NULL,
  LJ_STR_MAXCOLL, LJ_MIN_STRTAB, LJ_MAX_STRTAB

Str == [hash : Nat, hashalg : BOOLEAN, chain : Nat,
        marked : {"white", "black", "dead"}]

ASSUME SizeAssumption ==
  /\ LJ_STR_MAXCOLL \in Nat
  /\ LJ_MIN_STRTAB \in Nat \ {0} /\ LJ_MAX_STRTAB \in Nat
  /\ IsFiniteSet(Contents) /\ NULL \notin Str
ASSUME HashAssumption ==
  \A s \in Seeds, c \in Contents :
    hash_sparse(s, c) \in Nat /\ hash_dense(s, c) \in Nat

VARIABLES
  seed,
  mask, num, second,  \* g->str: size - 1, strings, any chain flagged
  flagged,   \* the chains whose anchor has its lowest bit set
  str,       \* of each contents: the object, or NULL
  state,     \* g->gc.state; "mark" stands for all up to GCSatomic
  sweepstr,  \* the chain GCSsweepstring comes to next
  held       \* the strings the program refers to

vars == <<seed, mask, num, second, flagged, str, state, sweepstr, held>>

Interned(s) == {c \in Contents : s[c] # NULL}
\* The table as one value, for the calls that look up and then allocate.
StrState == [mask |-> mask, num |-> num, second |-> second, flagged |-> flagged,
          str |-> str]
Becomes(t) ==
  /\ mask' = t.mask /\ num' = t.num /\ second' = t.second
  /\ flagged' = t.flagged /\ str' = t.str

hash_of(c, alg) == IF alg THEN hash_dense(seed, c) ELSE hash_sparse(seed, c)
\* The chain that object o would be on by its primary hash.
Primary(o, c, m) ==
  (IF o.hashalg THEN hash_sparse(seed, c) ELSE o.hash) % (m + 1)
Rehashed(o, c, alg) ==
  IF o.hashalg = alg THEN o
  ELSE [o EXCEPT !.hashalg = alg, !.hash = hash_of(c, alg)]
Linked(o, m) == [o EXCEPT !.chain = o.hash % (m + 1)]
--------------------------------------------------------------------------------
(* lj_str_resize: which chains are too long is found out anew, and every   *)
(* string goes back to its primary hash or over to its secondary one.      *)
TooLong(t, newmask) ==
  {i \in 0..newmask :
     Cardinality({c \in Interned(t.str) : Primary(t.str[c], c, newmask) = i})
       > LJ_STR_MAXCOLL}

\* Defective: no string ever goes back to its primary hash.
NeverReverted(o, c, flags, newmask) ==
  o.hashalg \/ Primary(o, c, newmask) \in flags
NewAlg(o, c, flags, newmask) == Primary(o, c, newmask) \in flags

lj_str_resize(t, newmask) ==
  LET flags == IF t.second THEN TooLong(t, newmask) ELSE {}
      moved(o, c) ==
        Linked(Rehashed(o, c, NewAlg(o, c, flags, newmask)), newmask) IN
  IF state = "sweepstring" \/ newmask >= LJ_MAX_STRTAB - 1 THEN t
  ELSE [t EXCEPT !.mask = newmask, !.flagged = flags, !.second = flags # {},
                 !.str = [c \in Contents |-> IF t.str[c] = NULL THEN NULL
                                             ELSE moved(t.str[c], c)]]
--------------------------------------------------------------------------------
(* Sweeping: who is alive becomes white, who is dead is freed. *)
Swept(o) == IF o.marked = "dead" THEN NULL ELSE [o EXCEPT !.marked = "white"]
SweepChain(s, i) ==
  [c \in Contents |->
     IF s[c] # NULL /\ s[c].chain = i THEN Swept(s[c]) ELSE s[c]]

\* lj_str_rehash_chain: chain i is flagged and its strings move to the chains
\* of their secondary hashes.  In GCSsweepstring they are swept on the way,
\* as the chains they go to may have been passed already (RehashUnswept, which
\* is defective, does without).
RehashUnswept(t, i) == t.str
RehashSwept(t, i) ==
  IF state = "sweepstring" THEN SweepChain(t.str, i) ELSE t.str

Rechained(t, s, i) ==
  [c \in Contents |-> IF s[c] # NULL /\ s[c].chain = i
                      THEN Linked(Rehashed(s[c], c, TRUE), t.mask) ELSE s[c]]
\* Defective: it is not noted that there are secondary hashes.
RehashUnnoted(t, i) ==
  [t EXCEPT !.flagged = @ \cup {i}, !.str = Rechained(t, RehashSwept(t, i), i)]
lj_str_rehash_chain(t, i) ==
  LET s == RehashSwept(t, i) IN
  [t EXCEPT !.second = TRUE, !.flagged = @ \cup {i},
            !.num = @ - Cardinality(Interned(t.str) \ Interned(s)),
            !.str = Rechained(t, s, i)]
--------------------------------------------------------------------------------
(* lj_str_new. *)
UseSecondary(t, c) == hash_sparse(seed, c) % (t.mask + 1) \in t.flagged
LookupHash(t, c) == hash_of(c, UseSecondary(t, c))
Chain(t, i) == {c \in Interned(t.str) : t.str[c].chain = i}
LookupChain(t, c) == Chain(t, LookupHash(t, c) % (t.mask + 1))
Found(t, c) == c \in LookupChain(t, c) /\ t.str[c].hash = LookupHash(t, c)

Collisions(t, c) ==
  Cardinality(LookupChain(t, c))
    + Cardinality({d \in LookupChain(t, c) : t.str[d].hash = LookupHash(t, c)})

Resurrect(t, c) ==
  IF t.str[c].marked = "dead" THEN [t EXCEPT !.str[c].marked = "white"] ELSE t

lj_str_alloc(t, c) ==
  LET o == [hash |-> LookupHash(t, c), hashalg |-> UseSecondary(t, c),
            chain |-> LookupHash(t, c) % (t.mask + 1), marked |-> "white"]
      added == [t EXCEPT !.str[c] = o, !.num = @ + 1] IN
  IF t.num > t.mask THEN lj_str_resize(added, 2 * t.mask + 1) ELSE added

FindOrAlloc(t, c) ==
  IF Found(t, c) THEN Resurrect(t, c) ELSE lj_str_alloc(t, c)
lj_str_new(t, c) ==
  IF ~Found(t, c) /\ ~UseSecondary(t, c) /\ Collisions(t, c) > LJ_STR_MAXCOLL
  THEN FindOrAlloc(lj_str_rehash_chain(t, LookupHash(t, c) % (t.mask + 1)), c)
  ELSE FindOrAlloc(t, c)
--------------------------------------------------------------------------------
Init ==
  /\ seed \in Seeds
  /\ mask = LJ_MIN_STRTAB - 1 /\ num = 0 /\ second = FALSE /\ flagged = {}
  /\ str = [c \in Contents |-> NULL]
  /\ state = "mark" /\ sweepstr = 0 /\ held = {}

\* The program makes a string, or gets hold of one that is interned.
New(c) ==
  /\ Becomes(lj_str_new(StrState, c))
  /\ held' = held \cup {c}
  /\ UNCHANGED <<seed, state, sweepstr>>

Drop(c) ==
  /\ c \in held /\ held' = held \ {c}
  /\ UNCHANGED <<seed, mask, num, second, flagged, str, state, sweepstr>>

\* The end of the mark phase.  Strings the program has dropped meanwhile may
\* have been marked before.
Atomic(marked) ==
  /\ state = "mark" /\ held \subseteq marked /\ marked \subseteq Interned(str)
  /\ state' = "sweepudata"
  /\ str' = [c \in Contents |->
               IF str[c] = NULL THEN NULL
               ELSE [str[c] EXCEPT !.marked = IF c \in marked THEN "black"
                                                             ELSE "dead"]]
  /\ UNCHANGED <<seed, mask, num, second, flagged, sweepstr, held>>

\* The strings come after the userdata, or at once when a full collection
\* abandons a mark phase, in which all strings are as good as alive.
StartSweep ==
  /\ state \in {"mark", "sweepudata"}
  /\ state' = "sweepstring" /\ sweepstr' = 0
  /\ UNCHANGED <<seed, mask, num, second, flagged, str, held>>

SweepStr ==
  /\ state = "sweepstring"
  /\ str' = SweepChain(str, sweepstr)
  /\ num' = num - Cardinality(Interned(str) \ Interned(str'))
  /\ IF sweepstr + 1 > mask THEN state' = "sweep" /\ sweepstr' = 0
     ELSE sweepstr' = sweepstr + 1 /\ UNCHANGED state
  /\ UNCHANGED <<seed, mask, second, flagged, held>>

\* The other objects are swept: the table may shrink.
EndSweep ==
  /\ state = "sweep" /\ state' = "mark"
  /\ Becomes(IF num <= mask \div 4 /\ mask > LJ_MIN_STRTAB * 2 - 1
             THEN lj_str_resize(StrState, mask \div 2) ELSE StrState)
  /\ UNCHANGED <<seed, sweepstr, held>>

Next ==
  \/ \E c \in Contents : New(c) \/ Drop(c)
  \/ \E marked \in SUBSET Contents : Atomic(marked)
  \/ StartSweep \/ SweepStr \/ EndSweep

Spec == Init /\ [][Next]_vars
--------------------------------------------------------------------------------
\* Type invariant.  A string is linked where its current hash says, and num,
\* by which the table grows and shrinks, is the number of strings.
TypeOK ==
  /\ seed \in Seeds /\ mask \in Nat
  /\ second = (flagged # {}) /\ flagged \subseteq 0..mask
  /\ str \in [Contents -> Str \cup {NULL}] /\ num = Cardinality(Interned(str))
  /\ \A c \in Interned(str) : str[c].chain = str[c].hash % (mask + 1)
  /\ state \in {"mark", "sweepudata", "sweepstring", "sweep"}
  /\ sweepstr \in 0..mask /\ held \subseteq Contents

\* Whichever chains were flagged, whichever strings were moved to another hash
\* and back: lj_str_new finds every string object that is there, and so two
\* equal strings are always one object.
Findable == \A c \in Interned(str) : Found(StrState, c)

\* The sweep is exact, while strings are added, resurrected and moved to other
\* chains behind and before it: no string of the program is freed or left to
\* be freed, no chain that was swept holds a dead string, and none is left in
\* the table when the sweep of the strings is over.
SweepExact ==
  /\ \A c \in held : str[c] # NULL /\ str[c].marked # "dead"
  /\ \A c \in Interned(str) : str[c].marked = "dead" =>
       \/ state = "sweepudata"
       \/ state = "sweepstring" /\ str[c].chain >= sweepstr
================================================================================
