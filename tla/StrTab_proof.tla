----------------------------- MODULE StrTab_proof -----------------------------
(* Theorems about StrTab for any contents, hashes and sizes. *)
EXTENDS StrTab, FiniteSetTheorems, TLAPS

(***************************************************************************)
(* The inductive invariant.  What makes Findable true is that a string has *)
(* the secondary hash exactly if the chain of its primary hash is flagged: *)
(* this is what a lookup goes by.                                          *)
(***************************************************************************)
Hashed(t) ==
  \A c \in Interned(t.str) :
    /\ t.str[c].hashalg = (hash_sparse(seed, c) % (t.mask + 1) \in t.flagged)
    /\ t.str[c].hash = hash_of(c, t.str[c].hashalg)
    /\ t.str[c].chain = t.str[c].hash % (t.mask + 1)

Typed(t) ==
  /\ t \in [mask : Nat, num : Nat, second : BOOLEAN, flagged : SUBSET Nat,
            str : [Contents -> Str \cup {NULL}]]
  /\ t.flagged \subseteq 0..t.mask /\ t.second = (t.flagged # {})
  /\ t.num = Cardinality(Interned(t.str))

Good(t) == Typed(t) /\ Hashed(t)

\* No dead string behind the sweep.
Exact(t) ==
  \A c \in Interned(t.str) : t.str[c].marked = "dead" =>
    \/ state = "sweepudata"
    \/ state = "sweepstring" /\ t.str[c].chain >= sweepstr
\* The strings of H are there, and not dead.
Kept(t, H) == \A c \in H : t.str[c] # NULL /\ t.str[c].marked # "dead"

Control ==
  /\ seed \in Seeds /\ state \in {"mark", "sweepudata", "sweepstring", "sweep"}
  /\ sweepstr \in 0..mask /\ held \subseteq Contents
  /\ state # "sweepstring" => sweepstr = 0

IInv == Control /\ Good(StrState) /\ Exact(StrState) /\ Kept(StrState, held)

LEMMA Modulus == \A n \in Nat, m \in Nat : n % (m + 1) \in 0..m
  OBVIOUS

LEMMA HashNat ==
  ASSUME seed \in Seeds, NEW c \in Contents, NEW alg \in BOOLEAN
  PROVE  hash_of(c, alg) \in Nat /\ hash_sparse(seed, c) \in Nat
  BY HashAssumption DEF hash_of

LEMMA FiniteInterned ==
  ASSUME NEW s
  PROVE  /\ IsFiniteSet(Interned(s)) /\ Cardinality(Interned(s)) \in Nat
  <1>1. IsFiniteSet(Interned(s))
    BY FS_Subset, SizeAssumption DEF Interned
  <1> QED BY <1>1, FS_CardinalityType

\* Taking strings out of the table: num goes down by as many as were freed.
LEMMA Removed ==
  ASSUME NEW s, NEW r, Interned(r) \subseteq Interned(s)
  PROVE  Cardinality(Interned(r)) =
           Cardinality(Interned(s)) - Cardinality(Interned(s) \ Interned(r))
  <1>1. /\ IsFiniteSet(Interned(s)) /\ Cardinality(Interned(s)) \in Nat
        /\ Cardinality(Interned(r)) \in Nat
    BY FiniteInterned
  <1>2. Cardinality(Interned(s) \ Interned(r)) =
          Cardinality(Interned(s)) - Cardinality(Interned(s) \cap Interned(r))
    BY <1>1, FS_Difference
  <1>3. Interned(s) \cap Interned(r) = Interned(r)
    OBVIOUS
  <1> QED BY <1>1, <1>2, <1>3

\* What the operations on the table keep: the invariant, and every string that
\* was there, unless it was dead and is swept.
Same(t, r) ==
  /\ Interned(r.str) = Interned(t.str)
  /\ \A c \in Interned(t.str) : r.str[c].marked = t.str[c].marked

LEMMA LinkedType ==
  ASSUME seed \in Seeds, NEW o \in Str, NEW c \in Contents,
         NEW alg \in BOOLEAN, NEW m \in Nat,
         o.hash = hash_of(c, o.hashalg)
  PROVE  LET r == Linked(Rehashed(o, c, alg), m) IN
         /\ r \in Str /\ r.marked = o.marked /\ r.hashalg = alg
         /\ r.hash = hash_of(c, alg) /\ r.chain = r.hash % (m + 1)
         /\ r # NULL
  <1> DEFINE p == Rehashed(o, c, alg)
  <1>1. p \in Str /\ p.marked = o.marked /\ p.hashalg = alg
        /\ p.hash = hash_of(c, alg)
    BY HashNat DEF Rehashed, Str
  <1>2. p.hash % (m + 1) \in Nat
    BY <1>1, Modulus DEF Str
  <1> HIDE DEF p
  <1>3. Linked(p, m) \in Str /\ Linked(p, m).marked = p.marked
        /\ Linked(p, m).hashalg = p.hashalg /\ Linked(p, m).hash = p.hash
        /\ Linked(p, m).chain = p.hash % (m + 1)
    BY <1>1, <1>2 DEF Linked, Str
  <1>4. Linked(p, m) # NULL
    BY <1>3, SizeAssumption
  <1> QED BY <1>1, <1>3, <1>4 DEF p

LEMMA ResizeGood ==
  ASSUME seed \in Seeds, NEW t, Good(t), NEW m \in Nat
  PROVE  LET r == lj_str_resize(t, m) IN
         Good(r) /\ Same(t, r) /\ (state = "sweepstring" => r = t)
  <1> DEFINE r == lj_str_resize(t, m)
             flags == IF t.second THEN TooLong(t, m) ELSE {}
             alg(c) == NewAlg(t.str[c], c, flags, m)
             moved(c) == Linked(Rehashed(t.str[c], c, alg(c)), m)
  <1>1. CASE state = "sweepstring" \/ m >= LJ_MAX_STRTAB - 1
    BY <1>1 DEF lj_str_resize, Same
  <1>2. CASE ~(state = "sweepstring" \/ m >= LJ_MAX_STRTAB - 1)
    <2>1. flags \subseteq 0..m
      BY DEF TooLong
    <2>2. r = [t EXCEPT !.mask = m, !.flagged = flags, !.second = flags # {},
                        !.str = [c \in Contents |-> IF t.str[c] = NULL
                                                    THEN NULL ELSE moved(c)]]
      BY <1>2 DEF lj_str_resize
    <2>3. /\ r.mask = m /\ r.flagged = flags /\ r.second = (flags # {})
          /\ r.num = t.num
          /\ r.str = [c \in Contents |-> IF t.str[c] = NULL
                                         THEN NULL ELSE moved(c)]
      BY <2>2 DEF Good, Typed
    <2>4. ASSUME NEW c \in Interned(t.str)
          PROVE  /\ moved(c) \in Str /\ moved(c).marked = t.str[c].marked
                 /\ moved(c).hashalg = (hash_sparse(seed, c) % (m + 1) \in flags)
                 /\ moved(c).hash = hash_of(c, moved(c).hashalg)
                 /\ moved(c).chain = moved(c).hash % (m + 1)
                 /\ moved(c) # NULL
      <3>1. c \in Contents /\ t.str[c] \in Str
        BY DEF Good, Typed, Interned
      <3>2. t.str[c].hash = hash_of(c, t.str[c].hashalg)
        BY DEF Good, Hashed
      <3>3. alg(c) = (hash_sparse(seed, c) % (m + 1) \in flags)
        BY <3>1, <3>2 DEF NewAlg, Primary, hash_of, Str
      <3> HIDE DEF alg, flags
      <3>4. alg(c) \in BOOLEAN
        BY <3>3
      <3>5. /\ moved(c) \in Str /\ moved(c).marked = t.str[c].marked
            /\ moved(c).hashalg = alg(c) /\ moved(c).hash = hash_of(c, alg(c))
            /\ moved(c).chain = moved(c).hash % (m + 1) /\ moved(c) # NULL
        BY <3>1, <3>2, <3>4, LinkedType
      <3> HIDE DEF moved
      <3> QED BY <3>3, <3>5
    <2> HIDE DEF r, flags, moved, alg
    <2>5. /\ \A c \in Interned(t.str) : c \in Contents /\ r.str[c] = moved(c)
          /\ \A c \in Contents : c \notin Interned(t.str) => r.str[c] = NULL
      BY <2>3 DEF Interned
    <2>6. Interned(r.str) = Interned(t.str)
      BY <2>4, <2>5 DEF Interned
    <2>7. Same(t, r)
      BY <2>4, <2>5, <2>6 DEF Same
    <2>8. Hashed(r)
      BY <2>3, <2>4, <2>5, <2>6 DEF Hashed
    <2>9. r.str \in [Contents -> Str \cup {NULL}]
      BY <2>3, <2>4, <2>5 DEF Interned
    <2>10. r \in [mask : Nat, num : Nat, second : BOOLEAN,
                  flagged : SUBSET Nat, str : [Contents -> Str \cup {NULL}]]
      <3>1. flags \in SUBSET Nat
        BY <2>1
      <3> QED BY <2>2, <2>9, <2>3, <3>1 DEF Good, Typed
    <2>11. Typed(r)
      BY <2>1, <2>3, <2>6, <2>10 DEF Typed, Good
    <2> QED BY <1>2, <2>7, <2>8, <2>11 DEF Good, r
  <1> QED BY <1>1, <1>2

LEMMA RehashGood ==
  ASSUME Control, NEW t, Good(t), Exact(t), NEW i \in 0..t.mask
  PROVE  LET r == lj_str_rehash_chain(t, i) IN
         /\ Good(r) /\ Exact(r) /\ r.mask = t.mask /\ i \in r.flagged
         /\ \A c \in Interned(t.str) :
              t.str[c].marked # "dead" =>
                r.str[c] # NULL /\ r.str[c].marked # "dead"
  <1> DEFINE s == RehashSwept(t, i)
             r == lj_str_rehash_chain(t, i)
             moved(c) == Linked(Rehashed(s[c], c, TRUE), t.mask)
             flags == t.flagged \cup {i}
             sweeping == state = "sweepstring"
  <1>1. /\ s \in [Contents -> Str \cup {NULL}]
        /\ \A c \in Contents : t.str[c] = NULL => s[c] = NULL
        /\ \A c \in Interned(t.str) :
             IF sweeping /\ t.str[c].chain = i
             THEN IF t.str[c].marked = "dead" THEN s[c] = NULL
                  ELSE s[c] = [t.str[c] EXCEPT !.marked = "white"]
             ELSE s[c] = t.str[c]
    <2>1. t.str \in [Contents -> Str \cup {NULL}]
      BY DEF Good, Typed
    <2>2. CASE sweeping
      <3>1. s = [c \in Contents |->
                   IF t.str[c] # NULL /\ t.str[c].chain = i
                   THEN Swept(t.str[c]) ELSE t.str[c]]
        BY <2>2 DEF RehashSwept, SweepChain
      <3>2. \A c \in Interned(t.str) : Swept(t.str[c]) \in Str \cup {NULL}
        BY <2>1 DEF Swept, Str, Interned
      <3>3. \A c \in Contents : s[c] \in Str \cup {NULL}
        BY <2>1, <3>1, <3>2 DEF Interned
      <3> QED BY <2>1, <2>2, <3>1, <3>3 DEF Swept, Interned
    <2>3. CASE ~sweeping
      BY <2>1, <2>3 DEF RehashSwept, Interned
    <2> QED BY <2>2, <2>3
  <1>2. /\ r.mask = t.mask /\ r.flagged = flags /\ r.second = TRUE
        /\ r.num = t.num - Cardinality(Interned(t.str) \ Interned(s))
        /\ r.str = [c \in Contents |->
                      IF s[c] # NULL /\ s[c].chain = i THEN moved(c) ELSE s[c]]
    <2>1. t \in [mask : Nat, num : Nat, second : BOOLEAN, flagged : SUBSET Nat,
                 str : [Contents -> Str \cup {NULL}]]
      BY DEF Good, Typed
    <2>2. r = [t EXCEPT !.second = TRUE, !.flagged = flags,
                        !.num = t.num - Cardinality(Interned(t.str) \ Interned(s)),
                        !.str = Rechained(t, s, i)]
      BY DEF lj_str_rehash_chain
    <2> HIDE DEF r
    <2>3. r.str = Rechained(t, s, i)
      BY <2>1, <2>2
    <2>4. r.str = [c \in Contents |->
                     IF s[c] # NULL /\ s[c].chain = i THEN moved(c) ELSE s[c]]
      BY <2>3 DEF Rechained
    <2> HIDE DEF s, moved
    <2>5. /\ r.mask = t.mask /\ r.flagged = flags /\ r.second = TRUE
          /\ r.num = t.num - Cardinality(Interned(t.str) \ Interned(s))
      BY <2>1, <2>2
    <2> QED BY <2>4, <2>5
  <1>3. r = [t EXCEPT !.second = TRUE, !.flagged = flags,
                      !.num = r.num, !.str = r.str]
    <2>1. r = [t EXCEPT !.second = TRUE, !.flagged = flags,
                        !.num = t.num - Cardinality(Interned(t.str) \ Interned(s)),
                        !.str = Rechained(t, s, i)]
      BY DEF lj_str_rehash_chain
    <2>2. r.str = Rechained(t, s, i)
      BY <2>1 DEF Good, Typed
    <2> HIDE DEF r, s
    <2> QED BY <1>2, <2>1, <2>2
  <1>4. ASSUME NEW c \in Interned(s)
        PROVE  /\ c \in Interned(t.str) /\ c \in Contents /\ s[c] \in Str
               /\ s[c].hashalg = t.str[c].hashalg
               /\ s[c].hash = t.str[c].hash /\ s[c].chain = t.str[c].chain
    <2>1. c \in Interned(t.str) /\ c \in Contents /\ s[c] \in Str
      BY <1>1 DEF Interned
    <2>2. t.str[c] \in Str
      BY <2>1 DEF Good, Typed, Interned
    <2> QED BY <1>1, <2>1, <2>2 DEF Interned, Str
  <1>5. ASSUME NEW c \in Interned(s), s[c].chain = i
        PROVE  /\ moved(c) \in Str /\ moved(c).marked = s[c].marked
               /\ moved(c).hashalg = TRUE /\ moved(c).hash = hash_of(c, TRUE)
               /\ moved(c).chain = moved(c).hash % (t.mask + 1)
               /\ moved(c) # NULL
    <2>1. s[c].hash = hash_of(c, s[c].hashalg)
      BY <1>4 DEF Good, Hashed
    <2>2. seed \in Seeds /\ t.mask \in Nat
      BY DEF Control, Good, Typed
    <2>3. s[c] \in Str /\ c \in Contents
      BY <1>4
    <2> DEFINE o == s[c]  m == t.mask
    <2>4. /\ seed \in Seeds /\ o \in Str /\ c \in Contents /\ TRUE \in BOOLEAN
          /\ m \in Nat /\ o.hash = hash_of(c, o.hashalg)
      BY <2>1, <2>2, <2>3
    <2> HIDE DEF o, m
    <2>5. LET p == Linked(Rehashed(o, c, TRUE), m) IN
          /\ p \in Str /\ p.marked = o.marked /\ p.hashalg = TRUE
          /\ p.hash = hash_of(c, TRUE) /\ p.chain = p.hash % (m + 1)
          /\ p # NULL
      BY ONLY <2>4, LinkedType
    <2> QED BY <2>5 DEF o, m
  <1> HIDE DEF s, r, moved
  <1>6. Interned(r.str) = Interned(s)
    BY <1>2, <1>5 DEF Interned
  <1>7. Hashed(r)
    <2> SUFFICES ASSUME NEW c \in Interned(s)
                 PROVE  /\ r.str[c].hashalg =
                             (hash_sparse(seed, c) % (r.mask + 1) \in r.flagged)
                        /\ r.str[c].hash = hash_of(c, r.str[c].hashalg)
                        /\ r.str[c].chain = r.str[c].hash % (r.mask + 1)
      BY <1>6 DEF Hashed
    <2> DEFINE p == hash_sparse(seed, c) % (t.mask + 1)
    <2>1. /\ t.str[c].hashalg = (p \in t.flagged)
          /\ t.str[c].hash = hash_of(c, t.str[c].hashalg)
          /\ t.str[c].chain = t.str[c].hash % (t.mask + 1)
      BY <1>4 DEF Good, Hashed
    <2>2. s[c].hashalg \in BOOLEAN /\ s[c] # NULL /\ c \in Contents
      BY <1>4 DEF Str, Interned
    <2>3. CASE s[c].chain = i
      <3>1. r.str[c] = moved(c)
        BY <1>2, <2>2, <2>3
      <3>2. p \in flags
        <4>1. CASE t.str[c].hashalg
          BY <2>1, <4>1
        <4>2. CASE ~t.str[c].hashalg
          BY <1>4, <2>1, <2>3, <4>2 DEF hash_of
        <4> QED BY <4>1, <4>2
      <3>3. r.str[c].hashalg = TRUE /\ r.str[c].hash = hash_of(c, TRUE)
            /\ r.str[c].chain = r.str[c].hash % (t.mask + 1)
        BY <1>5, <2>3, <3>1
      <3> HIDE DEF flags, p
      <3> QED BY <1>2, <3>2, <3>3 DEF flags, p
    <2>4. CASE s[c].chain # i
      <3>1. r.str[c] = s[c]
        BY <1>2, <2>2, <2>4
      <3>2. p # i \/ s[c].hashalg
        BY <1>4, <2>1, <2>4 DEF hash_of
      <3>3. s[c].hashalg = (p \in flags)
        <4>1. CASE s[c].hashalg
          BY <1>4, <2>1, <4>1
        <4>2. CASE ~s[c].hashalg
          BY <1>4, <2>1, <3>2, <4>2
        <4> QED BY <2>2, <4>1, <4>2
      <3> QED BY <1>2, <1>4, <2>1, <3>1, <3>3
    <2> QED BY <2>3, <2>4
  <1>8. Typed(r)
    <2>1. r.str \in [Contents -> Str \cup {NULL}]
      <3>1. \A c \in Contents : s[c] = NULL \/ c \in Interned(s)
        BY DEF Interned
      <3>2. \A c \in Contents :
              (IF s[c] # NULL /\ s[c].chain = i THEN moved(c) ELSE s[c])
                 \in Str \cup {NULL}
        BY <1>1, <1>5, <3>1
      <3> QED BY <1>2, <3>2
    <2>2. r.num = Cardinality(Interned(r.str)) /\ r.num \in Nat
      <3>1. Interned(s) \subseteq Interned(t.str)
        BY <1>4
      <3>2. Cardinality(Interned(s)) =
              Cardinality(Interned(t.str))
                - Cardinality(Interned(t.str) \ Interned(s))
        BY <3>1, Removed
      <3> QED BY <1>2, <1>6, <3>2, FiniteInterned DEF Good, Typed
    <2>3. flags \subseteq 0..t.mask /\ flags # {} /\ flags \in SUBSET Nat
      BY DEF Good, Typed
    <2>4. t.mask \in Nat
      BY DEF Good, Typed
    <2>5. r \in [mask : Nat, num : Nat, second : BOOLEAN,
                 flagged : SUBSET Nat, str : [Contents -> Str \cup {NULL}]]
      BY <1>3, <2>1, <2>2, <2>3 DEF Good, Typed
    <2> QED BY <1>2, <2>2, <2>3, <2>5 DEF Typed
  <1>9. ASSUME NEW c \in Interned(t.str), t.str[c].marked # "dead"
        PROVE  r.str[c] # NULL /\ r.str[c].marked # "dead"
    <2>1. t.str[c] \in Str /\ c \in Contents
      BY DEF Good, Typed, Interned
    <2>2. s[c] # NULL /\ s[c].marked # "dead"
      <3>1. CASE sweeping /\ t.str[c].chain = i
        <4>1. s[c] = [t.str[c] EXCEPT !.marked = "white"]
          BY <1>1, <1>9, <3>1
        <4>2. s[c] \in Str /\ s[c].marked = "white"
          BY <2>1, <4>1 DEF Str
        <4> QED BY <4>2, SizeAssumption
      <3>2. CASE ~(sweeping /\ t.str[c].chain = i)
        BY <1>1, <1>9, <3>2 DEF Interned
      <3> QED BY <3>1, <3>2
    <2>3. c \in Interned(s)
      BY <2>1, <2>2 DEF Interned
    <2>4. r.str[c] = IF s[c] # NULL /\ s[c].chain = i THEN moved(c) ELSE s[c]
      BY <1>2, <2>1
    <2>5. CASE s[c].chain = i
      <3>1. moved(c) # NULL /\ moved(c).marked = s[c].marked
        BY <1>5, <2>3, <2>5
      <3> QED BY <2>2, <2>4, <2>5, <3>1
    <2>6. CASE s[c].chain # i
      BY <2>2, <2>4, <2>6
    <2> QED BY <2>5, <2>6
  <1>10. Exact(r)
    <2> SUFFICES ASSUME NEW c \in Interned(s), r.str[c].marked = "dead"
                 PROVE  \/ state = "sweepudata"
                        \/ state = "sweepstring" /\ r.str[c].chain >= sweepstr
      BY <1>6 DEF Exact
    <2>1. c \in Contents /\ s[c] # NULL /\ c \in Interned(t.str)
      BY <1>4 DEF Interned
    <2>2. s[c].marked = "dead"
      BY <1>2, <1>5, <2>1
    <2>3. ~(sweeping /\ s[c].chain = i)
      <3> SUFFICES ASSUME sweeping, s[c].chain = i PROVE FALSE
        OBVIOUS
      <3>1. t.str[c].chain = i /\ t.str[c] \in Str
        BY <1>4, <2>1 DEF Good, Typed, Interned
      <3>2. s[c] = [t.str[c] EXCEPT !.marked = "white"]
        BY <1>1, <2>1, <3>1
      <3> QED BY <2>2, <3>1, <3>2 DEF Str
    <2>4. t.str[c].marked = "dead"
      BY <1>1, <1>4, <2>1, <2>2, <2>3
    <2>5. CASE ~sweeping
      BY <2>1, <2>4, <2>5 DEF Exact
    <2>6. CASE sweeping
      BY <1>1, <1>2, <1>4, <2>1, <2>3, <2>4, <2>6 DEF Exact
    <2> QED BY <2>5, <2>6
  <1> QED BY <1>2, <1>7, <1>8, <1>9, <1>10 DEF Good, r

\* Strings that were alive stay so, and the table keeps its size during the
\* sweep of the strings.
Alive(t, c) == t.str[c] # NULL /\ t.str[c].marked # "dead"
Keeps(t, r) ==
  /\ \A c \in Contents : Alive(t, c) => Alive(r, c)
  /\ state = "sweepstring" => r.mask = t.mask

\* A lookup goes by the flag of the primary chain, and so finds what is there.
LEMMA FoundIfThere ==
  ASSUME seed \in Seeds, NEW t, Good(t), NEW c \in Interned(t.str)
  PROVE  Found(t, c)
  <1>1. c \in Contents /\ t.str[c] \in Str
    BY DEF Good, Typed, Interned
  <1>2. UseSecondary(t, c) = t.str[c].hashalg
    BY DEF UseSecondary, Good, Hashed
  <1>3. LookupHash(t, c) = t.str[c].hash
    BY <1>2 DEF LookupHash, Good, Hashed
  <1>4. t.str[c].chain = t.str[c].hash % (t.mask + 1)
    BY DEF Good, Hashed
  <1> QED BY <1>3, <1>4 DEF Found, LookupChain, Chain

LEMMA ResizeExact ==
  ASSUME Control, NEW t, Good(t), Exact(t), NEW m \in Nat
  PROVE  LET r == lj_str_resize(t, m) IN
         Good(r) /\ Exact(r) /\ Keeps(t, r)
  <1> DEFINE r == lj_str_resize(t, m)
  <1>1. Good(r) /\ Same(t, r) /\ (state = "sweepstring" => r = t)
    BY ResizeGood DEF Control
  <1> HIDE DEF r
  <1>2. Exact(r)
    <2>1. CASE state = "sweepstring"
      BY <1>1, <2>1
    <2>2. CASE state # "sweepstring"
      BY <1>1, <2>2 DEF Exact, Same
    <2> QED BY <2>1, <2>2
  <1>3. Keeps(t, r)
    BY <1>1 DEF Keeps, Alive, Same, Interned
  <1> QED BY <1>1, <1>2, <1>3 DEF r

LEMMA AllocGood ==
  ASSUME Control, NEW t, Good(t), Exact(t), NEW c \in Contents,
         t.str[c] = NULL
  PROVE  LET r == lj_str_alloc(t, c) IN
         Good(r) /\ Exact(r) /\ Keeps(t, r) /\ Alive(r, c)
  <1> DEFINE o == [hash |-> LookupHash(t, c), hashalg |-> UseSecondary(t, c),
                   chain |-> LookupHash(t, c) % (t.mask + 1),
                   marked |-> "white"]
             a == [t EXCEPT !.str[c] = o, !.num = @ + 1]
  <1>1. /\ t \in [mask : Nat, num : Nat, second : BOOLEAN,
                  flagged : SUBSET Nat, str : [Contents -> Str \cup {NULL}]]
        /\ t.flagged \subseteq 0..t.mask /\ t.second = (t.flagged # {})
        /\ t.num = Cardinality(Interned(t.str))
    BY DEF Good, Typed
  <1>2. o \in Str /\ o # NULL /\ o.marked # "dead"
        /\ o.hashalg = (hash_sparse(seed, c) % (t.mask + 1) \in t.flagged)
        /\ o.hash = hash_of(c, o.hashalg) /\ o.chain = o.hash % (t.mask + 1)
    <2>1. UseSecondary(t, c) \in BOOLEAN
      BY DEF UseSecondary
    <2>2. LookupHash(t, c) \in Nat
      BY <2>1, HashNat DEF LookupHash, Control
    <2>3. LookupHash(t, c) % (t.mask + 1) \in Nat
      BY <1>1, <2>2, Modulus
    <2>4. o \in Str
      BY <2>1, <2>2, <2>3 DEF Str
    <2> QED BY <2>4, SizeAssumption DEF UseSecondary, LookupHash
  <1> HIDE DEF o
  <1>3. /\ a.mask = t.mask /\ a.flagged = t.flagged /\ a.second = t.second
        /\ a.num = t.num + 1 /\ a.str = [t.str EXCEPT ![c] = o]
        /\ a \in [mask : Nat, num : Nat, second : BOOLEAN,
                  flagged : SUBSET Nat, str : [Contents -> Str \cup {NULL}]]
    <2>1. a = [t EXCEPT !.str = [t.str EXCEPT ![c] = o], !.num = t.num + 1]
      BY <1>1
    <2>2. [t.str EXCEPT ![c] = o] \in [Contents -> Str \cup {NULL}]
      BY <1>1, <1>2
    <2> HIDE DEF a
    <2> DEFINE p == [t.str EXCEPT ![c] = o]
    <2> HIDE DEF p
    <2>3. a = [t EXCEPT !.str = p, !.num = t.num + 1]
      BY <2>1 DEF p
    <2>4. p \in [Contents -> Str \cup {NULL}] /\ t.num + 1 \in Nat
      BY <1>1, <2>2 DEF p
    <2>5. /\ a.mask = t.mask /\ a.flagged = t.flagged /\ a.second = t.second
          /\ a.num = t.num + 1 /\ a.str = p
      BY <1>1, <2>3
    <2>6. a \in [mask : Nat, num : Nat, second : BOOLEAN,
                flagged : SUBSET Nat, str : [Contents -> Str \cup {NULL}]]
      BY <1>1, <2>3, <2>4
    <2> QED BY <2>5, <2>6 DEF p
  <1> HIDE DEF a
  <1>4. /\ a.str[c] = o
        /\ \A d \in Contents \ {c} : a.str[d] = t.str[d]
        /\ Interned(a.str) = Interned(t.str) \cup {c}
    BY <1>1, <1>2, <1>3 DEF Interned
  <1>5. Typed(a)
    <2>1. c \notin Interned(t.str)
      BY DEF Interned
    <2>2. Cardinality(Interned(t.str) \cup {c}) = Cardinality(Interned(t.str)) + 1
      BY <2>1, FiniteInterned, FS_AddElement
    <2> QED BY <1>1, <1>3, <1>4, <2>2 DEF Typed
  <1>6. Hashed(a)
    <2> SUFFICES ASSUME NEW d \in Interned(a.str)
                 PROVE  /\ a.str[d].hashalg =
                             (hash_sparse(seed, d) % (a.mask + 1) \in a.flagged)
                        /\ a.str[d].hash = hash_of(d, a.str[d].hashalg)
                        /\ a.str[d].chain = a.str[d].hash % (a.mask + 1)
      BY DEF Hashed
    <2>1. CASE d = c
      BY <1>2, <1>3, <1>4, <2>1
    <2>2. CASE d # c
      <3>1. d \in Interned(t.str) /\ a.str[d] = t.str[d]
        BY <1>4, <2>2 DEF Interned
      <3> QED BY <1>3, <3>1 DEF Good, Hashed
    <2> QED BY <2>1, <2>2
  <1>7. Exact(a) /\ Keeps(t, a) /\ Alive(a, c)
    BY <1>2, <1>3, <1>4 DEF Exact, Keeps, Alive, Interned
  <1>8. Good(a)
    BY <1>5, <1>6 DEF Good
  <1>9. CASE t.num > t.mask
    <2>1. 2 * t.mask + 1 \in Nat
      BY <1>1
    <2>2. lj_str_alloc(t, c) = lj_str_resize(a, 2 * t.mask + 1)
      BY <1>9 DEF lj_str_alloc, a, o
    <2>3. LET r == lj_str_resize(a, 2 * t.mask + 1) IN
          Good(r) /\ Exact(r) /\ Keeps(a, r)
      BY <1>7, <1>8, <2>1, ResizeExact
    <2> QED BY <1>7, <2>2, <2>3 DEF Keeps
  <1>10. CASE ~(t.num > t.mask)
    <2>1. lj_str_alloc(t, c) = a
      BY <1>10 DEF lj_str_alloc, a, o
    <2> QED BY <1>7, <1>8, <2>1
  <1> QED BY <1>9, <1>10

LEMMA FindOrAllocGood ==
  ASSUME Control, NEW t, Good(t), Exact(t), NEW c \in Contents
  PROVE  LET r == FindOrAlloc(t, c) IN
         Good(r) /\ Exact(r) /\ Keeps(t, r) /\ Alive(r, c)
  <1>1. CASE ~Found(t, c)
    <2>1. t.str[c] = NULL
      BY <1>1, FoundIfThere DEF Control, Interned
    <2> QED BY <1>1, <2>1, AllocGood DEF FindOrAlloc
  <1>2. CASE Found(t, c)
    <2> DEFINE r == Resurrect(t, c)
    <2>1. FindOrAlloc(t, c) = r
      BY <1>2 DEF FindOrAlloc
    <2>2. c \in Interned(t.str) /\ t.str[c] # NULL /\ t.str[c] \in Str
      BY <1>2 DEF Found, LookupChain, Chain, Good, Typed, Interned
    <2>3. CASE t.str[c].marked # "dead"
      BY <2>1, <2>2, <2>3 DEF Resurrect, Keeps, Alive
    <2>4. CASE t.str[c].marked = "dead"
      <3> DEFINE o == [t.str[c] EXCEPT !.marked = "white"]
      <3>1. /\ t \in [mask : Nat, num : Nat, second : BOOLEAN,
                      flagged : SUBSET Nat, str : [Contents -> Str \cup {NULL}]]
        BY DEF Good, Typed
      <3>2. r = [t EXCEPT !.str[c].marked = "white"]
        BY <2>4 DEF Resurrect
      <3>3. /\ o \in Str /\ o # NULL /\ o.marked = "white"
            /\ o.hash = t.str[c].hash /\ o.hashalg = t.str[c].hashalg
            /\ o.chain = t.str[c].chain
        BY <2>2, SizeAssumption DEF Str
      <3>4. r = [t EXCEPT !.str = [t.str EXCEPT ![c] = o]]
        BY <3>1, <3>2
      <3> HIDE DEF o, r
      <3>5. /\ r.mask = t.mask /\ r.flagged = t.flagged /\ r.second = t.second
            /\ r.num = t.num /\ r.str = [t.str EXCEPT ![c] = o]
            /\ r \in [mask : Nat, num : Nat, second : BOOLEAN,
                      flagged : SUBSET Nat, str : [Contents -> Str \cup {NULL}]]
        BY <3>1, <3>3, <3>4
      <3>6. /\ r.str[c] = o /\ Interned(r.str) = Interned(t.str)
            /\ \A d \in Contents \ {c} : r.str[d] = t.str[d]
        BY <2>2, <3>1, <3>3, <3>5 DEF Interned
      <3>7. Typed(r)
        BY <3>5, <3>6 DEF Good, Typed
      <3>8. Hashed(r)
        BY <3>3, <3>5, <3>6 DEF Good, Hashed, Interned
      <3>9. Exact(r) /\ Keeps(t, r) /\ Alive(r, c)
        BY <3>3, <3>5, <3>6 DEF Exact, Keeps, Alive, Interned
      <3> QED BY <2>1, <3>7, <3>8, <3>9 DEF Good
    <2> QED BY <2>3, <2>4
  <1> QED BY <1>1, <1>2

LEMMA NewGood ==
  ASSUME Control, NEW t, Good(t), Exact(t), NEW c \in Contents
  PROVE  LET r == lj_str_new(t, c) IN
         Good(r) /\ Exact(r) /\ Keeps(t, r) /\ Alive(r, c)
  <1> DEFINE i == LookupHash(t, c) % (t.mask + 1)
             s == lj_str_rehash_chain(t, i)
  <1>1. CASE ~(~Found(t, c) /\ ~UseSecondary(t, c)
                 /\ Collisions(t, c) > LJ_STR_MAXCOLL)
    <2>1. lj_str_new(t, c) = FindOrAlloc(t, c)
      BY <1>1 DEF lj_str_new
    <2> QED BY <2>1, FindOrAllocGood
  <1>2. CASE ~Found(t, c) /\ ~UseSecondary(t, c)
               /\ Collisions(t, c) > LJ_STR_MAXCOLL
    <2>1. lj_str_new(t, c) = FindOrAlloc(s, c)
      BY <1>2 DEF lj_str_new
    <2>2. t.mask \in Nat /\ LookupHash(t, c) \in Nat
      <3>1. UseSecondary(t, c) \in BOOLEAN
        BY DEF UseSecondary
      <3> QED BY <3>1, HashNat DEF Good, Typed, LookupHash, Control
    <2>3. i \in 0..t.mask
      BY <2>2, Modulus
    <2> HIDE DEF i
    <2>4. /\ Good(s) /\ Exact(s) /\ s.mask = t.mask
          /\ \A d \in Interned(t.str) :
               t.str[d].marked # "dead" =>
                 s.str[d] # NULL /\ s.str[d].marked # "dead"
      BY <2>3, RehashGood
    <2> HIDE DEF s
    <2>5. Keeps(t, s)
      BY <2>4 DEF Keeps, Alive, Interned
    <2>6. LET r == FindOrAlloc(s, c) IN
          Good(r) /\ Exact(r) /\ Keeps(s, r) /\ Alive(r, c)
      BY <2>4, FindOrAllocGood
    <2> QED BY <2>1, <2>5, <2>6 DEF Keeps
  <1> QED BY <1>1, <1>2

(***************************************************************************)
(* The invariant is inductive.                                             *)
(***************************************************************************)

\* The table a step leaves behind is one of which the lemmas speak.
LEMMA Become ==
  ASSUME NEW r, Becomes(r), UNCHANGED <<seed, state, sweepstr>>,
         Good(r), Exact(r)
  PROVE  Good(StrState)' /\ Exact(StrState)'
  <1>1. /\ StrState'.mask = r.mask /\ StrState'.num = r.num
        /\ StrState'.second = r.second /\ StrState'.flagged = r.flagged
        /\ StrState'.str = r.str
    BY DEF StrState, Becomes
  <1>2. Typed(StrState)'
    <2>1. StrState' \in [mask : Nat, num : Nat, second : BOOLEAN,
                         flagged : SUBSET Nat,
                         str : [Contents -> Str \cup {NULL}]]
      BY DEF StrState, Becomes, Good, Typed
    <2> QED BY <1>1, <2>1 DEF Good, Typed, Interned
  <1>3. Hashed(StrState)'
    BY <1>1 DEF Good, Hashed, Interned, hash_of
  <1>4. Exact(StrState)'
    BY <1>1 DEF Exact, Interned
  <1> QED BY <1>2, <1>3, <1>4 DEF Good

LEMMA InitInv == Init => IInv
  <1> SUFFICES ASSUME Init PROVE IInv
    OBVIOUS
  <1>1. Interned(str) = {}
    BY DEF Init, Interned
  <1>2. mask \in Nat /\ sweepstr \in 0..mask
    BY SizeAssumption DEF Init
  <1>3. str \in [Contents -> Str \cup {NULL}]
    BY DEF Init
  <1>4. Typed(StrState)
    BY <1>1, <1>2, <1>3, FS_EmptySet DEF Init, Typed, StrState
  <1>5. Hashed(StrState) /\ Exact(StrState) /\ Kept(StrState, held)
    BY <1>1 DEF Init, Hashed, Exact, Kept, StrState
  <1>6. Control
    BY <1>2 DEF Init, Control
  <1> QED BY <1>4, <1>5, <1>6 DEF IInv, Good

LEMMA NewInv ==
  ASSUME IInv, NEW c \in Contents, New(c)
  PROVE  IInv'
  <1> DEFINE r == lj_str_new(StrState, c)
  <1>1. Good(r) /\ Exact(r) /\ Keeps(StrState, r) /\ Alive(r, c)
    BY NewGood DEF IInv
  <1>2. Becomes(r) /\ held' = held \cup {c} /\ UNCHANGED <<seed, state, sweepstr>>
    BY DEF New
  <1> HIDE DEF r
  <1>3. Good(StrState)' /\ Exact(StrState)'
    BY <1>1, <1>2, Become
  <1>4. Control'
    <2>1. mask' = r.mask /\ r.mask \in Nat
      BY <1>1, <1>2 DEF Becomes, Good, Typed
    <2>2. state = "sweepstring" => r.mask = mask
      BY <1>1 DEF Keeps, StrState
    <2> QED BY <1>2, <2>1, <2>2 DEF IInv, Control
  <1>5. Kept(StrState, held)'
    <2>1. str' = r.str
      BY <1>2 DEF Becomes
    <2>2. \A d \in held : d \in Contents /\ Alive(StrState, d)
      BY DEF IInv, Kept, Control, Alive
    <2> QED BY <1>1, <1>2, <2>1, <2>2 DEF Kept, Keeps, Alive, StrState
  <1> QED BY <1>3, <1>4, <1>5 DEF IInv

LEMMA DropInv ==
  ASSUME IInv, NEW c \in Contents, Drop(c)
  PROVE  IInv'
  <1>1. StrState' = StrState /\ UNCHANGED <<seed, state, sweepstr, mask>>
    BY DEF Drop, StrState
  <1>2. Good(StrState)' /\ Exact(StrState)'
    BY <1>1 DEF IInv, Good, Typed, Hashed, Exact, hash_of
  <1> QED BY <1>1, <1>2 DEF IInv, Drop, Control, Kept

LEMMA AtomicInv ==
  ASSUME IInv, NEW marked \in SUBSET Contents, Atomic(marked)
  PROVE  IInv'
  <1> DEFINE o(c) == [str[c] EXCEPT !.marked = IF c \in marked THEN "black"
                                                               ELSE "dead"]
  <1>1. /\ str' = [c \in Contents |-> IF str[c] = NULL THEN NULL ELSE o(c)]
        /\ state' = "sweepudata" /\ held \subseteq marked /\ state = "mark"
        /\ marked \subseteq Interned(str)
        /\ UNCHANGED <<seed, mask, num, second, flagged, sweepstr, held>>
    BY DEF Atomic
  <1>2. str \in [Contents -> Str \cup {NULL}]
    BY DEF IInv, Good, Typed, StrState
  <1>3. ASSUME NEW c \in Interned(str)
        PROVE  /\ o(c) \in Str /\ o(c) # NULL /\ o(c).hash = str[c].hash
               /\ o(c).hashalg = str[c].hashalg /\ o(c).chain = str[c].chain
               /\ c \in marked => o(c).marked # "dead"
    <2>1. str[c] \in Str
      BY <1>2 DEF Interned
    <2>2. o(c) \in Str
      BY <2>1 DEF Str
    <2> QED BY <2>1, <2>2, SizeAssumption DEF Str
  <1> HIDE DEF o
  <1>4. /\ Interned(str') = Interned(str)
        /\ \A c \in Interned(str) : str'[c] = o(c)
    BY <1>1, <1>3 DEF Interned
  <1>5. Typed(StrState)'
    <2>1. str' \in [Contents -> Str \cup {NULL}]
      BY <1>1, <1>2, <1>3 DEF Interned
    <2> QED BY <1>1, <1>4, <2>1 DEF IInv, Good, Typed, StrState
  <1>6. Hashed(StrState)'
    BY <1>1, <1>3, <1>4 DEF IInv, Good, Hashed, StrState, hash_of
  <1>7. Exact(StrState)' /\ Kept(StrState, held)'
    BY <1>1, <1>3, <1>4 DEF Exact, Kept, StrState, Interned
  <1>8. Control'
    BY <1>1 DEF IInv, Control
  <1> QED BY <1>5, <1>6, <1>7, <1>8 DEF IInv, Good

LEMMA StartSweepInv ==
  ASSUME IInv, StartSweep
  PROVE  IInv'
  <1>1. /\ StrState' = StrState /\ UNCHANGED <<seed, mask, held>>
        /\ state' = "sweepstring" /\ sweepstr' = 0
    BY DEF StartSweep, StrState
  <1>2. Good(StrState)' /\ Kept(StrState, held)'
    BY <1>1 DEF IInv, Good, Typed, Hashed, Kept, hash_of
  <1>3. \A c \in Interned(str) : str[c].chain \in Nat
    BY DEF IInv, Good, Typed, StrState, Interned, Str
  <1>4. Exact(StrState)'
    BY <1>1, <1>3 DEF Exact, StrState, Interned
  <1>5. mask \in Nat
    BY DEF IInv, Good, Typed, StrState
  <1> QED BY <1>1, <1>2, <1>4, <1>5 DEF IInv, Control

LEMMA SweepStrInv ==
  ASSUME IInv, SweepStr
  PROVE  IInv'
  <1>1. /\ str' = SweepChain(str, sweepstr) /\ state = "sweepstring"
        /\ num' = num - Cardinality(Interned(str) \ Interned(str'))
        /\ IF sweepstr + 1 > mask THEN state' = "sweep" /\ sweepstr' = 0
           ELSE sweepstr' = sweepstr + 1 /\ UNCHANGED state
        /\ UNCHANGED <<seed, mask, second, flagged, held>>
    BY DEF SweepStr
  <1>2. /\ str \in [Contents -> Str \cup {NULL}] /\ mask \in Nat
        /\ sweepstr \in 0..mask /\ num = Cardinality(Interned(str))
        /\ flagged \in SUBSET Nat /\ second \in BOOLEAN
        /\ flagged \subseteq 0..mask /\ second = (flagged # {})
    BY DEF IInv, Good, Typed, StrState, Control
  <1>3. ASSUME NEW c \in Contents
        PROVE  /\ str[c] = NULL => str'[c] = NULL
               /\ str[c] # NULL =>
                    IF str[c].chain = sweepstr
                    THEN IF str[c].marked = "dead" THEN str'[c] = NULL
                         ELSE str'[c] = [str[c] EXCEPT !.marked = "white"]
                    ELSE str'[c] = str[c]
    BY <1>1 DEF SweepChain, Swept
  <1>4. ASSUME NEW c \in Interned(str')
        PROVE  /\ c \in Interned(str) /\ str'[c] \in Str
               /\ str'[c].hash = str[c].hash
               /\ str'[c].hashalg = str[c].hashalg
               /\ str'[c].chain = str[c].chain
               /\ str'[c].marked = "dead" =>
                    str[c].marked = "dead" /\ str[c].chain # sweepstr
    <2>1. c \in Contents /\ str'[c] # NULL /\ str[c] # NULL
      BY <1>3 DEF Interned
    <2>2. str[c] \in Str
      BY <1>2, <2>1
    <2> QED BY <1>3, <2>1, <2>2 DEF Str, Interned
  <1>5. Typed(StrState)'
    <2>1. DOMAIN str' = Contents
      BY <1>1 DEF SweepChain
    <2>2. str' = [c \in Contents |-> str'[c]]
      BY <1>1 DEF SweepChain
    <2>3. \A c \in Contents : str'[c] \in Str \cup {NULL}
      BY <1>4 DEF Interned
    <2>4. str' \in [Contents -> Str \cup {NULL}]
      BY <2>2, <2>3
    <2>5. num' = Cardinality(Interned(str')) /\ num' \in Nat
      <3>1. Interned(str') \subseteq Interned(str)
        BY <1>4
      <3> QED BY <1>1, <1>2, <3>1, Removed, FiniteInterned
    <2> QED BY <1>1, <1>2, <2>4, <2>5 DEF Typed, StrState
  <1>6. Hashed(StrState)'
    BY <1>1, <1>4 DEF IInv, Good, Hashed, StrState, hash_of
  <1>7. Exact(StrState)'
    <2> SUFFICES ASSUME NEW c \in Interned(str'), str'[c].marked = "dead"
                 PROVE  \/ state' = "sweepudata"
                        \/ state' = "sweepstring" /\ str'[c].chain >= sweepstr'
      BY DEF Exact, StrState
    <2>1. c \in Interned(str) /\ str[c].marked = "dead"
          /\ str[c].chain # sweepstr /\ str'[c].chain = str[c].chain
      BY <1>4
    <2>2. str[c].chain >= sweepstr
      BY <1>1, <2>1 DEF IInv, Exact, StrState
    <2>3. str[c].chain \in 0..mask
      <3>1. str[c].chain = str[c].hash % (mask + 1)
        BY <2>1 DEF IInv, Good, Hashed, StrState
      <3>2. str[c].hash \in Nat
        BY <1>2, <2>1 DEF Interned, Str
      <3> QED BY <1>2, <3>1, <3>2, Modulus
    <2> QED BY <1>1, <1>2, <2>1, <2>2, <2>3
  <1>8. Kept(StrState, held)'
    <2> SUFFICES ASSUME NEW c \in held
                 PROVE  str'[c] # NULL /\ str'[c].marked # "dead"
      BY <1>1 DEF Kept, StrState
    <2>1. c \in Contents /\ str[c] # NULL /\ str[c].marked # "dead"
      BY DEF IInv, Kept, Control, StrState
    <2>2. str[c] \in Str
      BY <1>2, <2>1
    <2>3. [str[c] EXCEPT !.marked = "white"] \in Str
          /\ [str[c] EXCEPT !.marked = "white"].marked = "white"
      BY <2>2 DEF Str
    <2> QED BY <1>3, <2>1, <2>3, SizeAssumption
  <1>9. Control'
    BY <1>1, <1>2 DEF IInv, Control
  <1> QED BY <1>5, <1>6, <1>7, <1>8, <1>9 DEF IInv, Good

LEMMA EndSweepInv ==
  ASSUME IInv, EndSweep
  PROVE  IInv'
  <1> DEFINE r == IF num <= mask \div 4 /\ mask > LJ_MIN_STRTAB * 2 - 1
                  THEN lj_str_resize(StrState, mask \div 2) ELSE StrState
  <1>1. /\ state = "sweep" /\ state' = "mark" /\ Becomes(r)
        /\ UNCHANGED <<seed, sweepstr, held>>
    BY DEF EndSweep
  <1>2. mask \in Nat /\ Control /\ Good(StrState) /\ Exact(StrState)
        /\ Kept(StrState, held)
    BY DEF IInv, Good, Typed, StrState
  <1>3. Good(r) /\ Exact(r) /\ Keeps(StrState, r)
    <2>1. mask \div 2 \in Nat
      BY <1>2
    <2>2. LET q == lj_str_resize(StrState, mask \div 2) IN
          Good(q) /\ Exact(q) /\ Keeps(StrState, q)
      BY <1>2, <2>1, ResizeExact
    <2>3. Keeps(StrState, StrState)
      BY DEF Keeps
    <2> QED BY <1>2, <2>2, <2>3
  <1> HIDE DEF r
  <1>4. /\ mask' = r.mask /\ num' = r.num /\ second' = r.second
        /\ flagged' = r.flagged /\ str' = r.str
    BY <1>1 DEF Becomes
  <1>5. Typed(StrState)'
    <2>1. StrState' \in [mask : Nat, num : Nat, second : BOOLEAN,
                         flagged : SUBSET Nat,
                         str : [Contents -> Str \cup {NULL}]]
      BY <1>3, <1>4 DEF StrState, Good, Typed
    <2> QED BY <1>3, <1>4, <2>1 DEF Good, Typed, StrState
  <1>6. Hashed(StrState)'
    BY <1>1, <1>3, <1>4 DEF Good, Hashed, Interned, hash_of, StrState
  <1>7. Exact(StrState)'
    BY <1>1, <1>3, <1>4 DEF Exact, Interned, StrState
  <1>8. Kept(StrState, held)'
    <2>1. \A d \in held : d \in Contents /\ Alive(StrState, d)
      BY <1>2 DEF Kept, Control, Alive
    <2> QED BY <1>1, <1>3, <1>4, <2>1 DEF Kept, Keeps, Alive, StrState
  <1>9. Control'
    <2>1. r.mask \in Nat
      BY <1>3 DEF Good, Typed
    <2> QED BY <1>1, <1>2, <1>4, <2>1 DEF Control
  <1> QED BY <1>5, <1>6, <1>7, <1>8, <1>9 DEF IInv, Good

LEMMA NextInv == IInv /\ [Next]_vars => IInv'
  <1> SUFFICES ASSUME IInv, [Next]_vars PROVE IInv'
    OBVIOUS
  <1>1. ASSUME NEW c \in Contents, New(c) PROVE IInv'
    BY <1>1, NewInv
  <1>2. ASSUME NEW c \in Contents, Drop(c) PROVE IInv'
    BY <1>2, DropInv
  <1>3. ASSUME NEW marked \in SUBSET Contents, Atomic(marked) PROVE IInv'
    BY <1>3, AtomicInv
  <1>4. CASE UNCHANGED vars
    <2>1. StrState' = StrState /\ UNCHANGED <<seed, state, sweepstr, mask, held>>
      BY <1>4 DEF vars, StrState
    <2> QED BY <2>1 DEF IInv, Control, Good, Typed, Hashed, Exact, Kept, hash_of
  <1> QED BY <1>1, <1>2, <1>3, <1>4, StartSweepInv, SweepStrInv, EndSweepInv
          DEF Next

\* Invariance.  In every reachable state a string has its secondary hash exactly
\* if the chain of its primary hash is flagged, num counts the strings, and
\* dead strings are only where the sweep has yet to come.
THEOREM Invariance == Spec => []IInv
  BY InitInv, NextInv, PTL DEF Spec

\* TypeOK for any number of contents, any hashes and sizes.
THEOREM TypeCorrect == Spec => []TypeOK
  <1>1. IInv => TypeOK
    BY DEF IInv, TypeOK, Control, Good, Typed, Hashed, StrState
  <1> QED BY <1>1, Invariance, PTL

\* lj_str_new finds every string that is interned, whatever was rehashed,
\* reverted, resized or swept before: equal strings are one object.
THEOREM StringsAreUnique == Spec => []Findable
  <1>1. IInv => Findable
    BY FoundIfThere DEF IInv, Findable, Control, StrState
  <1> QED BY <1>1, Invariance, PTL

\* The string sweep frees no string of the program and leaves none that is dead.
THEOREM StringSweepIsExact == Spec => []SweepExact
  <1>1. IInv => SweepExact
    BY DEF IInv, SweepExact, Exact, Kept, StrState
  <1> QED BY <1>1, Invariance, PTL
================================================================================
