------------------------------ MODULE ListLemmas -------------------------------
(* Induction and loops, for the proofs about Trace and Tab; and lists without *)
(* repetitions: what pushing, popping and unlinking do to the members and to  *)
(* their order.  Used for the lists of free blocks and of nonfull pages in    *)
(* PageAlloc, the userdata lists in Finalizer and the chains of traces in     *)
(* Trace.                                                                     *)
EXTENDS Integers, SequencesExt, SequenceTheorems, WellFoundedInduction, TLAPS
--------------------------------------------------------------------------------
(* Induction, and loops. *)

\* Induction, over a set of numbers.
LEMMA SetInduction ==
  ASSUME NEW T, 0 \in T, \A n \in Nat : n \in T => n + 1 \in T
  PROVE  \A n \in Nat : n \in T
<1>. DEFINE R == OpToRel(<, Nat)
            S == {n \in Nat : n \notin T}
<1>1. SUFFICES ASSUME S # {} PROVE FALSE
  OBVIOUS
<1>2. IsWellFoundedOn(R, Nat)
  BY NatLessThanWellFounded
<1>3. S \subseteq Nat
  OBVIOUS
<1>4. \E x \in S : \A y \in S : ~ (<<y, x>> \in R)
  <2>. HIDE DEF R, S
  <2>. QED
    BY <1>1, <1>2, <1>3, WFMin
<1>5. PICK x \in S : \A y \in S : ~ (<<y, x>> \in R)
  BY <1>4
<1>6. x # 0 /\ x \in Nat
  OBVIOUS
<1>7. x - 1 \in Nat /\ (x - 1) + 1 = x
  BY <1>6
<1>8. x - 1 \in T
  <2>. SUFFICES ASSUME x - 1 \notin T PROVE FALSE
    OBVIOUS
  <2>1. x - 1 \in S
    BY <1>7
  <2>2. <<x - 1, x>> \in R
    BY <1>6, <1>7 DEF OpToRel
  <2>. QED
    BY <2>1, <2>2, <1>5
<1>. QED
  BY <1>7, <1>8

\* The function f of 0..m repeats st from h on.
Repeats(f, m, H, st, h) ==
  /\ f \in [0..m -> H] /\ f[0] = h
  /\ \A i \in 1..m : f[i] = st[<<i, f[i - 1]>>]

\* A step that stays in H can be repeated m times.
LEMMA Repeated ==
  ASSUME NEW H, NEW m \in Nat, NEW st \in [(1..m) \X H -> H], NEW h \in H
  PROVE  \E f : Repeats(f, m, H, st, h)
<1>. DEFINE Ok(n, f) == /\ f \in [0..n -> H] /\ f[0] = h
                        /\ \A i \in 1..n : f[i] = st[<<i, f[i - 1]>>]
            T == {n \in Nat : n <= m => \E f : Ok(n, f)}
<1>1. 0 \in T
  <2>1. Ok(0, [i \in 0..0 |-> h])
    OBVIOUS
  <2>. QED
    BY <2>1
<1>2. ASSUME NEW n \in Nat, n \in T PROVE n + 1 \in T
  <2>. SUFFICES ASSUME n + 1 <= m PROVE \E f : Ok(n + 1, f)
    OBVIOUS
  <2>1. PICK f : Ok(n, f)
    BY <1>2
  <2>. DEFINE g == [i \in 0..n + 1 |-> IF i = n + 1 THEN st[<<n + 1, f[n]>>] ELSE f[i]]
  <2>2. f[n] \in H /\ n + 1 \in 1..m
    BY <2>1
  <2>3. st[<<n + 1, f[n]>>] \in H
    BY <2>2
  <2>4. \A i \in 0..n : f[i] \in H
    BY <2>1
  <2>5. g \in [0..n + 1 -> H]
    BY <2>3, <2>4
  <2>6. g[0] = h
    BY <2>1
  <2>7. ASSUME NEW i \in 1..n + 1 PROVE g[i] = st[<<i, g[i - 1]>>]
    <3>1. i - 1 \in 0..n /\ i - 1 # n + 1 /\ i \in 0..n + 1 /\ i - 1 \in 0..n + 1
      OBVIOUS
    <3>2. g[i - 1] = f[i - 1]
      BY <3>1
    <3>3. CASE i = n + 1
      BY <3>1, <3>2, <3>3
    <3>4. CASE i # n + 1
      <4>1. i \in 1..n /\ g[i] = f[i]
        BY <3>4
      <4>. QED
        BY <4>1, <3>2, <2>1
    <3>. QED
      BY <3>3, <3>4
  <2>. QED
    BY <2>5, <2>6, <2>7
<1>3. m \in T
  <2>. HIDE DEF T
  <2>. QED
    BY <1>1, <1>2, SetInduction
<1>. QED
  BY <1>3 DEF Repeats

\* page_nonfull_insert and the push on the free list.
LEMMA PushedFront ==
  ASSUME NEW S, NEW q \in Seq(S), IsInjective(q), NEW e \in S, e \notin Range(q)
  PROVE  /\ <<e>> \o q \in Seq(S) /\ IsInjective(<<e>> \o q)
         /\ Range(<<e>> \o q) = Range(q) \cup {e}
  <1> DEFINE r == <<e>> \o q
  <1>1. /\ r \in Seq(S) /\ Len(r) = 1 + Len(q) /\ Len(q) \in Nat
        /\ \A i \in 1..Len(r) : r[i] = IF i = 1 THEN e ELSE q[i - 1]
    OBVIOUS
  <1>2. DOMAIN r = 1..Len(r) /\ DOMAIN q = 1..Len(q)
    BY <1>1
  <1> HIDE DEF r
  <1>3. ASSUME NEW i \in DOMAIN r, NEW j \in DOMAIN r, r[i] = r[j]
        PROVE  i = j
    <2>1. ASSUME NEW l \in DOMAIN r, l # 1
          PROVE  l - 1 \in DOMAIN q /\ r[l] = q[l - 1] /\ r[l] # e
      BY <1>1, <1>2, <2>1 DEF Range
    <2> QED BY <1>1, <1>2, <1>3, <2>1 DEF IsInjective
  <1>4. Range(r) \subseteq Range(q) \cup {e}
    BY <1>1, <1>2 DEF Range
  <1>5. ASSUME NEW x \in Range(q) PROVE x \in Range(r)
    <2>1. PICK i \in 1..Len(q) : q[i] = x
      BY <1>2 DEF Range
    <2>2. i + 1 \in DOMAIN r /\ r[i + 1] = x
      BY <1>1, <1>2, <2>1
    <2> QED BY <2>2 DEF Range
  <1>6. e \in Range(r)
    <2>1. 1 \in DOMAIN r /\ r[1] = e
      BY <1>1, <1>2
    <2> QED BY <2>1 DEF Range
  <1> QED BY <1>1, <1>3, <1>4, <1>5, <1>6 DEF IsInjective, r

\* A block taken from the free list.
LEMMA DroppedHead ==
  ASSUME NEW S, NEW q \in Seq(S), IsInjective(q), q # <<>>
  PROVE  /\ Head(q) \in Range(q) /\ Tail(q) \in Seq(S)
         /\ IsInjective(Tail(q)) /\ Range(Tail(q)) = Range(q) \ {Head(q)}
  <1> DEFINE r == Tail(q)
  <1>1. /\ r \in Seq(S) /\ Len(q) \in Nat \ {0} /\ Len(r) = Len(q) - 1
        /\ \A i \in 1..Len(r) : r[i] = q[i + 1]
        /\ Head(q) = q[1]
    BY HeadTailProperties
  <1>2. DOMAIN r = 1..Len(r) /\ DOMAIN q = 1..Len(q)
    BY <1>1
  <1> HIDE DEF r
  <1>3. Head(q) \in Range(q)
    BY <1>1, <1>2 DEF Range
  <1>4. IsInjective(r)
    <2>1. ASSUME NEW i \in DOMAIN r, NEW j \in DOMAIN r, r[i] = r[j]
          PROVE  i = j
      <3>1. i + 1 \in DOMAIN q /\ j + 1 \in DOMAIN q /\ q[i + 1] = q[j + 1]
        BY <1>1, <1>2, <2>1
      <3> QED BY <1>2, <3>1 DEF IsInjective
    <2> QED BY <2>1 DEF IsInjective
  <1>5. ASSUME NEW x \in Range(r) PROVE x \in Range(q) \ {Head(q)}
    <2>1. PICK i \in DOMAIN r : r[i] = x
      BY DEF Range
    <2>2. i + 1 \in DOMAIN q /\ q[i + 1] = x /\ i + 1 # 1 /\ 1 \in DOMAIN q
      BY <1>1, <1>2, <2>1
    <2> QED BY <1>1, <2>2 DEF Range, IsInjective
  <1>6. ASSUME NEW x \in Range(q) \ {Head(q)} PROVE x \in Range(r)
    <2>1. PICK i \in DOMAIN q : q[i] = x
      BY DEF Range
    <2>2. i - 1 \in DOMAIN r /\ r[i - 1] = x
      BY <1>1, <1>2, <2>1
    <2> QED BY <2>2 DEF Range
  <1> QED BY <1>1, <1>3, <1>4, <1>5, <1>6 DEF r

\* Unlinking moves what comes behind the member up by one.
LEMMA UnlinkedAt ==
  ASSUME NEW S, NEW q \in Seq(S), IsInjective(q), NEW n \in 1..Len(q)
  PROVE  /\ RemoveFirst(q, q[n]) \in Seq(S)
         /\ Len(RemoveFirst(q, q[n])) = Len(q) - 1
         /\ \A i \in 1..Len(RemoveFirst(q, q[n])) :
              RemoveFirst(q, q[n])[i] = IF i < n THEN q[i] ELSE q[i + 1]
  <1>1. DOMAIN q = 1..Len(q) /\ Len(q) \in Nat
    OBVIOUS
  <1> DEFINE e == q[n]
  <1>2. {i \in 1..Len(q) : q[i] = e} = {n}
    BY <1>1 DEF IsInjective
  <1>3. Min({n}) = n
    BY <1>1 DEF Min
  <1> DEFINE r == RemoveFirst(q, e)
  <1>4. r = RemoveAt(q, n)
    BY <1>2, <1>3 DEF RemoveFirst, SelectInSeq
  <1>5. /\ r \in Seq(S) /\ Len(r) = Len(q) - 1
        /\ \A i \in 1..Len(r) : r[i] = IF i < n THEN q[i] ELSE q[i + 1]
    <2> DEFINE f == SubSeq(q, 1, n - 1)  g == SubSeq(q, n + 1, Len(q))
    <2>1. /\ f \in Seq(S) /\ Len(f) = n - 1
          /\ \A i \in 1..(n - 1) : f[i] = q[i]
      BY <1>1
    <2>2. /\ g \in Seq(S) /\ Len(g) = Len(q) - n
          /\ \A i \in 1..(Len(q) - n) : g[i] = q[n + i]
      <3>1. \A i \in (n + 1)..Len(q) : q[i] \in S
        BY <1>1, ElementOfSeq
      <3>2. /\ g \in Seq(S)
            /\ Len(g) = IF n + 1 <= Len(q) THEN Len(q) - (n + 1) + 1 ELSE 0
            /\ \A i \in 1..(Len(q) - (n + 1) + 1) : g[i] = q[(n + 1) + i - 1]
        BY <1>1, <3>1, SubSeqProperties
      <3> HIDE DEF g
      <3>3. n \in 1..Len(q)
        OBVIOUS
      <3>4. Len(g) = Len(q) - n
        <4>1. Len(q) \in Nat /\ n \in Nat /\ n <= Len(q)
          BY <1>1, <3>3
        <4>2. Len(g) = IF n + 1 <= Len(q) THEN Len(q) - (n + 1) + 1 ELSE 0
          BY <3>2
        <4> QED BY <4>1, <4>2
      <3>5. \A i \in 1..(Len(q) - n) : g[i] = q[n + i]
        <4> SUFFICES ASSUME NEW i \in 1..(Len(q) - n) PROVE g[i] = q[n + i]
          OBVIOUS
        <4>1. i \in 1..(Len(q) - (n + 1) + 1) /\ (n + 1) + i - 1 = n + i
          BY <1>1, <3>3
        <4> QED BY <3>2, <4>1
      <3> QED BY <3>2, <3>4, <3>5
    <2> HIDE DEF f, g
    <2>3. r = f \o g
      BY <1>4 DEF RemoveAt, f, g
    <2>4. /\ f \o g \in Seq(S) /\ Len(f \o g) = Len(f) + Len(g)
          /\ \A i \in 1..Len(f \o g) :
               (f \o g)[i] = IF i <= Len(f) THEN f[i] ELSE g[i - Len(f)]
      <3>1. f \in Seq(S) /\ g \in Seq(S)
        BY <2>1, <2>2
      <3>2. /\ f \o g \in Seq(S) /\ Len(f \o g) = Len(f) + Len(g)
            /\ \A i \in 1..(Len(f) + Len(g)) :
                 (f \o g)[i] = IF i <= Len(f) THEN f[i] ELSE g[i - Len(f)]
        BY <3>1, ConcatProperties
      <3> QED BY <3>2
    <2>5. ASSUME NEW i \in 1..Len(r) PROVE r[i] = IF i < n THEN q[i] ELSE q[i + 1]
      <3>1. i \in 1..(Len(q) - 1)
        BY <1>1, <2>1, <2>2, <2>3, <2>4
      <3>2. CASE i < n
        BY <1>1, <2>1, <2>2, <2>3, <2>4, <3>1, <3>2
      <3>3. CASE i >= n
        <4>1. i - (n - 1) \in 1..(Len(q) - n) /\ n + (i - (n - 1)) = i + 1
          BY <1>1, <3>1, <3>3
        <4>2. r[i] = g[i - (n - 1)]
          BY <1>1, <2>1, <2>2, <2>3, <2>4, <3>1, <3>3
        <4> QED BY <1>1, <2>2, <3>1, <3>3, <4>1, <4>2
      <3> QED BY <1>1, <3>1, <3>2, <3>3
    <2> QED BY <2>1, <2>2, <2>3, <2>4, <2>5
  <1> QED BY <1>5

\* page_nonfull_remove of a page that is on the list.
LEMMA Unlinked ==
  ASSUME NEW S, NEW q \in Seq(S), IsInjective(q), NEW e \in Range(q)
  PROVE  /\ RemoveFirst(q, e) \in Seq(S) /\ IsInjective(RemoveFirst(q, e))
         /\ Range(RemoveFirst(q, e)) = Range(q) \ {e}
  <1>1. DOMAIN q = 1..Len(q) /\ Len(q) \in Nat
    OBVIOUS
  <1>2. PICK n \in 1..Len(q) : q[n] = e
    BY <1>1 DEF Range
  <1> DEFINE r == RemoveFirst(q, e)
  <1>3. /\ r \in Seq(S) /\ Len(r) = Len(q) - 1
        /\ \A i \in 1..Len(r) : r[i] = IF i < n THEN q[i] ELSE q[i + 1]
    BY <1>2, UnlinkedAt
  <1>4. DOMAIN r = 1..Len(r)
    BY <1>3
  <1> HIDE DEF r
  <1>5. IsInjective(r)
    <2>1. ASSUME NEW i \in DOMAIN r, NEW j \in DOMAIN r, r[i] = r[j]
          PROVE  i = j
      <3> DEFINE at(l) == IF l < n THEN l ELSE l + 1
      <3>1. ASSUME NEW l \in DOMAIN r PROVE at(l) \in DOMAIN q /\ r[l] = q[at(l)]
        BY <1>1, <1>3, <1>4
      <3>2. at(i) = at(j)
        BY <2>1, <3>1 DEF IsInjective
      <3> QED BY <1>1, <1>3, <1>4, <3>2
    <2> QED BY <2>1 DEF IsInjective
  <1>6. ASSUME NEW x \in Range(r) PROVE x \in Range(q) \ {e}
    <2>1. PICK i \in DOMAIN r : r[i] = x
      BY DEF Range
    <2>2. PICK j \in DOMAIN q : j # n /\ q[j] = x
      BY <1>1, <1>3, <1>4, <2>1
    <2> QED BY <1>1, <1>2, <2>2 DEF Range, IsInjective
  <1>7. ASSUME NEW x \in Range(q) \ {e} PROVE x \in Range(r)
    <2>1. PICK i \in DOMAIN q : q[i] = x
      BY DEF Range
    <2>2. i # n
      BY <1>2, <2>1
    <2>3. PICK j \in DOMAIN r : r[j] = x
      <3>1. CASE i < n
        <4>1. i \in DOMAIN r /\ r[i] = x
          BY <1>1, <1>3, <1>4, <2>1, <3>1
        <4> QED BY <4>1
      <3>2. CASE i > n
        <4>1. i - 1 \in DOMAIN r /\ r[i - 1] = x
          BY <1>1, <1>3, <1>4, <2>1, <3>2
        <4> QED BY <4>1
      <3> QED BY <1>1, <2>2, <3>1, <3>2
    <2> QED BY <2>3 DEF Range
  <1> QED BY <1>3, <1>5, <1>6, <1>7 DEF r

\* Where a member stands, 0 for any other.
Place(q, e) == SelectInSeq(q, LAMBDA x : x = e)

LEMMA Position ==
  ASSUME NEW S, NEW q \in Seq(S), IsInjective(q)
  PROVE  /\ \A n \in DOMAIN q : Place(q, q[n]) = n
         /\ \A e : e \notin Range(q) => Place(q, e) = 0
         /\ \A e : Place(q, e) \in 0..Len(q)
  <1>1. DOMAIN q = 1..Len(q) /\ Len(q) \in Nat
    OBVIOUS
  <1>2. ASSUME NEW n \in DOMAIN q
        PROVE  Place(q, q[n]) = n
    <2>1. {i \in 1..Len(q) : q[i] = q[n]} = {n}
      BY <1>1 DEF IsInjective
    <2>2. Min({n}) = n
      BY <1>1 DEF Min
    <2> QED BY <2>1, <2>2 DEF Place, SelectInSeq
  <1>3. ASSUME NEW e, e \notin Range(q)
        PROVE  Place(q, e) = 0
    <2>1. {i \in 1..Len(q) : q[i] = e} = {}
      BY <1>1, <1>3 DEF Range
    <2> QED BY <2>1 DEF Place, SelectInSeq
  <1>4. ASSUME NEW e PROVE Place(q, e) \in 0..Len(q)
    <2>1. CASE e \in Range(q)
      <3>1. PICK n \in DOMAIN q : q[n] = e
        BY <2>1 DEF Range
      <3>2. Place(q, e) = n
        BY <1>2, <3>1
      <3> QED BY <1>1, <3>2
    <2>2. CASE e \notin Range(q)
      BY <1>1, <1>3, <2>2
    <2> QED BY <2>1, <2>2
  <1> QED BY <1>2, <1>3, <1>4

\* The control stack after a return.
LEMMA WithoutLast ==
  ASSUME NEW S, NEW q \in Seq(S), q # <<>>
  PROVE  /\ Front(q) \in Seq(S) /\ Len(q) \in Nat /\ Len(q) >= 1
         /\ Last(q) = q[Len(q)] /\ Last(q) \in Range(q)
         /\ Len(Front(q)) = Len(q) - 1
         /\ \A i \in 1..Len(Front(q)) : Front(q)[i] = q[i]
         /\ Range(Front(q)) \subseteq Range(q)
  <1> DEFINE r == Front(q)
  <1>1. DOMAIN q = 1..Len(q) /\ Len(q) \in Nat /\ Len(q) >= 1
    BY EmptySeq
  <1>2. r \in Seq(S) /\ Len(r) = Len(q) - 1 /\ \A i \in 1..Len(r) : r[i] = q[i]
    <2>1. \A i \in 1..(Len(q) - 1) : q[i] \in S
      BY <1>1, ElementOfSeq
    <2>2. /\ r \in Seq(S)
          /\ Len(r) = IF 1 <= Len(q) - 1 THEN (Len(q) - 1) - 1 + 1 ELSE 0
          /\ \A i \in 1..((Len(q) - 1) - 1 + 1) : r[i] = q[1 + i - 1]
      BY <1>1, <2>1, SubSeqProperties DEF Front
    <2> HIDE DEF r
    <2>3. Len(r) = Len(q) - 1
      <3>1. ASSUME NEW n \in Nat, n >= 1, NEW m,
                   m = IF 1 <= n - 1 THEN (n - 1) - 1 + 1 ELSE 0
            PROVE  m = n - 1
        BY ONLY <3>1, n \in Nat
      <3> QED BY <1>1, <2>2, <3>1
    <2>4. ASSUME NEW i \in 1..Len(r) PROVE r[i] = q[i]
      <3>1. i \in 1..((Len(q) - 1) - 1 + 1) /\ 1 + i - 1 = i
        BY <1>1, <2>3
      <3> QED BY <2>2, <3>1
    <2> QED BY <2>2, <2>3, <2>4
  <1> HIDE DEF r
  <1>3. Range(r) \subseteq Range(q)
    BY <1>1, <1>2 DEF Range
  <1> QED BY <1>1, <1>2, <1>3 DEF Last, Range, r

\* A sequence with one more at its end.
LEMMA Appended ==
  ASSUME NEW S, NEW q \in Seq(S), NEW e \in S
  PROVE  /\ Append(q, e) \in Seq(S) /\ Len(Append(q, e)) = Len(q) + 1
         /\ Len(q) \in Nat
         /\ \A i \in 1..Len(q) : Append(q, e)[i] = q[i]
         /\ Append(q, e)[Len(q) + 1] = e
         /\ Range(Append(q, e)) = Range(q) \cup {e}
         /\ IsInjective(q) /\ e \notin Range(q) => IsInjective(Append(q, e))
  <1> DEFINE r == Append(q, e)
  <1>1. /\ r \in Seq(S) /\ Len(r) = Len(q) + 1 /\ Len(q) \in Nat
        /\ \A i \in 1..Len(q) : r[i] = q[i]
        /\ r[Len(q) + 1] = e
    BY AppendProperties
  <1>2. DOMAIN q = 1..Len(q) /\ DOMAIN r = 1..(Len(q) + 1)
    BY <1>1
  <1> HIDE DEF r
  <1>3. Range(r) \subseteq Range(q) \cup {e}
    BY <1>1, <1>2 DEF Range
  <1>4. Range(q) \subseteq Range(r)
    BY <1>1, <1>2 DEF Range
  <1>5. e \in Range(r)
    BY <1>1, <1>2 DEF Range
  <1>6. ASSUME IsInjective(q), e \notin Range(q), NEW i \in DOMAIN r,
               NEW j \in DOMAIN r, r[i] = r[j]
        PROVE  i = j
    <2>1. \A k \in DOMAIN q : q[k] # e
      BY <1>6 DEF Range
    <2> QED BY <1>1, <1>2, <1>6, <2>1 DEF IsInjective
  <1> QED BY <1>1, <1>3, <1>4, <1>5, <1>6 DEF IsInjective, r

\* One list behind another.
LEMMA Joined ==
  ASSUME NEW S, NEW q \in Seq(S), NEW g \in Seq(S), IsInjective(q), IsInjective(g),
         Range(q) \cap Range(g) = {}
  PROVE  /\ q \o g \in Seq(S) /\ IsInjective(q \o g)
         /\ Range(q \o g) = Range(q) \cup Range(g)
  <1> DEFINE r == q \o g
  <1>1. /\ r \in Seq(S) /\ Len(r) = Len(q) + Len(g) /\ Len(q) \in Nat /\ Len(g) \in Nat
        /\ \A i \in 1..(Len(q) + Len(g)) :
             r[i] = IF i <= Len(q) THEN q[i] ELSE g[i - Len(q)]
    BY ConcatProperties
  <1>2. /\ DOMAIN q = 1..Len(q) /\ DOMAIN g = 1..Len(g)
        /\ DOMAIN r = 1..(Len(q) + Len(g))
    BY <1>1
  <1> HIDE DEF r
  <1>3. /\ \A i \in DOMAIN q : q[i] \in Range(q) /\ i \in DOMAIN r /\ r[i] = q[i]
        /\ \A i \in DOMAIN g : /\ g[i] \in Range(g) /\ i + Len(q) \in DOMAIN r
                               /\ r[i + Len(q)] = g[i]
        /\ \A i \in DOMAIN r : i \in DOMAIN q \/ i - Len(q) \in DOMAIN g
    BY <1>1, <1>2 DEF Range
  <1>4. ASSUME NEW i \in DOMAIN r, i \notin DOMAIN q
        PROVE  i - Len(q) \in DOMAIN g /\ r[i] = g[i - Len(q)]
    BY <1>1, <1>2, <1>4
  <1>5. ASSUME NEW i \in DOMAIN r, NEW j \in DOMAIN r, r[i] = r[j]
        PROVE  i = j
    <2>1. CASE i \in DOMAIN q /\ j \in DOMAIN q
      BY <1>3, <1>5, <2>1 DEF IsInjective
    <2>2. CASE i \notin DOMAIN q /\ j \notin DOMAIN q
      <3>1. i - Len(q) = j - Len(q)
        BY <1>4, <1>5, <2>2 DEF IsInjective
      <3> QED BY <1>1, <1>2, <3>1
    <2>3. ~(i \in DOMAIN q /\ j \notin DOMAIN q)
      BY <1>3, <1>4, <1>5
    <2>4. ~(i \notin DOMAIN q /\ j \in DOMAIN q)
      BY <1>3, <1>4, <1>5
    <2> QED BY <2>1, <2>2, <2>3, <2>4
  <1>6. Range(r) = Range(q) \cup Range(g)
    <2>1. Range(r) \subseteq Range(q) \cup Range(g)
      <3>1. \A i \in DOMAIN r : r[i] \in Range(q) \cup Range(g)
        BY <1>3, <1>4
      <3> QED BY <3>1 DEF Range
    <2>2. Range(q) \subseteq Range(r)
      BY <1>3 DEF Range
    <2>3. Range(g) \subseteq Range(r)
      BY <1>3 DEF Range
    <2> QED BY <2>1, <2>2, <2>3
  <1> QED BY <1>1, <1>5, <1>6 DEF IsInjective, r

-------------------------------------------------------------------------------
(* How places and order change with a list *)

LEMMA PlacePushed ==
  ASSUME NEW S, NEW q \in Seq(S), IsInjective(q), NEW e \in S, e \notin Range(q),
         NEW c, c # e
  PROVE  Place(<<e>> \o q, c) = IF c \in Range(q) THEN Place(q, c) + 1 ELSE 0
  <1> DEFINE r == <<e>> \o q
  <1>1. /\ Len(r) = 1 + Len(q) /\ Len(q) \in Nat
        /\ \A i \in 1..Len(r) : r[i] = IF i = 1 THEN e ELSE q[i - 1]
    OBVIOUS
  <1>2. DOMAIN r = 1..Len(r) /\ DOMAIN q = 1..Len(q)
    BY <1>1
  <1>3. r \in Seq(S) /\ IsInjective(r) /\ Range(r) = Range(q) \cup {e}
    BY PushedFront
  <1> HIDE DEF r
  <1>4. CASE c \in Range(q)
    <2>1. PICK n \in DOMAIN q : q[n] = c
      BY <1>4 DEF Range
    <2>2. n + 1 \in DOMAIN r /\ r[n + 1] = c
      BY <1>1, <1>2, <2>1
    <2>3. Place(q, c) = n /\ Place(r, c) = n + 1
      BY <1>3, <2>1, <2>2, Position
    <2> QED BY <1>4, <2>3 DEF r
  <1>5. CASE c \notin Range(q)
    <2>1. c \notin Range(r)
      BY <1>3, <1>5
    <2>2. Place(r, c) = 0
      BY <1>3, <2>1, Position
    <2> QED BY <1>5, <2>2 DEF r
  <1> QED BY <1>4, <1>5

LEMMA PlaceUnlinked ==
  ASSUME NEW S, NEW q \in Seq(S), IsInjective(q), NEW n \in 1..Len(q),
         NEW c, Place(q, c) < n
  PROVE  Place(RemoveFirst(q, q[n]), c) = Place(q, c)
  <1> DEFINE r == RemoveFirst(q, q[n])
  <1>1. /\ r \in Seq(S) /\ Len(r) = Len(q) - 1
        /\ \A i \in 1..Len(r) : r[i] = IF i < n THEN q[i] ELSE q[i + 1]
    BY UnlinkedAt
  <1>2. DOMAIN q = 1..Len(q) /\ Len(q) \in Nat /\ DOMAIN r = 1..Len(r)
    BY <1>1
  <1>3. q[n] \in Range(q)
    BY <1>2 DEF Range
  <1>4. IsInjective(r) /\ Range(r) = Range(q) \ {q[n]}
    BY <1>3, Unlinked
  <1> HIDE DEF r
  <1>5. CASE c \in Range(q)
    <2>1. PICK k \in DOMAIN q : q[k] = c
      BY <1>5 DEF Range
    <2>2. Place(q, c) = k
      BY <2>1, Position
    <2>3. k \in DOMAIN r /\ r[k] = c
      BY <1>1, <1>2, <2>1, <2>2
    <2>4. Place(r, c) = k
      BY <1>1, <1>4, <2>3, Position
    <2> QED BY <2>2, <2>4 DEF r
  <1>6. CASE c \notin Range(q)
    <2>1. Place(q, c) = 0
      BY <1>6, Position
    <2>2. Place(r, c) = 0
      BY <1>1, <1>4, <1>6, Position
    <2> QED BY <2>1, <2>2 DEF r
  <1> QED BY <1>5, <1>6

\* q has its members in the reverse of their order in b.
Reverses(q, b) ==
  \A i, j \in DOMAIN q : i < j => Place(b, q[i]) > Place(b, q[j])

LEMMA ReversesUnlinked ==
  ASSUME NEW S, NEW q \in Seq(S), IsInjective(q), NEW n \in 1..Len(q), NEW b,
         Reverses(q, b)
  PROVE  Reverses(RemoveFirst(q, q[n]), b)
  <1> DEFINE r == RemoveFirst(q, q[n])
  <1>1. /\ r \in Seq(S) /\ Len(r) = Len(q) - 1
        /\ \A i \in 1..Len(r) : r[i] = IF i < n THEN q[i] ELSE q[i + 1]
    BY UnlinkedAt
  <1>2. DOMAIN q = 1..Len(q) /\ Len(q) \in Nat /\ DOMAIN r = 1..Len(r)
    BY <1>1
  <1> HIDE DEF r
  <1> DEFINE at(l) == IF l < n THEN l ELSE l + 1
  <1>3. ASSUME NEW l \in DOMAIN r PROVE at(l) \in DOMAIN q /\ r[l] = q[at(l)]
    BY <1>1, <1>2
  <1>4. ASSUME NEW i \in DOMAIN r, NEW j \in DOMAIN r, i < j
        PROVE  at(i) < at(j)
    BY <1>1, <1>2, <1>4
  <1> HIDE DEF at
  <1>5. Reverses(r, b)
    BY <1>3, <1>4 DEF Reverses
  <1> QED BY <1>5 DEF r

LEMMA ReversesTail ==
  ASSUME NEW S, NEW q \in Seq(S), q # <<>>, NEW b, Reverses(q, b)
  PROVE  Reverses(Tail(q), b)
  <1> DEFINE r == Tail(q)
  <1>1. /\ r \in Seq(S) /\ Len(q) \in Nat /\ Len(r) = Len(q) - 1
        /\ \A i \in 1..Len(r) : r[i] = q[i + 1]
    BY HeadTailProperties
  <1>2. DOMAIN r = 1..Len(r) /\ DOMAIN q = 1..Len(q)
    BY <1>1
  <1> HIDE DEF r
  <1>3. ASSUME NEW i \in DOMAIN r, NEW j \in DOMAIN r, i < j
        PROVE  Place(b, r[i]) > Place(b, r[j])
    <2>1. i + 1 \in DOMAIN q /\ j + 1 \in DOMAIN q /\ i + 1 < j + 1
          /\ r[i] = q[i + 1] /\ r[j] = q[j + 1]
      BY <1>1, <1>2, <1>3
    <2> QED BY <2>1 DEF Reverses
  <1> QED BY <1>3 DEF Reverses, r

LEMMA ReversesAppended ==
  ASSUME NEW S, NEW q \in Seq(S), NEW e \in S, NEW b, Reverses(q, b),
         \A x \in Range(q) : Place(b, x) > Place(b, e)
  PROVE  Reverses(Append(q, e), b)
  <1> DEFINE r == Append(q, e)
  <1>1. /\ r \in Seq(S) /\ Len(r) = Len(q) + 1 /\ Len(q) \in Nat
        /\ \A i \in 1..Len(q) : r[i] = q[i]
        /\ r[Len(q) + 1] = e
    BY Appended
  <1>2. DOMAIN q = 1..Len(q) /\ DOMAIN r = 1..(Len(q) + 1)
    BY <1>1
  <1> HIDE DEF r
  <1>3. ASSUME NEW i \in DOMAIN r, NEW j \in DOMAIN r, i < j
        PROVE  Place(b, r[i]) > Place(b, r[j])
    <2>1. i \in DOMAIN q /\ r[i] = q[i]
      BY <1>1, <1>2, <1>3
    <2>2. CASE j \in DOMAIN q
      BY <1>1, <1>2, <1>3, <2>1, <2>2 DEF Reverses
    <2>3. CASE j \notin DOMAIN q
      <3>1. r[j] = e
        BY <1>1, <1>2, <2>3
      <3>2. q[i] \in Range(q)
        BY <2>1 DEF Range
      <3> QED BY <2>1, <3>1, <3>2
    <2> QED BY <2>2, <2>3
  <1> QED BY <1>3 DEF Reverses, r

\* A member that is new in b keeps the places of the others.
LEMMA PlaceAppended ==
  ASSUME NEW S, NEW b \in Seq(S), IsInjective(b), NEW e \in S, e \notin Range(b)
  PROVE  /\ Place(Append(b, e), e) = Len(b) + 1
         /\ \A x \in Range(b) : /\ Place(Append(b, e), x) = Place(b, x)
                                /\ Place(b, x) \in 1..Len(b)
  <1> DEFINE r == Append(b, e)
  <1>1. /\ r \in Seq(S) /\ Len(r) = Len(b) + 1 /\ Len(b) \in Nat
        /\ \A i \in 1..Len(b) : r[i] = b[i]
        /\ r[Len(b) + 1] = e /\ IsInjective(r)
    BY Appended
  <1>2. DOMAIN b = 1..Len(b) /\ DOMAIN r = 1..(Len(b) + 1)
    BY <1>1
  <1> HIDE DEF r
  <1>3. Place(r, e) = Len(b) + 1
    <2>1. Len(b) + 1 \in DOMAIN r
      BY <1>1, <1>2
    <2> QED BY <1>1, <2>1, Position
  <1>4. ASSUME NEW x \in Range(b)
        PROVE  Place(r, x) = Place(b, x) /\ Place(b, x) \in 1..Len(b)
    <2>1. PICK n \in DOMAIN b : b[n] = x
      BY DEF Range
    <2>2. n \in DOMAIN r /\ r[n] = x
      BY <1>1, <1>2, <2>1
    <2>3. Place(b, x) = n /\ Place(r, x) = n
      BY <1>1, <2>1, <2>2, Position
    <2> QED BY <1>2, <2>3
  <1> QED BY <1>3, <1>4 DEF r

LEMMA ReversesPushed ==
  ASSUME NEW S, NEW q \in Seq(S), NEW b \in Seq(S), IsInjective(b),
         NEW e \in S, e \notin Range(b), Range(q) \subseteq Range(b),
         Reverses(q, b)
  PROVE  Reverses(<<e>> \o q, Append(b, e)) /\ Reverses(q, Append(b, e))
  <1> DEFINE r == <<e>> \o q  c == Append(b, e)
  <1>1. /\ r \in Seq(S) /\ Len(r) = 1 + Len(q) /\ Len(q) \in Nat
        /\ \A i \in 1..Len(r) : r[i] = IF i = 1 THEN e ELSE q[i - 1]
    OBVIOUS
  <1>2. DOMAIN r = 1..Len(r) /\ DOMAIN q = 1..Len(q) /\ Len(b) \in Nat
    BY <1>1
  <1>3. /\ Place(c, e) = Len(b) + 1
        /\ \A x \in Range(b) : Place(c, x) = Place(b, x) /\ Place(b, x) \in 1..Len(b)
    BY PlaceAppended
  <1> HIDE DEF r, c
  <1>4. \A i \in DOMAIN q : q[i] \in Range(b)
    BY DEF Range
  <1>5. Reverses(q, c)
    BY <1>3, <1>4 DEF Reverses
  <1>6. ASSUME NEW i \in DOMAIN r, NEW j \in DOMAIN r, i < j
        PROVE  Place(c, r[i]) > Place(c, r[j])
    <2>1. j - 1 \in DOMAIN q /\ r[j] = q[j - 1]
      BY <1>1, <1>2, <1>6
    <2>2. Place(c, r[j]) \in 1..Len(b)
      BY <1>3, <1>4, <2>1
    <2>3. CASE i = 1
      BY <1>1, <1>2, <1>3, <2>2, <2>3
    <2>4. CASE i # 1
      <3>1. i - 1 \in DOMAIN q /\ r[i] = q[i - 1] /\ i - 1 < j - 1
        BY <1>1, <1>2, <1>6, <2>4
      <3> QED BY <1>5, <2>1, <3>1 DEF Reverses
    <2> QED BY <2>3, <2>4
  <1> QED BY <1>5, <1>6 DEF Reverses, r, c
================================================================================
