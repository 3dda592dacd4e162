----------------------------- MODULE Trace_lemmas ------------------------------
(***************************************************************************)
(* Lemmas about the operators of Trace: what unlinking, flushing,          *)
(* finishing, aborting and freeing traces do to a heap, a record of the    *)
(* traces, their numbers and the bytecode.                                 *)
(*                                                                         *)
(* A heap is Sound for two sets of traces.  V holds all that may still be  *)
(* reached: whatever a trace of V names by number (its link, the next      *)
(* trace on its chain, the next side trace), or the head of a chain names, *)
(* is in V.  K holds the traces of V that may be run: each is in the tree  *)
(* of a root trace of K, on its list of side traces, and its machine code  *)
(* jumps only within that tree or to its link.  While the collector is     *)
(* marking, Marks adds that nothing black hides a white trace for good:    *)
(* traces reach the collector by number, a flush cuts chains under it, and *)
(* what a flushed trace led to may be found only by way of another trace   *)
(* that is off the chains.                                                 *)
(*                                                                         *)
(* The provers have no induction over recursive functions, so chains are   *)
(* lists, and loops are closed under: a set that one round of a loop stays *)
(* in holds the loop's result (FlushprotoStays, FlushallStays), by a       *)
(* smallest counterexample among the natural numbers.                      *)
(***************************************************************************)
EXTENDS Trace, ListLemmas, FiniteSetTheorems, TLAPS
--------------------------------------------------------------------------------
(* Loops, and chains as lists. *)

\* Flushing a prototype stays in a set that flushing the first trace of its chain
\* stays in: lj_trace_flushproto, however many traces it takes.
LEMMA FlushprotoStays ==
  ASSUME NEW Q, NEW p, NEW h \in Q, MAXTRACE \in Nat,
         \A g \in Q : g.chain[p] # 0 => trace_flushroot(g, g.trace[g.chain[p]]) \in Q
  PROVE  lj_trace_flushproto(h, p) \in Q
<1>. DEFINE once(g) == IF g.chain[p] = 0 THEN g
                       ELSE trace_flushroot(g, g.trace[g.chain[p]])
            body(g) == [i \in 0..MAXTRACE |-> IF i = 0 THEN h ELSE once(g[i - 1])]
            st == [x \in (1..MAXTRACE) \X Q |-> once(x[2])]
            f == CHOOSE g : g = body(g)
<1>1. \A g \in Q : once(g) \in Q
  OBVIOUS
<1>2. lj_trace_flushproto(h, p) = f[MAXTRACE]
  BY DEF lj_trace_flushproto
<1>. HIDE DEF once
<1>3. st \in [(1..MAXTRACE) \X Q -> Q]
  BY <1>1
<1>4. PICK e \in [0..MAXTRACE -> Q] :
        e[0] = h /\ \A i \in 1..MAXTRACE : e[i] = st[<<i, e[i - 1]>>]
  <2>. HIDE DEF st
  <2>1. \E e : Repeats(e, MAXTRACE, Q, st, h)
    BY <1>3, Repeated
  <2>. QED
    BY <2>1 DEF Repeats
<1>5. e = body(e)
  <2>1. ASSUME NEW i \in 1..MAXTRACE
        PROVE  e[i] = once(e[i - 1])
    <3>1. i - 1 \in 0..MAXTRACE
      OBVIOUS
    <3>2. e[i - 1] \in Q /\ e[i] = st[<<i, e[i - 1]>>]
      BY <1>4, <3>1
    <3>3. <<i, e[i - 1]>> \in (1..MAXTRACE) \X Q
      BY <3>2
    <3>. QED
      BY <3>2, <3>3
  <2>2. \A i \in 0..MAXTRACE : i # 0 => i \in 1..MAXTRACE
    OBVIOUS
  <2>3. \A i \in 0..MAXTRACE : e[i] = body(e)[i]
    BY <1>4, <2>1, <2>2
  <2>. QED
    BY <1>4, <2>3
<1>6. f = body(f)
  <2>. HIDE DEF body
  <2>. QED
    BY <1>5
<1>7. \A i \in 0..MAXTRACE : f[i] = IF i = 0 THEN h ELSE once(f[i - 1])
  <2>. HIDE DEF f
  <2>. QED
    BY <1>6
<1>. HIDE DEF f
<1>. DEFINE T == {i \in Nat : i <= MAXTRACE => f[i] \in Q}
<1>8. 0 \in T
  BY <1>7
<1>9. ASSUME NEW i \in Nat, i \in T PROVE i + 1 \in T
  <2>. SUFFICES ASSUME i + 1 <= MAXTRACE PROVE f[i + 1] \in Q
    OBVIOUS
  <2>1. f[i] \in Q /\ i + 1 \in 0..MAXTRACE /\ i + 1 # 0 /\ (i + 1) - 1 = i
    BY <1>9
  <2>2. f[i + 1] = once(f[i])
    BY <2>1, <1>7
  <2>. QED
    BY <2>1, <2>2, <1>1
<1>10. MAXTRACE \in T
  <2>. HIDE DEF T
  <2>. QED
    BY <1>8, <1>9, SetInduction
<1>. QED
  BY <1>2, <1>10


\* Flushing the numbers from the last down to the first stays in a set that
\* FlushNumber stays in, and leaves no number.
LEMMA FlushallStays ==
  ASSUME NEW Q, NEW h \in Q,
         \A g \in Q, n \in Numbers :
           /\ FlushNumber(g, n) \in Q
           /\ FlushNumber(g, n).trace[n] = NULL
           /\ \A m \in Numbers : m # n => FlushNumber(g, n).trace[m] = g.trace[m]
  PROVE  \E g \in Q :
           /\ \A n \in Numbers : g.trace[n] = NULL
           /\ lj_trace_flushall(h) = [g EXCEPT !.curno = 0, !.freetrace = 0]
<1>. DEFINE M == MAXTRACE
            body(g) == [n \in 1..M + 1 |-> IF n > M THEN h
                                           ELSE FlushNumber(g[n + 1], n)]
            st == [x \in (1..M) \X Q |-> FlushNumber(x[2], M + 1 - x[1])]
            f == CHOOSE g : g = body(g)
<1>0. M \in Nat /\ MAXTRACE \in Nat
  BY TraceAssumption
<1>1. lj_trace_flushall(h) = [f[1] EXCEPT !.curno = 0, !.freetrace = 0]
  BY DEF lj_trace_flushall
<1>2. \A i \in 1..M : M + 1 - i \in Numbers
  BY <1>0 DEF Numbers
<1>3. st \in [(1..M) \X Q -> Q]
  BY <1>2
<1>4. \E e : Repeats(e, M, Q, st, h)
  <2>. HIDE DEF st
  <2>. QED
    BY <1>0, <1>3, Repeated
<1>5. PICK e : Repeats(e, M, Q, st, h)
  BY <1>4
<1>6. e \in [0..M -> Q] /\ e[0] = h /\ \A i \in 1..M : e[i] = st[<<i, e[i - 1]>>]
  BY <1>5 DEF Repeats
<1>. DEFINE w == [n \in 1..M + 1 |-> e[M + 1 - n]]
<1>7. ASSUME NEW n \in 1..M + 1 PROVE w[n] = body(w)[n]
  <2>1. CASE n > M
    <3>1. n = M + 1 /\ M + 1 - n = 0
      BY <1>0, <2>1
    <3>. QED
      BY <3>1, <1>6, <2>1
  <2>2. CASE ~ (n > M)
    <3>1. /\ M + 1 - n \in 1..M /\ n + 1 \in 1..M + 1
          /\ M + 1 - (n + 1) = (M + 1 - n) - 1 /\ (M + 1 - n) - 1 \in 0..M
          /\ M + 1 - (M + 1 - n) = n
      BY <1>0, <2>2
    <3>2. w[n + 1] = e[(M + 1 - n) - 1]
      BY <3>1
    <3>3. e[(M + 1 - n) - 1] \in Q
      BY <3>1, <1>6
    <3>4. w[n] = st[<<M + 1 - n, e[(M + 1 - n) - 1]>>]
      BY <3>1, <1>6
    <3>5. w[n] = FlushNumber(e[(M + 1 - n) - 1], n)
      <4>1. <<M + 1 - n, e[(M + 1 - n) - 1]>> \in (1..M) \X Q
        BY <3>1, <3>3
      <4>. QED
        BY <4>1, <3>4, <3>1
    <3>. QED
      BY <3>5, <3>2, <2>2
  <2>. QED
    BY <2>1, <2>2
<1>8. w = body(w)
  BY <1>7
<1>9. f = body(f)
  <2>. HIDE DEF body, w
  <2>. QED
    BY <1>8
<1>10. \A n \in 1..M + 1 : f[n] = IF n > M THEN h ELSE FlushNumber(f[n + 1], n)
  <2>. HIDE DEF f
  <2>. QED
    BY <1>9
<1>. HIDE DEF f
<1>. DEFINE None(i) == \A n \in Numbers : n > M - i => f[M + 1 - i].trace[n] = NULL
            T == {i \in Nat : i <= M => f[M + 1 - i] \in Q /\ None(i)}
<1>11. 0 \in T
  <2>1. M + 1 - 0 \in 1..M + 1 /\ M + 1 - 0 > M
    BY <1>0
  <2>2. f[M + 1 - 0] = h
    BY <2>1, <1>10
  <2>3. \A n \in Numbers : ~ (n > M - 0)
    BY <1>0 DEF Numbers
  <2>. QED
    BY <2>2, <2>3
<1>12. ASSUME NEW i \in Nat, i \in T PROVE i + 1 \in T
  <2>. SUFFICES ASSUME i + 1 <= M PROVE f[M + 1 - (i + 1)] \in Q /\ None(i + 1)
    OBVIOUS
  <2>. DEFINE k == M + 1 - (i + 1)
  <2>1. /\ k \in Numbers /\ k \in 1..M + 1 /\ ~ (k > M) /\ k + 1 = M + 1 - i
        /\ \A n \in Numbers : n > M - (i + 1) => n = k \/ n > M - i
    BY <1>0 DEF Numbers
  <2>2. f[k + 1] \in Q /\ \A n \in Numbers : n > M - i => f[k + 1].trace[n] = NULL
    BY <1>12, <2>1, <1>0
  <2>3. f[k] = FlushNumber(f[k + 1], k)
    BY <2>1, <1>10
  <2>. HIDE DEF k
  <2>4. f[k] \in Q /\ f[k].trace[k] = NULL
        /\ \A m \in Numbers : m # k => f[k].trace[m] = f[k + 1].trace[m]
    BY <2>1, <2>2, <2>3
  <2>5. \A n \in Numbers : n > M - (i + 1) => f[k].trace[n] = NULL
    BY <2>1, <2>2, <2>4
  <2>. QED
    BY <2>4, <2>5 DEF k
<1>13. M \in T
  <2>. HIDE DEF T
  <2>. QED
    BY <1>0, <1>11, <1>12, SetInduction
<1>14. M + 1 - M = 1 /\ M - M = 0 /\ M <= M /\ \A n \in Numbers : n > 0
  BY <1>0 DEF Numbers
<1>15. f[1] \in Q /\ \A n \in Numbers : f[1].trace[n] = NULL
  BY <1>13, <1>14
<1>. QED
  BY <1>15, <1>1

\* A chain of traces, as a list of their numbers.
IsChain(h, p, L) ==
  /\ L \in Seq(Numbers) /\ IsInjective(L)
  /\ h.chain[p] = IF L = <<>> THEN 0 ELSE L[1]
  /\ \A i \in DOMAIN L :
       /\ h.trace[L[i]] \in Ids
       /\ h.obj[h.trace[L[i]]].root = 0
       /\ ProtoOf[h.obj[h.trace[L[i]]].start] = p
       /\ h.obj[h.trace[L[i]]].nextroot = IF i = Len(L) THEN 0 ELSE L[i + 1]

\* A list of different numbers is no longer than there are numbers.
LEMMA ChainLength ==
  ASSUME NEW L \in Seq(Numbers), IsInjective(L)
  PROVE  Len(L) \in Nat /\ Len(L) <= MAXTRACE
<1>1. MAXTRACE \in Nat /\ Len(L) \in Nat /\ DOMAIN L = 1..Len(L)
  BY TraceAssumption
<1>2. \A i \in 1..Len(L) : L[i] \in Numbers
  OBVIOUS
<1>3. IsFiniteSet(1..MAXTRACE) /\ Cardinality(1..MAXTRACE) = MAXTRACE
  <2>1. 1 \in Int /\ MAXTRACE \in Int
    BY <1>1
  <2>2. IsFiniteSet(1..MAXTRACE)
        /\ Cardinality(1..MAXTRACE) = IF 1 > MAXTRACE THEN 0 ELSE MAXTRACE - 1 + 1
    BY <2>1, FS_Interval
  <2>. QED
    BY <2>2, <1>1
<1>4. IsFiniteSet(1..Len(L)) /\ Cardinality(1..Len(L)) = Len(L)
  <2>1. 1 \in Int /\ Len(L) \in Int
    BY <1>1
  <2>2. IsFiniteSet(1..Len(L))
        /\ Cardinality(1..Len(L)) = IF 1 > Len(L) THEN 0 ELSE Len(L) - 1 + 1
    BY <2>1, FS_Interval
  <2>. QED
    BY <2>2, <1>1
<1>5. L \in Injection(1..Len(L), 1..MAXTRACE)
  <2>1. L \in [1..Len(L) -> 1..MAXTRACE]
    <3>1. L \in [1..Len(L) -> Numbers]
      BY LenProperties
    <3>. QED
      BY <3>1 DEF Numbers
  <2>2. IsInjective(L)
    OBVIOUS
  <2>. QED
    BY <2>1, <2>2, Zenon DEF Injection
<1>6. Cardinality(1..Len(L)) <= Cardinality(1..MAXTRACE)
  BY <1>3, <1>5, FS_Injection
<1>. QED
  BY <1>1, <1>3, <1>4, <1>6

\* OnChain, which follows nextroot MAXTRACE times, finds what is on the list.
LEMMA ChainIs ==
  ASSUME NEW h, NEW p, NEW L, IsChain(h, p, L)
  PROVE  OnChain(h, p) = Range(L)
<1>. DEFINE body(at) == [i \in Numbers |->
              IF i = 1 THEN h.chain[p]
              ELSE IF at[i - 1] = 0 THEN 0
              ELSE IF h.trace[at[i - 1]] \notin Ids THEN 0
              ELSE h.obj[h.trace[at[i - 1]]].nextroot]
            f == CHOOSE at : at = body(at)
            w == [i \in Numbers |-> IF i <= Len(L) THEN L[i] ELSE 0]
<1>1. Chain(h, p) = f
  BY DEF Chain
<1>2. /\ L \in Seq(Numbers) /\ IsInjective(L) /\ DOMAIN L = 1..Len(L)
      /\ Len(L) \in Nat /\ Len(L) <= MAXTRACE /\ MAXTRACE \in Nat
      /\ Numbers = 1..MAXTRACE
      /\ \A i \in 1..Len(L) : L[i] \in Numbers /\ L[i] # 0
  BY ChainLength, TraceAssumption DEF IsChain, Numbers
<1>3. /\ h.chain[p] = IF Len(L) = 0 THEN 0 ELSE L[1]
      /\ \A i \in 1..Len(L) :
           /\ h.trace[L[i]] \in Ids
           /\ h.obj[h.trace[L[i]]].nextroot = IF i = Len(L) THEN 0 ELSE L[i + 1]
  <2>1. L = <<>> <=> Len(L) = 0
    BY <1>2, EmptySeq
  <2>. QED
    BY <1>2, <2>1 DEF IsChain
\* The entry at i - 1 determines that at i as the list does.
<1>4. ASSUME NEW at, NEW i \in Numbers, i # 1,
             at[i - 1] = IF i - 1 <= Len(L) THEN L[i - 1] ELSE 0
      PROVE  body(at)[i] = IF i <= Len(L) THEN L[i] ELSE 0
  <2>1. i - 1 \in 1..MAXTRACE /\ (i - 1) + 1 = i /\ i - 1 \in Nat /\ i \in Nat
    BY <1>2, <1>4
  <2>2. CASE i - 1 <= Len(L)
    <3>1. i - 1 \in 1..Len(L) /\ (i - 1 = Len(L) <=> ~ (i <= Len(L)))
      BY <1>2, <2>1, <2>2
    <3>2. /\ at[i - 1] = L[i - 1] /\ at[i - 1] # 0 /\ h.trace[at[i - 1]] \in Ids
          /\ h.obj[h.trace[at[i - 1]]].nextroot
               = IF i - 1 = Len(L) THEN 0 ELSE L[(i - 1) + 1]
      BY <1>2, <1>3, <1>4, <2>2, <3>1
    <3>. QED
      BY <1>4, <3>1, <3>2, <2>1
  <2>3. CASE ~ (i - 1 <= Len(L))
    <3>1. ~ (i <= Len(L)) /\ at[i - 1] = 0
      BY <1>2, <1>4, <2>1, <2>3
    <3>. QED
      BY <1>4, <3>1
  <2>. QED
    BY <2>2, <2>3
<1>5. ASSUME NEW at PROVE body(at)[1] = IF 1 <= Len(L) THEN L[1] ELSE 0
  <2>1. 1 \in Numbers /\ (Len(L) = 0 <=> ~ (1 <= Len(L)))
    BY <1>2, TraceAssumption
  <2>. QED
    BY <2>1, <1>3
<1>6. w = body(w)
  <2>1. ASSUME NEW i \in Numbers PROVE w[i] = body(w)[i]
    <3>1. CASE i = 1
      BY <3>1, <1>5
    <3>2. CASE i # 1
      <4>1. i - 1 \in Numbers
        BY <3>2, <1>2
      <4>2. w[i - 1] = IF i - 1 <= Len(L) THEN L[i - 1] ELSE 0
        BY <4>1
      <4>3. body(w)[i] = IF i <= Len(L) THEN L[i] ELSE 0
        <5>. HIDE DEF w, body
        <5>. QED
          BY <3>2, <4>2, <1>4
      <4>. HIDE DEF body
      <4>. QED
        BY <4>3
    <3>. QED
      BY <3>1, <3>2
  <2>. QED
    BY <2>1
<1>7. f = body(f)
  <2>. HIDE DEF body, w
  <2>. QED
    BY <1>6
<1>. HIDE DEF f
<1>8. \A i \in Numbers : f[i] = body(f)[i]
  <2>. HIDE DEF body
  <2>. QED
    BY <1>7
<1>. DEFINE T == {i \in Nat : i + 1 <= MAXTRACE =>
                     f[i + 1] = IF i + 1 <= Len(L) THEN L[i + 1] ELSE 0}
<1>. HIDE DEF body
<1>9. 0 \in T
  <2>1. 1 \in Numbers
    BY <1>2, TraceAssumption
  <2>2. f[1] = IF 1 <= Len(L) THEN L[1] ELSE 0
    BY <2>1, <1>8, <1>5
  <2>. QED
    BY <2>2
<1>10. ASSUME NEW i \in Nat, i \in T PROVE i + 1 \in T
  <2>. SUFFICES ASSUME (i + 1) + 1 <= MAXTRACE
                PROVE f[(i + 1) + 1] = IF (i + 1) + 1 <= Len(L) THEN L[(i + 1) + 1] ELSE 0
    OBVIOUS
  <2>. DEFINE k == (i + 1) + 1
  <2>1. k \in Numbers /\ k # 1 /\ k - 1 = i + 1
    BY <1>2
  <2>2. f[k - 1] = IF k - 1 <= Len(L) THEN L[k - 1] ELSE 0
    BY <1>10, <1>2, <2>1
  <2>. HIDE DEF k
  <2>3. body(f)[k] = IF k <= Len(L) THEN L[k] ELSE 0
    BY <2>1, <2>2, <1>4
  <2>4. f[k] = body(f)[k]
    BY <2>1, <1>8
  <2>. QED
    BY <2>3, <2>4 DEF k
<1>11. \A i \in Nat : i \in T
  <2>. HIDE DEF T
  <2>. QED
    BY <1>9, <1>10, SetInduction
<1>12. \A i \in Numbers : f[i] = IF i <= Len(L) THEN L[i] ELSE 0
  <2>. TAKE i \in Numbers
  <2>1. i - 1 \in Nat /\ (i - 1) + 1 = i /\ i <= MAXTRACE
    BY <1>2
  <2>. QED
    BY <2>1, <1>11
<1>13. OnChain(h, p) = {f[i] : i \in Numbers} \ {0}
  BY <1>1 DEF OnChain
<1>14. ASSUME NEW n \in Range(L) PROVE n \in OnChain(h, p)
  <2>1. PICK i \in 1..Len(L) : n = L[i]
    BY <1>2 DEF Range
  <2>2. i \in Numbers /\ i <= Len(L)
    BY <1>2
  <2>3. f[i] = n /\ n # 0
    BY <2>1, <2>2, <1>12, <1>2
  <2>. QED
    BY <2>2, <2>3, <1>13
<1>15. ASSUME NEW n \in OnChain(h, p) PROVE n \in Range(L)
  <2>1. PICK i \in Numbers : n = f[i] /\ n # 0
    BY <1>13, <1>15
  <2>2. i <= Len(L) /\ n = L[i]
    BY <2>1, <1>12
  <2>3. i \in 1..Len(L)
    BY <2>2, <1>2
  <2>. QED
    BY <2>2, <2>3, <1>2 DEF Range
<1>. QED
  BY <1>14, <1>15
--------------------------------------------------------------------------------
(* Heaps, and unlinking. *)

Heaps ==
  [bc : [Sites -> Numbers \cup {Plain, Barred}],
   chain : [Protos -> 0..MAXTRACE], iloop : SUBSET Protos,
   obj : [Ids -> GCtrace \cup {NULL}],
   trace : [Numbers -> Ids \cup {NULL, CUR}],
   freetrace : 0..MAXTRACE + 1, curno : 0..MAXTRACE]

\* The numbers of the traces: trace and traceno agree.
Registered(h) ==
  /\ \A n \in Numbers, t \in Ids :
       h.trace[n] = t <=> h.obj[t] # NULL /\ h.obj[t].traceno = n
  /\ \A n \in Numbers : h.trace[n] = CUR => h.curno = n
Rooted(h) ==
  \A t \in Ids : h.obj[t] # NULL =>
    /\ h.obj[t].root = 0 => h.obj[t].start \in Sites
    /\ h.obj[t].traceno = 0 => h.obj[t].link = 0
Led(h, p, L) ==
  \A s \in Sites : ProtoOf[s] = p =>
    {h.bc[s]} \cap Numbers = {n \in Range(L) : h.obj[h.trace[n]].start = s}
Chained(h) == \A p \in Protos : \E L : IsChain(h, p, L) /\ Led(h, p, L)
Barring(h) ==
  \A s \in Sites : h.bc[s] = Barred /\ KindOf[s] # "ITERN" => ProtoOf[s] \in h.iloop
HeapInv(h) ==
  h \in Heaps /\ Registered(h) /\ Rooted(h) /\ Chained(h) /\ Barring(h)

\* All but a chain, and what is unpatched, is the same in g as in h.
Same(h, g) ==
  /\ g.trace = h.trace /\ g.iloop = h.iloop
  /\ g.freetrace = h.freetrace /\ g.curno = h.curno
  /\ \A s \in Sites : g.bc[s] = h.bc[s] \/ g.bc[s] = Plain
  /\ \A u \in Ids : /\ g.obj[u] = NULL <=> h.obj[u] = NULL
                    /\ h.obj[u] # NULL =>
                         \E n \in 0..MAXTRACE :
                           g.obj[u] = [h.obj[u] EXCEPT !.nextroot = n]

\* What the assumptions say of the constants.
LEMMA Constants ==
  /\ MAXTRACE \in Nat /\ MAXTRACE >= 1 /\ Numbers = 1..MAXTRACE
  /\ 0 \notin Numbers /\ Plain \notin Numbers /\ Barred \notin Numbers
  /\ Bad \notin Numbers /\ Plain # Barred
  /\ NULL \notin Ids /\ NULL \notin Sites /\ CUR \notin Ids /\ CUR # NULL
  /\ \A s \in Sites : ProtoOf[s] \in Protos
  /\ \A n \in 0..MAXTRACE : n # 0 => n \in Numbers
  /\ \A n \in Numbers : n \in 0..MAXTRACE /\ n # 0
BY TraceAssumption DEF Numbers, Plain, Barred, Bad

\* The absent trace is no trace.
LEMMA NullIsNoTrace == NULL \notin GCtrace
BY TraceAssumption

\* The types of the fields of a heap.
LEMMA HeapFields ==
  ASSUME NEW h \in Heaps
  PROVE  /\ h.bc \in [Sites -> Numbers \cup {Plain, Barred}]
         /\ h.chain \in [Protos -> 0..MAXTRACE] /\ h.iloop \in SUBSET Protos
         /\ h.obj \in [Ids -> GCtrace \cup {NULL}]
         /\ h.trace \in [Numbers -> Ids \cup {NULL, CUR}]
         /\ h.freetrace \in 0..MAXTRACE + 1 /\ h.curno \in 0..MAXTRACE
BY DEF Heaps

\* The types of the fields of a trace, and those of a trace relinked on a chain.
LEMMA TraceFields ==
  ASSUME NEW T \in GCtrace
  PROVE  /\ T.traceno \in 0..MAXTRACE /\ T.start \in Sites \cup {NULL}
         /\ T.root \in 0..MAXTRACE /\ T.link \in 0..MAXTRACE
         /\ T.nextroot \in 0..MAXTRACE /\ T.nextside \in 0..MAXTRACE
         /\ T.jumps \in SUBSET Ids
         /\ \A n \in 0..MAXTRACE :
              LET U == [T EXCEPT !.nextroot = n] IN
              /\ U \in GCtrace /\ U.nextroot = n
              /\ U.traceno = T.traceno /\ U.start = T.start /\ U.root = T.root
              /\ U.link = T.link /\ U.nextside = T.nextside
              /\ U.linktype = T.linktype /\ U.jumps = T.jumps
         /\ [T EXCEPT !.nextroot = T.nextroot] = T
BY DEF GCtrace

\* Unlinking a trace from its chain changes nextroot fields and a chain's head.
LEMMA UnlinkSame ==
  ASSUME NEW h \in Heaps, NEW t \in Ids, h.obj[t] # NULL, h.obj[t].start \in Sites
  PROVE  Unlink(h, t) \in Heaps /\ Same(h, Unlink(h, t)) /\ Unlink(h, t).bc = h.bc
<1>. DEFINE T == h.obj[t]
            p == ProtoOf[T.start]
            g == Unlink(h, t)
<1>1. T \in GCtrace /\ T.nextroot \in 0..MAXTRACE /\ p \in Protos
  BY HeapFields, TraceFields, Constants
<1>. HIDE DEF T
<1>2. g = IF h.chain[p] = T.traceno THEN [h EXCEPT !.chain[p] = T.nextroot]
          ELSE [h EXCEPT !.obj = [u \in Ids |->
                  IF h.obj[u] # NULL /\ h.obj[u].traceno \in OnChain(h, p)
                       /\ h.obj[u].nextroot = T.traceno
                  THEN [h.obj[u] EXCEPT !.nextroot = T.nextroot] ELSE h.obj[u]]]
  BY DEF Unlink, T
<1>. HIDE DEF p
<1>3. CASE h.chain[p] = T.traceno
  <2>. HIDE DEF g
  <2>1. g = [h EXCEPT !.chain[p] = T.nextroot]
    BY <1>2, <1>3
  <2>2. g \in Heaps
    BY <2>1, <1>1, HeapFields DEF Heaps
  <2>3. g.obj = h.obj /\ g.trace = h.trace /\ g.bc = h.bc /\ g.iloop = h.iloop
        /\ g.freetrace = h.freetrace /\ g.curno = h.curno
    BY <2>1, HeapFields DEF Heaps
  <2>4. ASSUME NEW u \in Ids, h.obj[u] # NULL
        PROVE  \E n \in 0..MAXTRACE : h.obj[u] = [h.obj[u] EXCEPT !.nextroot = n]
    <3>1. h.obj[u] \in GCtrace
      BY <2>4, HeapFields
    <3>. QED
      BY <3>1, TraceFields
  <2>5. QED
    BY <2>2, <2>3, <2>4 DEF Same, g
<1>4. CASE h.chain[p] # T.traceno
  <2>. DEFINE c(u) == h.obj[u] # NULL /\ h.obj[u].traceno \in OnChain(h, p)
                        /\ h.obj[u].nextroot = T.traceno
              o == [u \in Ids |-> IF c(u) THEN [h.obj[u] EXCEPT !.nextroot = T.nextroot]
                                  ELSE h.obj[u]]
  <2>. HIDE DEF g
  <2>1. g = [h EXCEPT !.obj = o]
    BY <1>2, <1>4
  <2>2. ASSUME NEW u \in Ids
        PROVE  /\ o[u] \in GCtrace \cup {NULL}
               /\ o[u] = NULL <=> h.obj[u] = NULL
               /\ h.obj[u] # NULL =>
                    \E n \in 0..MAXTRACE : o[u] = [h.obj[u] EXCEPT !.nextroot = n]
    <3>. DEFINE yes == c(u)
    <3>1. o[u] = IF yes THEN [h.obj[u] EXCEPT !.nextroot = T.nextroot] ELSE h.obj[u]
      OBVIOUS
    <3>2. yes => h.obj[u] # NULL
      OBVIOUS
    <3>. HIDE DEF yes, o
    <3>3. CASE h.obj[u] = NULL
      BY <3>1, <3>2, <3>3
    <3>4. CASE h.obj[u] # NULL
      <4>1. h.obj[u] \in GCtrace
        BY <3>4, HeapFields
      <4>2. /\ [h.obj[u] EXCEPT !.nextroot = T.nextroot] \in GCtrace
            /\ h.obj[u] = [h.obj[u] EXCEPT !.nextroot = h.obj[u].nextroot]
            /\ h.obj[u].nextroot \in 0..MAXTRACE
        BY <4>1, <1>1, TraceFields
      <4>3. o[u] \in GCtrace
        BY <3>1, <4>1, <4>2
      <4>. QED
        BY <3>1, <3>4, <4>2, <4>3, <1>1, NullIsNoTrace
    <3>. QED
      BY <3>3, <3>4
  <2>. HIDE DEF c
  <2>3. o \in [Ids -> GCtrace \cup {NULL}]
    BY <2>2
  <2>. HIDE DEF o
  <2>4. g \in Heaps /\ g.obj = o
        /\ g.trace = h.trace /\ g.bc = h.bc /\ g.iloop = h.iloop
        /\ g.freetrace = h.freetrace /\ g.curno = h.curno
    BY <2>1, <2>3, HeapFields DEF Heaps
  <2>. QED
    BY <2>4, <2>2 DEF Same, g
<1>. QED
  BY <1>3, <1>4


\* A number on a chain is that of an allocated root trace of the prototype.
LEMMA ChainTrace ==
  ASSUME NEW h \in Heaps, Registered(h), Rooted(h),
         NEW p, NEW L, IsChain(h, p, L), NEW n \in Range(L)
  PROVE  /\ h.trace[n] \in Ids /\ h.obj[h.trace[n]] # NULL
         /\ h.obj[h.trace[n]] \in GCtrace
         /\ h.obj[h.trace[n]].traceno = n /\ n \in Numbers
         /\ h.obj[h.trace[n]].root = 0 /\ h.obj[h.trace[n]].start \in Sites
         /\ ProtoOf[h.obj[h.trace[n]].start] = p
<1>1. PICK i \in DOMAIN L : n = L[i]
  BY DEF Range
<1>2. n \in Numbers
  BY <1>1 DEF IsChain
<1>3. h.trace[n] \in Ids /\ h.obj[h.trace[n]].root = 0
      /\ ProtoOf[h.obj[h.trace[n]].start] = p
  BY <1>1 DEF IsChain
<1>4. h.obj[h.trace[n]] # NULL /\ h.obj[h.trace[n]].traceno = n
  BY <1>2, <1>3 DEF Registered
<1>. QED
  BY <1>2, <1>3, <1>4, HeapFields DEF Rooted

\* Unlink, where the k-th trace of a chain is taken off it.
LEMMA UnlinkExact ==
  ASSUME NEW h \in Heaps, Registered(h), Rooted(h),
         NEW t \in Ids, h.obj[t] # NULL, h.obj[t].start \in Sites,
         NEW L, IsChain(h, ProtoOf[h.obj[t].start], L),
         NEW k \in DOMAIN L, h.obj[t].traceno = L[k]
  PROVE  /\ \A q \in Protos : Unlink(h, t).chain[q] =
              IF q = ProtoOf[h.obj[t].start] /\ k = 1 THEN h.obj[t].nextroot
              ELSE h.chain[q]
         /\ \A u \in Ids : h.obj[u] # NULL => Unlink(h, t).obj[u] =
              IF k > 1 /\ u = h.trace[L[k - 1]]
              THEN [h.obj[u] EXCEPT !.nextroot = h.obj[t].nextroot] ELSE h.obj[u]
<1>. DEFINE T == h.obj[t]
            p == ProtoOf[T.start]
            g == Unlink(h, t)
<1>1. T \in GCtrace /\ T.nextroot \in 0..MAXTRACE /\ p \in Protos
  BY HeapFields, TraceFields, Constants
<1>2. /\ L \in Seq(Numbers) /\ DOMAIN L = 1..Len(L) /\ Len(L) \in Nat
      /\ IsInjective(L) /\ L # <<>> /\ h.chain[p] = L[1]
      /\ \A i, j \in 1..Len(L) : L[i] = L[j] => i = j
      /\ 1 \in 1..Len(L) /\ k \in 1..Len(L)
      /\ \A i \in 1..Len(L) : L[i] \in Numbers /\ L[i] # 0 /\ L[i] \in Range(L)
  <2>1. /\ L \in Seq(Numbers) /\ DOMAIN L = 1..Len(L) /\ Len(L) \in Nat
        /\ IsInjective(L) /\ h.chain[p] = IF L = <<>> THEN 0 ELSE L[1]
    BY DEF IsChain
  <2>2. k \in 1..Len(L) /\ L # <<>> /\ 1 \in 1..Len(L)
    BY <2>1, EmptySeq
  <2>3. \A i, j \in 1..Len(L) : L[i] = L[j] => i = j
    BY <2>1 DEF IsInjective
  <2>4. \A i \in 1..Len(L) : L[i] \in Numbers /\ L[i] # 0 /\ L[i] \in Range(L)
    BY <2>1, Constants, SMTT(30) DEF Range
  <2>. QED
    BY <2>1, <2>2, <2>3, <2>4
<1>3. OnChain(h, p) = Range(L)
  BY ChainIs
<1>4. g = IF h.chain[p] = T.traceno THEN [h EXCEPT !.chain[p] = T.nextroot]
          ELSE [h EXCEPT !.obj = [u \in Ids |->
                  IF h.obj[u] # NULL /\ h.obj[u].traceno \in Range(L)
                       /\ h.obj[u].nextroot = T.traceno
                  THEN [h.obj[u] EXCEPT !.nextroot = T.nextroot] ELSE h.obj[u]]]
  BY <1>3 DEF Unlink
<1>5. \A i \in 1..Len(L) :
        /\ h.trace[L[i]] \in Ids /\ h.obj[h.trace[L[i]]] # NULL
        /\ h.obj[h.trace[L[i]]].traceno = L[i]
        /\ h.obj[h.trace[L[i]]].nextroot = IF i = Len(L) THEN 0 ELSE L[i + 1]
  <2>1. \A i \in 1..Len(L) :
          /\ h.trace[L[i]] \in Ids /\ h.obj[h.trace[L[i]]] # NULL
          /\ h.obj[h.trace[L[i]]].traceno = L[i]
    BY <1>2, ChainTrace, SMTT(30)
  <2>2. \A i \in DOMAIN L :
          h.obj[h.trace[L[i]]].nextroot = IF i = Len(L) THEN 0 ELSE L[i + 1]
    BY DEF IsChain
  <2>. QED
    BY <1>2, <2>1, <2>2
<1>. HIDE DEF T, p, g
<1>6. T.traceno = L[k] /\ h.obj[t] = T /\ p = ProtoOf[h.obj[t].start]
  BY DEF T, p
<1>7. CASE k = 1
  <2>1. g = [h EXCEPT !.chain[p] = T.nextroot]
    BY <1>2, <1>4, <1>6, <1>7
  <2>2. g.obj = h.obj /\ g.chain = [h.chain EXCEPT ![p] = T.nextroot]
    BY <2>1 DEF Heaps
  <2>3. \A q \in Protos : g.chain[q] = IF q = p THEN T.nextroot ELSE h.chain[q]
    BY <2>2, HeapFields, <1>1
  <2>. QED
    BY <2>2, <2>3, <1>7 DEF g, p, T
<1>8. CASE k # 1
  <2>1. k > 1 /\ k - 1 \in 1..Len(L) /\ (k - 1) + 1 = k /\ k - 1 # Len(L)
    BY <1>2, <1>8
  <2>2. h.chain[p] # T.traceno
    BY <1>2, <1>6, <1>8
  <2>. DEFINE c(u) == h.obj[u] # NULL /\ h.obj[u].traceno \in Range(L)
                        /\ h.obj[u].nextroot = T.traceno
              o == [u \in Ids |-> IF c(u) THEN [h.obj[u] EXCEPT !.nextroot = T.nextroot]
                                  ELSE h.obj[u]]
  <2>3. g = [h EXCEPT !.obj = o]
    BY <1>4, <2>2
  <2>4. ASSUME NEW u \in Ids PROVE c(u) <=> u = h.trace[L[k - 1]]
    <3>1. c(h.trace[L[k - 1]])
      BY <2>1, <1>2, <1>5, <1>6
    <3>2. ASSUME c(u) PROVE u = h.trace[L[k - 1]]
      <4>1. PICK i \in 1..Len(L) : h.obj[u].traceno = L[i]
        BY <3>2, <1>2 DEF Range
      <4>2. h.trace[L[i]] = u
        BY <4>1, <3>2, <1>2 DEF Registered
      <4>3. (IF i = Len(L) THEN 0 ELSE L[i + 1]) = L[k]
        BY <4>1, <4>2, <3>2, <1>5, <1>6
      <4>4. i # Len(L) /\ L[i + 1] = L[k] /\ i + 1 \in 1..Len(L)
        BY <4>3, <1>2
      <4>5. i + 1 = k
        BY <4>4, <1>2
      <4>. QED
        BY <4>5, <4>2
    <3>. QED
      BY <3>1, <3>2
  <2>5. \A u \in Ids : o[u] = IF u = h.trace[L[k - 1]]
                              THEN [h.obj[u] EXCEPT !.nextroot = T.nextroot] ELSE h.obj[u]
    <3>. HIDE DEF c
    <3>. QED
      BY <2>4
  <2>. HIDE DEF c, o
  <2>6. g.obj = o /\ g.chain = h.chain
    BY <2>3 DEF Heaps
  <2>. QED
    BY <2>5, <2>6, <2>1 DEF g, p, T
<1>. QED
  BY <1>7, <1>8


\* The chain is then the list without the trace; other chains are as before.
LEMMA UnlinkChain ==
  ASSUME NEW h \in Heaps, Registered(h), Rooted(h),
         NEW t \in Ids, h.obj[t] # NULL, h.obj[t].start \in Sites,
         NEW L, IsChain(h, ProtoOf[h.obj[t].start], L),
         h.obj[t].traceno \in Range(L)
  PROVE  /\ IsChain(Unlink(h, t), ProtoOf[h.obj[t].start],
                    RemoveFirst(L, h.obj[t].traceno))
         /\ Range(RemoveFirst(L, h.obj[t].traceno)) = Range(L) \ {h.obj[t].traceno}
         /\ \A q \in Protos : \A M : q # ProtoOf[h.obj[t].start] /\ IsChain(h, q, M)
               => IsChain(Unlink(h, t), q, M)
<1>. DEFINE T == h.obj[t]
            p == ProtoOf[T.start]
            g == Unlink(h, t)
<1>1. T \in GCtrace /\ T.nextroot \in 0..MAXTRACE /\ p \in Protos
  BY HeapFields, TraceFields, Constants
<1>2. PICK k \in DOMAIN L : T.traceno = L[k]
  BY DEF Range
<1>3. /\ L \in Seq(Numbers) /\ DOMAIN L = 1..Len(L) /\ Len(L) \in Nat
      /\ IsInjective(L) /\ h.chain[p] = IF L = <<>> THEN 0 ELSE L[1]
      /\ k \in 1..Len(L)
  <2>1. /\ L \in Seq(Numbers) /\ DOMAIN L = 1..Len(L) /\ Len(L) \in Nat
        /\ IsInjective(L) /\ h.chain[p] = IF L = <<>> THEN 0 ELSE L[1]
    BY DEF IsChain
  <2>. QED
    BY <2>1, <1>2
<1>4. /\ \A i, j \in 1..Len(L) : L[i] = L[j] => i = j
      /\ \A i \in 1..Len(L) : L[i] \in Numbers /\ L[i] # 0 /\ L[i] \in Range(L)
      /\ L # <<>> /\ h.chain[p] = L[1]
  <2>1. \A i, j \in 1..Len(L) : L[i] = L[j] => i = j
    BY <1>3 DEF IsInjective
  <2>2. \A i \in 1..Len(L) : L[i] \in Numbers /\ L[i] # 0 /\ L[i] \in Range(L)
    BY <1>3, Constants DEF Range
  <2>3. L # <<>>
    BY <1>3, EmptySeq
  <2>. QED
    BY <2>1, <2>2, <2>3, <1>3
<1>5. \A i \in 1..Len(L) :
        /\ h.trace[L[i]] \in Ids /\ h.obj[h.trace[L[i]]] # NULL
        /\ h.obj[h.trace[L[i]]] \in GCtrace
        /\ h.obj[h.trace[L[i]]].traceno = L[i]
        /\ h.obj[h.trace[L[i]]].root = 0
        /\ h.obj[h.trace[L[i]]].start \in Sites
        /\ ProtoOf[h.obj[h.trace[L[i]]].start] = p
  <2>. SUFFICES ASSUME NEW i \in 1..Len(L)
                PROVE  /\ h.trace[L[i]] \in Ids /\ h.obj[h.trace[L[i]]] # NULL
                       /\ h.obj[h.trace[L[i]]] \in GCtrace
                       /\ h.obj[h.trace[L[i]]].traceno = L[i]
                       /\ h.obj[h.trace[L[i]]].root = 0
                       /\ h.obj[h.trace[L[i]]].start \in Sites
                       /\ ProtoOf[h.obj[h.trace[L[i]]].start] = p
    OBVIOUS
  <2>1. L[i] \in Range(L) /\ IsChain(h, p, L)
    BY <1>4
  <2>. HIDE DEF T, p, g
  <2>. QED
    BY <2>1, ChainTrace
<1>6. \A i \in 1..Len(L) :
        h.obj[h.trace[L[i]]].nextroot = IF i = Len(L) THEN 0 ELSE L[i + 1]
  BY <1>3 DEF IsChain
<1>7. h.trace[L[k]] = t
  BY <1>2, <1>3, <1>4 DEF Registered
<1>8. T.nextroot = IF k = Len(L) THEN 0 ELSE L[k + 1]
  BY <1>3, <1>6, <1>7
<1>. DEFINE R == RemoveFirst(L, L[k])
<1>9. /\ R \in Seq(Numbers) /\ Len(R) = Len(L) - 1
      /\ \A i \in 1..Len(R) : R[i] = IF i < k THEN L[i] ELSE L[i + 1]
  BY <1>3, UnlinkedAt
<1>10. IsInjective(R) /\ Range(R) = Range(L) \ {L[k]}
  BY <1>3, <1>4, Unlinked
<1>11. /\ \A q \in Protos : g.chain[q] = IF q = p /\ k = 1 THEN T.nextroot ELSE h.chain[q]
       /\ \A u \in Ids : h.obj[u] # NULL => g.obj[u] =
              IF k > 1 /\ u = h.trace[L[k - 1]]
              THEN [h.obj[u] EXCEPT !.nextroot = T.nextroot] ELSE h.obj[u]
  BY <1>2, UnlinkExact
<1>12. g.trace = h.trace
  BY UnlinkSame DEF Same
<1>. HIDE DEF T, p, g, R
<1>13. ASSUME NEW u \in Ids, h.obj[u] # NULL
       PROVE  /\ g.obj[u].root = h.obj[u].root /\ g.obj[u].start = h.obj[u].start
              /\ g.obj[u].nextroot = IF k > 1 /\ u = h.trace[L[k - 1]]
                                     THEN T.nextroot ELSE h.obj[u].nextroot
  <2>1. h.obj[u] \in GCtrace
    BY <1>13, HeapFields
  <2>2. /\ [h.obj[u] EXCEPT !.nextroot = T.nextroot].root = h.obj[u].root
        /\ [h.obj[u] EXCEPT !.nextroot = T.nextroot].start = h.obj[u].start
        /\ [h.obj[u] EXCEPT !.nextroot = T.nextroot].nextroot = T.nextroot
    BY <2>1, <1>1, TraceFields
  <2>. QED
    BY <1>11, <1>13, <2>2
<1>14. IsChain(g, p, R)
  <2>1. g.chain[p] = IF R = <<>> THEN 0 ELSE R[1]
    <3>1. R = <<>> <=> Len(R) = 0
      BY <1>9, EmptySeq
    <3>2. CASE k = 1
      <4>1. g.chain[p] = T.nextroot
        BY <3>2, <1>11, <1>1
      <4>2. k = Len(L) <=> Len(R) = 0
        BY <3>2, <1>9, <1>3
      <4>3. Len(R) # 0 => 1 \in 1..Len(R) /\ R[1] = L[2]
        BY <3>2, <1>9, <1>3
      <4>. QED
        BY <4>1, <4>2, <4>3, <3>1, <3>2, <1>8
    <3>3. CASE k # 1
      <4>1. g.chain[p] = L[1]
        BY <3>3, <1>11, <1>1, <1>4
      <4>2. Len(R) # 0 /\ 1 \in 1..Len(R) /\ 1 < k
        BY <3>3, <1>9, <1>3
      <4>. QED
        BY <4>1, <4>2, <1>9, <3>1
    <3>. QED
      BY <3>2, <3>3
  <2>2. ASSUME NEW i \in DOMAIN R
        PROVE  /\ g.trace[R[i]] \in Ids
               /\ g.obj[g.trace[R[i]]].root = 0
               /\ ProtoOf[g.obj[g.trace[R[i]]].start] = p
               /\ g.obj[g.trace[R[i]]].nextroot = IF i = Len(R) THEN 0 ELSE R[i + 1]
    <3>. DEFINE j == IF i < k THEN i ELSE i + 1
                u == h.trace[L[j]]
    <3>1. DOMAIN R = 1..Len(R)
      BY <1>9
    <3>2. i \in 1..Len(R) /\ j \in 1..Len(L) /\ R[i] = L[j] /\ j # k
      BY <1>9, <1>3, <3>1
    <3>3. u \in Ids /\ h.obj[u] # NULL /\ h.obj[u].root = 0 /\ ProtoOf[h.obj[u].start] = p
      BY <3>2, <1>5
    <3>4. g.trace[R[i]] = u
      BY <3>2, <1>12
    <3>5. g.obj[u].nextroot = IF i = Len(R) THEN 0 ELSE R[i + 1]
      <4>1. h.obj[u].nextroot = IF j = Len(L) THEN 0 ELSE L[j + 1]
        BY <3>2, <1>6
      <4>2. CASE i = k - 1
        <5>1. k > 1 /\ j = k - 1 /\ u = h.trace[L[k - 1]]
          BY <4>2, <3>2, <1>3
        <5>2. g.obj[u].nextroot = IF k = Len(L) THEN 0 ELSE L[k + 1]
          BY <5>1, <3>3, <1>13, <1>8
        <5>3. k = Len(L) <=> i = Len(R)
          BY <4>2, <1>9, <1>3
        <5>4. i # Len(R) => i + 1 \in 1..Len(R) /\ R[i + 1] = L[k + 1]
          BY <4>2, <1>9, <1>3, <3>2
        <5>. QED
          BY <5>2, <5>3, <5>4
      <4>3. CASE i # k - 1
        <5>1. ~ (k > 1 /\ u = h.trace[L[k - 1]])
          <6>. SUFFICES ASSUME k > 1, u = h.trace[L[k - 1]] PROVE FALSE
            OBVIOUS
          <6>1. k - 1 \in 1..Len(L)
            BY <1>3
          <6>2. L[j] = L[k - 1]
            BY <6>1, <3>2, <1>5, SMTT(30)
          <6>3. j = k - 1
            BY <6>1, <6>2, <3>2, <1>4
          <6>. QED
            BY <6>3, <4>3, <3>2, <1>3
        <5>2. g.obj[u].nextroot = IF j = Len(L) THEN 0 ELSE L[j + 1]
          BY <5>1, <3>3, <1>13, <4>1
        <5>3. j = Len(L) <=> i = Len(R)
          BY <4>3, <3>2, <1>9, <1>3
        <5>4. i # Len(R) => i + 1 \in 1..Len(R) /\ R[i + 1] = L[j + 1]
          <6>. SUFFICES ASSUME i # Len(R)
                        PROVE  i + 1 \in 1..Len(R) /\ R[i + 1] = L[j + 1]
            OBVIOUS
          <6>1. i + 1 \in 1..Len(R)
            BY <3>2, <1>9, <1>3
          <6>2. R[i + 1] = IF i + 1 < k THEN L[i + 1] ELSE L[(i + 1) + 1]
            BY <6>1, <1>9
          <6>3. j + 1 = IF i + 1 < k THEN i + 1 ELSE (i + 1) + 1
            BY <4>3, <3>2, <1>3
          <6>. QED
            BY <6>1, <6>2, <6>3
        <5>. QED
          BY <5>2, <5>3, <5>4
      <4>. QED
        BY <4>2, <4>3
    <3>. HIDE DEF u, j
    <3>. QED
      BY <3>3, <3>4, <3>5, <1>13
  <2>. QED
    BY <2>1, <2>2, <1>9, <1>10 DEF IsChain
<1>15. ASSUME NEW q \in Protos, NEW M, q # p, IsChain(h, q, M) PROVE IsChain(g, q, M)
  <2>1. g.chain[q] = h.chain[q]
    BY <1>11, <1>15
  <2>2. ASSUME NEW i \in DOMAIN M
        PROVE  /\ g.trace[M[i]] \in Ids
               /\ g.obj[g.trace[M[i]]].root = h.obj[h.trace[M[i]]].root
               /\ g.obj[g.trace[M[i]]].start = h.obj[h.trace[M[i]]].start
               /\ g.obj[g.trace[M[i]]].nextroot = h.obj[h.trace[M[i]]].nextroot
    <3>1. M[i] \in Range(M)
      BY DEF Range
    <3>2. h.trace[M[i]] \in Ids /\ h.obj[h.trace[M[i]]] # NULL
          /\ ProtoOf[h.obj[h.trace[M[i]]].start] = q
      BY <3>1, <1>15, ChainTrace
    <3>3. ~ (k > 1 /\ h.trace[M[i]] = h.trace[L[k - 1]])
      BY <3>2, <1>15, <1>5, <1>3
    <3>. QED
      BY <3>2, <3>3, <1>12, <1>13
  <2>. QED
    BY <2>1, <2>2, <1>15 DEF IsChain
<1>. QED
  BY <1>10, <1>14, <1>15, <1>2 DEF g, p, T, R
--------------------------------------------------------------------------------
(* Flushing a root trace: the heap. *)

\* Fields that are the same in heaps that differ in chains and patches.
LEMMA SameFields ==
  ASSUME NEW h \in Heaps, NEW g, Same(h, g), NEW u \in Ids, h.obj[u] # NULL
  PROVE  /\ g.obj[u] # NULL /\ h.obj[u] \in GCtrace
         /\ g.obj[u].traceno = h.obj[u].traceno /\ g.obj[u].start = h.obj[u].start
         /\ g.obj[u].root = h.obj[u].root /\ g.obj[u].link = h.obj[u].link
         /\ g.obj[u].nextside = h.obj[u].nextside
         /\ g.obj[u].linktype = h.obj[u].linktype /\ g.obj[u].jumps = h.obj[u].jumps
<1>1. h.obj[u] \in GCtrace
  BY HeapFields
<1>2. PICK n \in 0..MAXTRACE : g.obj[u] = [h.obj[u] EXCEPT !.nextroot = n]
  BY DEF Same
<1>3. g.obj[u] # NULL
  BY DEF Same
<1>. QED
  BY <1>1, <1>2, <1>3, TraceFields

\* A heap is the same as itself but for chains and patches.
LEMMA SameRefl ==
  ASSUME NEW h \in Heaps
  PROVE  Same(h, h)
<1>1. ASSUME NEW u \in Ids, h.obj[u] # NULL
      PROVE  \E n \in 0..MAXTRACE : h.obj[u] = [h.obj[u] EXCEPT !.nextroot = n]
  <2>1. h.obj[u] \in GCtrace
    BY <1>1, HeapFields
  <2>. QED
    BY <2>1, TraceFields
<1>. QED
  BY <1>1 DEF Same

\* So it is after two changes of chains and patches.
LEMMA SameTrans ==
  ASSUME NEW h \in Heaps, NEW g \in Heaps, NEW k, Same(h, g), Same(g, k)
  PROVE  Same(h, k)
<1>1. ASSUME NEW u \in Ids, h.obj[u] # NULL
      PROVE  \E n \in 0..MAXTRACE : k.obj[u] = [h.obj[u] EXCEPT !.nextroot = n]
  <2>1. h.obj[u] \in GCtrace
    BY <1>1, HeapFields
  <2>2. g.obj[u] # NULL
    BY <1>1 DEF Same
  <2>3. PICK n \in 0..MAXTRACE : k.obj[u] = [g.obj[u] EXCEPT !.nextroot = n]
    BY <2>2 DEF Same
  <2>4. PICK m \in 0..MAXTRACE : g.obj[u] = [h.obj[u] EXCEPT !.nextroot = m]
    BY <1>1 DEF Same
  <2>5. k.obj[u] = [h.obj[u] EXCEPT !.nextroot = n]
    BY <2>1, <2>3, <2>4 DEF GCtrace
  <2>. QED
    BY <2>5
<1>2. \A u \in Ids : k.obj[u] = NULL <=> h.obj[u] = NULL
  BY DEF Same
<1>. QED
  BY <1>1, <1>2 DEF Same

\* Changes of chains and patches leave numbers, roots and bars as they should be.
LEMMA SameKeeps ==
  ASSUME NEW h \in Heaps, NEW g \in Heaps, Same(h, g),
         Registered(h), Rooted(h), Barring(h)
  PROVE  Registered(g) /\ Rooted(g) /\ Barring(g)
<1>1. \A u \in Ids : g.obj[u] = NULL <=> h.obj[u] = NULL
  BY DEF Same
<1>2. \A u \in Ids : h.obj[u] # NULL =>
        /\ g.obj[u].traceno = h.obj[u].traceno /\ g.obj[u].start = h.obj[u].start
        /\ g.obj[u].root = h.obj[u].root /\ g.obj[u].link = h.obj[u].link
  BY SameFields
<1>3. g.trace = h.trace /\ g.curno = h.curno /\ g.iloop = h.iloop
  BY DEF Same
<1>4. Registered(g)
  BY <1>1, <1>2, <1>3 DEF Registered
<1>5. Rooted(g)
  BY <1>1, <1>2 DEF Rooted
<1>6. Barring(g)
  <2>1. \A s \in Sites : g.bc[s] = h.bc[s] \/ g.bc[s] = Plain
    BY DEF Same
  <2>. QED
    BY <2>1, <1>3, Constants DEF Barring
<1>. QED
  BY <1>4, <1>5, <1>6

\* Of the sites of one prototype, those that lead to a trace.
LEMMA LedTo ==
  ASSUME NEW h \in Heaps, Registered(h), Rooted(h),
         NEW p, NEW L, IsChain(h, p, L), Led(h, p, L)
  PROVE  /\ \A n \in Range(L) : h.bc[h.obj[h.trace[n]].start] = n
         /\ \A s \in Sites : ProtoOf[s] = p /\ h.bc[s] \in Numbers =>
              h.bc[s] \in Range(L) /\ h.obj[h.trace[h.bc[s]]].start = s
<1>1. ASSUME NEW n \in Range(L) PROVE h.bc[h.obj[h.trace[n]].start] = n
  <2>. DEFINE s == h.obj[h.trace[n]].start
  <2>1. s \in Sites /\ ProtoOf[s] = p
    BY ChainTrace
  <2>2. n \in {h.bc[s]} \cap Numbers
    <3>1. n \in {m \in Range(L) : h.obj[h.trace[m]].start = s}
      OBVIOUS
    <3>. HIDE DEF s
    <3>. QED
      BY <2>1, <3>1 DEF Led
  <2>. QED
    BY <2>2
<1>2. ASSUME NEW s \in Sites, ProtoOf[s] = p, h.bc[s] \in Numbers
      PROVE  h.bc[s] \in Range(L) /\ h.obj[h.trace[h.bc[s]]].start = s
  <2>1. h.bc[s] \in {h.bc[s]} \cap Numbers
    BY <1>2
  <2>2. h.bc[s] \in {m \in Range(L) : h.obj[h.trace[m]].start = s}
    BY <2>1, <1>2 DEF Led
  <2>. QED
    BY <2>2
<1>. QED
  BY <1>1, <1>2

\* Flushing a root trace unpatches its instruction and takes it off its chain:
\* what the bytecode leads to is what is on the chains, as before.
LEMMA FlushRoot ==
  ASSUME NEW h, HeapInv(h), NEW t \in Ids, h.obj[t] # NULL, h.obj[t].root = 0
  PROVE  HeapInv(trace_flushroot(h, t)) /\ Same(h, trace_flushroot(h, t))
<1>. DEFINE T == h.obj[t]
            n == T.traceno
            s == T.start
            p == ProtoOf[s]
            x == Unlink(h, t)
            g == trace_unpatch(x, t)
<1>1. /\ h \in Heaps /\ Registered(h) /\ Rooted(h) /\ Chained(h) /\ Barring(h)
      /\ s \in Sites /\ p \in Protos
  BY Constants DEF HeapInv, Rooted
<1>2. PICK L : IsChain(h, p, L) /\ Led(h, p, L)
  BY <1>1 DEF Chained
<1>3. OnChain(h, p) = Range(L)
  BY <1>2, ChainIs
<1>4. trace_flushroot(h, t) = IF n \in Range(L) THEN g ELSE h
  BY <1>3 DEF trace_flushroot
<1>5. CASE n \notin Range(L)
  BY <1>4, <1>5, <1>1, SameRefl
<1>6. CASE n \in Range(L)
  <2>1. x \in Heaps /\ Same(h, x) /\ x.bc = h.bc
    BY <1>1, UnlinkSame
  <2>2. x.obj[t].start = s
    BY <2>1, <1>1, SameFields
  <2>3. n \in Numbers /\ h.trace[n] = t
    <3>1. n \in Numbers
      BY <1>6, <1>2, <1>1, ChainTrace
    <3>. QED
      BY <3>1, <1>1 DEF Registered
  <2>4. h.bc[s] = n
    BY <2>3, <1>6, <1>2, <1>1, LedTo, SMTT(30)
  <2>. HIDE DEF x
  <2>5. g = [x EXCEPT !.bc[s] = Plain]
    BY <2>1, <2>2, <2>3, <2>4 DEF trace_unpatch
  <2>. DEFINE R == RemoveFirst(L, n)
  <2>6. /\ IsChain(x, p, R) /\ Range(R) = Range(L) \ {n}
        /\ \A q \in Protos : \A M : q # p /\ IsChain(h, q, M) => IsChain(x, q, M)
    BY <1>1, <1>2, <1>6, UnlinkChain DEF x
  <2>. HIDE DEF g, R
  <2>7. /\ g \in Heaps /\ g.obj = x.obj /\ g.trace = x.trace /\ g.chain = x.chain
        /\ g.iloop = x.iloop /\ g.freetrace = x.freetrace /\ g.curno = x.curno
        /\ g.bc = [h.bc EXCEPT ![s] = Plain]
    BY <2>1, <2>5, <1>1 DEF Heaps
  <2>8. \A q \in Sites : g.bc[q] = IF q = s THEN Plain ELSE h.bc[q]
    BY <2>7, <1>1, HeapFields
  <2>9. Same(h, g)
    BY <2>1, <2>7, <2>8 DEF Same
  <2>10. \A q, M : IsChain(x, q, M) => IsChain(g, q, M)
    BY <2>7 DEF IsChain
  <2>11. Registered(g) /\ Rooted(g) /\ Barring(g)
    BY <1>1, <2>7, <2>9, SameKeeps
  <2>12. g.trace = h.trace
    BY <2>1, <2>7 DEF Same
  <2>13. ASSUME NEW q \in Protos PROVE \E M : IsChain(g, q, M) /\ Led(g, q, M)
    <3>1. CASE q = p
      <4>1. \A m \in Range(L) : g.obj[g.trace[m]].start = h.obj[h.trace[m]].start
        <5>1. \A m \in Range(L) : h.trace[m] \in Ids /\ h.obj[h.trace[m]] # NULL
          BY <1>1, <1>2, ChainTrace
        <5>. QED
          BY <5>1, <2>12, <2>9, <1>1, SameFields
      <4>2. ASSUME NEW r \in Sites, ProtoOf[r] = p
            PROVE  {g.bc[r]} \cap Numbers = {m \in Range(R) : g.obj[g.trace[m]].start = r}
        <5>1. {h.bc[r]} \cap Numbers = {m \in Range(L) : h.obj[h.trace[m]].start = r}
          BY <1>2, <4>2 DEF Led
        <5>2. h.obj[h.trace[n]].start = s
          BY <2>3
        <5>3. \A m \in Range(R) : m \in Range(L) /\ m # n
          BY <2>6
        <5>4. CASE r = s
          <6>1. {g.bc[r]} \cap Numbers = {}
            BY <5>4, <2>8, Constants
          <6>2. {h.bc[r]} \cap Numbers = {n}
            BY <5>4, <2>3, <2>4
          <6>3. \A m \in Range(R) : g.obj[g.trace[m]].start # r
            BY <5>1, <5>3, <6>2, <4>1
          <6>. QED
            BY <6>1, <6>3
        <5>5. CASE r # s
          <6>1. \A m \in Range(L) : h.obj[h.trace[m]].start = r => m \in Range(R)
            BY <5>2, <5>5, <2>6
          <6>2. g.bc[r] = h.bc[r]
            BY <5>5, <2>8
          <6>. QED
            BY <5>1, <5>3, <6>1, <6>2, <4>1
        <5>. QED
          BY <5>4, <5>5
      <4>. QED
        BY <3>1, <4>2, <2>6, <2>10 DEF Led
    <3>2. CASE q # p
      <4>1. PICK M : IsChain(h, q, M) /\ Led(h, q, M)
        BY <1>1 DEF Chained
      <4>2. IsChain(g, q, M)
        BY <3>2, <4>1, <2>6, <2>10
      <4>3. \A m \in Range(M) : g.obj[g.trace[m]].start = h.obj[h.trace[m]].start
        <5>1. \A m \in Range(M) : h.trace[m] \in Ids /\ h.obj[h.trace[m]] # NULL
          BY <1>1, <4>1, ChainTrace
        <5>. QED
          BY <5>1, <2>12, <2>9, <1>1, SameFields
      <4>4. \A r \in Sites : ProtoOf[r] = q => g.bc[r] = h.bc[r]
        BY <2>8, <3>2
      <4>5. Led(g, q, M)
        <5>1. ASSUME NEW r \in Sites, ProtoOf[r] = q
              PROVE  {g.bc[r]} \cap Numbers = {m \in Range(M) : g.obj[g.trace[m]].start = r}
          <6>1. {h.bc[r]} \cap Numbers = {m \in Range(M) : h.obj[h.trace[m]].start = r}
            BY <4>1, <5>1 DEF Led
          <6>. QED
            BY <6>1, <4>3, <4>4, <5>1
        <5>. QED
          BY <5>1 DEF Led
      <4>. QED
        BY <4>2, <4>5
    <3>. QED
      BY <3>1, <3>2
  <2>14. HeapInv(g)
    BY <2>7, <2>11, <2>13 DEF HeapInv, Chained
  <2>. QED
    BY <1>4, <1>6, <2>9, <2>14
<1>. QED
  BY <1>5, <1>6
--------------------------------------------------------------------------------
(* Flushing a root trace: what is kept. *)

\* A trace that has a number; a number that names trace u.
Has(h, t) == h.obj[t] # NULL /\ h.obj[t].traceno # 0
Names(h, n, u) == n # 0 /\ h.trace[n] = u

On(h, t) ==
  Has(h, t) /\ h.obj[t].start \in Sites
    /\ h.obj[t].traceno \in OnChain(h, ProtoOf[h.obj[t].start])
Off(h, t) == h.obj[t] # NULL /\ ~ On(h, t)

\* A chain depends on the traces and numbers only.
LEMMA SameChains ==
  ASSUME NEW h, NEW g, g.chain = h.chain, g.obj = h.obj, g.trace = h.trace,
         NEW p, NEW L, IsChain(h, p, L)
  PROVE  IsChain(g, p, L)
BY DEF IsChain

\* Flushing trace t changes a chain only where it led to t, which is off every
\* chain then, as are the traces that were before.
LEMMA FlushRootLinks ==
  ASSUME NEW h, HeapInv(h), NEW t \in Ids, h.obj[t] # NULL, h.obj[t].root = 0,
         NEW g, g = trace_flushroot(h, t)
  PROVE  /\ Off(g, t)
         /\ \/ g = h
            \/ /\ \A p \in Protos :
                    \/ g.chain[p] = h.chain[p]
                    \/ h.chain[p] = h.obj[t].traceno /\ g.chain[p] = h.obj[t].nextroot
               /\ \A u \in Ids : h.obj[u] # NULL =>
                    \/ g.obj[u].nextroot = h.obj[u].nextroot
                    \/ h.obj[u].nextroot = h.obj[t].traceno
                         /\ g.obj[u].nextroot = h.obj[t].nextroot
               /\ \A u \in Ids : Off(h, u) =>
                    Off(g, u) /\ g.obj[u].nextroot = h.obj[u].nextroot
               /\ Off(g, t) /\ g.obj[t].nextroot = h.obj[t].nextroot
               /\ h.obj[t].traceno # 0 /\ h.trace[h.obj[t].traceno] = t
<1>. DEFINE T == h.obj[t]
            n == T.traceno
            s == T.start
            p == ProtoOf[s]
            x == Unlink(h, t)
<1>1. /\ h \in Heaps /\ Registered(h) /\ Rooted(h) /\ Chained(h)
      /\ s \in Sites /\ p \in Protos
  BY Constants DEF HeapInv, Rooted
<1>2. PICK L : IsChain(h, p, L) /\ Led(h, p, L)
  BY <1>1 DEF Chained
<1>3. OnChain(h, p) = Range(L)
  BY <1>2, ChainIs
<1>4. CASE n \notin Range(L)
  BY <1>3, <1>4 DEF trace_flushroot, Off, On
<1>5. CASE n \in Range(L)
  <2>1. g = trace_unpatch(x, t)
    BY <1>3, <1>5 DEF trace_flushroot
  <2>2. x \in Heaps /\ Same(h, x)
    BY <1>1, UnlinkSame
  <2>3. n \in Numbers /\ h.trace[n] = t /\ n # 0
    <3>1. n \in Numbers
      BY <1>5, <1>2, <1>1, ChainTrace
    <3>. QED
      BY <3>1, <1>1, Constants DEF Registered
  <2>4. PICK k \in DOMAIN L : n = L[k]
    BY <1>5 DEF Range
  <2>5. /\ \A q \in Protos : x.chain[q] = IF q = p /\ k = 1 THEN T.nextroot
                                          ELSE h.chain[q]
        /\ \A u \in Ids : h.obj[u] # NULL => x.obj[u] =
              IF k > 1 /\ u = h.trace[L[k - 1]]
              THEN [h.obj[u] EXCEPT !.nextroot = T.nextroot] ELSE h.obj[u]
    BY <1>1, <1>2, <2>4, UnlinkExact
  <2>6. /\ IsChain(x, p, RemoveFirst(L, n)) /\ Range(RemoveFirst(L, n)) = Range(L) \ {n}
        /\ \A q \in Protos : \A M : q # p /\ IsChain(h, q, M) => IsChain(x, q, M)
    BY <1>1, <1>2, <1>5, UnlinkChain
  <2>7. g.chain = x.chain /\ g.obj = x.obj /\ g.trace = x.trace
    <3>. HIDE DEF x
    <3>. QED
      BY <2>1, <2>2 DEF trace_unpatch, Heaps
  <2>. HIDE DEF x
  <2>8. /\ L \in Seq(Numbers) /\ DOMAIN L = 1..Len(L) /\ Len(L) \in Nat
        /\ h.chain[p] = IF L = <<>> THEN 0 ELSE L[1]
        /\ k \in 1..Len(L) /\ L # <<>>
        /\ \A i, j \in 1..Len(L) : L[i] = L[j] => i = j
        /\ \A i \in 1..Len(L) : L[i] \in Range(L)
        /\ \A i \in 1..Len(L) : h.obj[h.trace[L[i]]].nextroot
                                  = IF i = Len(L) THEN 0 ELSE L[i + 1]
    <3>1. /\ L \in Seq(Numbers) /\ DOMAIN L = 1..Len(L) /\ Len(L) \in Nat
          /\ h.chain[p] = IF L = <<>> THEN 0 ELSE L[1]
      BY <1>2 DEF IsChain
    <3>2. \A i, j \in 1..Len(L) : L[i] = L[j] => i = j
      BY <1>2, <3>1 DEF IsChain, IsInjective
    <3>3. \A i \in 1..Len(L) : L[i] \in Range(L)
      BY <3>1 DEF Range
    <3>4. \A i \in 1..Len(L) : h.obj[h.trace[L[i]]].nextroot
                                  = IF i = Len(L) THEN 0 ELSE L[i + 1]
      BY <1>2, <3>1 DEF IsChain
    <3>5. L # <<>> /\ k \in 1..Len(L)
      BY <2>4, <3>1, EmptySeq
    <3>. QED
      BY <3>1, <3>2, <3>3, <3>4, <3>5
  \* The predecessor is on the chain.
  <2>9. ASSUME k > 1
        PROVE  /\ h.obj[h.trace[L[k - 1]]].nextroot = n
               /\ On(h, h.trace[L[k - 1]]) /\ h.trace[L[k - 1]] # t
    <3>1. k - 1 \in 1..Len(L) /\ (k - 1) + 1 = k /\ k - 1 # Len(L)
      <4>1. Len(L) \in Nat /\ k \in 1..Len(L)
        BY <2>8
      <4>. QED
        BY ONLY <4>1, <2>9
    <3>2. h.obj[h.trace[L[k - 1]]].nextroot = n
      <4>1. h.obj[h.trace[L[k - 1]]].nextroot = L[(k - 1) + 1]
        BY <3>1, <2>8
      <4>. QED
        BY <4>1, <3>1, <2>4
    <3>. DEFINE m == L[k - 1]
                u == h.trace[m]
    <3>3. m \in Range(L) /\ m # n
      <4>1. \A i \in 1..Len(L) : i # k => L[i] # L[k] /\ L[i] \in Range(L)
        BY <2>8
      <4>2. k - 1 # k
        <5>1. k \in Nat
          <6>1. Len(L) \in Nat /\ k \in 1..Len(L)
            BY <2>8
          <6>. QED
            BY ONLY <6>1
        <5>. QED
          BY ONLY <5>1
      <4>3. L[k - 1] # L[k] /\ L[k - 1] \in Range(L)
        BY ONLY <4>1, <4>2, <3>1
      <4>. QED
        BY <4>3, <2>4
    <3>. HIDE DEF m
    <3>4. /\ u \in Ids /\ h.obj[u] # NULL /\ h.obj[u].traceno = m
          /\ m \in Numbers /\ h.obj[u].start \in Sites
          /\ ProtoOf[h.obj[u].start] = p
      BY <3>3, <1>1, <1>2, ChainTrace
    <3>. HIDE DEF u
    <3>5. On(h, u)
      BY <3>3, <3>4, <1>3, Constants DEF On, Has
    <3>6. u # t
      BY <3>3, <3>4
    <3>. QED
      BY <3>2, <3>5, <3>6 DEF u, m
  <2>10. \A u \in Ids : h.obj[u] # NULL =>
           /\ g.obj[u].traceno = h.obj[u].traceno /\ g.obj[u].start = h.obj[u].start
           /\ g.obj[u] # NULL
    BY <1>1, <2>2, <2>7, SameFields
  <2>11. \A u \in Ids : h.obj[u] # NULL => g.obj[u].nextroot =
              IF k > 1 /\ u = h.trace[L[k - 1]] THEN T.nextroot ELSE h.obj[u].nextroot
    <3>. SUFFICES ASSUME NEW u \in Ids, h.obj[u] # NULL
                  PROVE  g.obj[u].nextroot = IF k > 1 /\ u = h.trace[L[k - 1]]
                                             THEN T.nextroot ELSE h.obj[u].nextroot
      OBVIOUS
    <3>1. h.obj[u] \in GCtrace /\ T.nextroot \in 0..MAXTRACE
      BY <1>1, HeapFields, TraceFields
    <3>2. [h.obj[u] EXCEPT !.nextroot = T.nextroot].nextroot = T.nextroot
      BY <3>1, TraceFields
    <3>. QED
      BY <2>5, <2>7, <3>2
  \* What is on the chains then.
  <2>12. OnChain(g, p) = Range(L) \ {n}
    <3>1. IsChain(g, p, RemoveFirst(L, n))
      BY <2>6, <2>7, SameChains
    <3>. QED
      BY <3>1, <2>6, ChainIs
  <2>13. ASSUME NEW q \in Protos, q # p PROVE OnChain(g, q) = OnChain(h, q)
    <3>1. PICK M : IsChain(h, q, M)
      BY <1>1 DEF Chained
    <3>2. IsChain(x, q, M)
      BY <2>6, <2>13, <3>1
    <3>3. IsChain(g, q, M)
      BY <3>2, <2>7, SameChains
    <3>. QED
      BY <3>1, <3>3, ChainIs
  <2>14. \A q \in Protos : OnChain(g, q) \subseteq OnChain(h, q)
    BY <2>12, <2>13, <1>3
  <2>15. ASSUME NEW u \in Ids, Off(h, u)
         PROVE  Off(g, u) /\ g.obj[u].nextroot = h.obj[u].nextroot
    <3>1. ~ On(g, u)
      <4>1. \A q \in Sites : ProtoOf[q] \in Protos
        BY Constants
      <4>. QED
        BY <2>10, <2>14, <2>15, <4>1 DEF Off, On, Has
    <3>2. ~ (k > 1 /\ u = h.trace[L[k - 1]])
      BY <2>9, <2>15 DEF Off
    <3>. QED
      BY <3>1, <3>2, <2>10, <2>11, <2>15 DEF Off
  <2>16. Off(g, t) /\ g.obj[t].nextroot = T.nextroot
    BY <2>9, <2>10, <2>11, <2>12 DEF Off, On
  <2>17. \A q \in Protos : \/ g.chain[q] = h.chain[q]
                           \/ h.chain[q] = n /\ g.chain[q] = T.nextroot
    BY <2>4, <2>5, <2>7, <2>8
  <2>18. \A u \in Ids : h.obj[u] # NULL =>
                 \/ g.obj[u].nextroot = h.obj[u].nextroot
                 \/ h.obj[u].nextroot = n /\ g.obj[u].nextroot = T.nextroot
    BY <2>9, <2>11
  <2>. QED
    BY <2>3, <2>15, <2>16, <2>17, <2>18
<1>. QED
  BY <1>4, <1>5

\* The root of the tree a trace belongs to, and that its list of side traces
\* leads to the trace.
Home(h, t) == IF h.obj[t].root = 0 THEN t ELSE h.trace[h.obj[t].root]
Beside(h, r, t) ==
  \A ts \in SUBSET Ids :
    /\ r \in ts
    /\ \A u \in ts, v \in Ids : Has(h, u) /\ Names(h, h.obj[u].nextside, v) => v \in ts
    => t \in ts

\* V: traces whose numbers all name traces in V; K: those of them in trees.
Kept(h, V, K) ==
  /\ K \subseteq V /\ V \subseteq Ids
  /\ \A t \in V : h.obj[t] # NULL
  /\ \A t \in V : h.obj[t].traceno # 0 =>
       /\ \A n \in {h.obj[t].link, h.obj[t].nextroot, h.obj[t].nextside} :
            n # 0 => h.trace[n] \in V
       /\ h.obj[t].link # 0 => \/ h.obj[t].link = h.obj[t].traceno
                               \/ h.obj[h.trace[h.obj[t].link]].root = 0
       /\ h.obj[t].root = 0 => t \in K
  /\ \A p \in Protos : h.chain[p] # 0 => h.trace[h.chain[p]] \in V
InTree(h, K) ==
  \A t \in K :
    /\ h.obj[t].traceno # 0
    /\ Home(h, t) \in K /\ h.obj[Home(h, t)].root = 0
    /\ Beside(h, Home(h, t), t)
    /\ \A u \in h.obj[t].jumps :
         u \in K /\ (Home(h, u) = Home(h, t) \/ Names(h, h.obj[t].link, u))

\* The trees of root and side traces depend on neither chains nor patches.
LEMMA SameTree ==
  ASSUME NEW h \in Heaps, NEW g, Same(h, g), NEW K \in SUBSET Ids,
         \A t \in K : h.obj[t] # NULL, InTree(h, K)
  PROVE  InTree(g, K)
<1>1. g.trace = h.trace
  BY DEF Same
<1>2. \A u \in Ids : g.obj[u] = NULL <=> h.obj[u] = NULL
  BY DEF Same
<1>3. \A u \in Ids : h.obj[u] # NULL =>
         /\ g.obj[u].traceno = h.obj[u].traceno /\ g.obj[u].root = h.obj[u].root
         /\ g.obj[u].link = h.obj[u].link /\ g.obj[u].nextside = h.obj[u].nextside
         /\ g.obj[u].jumps = h.obj[u].jumps
  BY SameFields
<1>4. \A t \in K : Home(g, t) = Home(h, t)
  BY <1>1, <1>3 DEF Home
<1>5. \A u \in Ids : Has(g, u) <=> Has(h, u)
  BY <1>2, <1>3 DEF Has
<1>6. \A u, v \in Ids : Has(h, u) =>
         (Names(g, g.obj[u].nextside, v) <=> Names(h, h.obj[u].nextside, v))
  BY <1>1, <1>3 DEF Names, Has
<1>7. \A r, t : Beside(h, r, t) => Beside(g, r, t)
  BY <1>5, <1>6 DEF Beside
<1>8. ASSUME NEW t \in K
      PROVE  /\ g.obj[t].traceno # 0
             /\ Home(g, t) \in K /\ g.obj[Home(g, t)].root = 0
             /\ Beside(g, Home(g, t), t)
             /\ \A u \in g.obj[t].jumps :
                  u \in K /\ (Home(g, u) = Home(g, t) \/ Names(g, g.obj[t].link, u))
  <2>1. /\ h.obj[t].traceno # 0
        /\ Home(h, t) \in K /\ h.obj[Home(h, t)].root = 0
        /\ Beside(h, Home(h, t), t)
        /\ \A u \in h.obj[t].jumps :
             u \in K /\ (Home(h, u) = Home(h, t) \/ Names(h, h.obj[t].link, u))
    BY DEF InTree
  <2>2. Home(h, t) \in Ids /\ h.obj[Home(h, t)] # NULL
    BY <2>1
  <2>3. \A u : Names(g, g.obj[t].link, u) <=> Names(h, h.obj[t].link, u)
    BY <1>1, <1>3 DEF Names
  <2>. QED
    BY <2>1, <2>2, <2>3, <1>3, <1>4, <1>7
<1>. QED
  BY <1>8 DEF InTree

\* Flushing a root trace takes nothing away from what is kept.
LEMMA FlushRootKept ==
  ASSUME NEW h, HeapInv(h), NEW t \in Ids, h.obj[t] # NULL, h.obj[t].root = 0,
         NEW V, NEW K, Kept(h, V, K), InTree(h, K)
  PROVE  Kept(trace_flushroot(h, t), V, K) /\ InTree(trace_flushroot(h, t), K)
<1>. DEFINE g == trace_flushroot(h, t)
            T == h.obj[t]
<1>1. h \in Heaps /\ Same(h, g)
  BY FlushRoot DEF HeapInv
<1>2. CASE g = h
  BY <1>2
<1>3. CASE g # h
  <2>1. /\ \A p \in Protos :
             \/ g.chain[p] = h.chain[p]
             \/ h.chain[p] = T.traceno /\ g.chain[p] = T.nextroot
        /\ \A u \in Ids : h.obj[u] # NULL =>
             \/ g.obj[u].nextroot = h.obj[u].nextroot
             \/ h.obj[u].nextroot = T.traceno /\ g.obj[u].nextroot = T.nextroot
        /\ T.traceno # 0 /\ h.trace[T.traceno] = t
    BY <1>3, FlushRootLinks
  <2>. HIDE DEF g
  <2>2. InTree(g, K)
    BY <1>1, SameTree DEF Kept
  <2>3. g.trace = h.trace
    BY <1>1 DEF Same
  <2>4. \A u \in V : u \in Ids /\ h.obj[u] # NULL
    BY DEF Kept
  <2>5. \A u \in V :
         /\ g.obj[u] # NULL /\ g.obj[u].link = h.obj[u].link
         /\ g.obj[u].traceno = h.obj[u].traceno /\ g.obj[u].root = h.obj[u].root
         /\ g.obj[u].nextside = h.obj[u].nextside
    BY <1>1, <2>4, SameFields
  <2>6. t \in V => (T.nextroot # 0 => h.trace[T.nextroot] \in V)
    BY <2>1 DEF Kept
  <2>7. \A p \in Protos : g.chain[p] # 0 => g.trace[g.chain[p]] \in V
    BY <2>1, <2>3, <2>6 DEF Kept
  <2>8. ASSUME NEW u \in V, h.obj[u].traceno # 0, g.obj[u].nextroot # 0
        PROVE  h.trace[g.obj[u].nextroot] \in V
    <3>1. h.obj[u].nextroot # 0 => h.trace[h.obj[u].nextroot] \in V
      BY <2>8 DEF Kept
    <3>. QED
      BY <3>1, <2>1, <2>4, <2>6, <2>8
  <2>9. ASSUME NEW u \in V, h.obj[u].traceno # 0
        PROVE  /\ h.obj[u].link # 0 => h.trace[h.obj[u].link] \in V
               /\ h.obj[u].nextside # 0 => h.trace[h.obj[u].nextside] \in V
               /\ h.obj[u].link # 0 => \/ h.obj[u].link = h.obj[u].traceno
                                       \/ h.obj[h.trace[h.obj[u].link]].root = 0
               /\ h.obj[u].root = 0 => u \in K
    BY <2>9 DEF Kept
  <2>10. ASSUME NEW u \in V, h.obj[u].traceno # 0
         PROVE  /\ \A n \in {g.obj[u].link, g.obj[u].nextroot, g.obj[u].nextside} :
                     n # 0 => g.trace[n] \in V
                /\ g.obj[u].link # 0 => \/ g.obj[u].link = g.obj[u].traceno
                                        \/ g.obj[g.trace[g.obj[u].link]].root = 0
                /\ g.obj[u].root = 0 => u \in K
    BY <2>10, <2>3, <2>5, <2>8, <2>9
  <2>. QED
    BY <2>2, <2>5, <2>7, <2>10 DEF Kept, g
<1>. QED
  BY <1>2, <1>3
--------------------------------------------------------------------------------
(* Flushing a root trace: what is marked. *)

\* What the collector has marked while it is marking.  A link or a side trace of
\* a black trace is marked; the next trace on a chain is marked, or will be by
\* way of traces that are off the chains, whose numbers no flush changes.
Shadow(h, cs, ts) ==
  \A t \in Ids : Off(h, t) =>
    /\ cs[t] = "gray" => t \in ts
    /\ t \in ts /\ cs[t] # "black" /\ h.obj[t].traceno # 0 =>
         \A u \in Ids : Names(h, h.obj[t].nextroot, u) => u \in ts
Found(cs, ts, u) == u \in ts \/ cs[u] # "white"
Marks(h, cs, bl) ==
  /\ \A t \in Ids : cs[t] = "black" /\ Has(h, t) =>
       \A u \in Ids : Names(h, h.obj[t].link, u) \/ Names(h, h.obj[t].nextside, u)
                        => cs[u] # "white"
  /\ \A ts \in SUBSET Ids : Shadow(h, cs, ts) =>
       /\ \A p \in bl, u \in Ids : Names(h, h.chain[p], u) => Found(cs, ts, u)
       /\ \A t \in Ids : cs[t] = "black" /\ Has(h, t) =>
            \A u \in Ids : Names(h, h.obj[t].nextroot, u) => Found(cs, ts, u)

\* Flushing a root trace, while the collector is marking, hides no trace from it.
LEMMA FlushRootMarks ==
  ASSUME NEW h, HeapInv(h), NEW t \in Ids, h.obj[t] # NULL, h.obj[t].root = 0,
         NEW cs \in [Ids -> {"white", "gray", "black"}], NEW bl \in SUBSET Protos,
         Marks(h, cs, bl)
  PROVE  Marks(trace_flushroot(h, t), cs, bl)
<1>. DEFINE g == trace_flushroot(h, t)
            T == h.obj[t]
<1>1. h \in Heaps /\ Same(h, g)
  BY FlushRoot DEF HeapInv
<1>2. CASE g = h
  BY <1>2
<1>3. CASE g # h
  <2>1. /\ \A p \in Protos :
             \/ g.chain[p] = h.chain[p]
             \/ h.chain[p] = T.traceno /\ g.chain[p] = T.nextroot
        /\ \A u \in Ids : h.obj[u] # NULL =>
             \/ g.obj[u].nextroot = h.obj[u].nextroot
             \/ h.obj[u].nextroot = T.traceno /\ g.obj[u].nextroot = T.nextroot
        /\ \A u \in Ids : Off(h, u) => Off(g, u) /\ g.obj[u].nextroot = h.obj[u].nextroot
        /\ Off(g, t) /\ g.obj[t].nextroot = T.nextroot
        /\ T.traceno # 0 /\ h.trace[T.traceno] = t
    BY <1>3, FlushRootLinks
  <2>. HIDE DEF g
  <2>2. g.trace = h.trace
    BY <1>1 DEF Same
  <2>3. \A u \in Ids : g.obj[u] = NULL <=> h.obj[u] = NULL
    BY <1>1 DEF Same
  <2>4. \A u \in Ids : h.obj[u] # NULL =>
         /\ g.obj[u].traceno = h.obj[u].traceno
         /\ g.obj[u].link = h.obj[u].link /\ g.obj[u].nextside = h.obj[u].nextside
    BY <1>1, SameFields
  <2>5. \A u \in Ids : Has(g, u) <=> Has(h, u)
    BY <2>3, <2>4 DEF Has
  <2>6. \A n, u : Names(g, n, u) <=> Names(h, n, u)
    BY <2>2 DEF Names
  <2>7. ASSUME NEW x \in Ids, cs[x] = "black", Has(g, x), NEW u \in Ids,
               Names(g, g.obj[x].link, u) \/ Names(g, g.obj[x].nextside, u)
        PROVE  cs[u] # "white"
    <3>1. Has(h, x) /\ h.obj[x] # NULL
      BY <2>5, <2>7 DEF Has
    <3>2. Names(h, h.obj[x].link, u) \/ Names(h, h.obj[x].nextside, u)
      BY <3>1, <2>4, <2>6, <2>7
    <3>. QED
      BY <3>1, <3>2, <2>7 DEF Marks
  <2>8. ASSUME NEW ts \in SUBSET Ids, Shadow(g, cs, ts)
        PROVE  /\ \A p \in bl, u \in Ids : Names(g, g.chain[p], u) => Found(cs, ts, u)
               /\ \A x \in Ids : cs[x] = "black" /\ Has(g, x) =>
                    \A u \in Ids : Names(g, g.obj[x].nextroot, u) => Found(cs, ts, u)
    <3>1. Shadow(h, cs, ts)
      <4>1. ASSUME NEW x \in Ids, Off(h, x)
            PROVE  /\ cs[x] = "gray" => x \in ts
                   /\ x \in ts /\ cs[x] # "black" /\ h.obj[x].traceno # 0 =>
                        \A u \in Ids : Names(h, h.obj[x].nextroot, u) => u \in ts
        <5>1. Off(g, x) /\ g.obj[x].nextroot = h.obj[x].nextroot
              /\ g.obj[x].traceno = h.obj[x].traceno
          BY <2>1, <2>4, <4>1 DEF Off
        <5>. QED
          BY <5>1, <2>6, <2>8 DEF Shadow
      <4>. QED
        BY <4>1 DEF Shadow
    <3>2. /\ \A p \in bl, u \in Ids : Names(h, h.chain[p], u) => Found(cs, ts, u)
          /\ \A x \in Ids : cs[x] = "black" /\ Has(h, x) =>
               \A u \in Ids : Names(h, h.obj[x].nextroot, u) => Found(cs, ts, u)
      BY <3>1 DEF Marks
    <3>3. ASSUME Found(cs, ts, t), NEW u \in Ids, Names(h, T.nextroot, u)
          PROVE  Found(cs, ts, u)
      <4>1. Has(h, t)
        BY <2>1 DEF Has
      <4>2. CASE cs[t] = "black"
        BY <4>1, <4>2, <3>2, <3>3
      <4>3. CASE cs[t] # "black"
        <5>1. t \in ts
          BY <4>3, <3>3, <2>1, <2>8 DEF Found, Shadow
        <5>2. g.obj[t].traceno # 0
          BY <2>1, <2>4
        <5>3. u \in ts
          BY <5>1, <5>2, <4>3, <3>3, <2>1, <2>6, <2>8 DEF Shadow
        <5>. QED
          BY <5>3 DEF Found
      <4>. QED
        BY <4>2, <4>3
    <3>4. Names(h, T.traceno, t)
      BY <2>1 DEF Names
    <3>5. ASSUME NEW p \in bl, NEW u \in Ids, Names(g, g.chain[p], u)
          PROVE  Found(cs, ts, u)
      <4>1. CASE g.chain[p] = h.chain[p]
        BY <4>1, <3>2, <3>5, <2>6
      <4>2. CASE h.chain[p] = T.traceno /\ g.chain[p] = T.nextroot
        <5>1. Found(cs, ts, t)
          BY <4>2, <3>2, <3>4
        <5>. QED
          BY <5>1, <4>2, <3>3, <3>5, <2>6
      <4>. QED
        BY <4>1, <4>2, <2>1
    <3>6. ASSUME NEW x \in Ids, cs[x] = "black", Has(g, x),
                 NEW u \in Ids, Names(g, g.obj[x].nextroot, u)
          PROVE  Found(cs, ts, u)
      <4>0. Has(h, x) /\ h.obj[x] # NULL
        BY <3>6, <2>5 DEF Has
      <4>1. CASE g.obj[x].nextroot = h.obj[x].nextroot
        BY <4>0, <4>1, <3>2, <3>6, <2>6
      <4>2. CASE h.obj[x].nextroot = T.traceno /\ g.obj[x].nextroot = T.nextroot
        <5>1. Found(cs, ts, t)
          BY <4>0, <4>2, <3>2, <3>4, <3>6
        <5>. QED
          BY <5>1, <4>2, <3>3, <3>6, <2>6
      <4>. QED
        BY <4>0, <4>1, <4>2, <2>1
    <3>. QED
      BY <3>5, <3>6
  <2>. QED
    BY <2>7, <2>8 DEF Marks, g
<1>. QED
  BY <1>2, <1>3
--------------------------------------------------------------------------------
(* Flushing many traces. *)

\* The head of a chain is the number of a root trace.
LEMMA HeadTrace ==
  ASSUME NEW h, HeapInv(h), NEW p \in Protos, h.chain[p] # 0
  PROVE  LET t == h.trace[h.chain[p]] IN
         /\ t \in Ids /\ h.obj[t] # NULL /\ h.obj[t].root = 0
         /\ h.obj[t].traceno = h.chain[p] /\ h.chain[p] \in Numbers
<1>1. h \in Heaps /\ Registered(h) /\ Rooted(h)
  BY DEF HeapInv
<1>2. PICK L : IsChain(h, p, L)
  BY DEF HeapInv, Chained
<1>3. L # <<>> /\ L \in Seq(Numbers) /\ h.chain[p] = L[1]
  BY <1>2 DEF IsChain
<1>4. L[1] \in Range(L)
  <2>1. Len(L) \in Nat /\ DOMAIN L = 1..Len(L) /\ Len(L) # 0
    BY <1>3, EmptySeq
  <2>. QED
    BY <2>1 DEF Range
<1>. QED
  BY <1>1, <1>2, <1>3, <1>4, ChainTrace

\* What is kept when traces are flushed one by one.
FlushKeeps(h, g, V, K, mk, cs, bl) ==
  /\ HeapInv(g) /\ Same(h, g)
  /\ Kept(g, V, K) /\ InTree(g, K)
  /\ mk => Marks(g, cs, bl)

\* After some flushes, one more root trace may be flushed.
LEMMA FlushRootKeeps ==
  ASSUME NEW h \in Heaps, NEW g, NEW V, NEW K, NEW mk \in BOOLEAN,
         NEW cs \in [Ids -> {"white", "gray", "black"}], NEW bl \in SUBSET Protos,
         FlushKeeps(h, g, V, K, mk, cs, bl),
         NEW t \in Ids, g.obj[t] # NULL, g.obj[t].root = 0
  PROVE  FlushKeeps(h, trace_flushroot(g, t), V, K, mk, cs, bl)
<1>. DEFINE x == trace_flushroot(g, t)
<1>1. HeapInv(g) /\ Same(h, g) /\ Kept(g, V, K) /\ InTree(g, K) /\ g \in Heaps
  BY DEF FlushKeeps, HeapInv
<1>2. HeapInv(x) /\ Same(g, x)
  BY <1>1, FlushRoot
<1>3. Kept(x, V, K) /\ InTree(x, K)
  BY <1>1, FlushRootKept
<1>4. mk => Marks(x, cs, bl)
  BY <1>1, FlushRootMarks DEF FlushKeeps
<1>5. Same(h, x)
  BY <1>1, <1>2, SameTrans
<1>. QED
  BY <1>2, <1>3, <1>4, <1>5 DEF FlushKeeps

\* Flushing nothing keeps all.
LEMMA FlushKeepsRefl ==
  ASSUME NEW h, HeapInv(h), NEW V, NEW K, NEW mk \in BOOLEAN, NEW cs, NEW bl,
         Kept(h, V, K), InTree(h, K), mk => Marks(h, cs, bl)
  PROVE  FlushKeeps(h, h, V, K, mk, cs, bl)
BY SameRefl DEF FlushKeeps, HeapInv

\* lj_trace_flush keeps what flushes keep.
LEMMA FlushTraceKeeps ==
  ASSUME NEW h, HeapInv(h), NEW V, NEW K, NEW mk \in BOOLEAN,
         NEW cs \in [Ids -> {"white", "gray", "black"}], NEW bl \in SUBSET Protos,
         Kept(h, V, K), InTree(h, K), mk => Marks(h, cs, bl), NEW n \in Numbers
  PROVE  FlushKeeps(h, lj_trace_flush(h, n), V, K, mk, cs, bl)
<1>. DEFINE t == h.trace[n]
<1>1. FlushKeeps(h, h, V, K, mk, cs, bl)
  BY FlushKeepsRefl
<1>2. h \in Heaps /\ Registered(h)
  BY DEF HeapInv
<1>3. CASE t \in Ids /\ h.obj[t].root = 0
  <2>1. h.obj[t] # NULL
    BY <1>2, <1>3 DEF Registered
  <2>2. lj_trace_flush(h, n) = trace_flushroot(h, t)
    BY <1>3 DEF lj_trace_flush
  <2>. QED
    BY <1>1, <1>2, <1>3, <2>1, <2>2, FlushRootKeeps
<1>4. CASE ~ (t \in Ids /\ h.obj[t].root = 0)
  <2>1. lj_trace_flush(h, n) = h
    BY <1>4 DEF lj_trace_flush
  <2>. QED
    BY <2>1, <1>1
<1>. QED
  BY <1>3, <1>4

\* lj_trace_flushproto keeps what flushes keep.
LEMMA FlushProtoKeeps ==
  ASSUME NEW h, HeapInv(h), NEW V, NEW K, NEW mk \in BOOLEAN,
         NEW cs \in [Ids -> {"white", "gray", "black"}], NEW bl \in SUBSET Protos,
         Kept(h, V, K), InTree(h, K), mk => Marks(h, cs, bl), NEW p \in Protos
  PROVE  FlushKeeps(h, lj_trace_flushproto(h, p), V, K, mk, cs, bl)
<1>. DEFINE Q == {g \in Heaps : FlushKeeps(h, g, V, K, mk, cs, bl)}
<1>1. h \in Q
  BY FlushKeepsRefl DEF HeapInv
<1>2. ASSUME NEW g \in Q, g.chain[p] # 0
      PROVE  trace_flushroot(g, g.trace[g.chain[p]]) \in Q
  <2>1. FlushKeeps(h, g, V, K, mk, cs, bl) /\ HeapInv(g) /\ h \in Heaps
    BY <1>1 DEF FlushKeeps
  <2>2. /\ g.trace[g.chain[p]] \in Ids /\ g.obj[g.trace[g.chain[p]]] # NULL
        /\ g.obj[g.trace[g.chain[p]]].root = 0
    BY <2>1, <1>2, HeadTrace
  <2>3. FlushKeeps(h, trace_flushroot(g, g.trace[g.chain[p]]), V, K, mk, cs, bl)
    BY <2>1, <2>2, FlushRootKeeps
  <2>. QED
    BY <2>3 DEF FlushKeeps, HeapInv
<1>3. lj_trace_flushproto(h, p) \in Q
  <2>. HIDE DEF Q
  <2>. QED
    BY <1>1, <1>2, FlushprotoStays, Constants
<1>. QED
  BY <1>3

\* A trace that is off its chain is on no chain.
LEMMA OffChains ==
  ASSUME NEW h \in Heaps, Registered(h), Rooted(h), NEW t \in Ids, Off(h, t),
         NEW p, NEW L, IsChain(h, p, L), NEW n \in Range(L)
  PROVE  n # h.obj[t].traceno /\ h.trace[n] # t
<1>1. /\ h.trace[n] \in Ids /\ h.obj[h.trace[n]] # NULL
      /\ h.obj[h.trace[n]].traceno = n /\ n \in Numbers
      /\ h.obj[h.trace[n]].start \in Sites
      /\ ProtoOf[h.obj[h.trace[n]].start] = p
  BY ChainTrace
<1>2. n \in OnChain(h, p)
  BY ChainIs
<1>3. On(h, h.trace[n])
  BY <1>1, <1>2, Constants DEF On, Has
<1>4. h.trace[n] # t
  BY <1>3 DEF Off
<1>5. n # h.obj[t].traceno
  BY <1>1, <1>4 DEF Registered, Off
<1>. QED
  BY <1>4, <1>5

\* The fields of a trace that lj_trace_flushall has taken the number from.
LEMMA FlushedFields ==
  ASSUME NEW T \in GCtrace
  PROVE  LET F == [T EXCEPT !.traceno = 0, !.link = 0] IN
         /\ F \in GCtrace /\ F.traceno = 0 /\ F.link = 0 /\ F.start = T.start
         /\ F.root = T.root /\ F.nextroot = T.nextroot
<1>1. 0 \in 0..MAXTRACE
  BY Constants
<1>. QED
  BY <1>1 DEF GCtrace

\* One round of lj_trace_flushall's loop takes one number away.
LEMMA FlushNumberKeeps ==
  ASSUME NEW h, HeapInv(h), NEW n \in Numbers
  PROVE  /\ HeapInv(FlushNumber(h, n))
         /\ FlushNumber(h, n).trace[n] = NULL
         /\ \A m \in Numbers : m # n => FlushNumber(h, n).trace[m] = h.trace[m]
         /\ \A u \in Ids : FlushNumber(h, n).obj[u] = NULL <=> h.obj[u] = NULL
<1>. DEFINE t == h.trace[n]
            x == lj_trace_flush(h, n)
            g == FlushNumber(h, n)
<1>1. h \in Heaps /\ Registered(h) /\ Rooted(h) /\ Chained(h) /\ Barring(h)
  BY DEF HeapInv
<1>2. CASE t \in Ids
  <2>1. h.obj[t] # NULL /\ h.obj[t].traceno = n
    BY <1>1, <1>2 DEF Registered
  <2>2. HeapInv(x) /\ Same(h, x) /\ Off(x, t)
    <3>1. CASE h.obj[t].root = 0
      <4>1. x = trace_flushroot(h, t)
        BY <3>1, <1>2 DEF lj_trace_flush
      <4>2. HeapInv(x) /\ Same(h, x)
        BY <4>1, <3>1, <2>1, <1>2, FlushRoot
      <4>3. Off(x, t)
        BY <4>1, <3>1, <2>1, <1>2, FlushRootLinks
      <4>. QED
        BY <4>2, <4>3
    <3>2. CASE h.obj[t].root # 0
      <4>1. x = h
        BY <3>2, <1>2 DEF lj_trace_flush
      <4>2. ~ On(h, t)
        <5>. SUFFICES ASSUME On(h, t) PROVE FALSE
          OBVIOUS
        <5>1. ProtoOf[h.obj[t].start] \in Protos /\ n \in OnChain(h, ProtoOf[h.obj[t].start])
          BY <2>1, Constants DEF On
        <5>2. PICK L : IsChain(h, ProtoOf[h.obj[t].start], L)
          BY <5>1, <1>1 DEF Chained
        <5>3. n \in Range(L)
          BY <5>1, <5>2, ChainIs
        <5>. DEFINE p == ProtoOf[h.obj[t].start]
        <5>4. h \in Heaps /\ Registered(h) /\ Rooted(h) /\ IsChain(h, p, L) /\ n \in Range(L)
          BY <5>2, <5>3, <1>1
        <5>. HIDE DEF p, t
        <5>5. h.obj[h.trace[n]].root = 0
          BY ONLY <5>4, ChainTrace
        <5>. QED
          BY <5>5, <3>2 DEF t
      <4>. QED
        BY <4>1, <4>2, <2>1, <1>1, SameRefl DEF Off
    <3>. QED
      BY <3>1, <3>2
  <2>3. /\ x \in Heaps /\ Registered(x) /\ Rooted(x) /\ Chained(x) /\ Barring(x)
        /\ x.trace = h.trace /\ x.obj[t] # NULL /\ x.obj[t].traceno = n
        /\ \A u \in Ids : x.obj[u] = NULL <=> h.obj[u] = NULL
    <3>1. x \in Heaps /\ Registered(x) /\ Rooted(x) /\ Chained(x) /\ Barring(x)
      BY <2>2 DEF HeapInv
    <3>2. x.trace = h.trace /\ \A u \in Ids : x.obj[u] = NULL <=> h.obj[u] = NULL
      BY <2>2 DEF Same
    <3>3. x.obj[t] # NULL /\ x.obj[t].traceno = n
      <4>. HIDE DEF x
      <4>. QED
        BY <2>1, <2>2, <1>1, <1>2, SameFields
    <3>. QED
      BY <3>1, <3>2, <3>3
  <2>. DEFINE F == [x.obj[t] EXCEPT !.traceno = 0, !.link = 0]
  <2>4. x.obj[t] \in GCtrace
    BY <2>3, <1>2, HeapFields
  <2>5. F \in GCtrace /\ F.traceno = 0 /\ F.link = 0 /\ F.start = x.obj[t].start
        /\ F.root = x.obj[t].root /\ F.nextroot = x.obj[t].nextroot
    <3>. HIDE DEF x, t
    <3>. QED
      BY <2>4, FlushedFields
  <2>6. g = [x EXCEPT !.obj = [x.obj EXCEPT ![t] = F], !.trace = [x.trace EXCEPT ![n] = NULL]]
    <3>1. g = [x EXCEPT !.obj[t].traceno = 0, !.obj[t].link = 0, !.trace[n] = NULL]
      BY <1>2 DEF FlushNumber
    <3>. HIDE DEF g, x, t
    <3>2. x.obj \in [Ids -> GCtrace \cup {NULL}] /\ t \in Ids
      BY <2>3, <1>2, HeapFields
    <3>. QED
      BY <3>1, <3>2, <2>3 DEF Heaps
  <2>. HIDE DEF F, g, x
  <2>7. /\ g \in Heaps /\ g.obj = [x.obj EXCEPT ![t] = F]
        /\ g.trace = [x.trace EXCEPT ![n] = NULL] /\ g.bc = x.bc /\ g.iloop = x.iloop
        /\ g.chain = x.chain /\ g.curno = x.curno
    <3>1. [x.obj EXCEPT ![t] = F] \in [Ids -> GCtrace \cup {NULL}]
      BY <2>3, <2>5, <1>2, HeapFields
    <3>2. [x.trace EXCEPT ![n] = NULL] \in [Numbers -> Ids \cup {NULL, CUR}]
      BY <2>3, HeapFields
    <3>. QED
      BY <2>3, <2>6, <3>1, <3>2 DEF Heaps
  <2>8. /\ \A u \in Ids : g.obj[u] = IF u = t THEN F ELSE x.obj[u]
        /\ \A m \in Numbers : g.trace[m] = IF m = n THEN NULL ELSE x.trace[m]
    BY <2>7, <2>3, HeapFields
  <2>9. F # NULL
    BY <2>5, NullIsNoTrace
  <2>10. Registered(g)
    BY <2>3, <2>5, <2>7, <2>8, <2>9, <1>2, Constants DEF Registered
  <2>11. Rooted(g)
    BY <2>3, <2>5, <2>8, <2>9, <1>2 DEF Rooted
  <2>12. Barring(g)
    BY <2>3, <2>7 DEF Barring
  <2>13. ASSUME NEW p \in Protos PROVE \E L : IsChain(g, p, L) /\ Led(g, p, L)
    <3>1. PICK L : IsChain(x, p, L) /\ Led(x, p, L)
      BY <2>3 DEF Chained
    <3>2. \A m \in Range(L) : m \in Numbers /\ m # n /\ x.trace[m] # t /\ x.trace[m] \in Ids
      BY <3>1, <2>2, <2>3, <1>2, OffChains, ChainTrace
    <3>3. \A m \in Range(L) : g.trace[m] = x.trace[m] /\ g.obj[g.trace[m]] = x.obj[x.trace[m]]
      BY <3>2, <2>8
    <3>4. \A i \in DOMAIN L : L[i] \in Range(L)
      BY DEF Range
    <3>5. IsChain(g, p, L)
      BY <3>1, <3>3, <3>4, <2>7 DEF IsChain
    <3>6. Led(g, p, L)
      BY <3>1, <3>3, <2>7 DEF Led
    <3>. QED
      BY <3>5, <3>6
  <2>14. HeapInv(g)
    BY <2>7, <2>10, <2>11, <2>12, <2>13 DEF HeapInv, Chained
  <2>15. \A u \in Ids : g.obj[u] = NULL <=> h.obj[u] = NULL
    BY <2>3, <2>8, <2>9
  <2>. QED
    BY <2>3, <2>8, <2>14, <2>15 DEF g
<1>3. CASE t \notin Ids
  <2>1. g = [h EXCEPT !.trace = [h.trace EXCEPT ![n] = NULL]]
    BY <1>3, <1>1 DEF FlushNumber, Heaps
  <2>. HIDE DEF g
  <2>2. /\ g \in Heaps /\ g.obj = h.obj /\ g.trace = [h.trace EXCEPT ![n] = NULL]
        /\ g.bc = h.bc /\ g.iloop = h.iloop /\ g.chain = h.chain /\ g.curno = h.curno
    <3>1. [h.trace EXCEPT ![n] = NULL] \in [Numbers -> Ids \cup {NULL, CUR}]
      BY <1>1, HeapFields
    <3>. QED
      BY <2>1, <3>1, <1>1 DEF Heaps
  <2>3. \A m \in Numbers : g.trace[m] = IF m = n THEN NULL ELSE h.trace[m]
    BY <2>2, <1>1, HeapFields
  <2>4. Registered(g)
    BY <1>1, <1>3, <2>2, <2>3, Constants DEF Registered
  <2>5. Rooted(g) /\ Barring(g)
    BY <1>1, <2>2 DEF Rooted, Barring
  <2>6. ASSUME NEW p \in Protos PROVE \E L : IsChain(g, p, L) /\ Led(g, p, L)
    <3>1. PICK L : IsChain(h, p, L) /\ Led(h, p, L)
      BY <1>1 DEF Chained
    <3>2. \A m \in Range(L) : m \in Numbers /\ m # n
      BY <3>1, <1>1, <1>3, ChainTrace
    <3>3. \A m \in Range(L) : g.trace[m] = h.trace[m]
      BY <3>2, <2>3
    <3>4. \A i \in DOMAIN L : L[i] \in Range(L)
      BY DEF Range
    <3>5. IsChain(g, p, L)
      BY <3>1, <3>3, <3>4, <2>2 DEF IsChain
    <3>6. Led(g, p, L)
      BY <3>1, <3>3, <2>2 DEF Led
    <3>. QED
      BY <3>5, <3>6
  <2>7. HeapInv(g)
    BY <2>2, <2>4, <2>5, <2>6 DEF HeapInv, Chained
  <2>. QED
    BY <2>2, <2>3, <2>7 DEF g
<1>. QED
  BY <1>2, <1>3

\* After lj_trace_flushall nothing has a number.
LEMMA FlushAll ==
  ASSUME NEW h, HeapInv(h), NEW g, g = lj_trace_flushall(h)
  PROVE  /\ HeapInv(g) /\ g.curno = 0 /\ g.freetrace = 0
         /\ \A n \in Numbers : g.trace[n] = NULL
         /\ \A u \in Ids : g.obj[u] = NULL <=> h.obj[u] = NULL
         /\ \A u \in Ids : g.obj[u] # NULL => g.obj[u].traceno = 0
         /\ \A p \in Protos : g.chain[p] = 0
<1>. DEFINE Q == {x \in Heaps : HeapInv(x) /\ \A u \in Ids : x.obj[u] = NULL <=> h.obj[u] = NULL}
<1>1. h \in Q
  BY DEF HeapInv
<1>2. ASSUME NEW x \in Q, NEW n \in Numbers
      PROVE  /\ FlushNumber(x, n) \in Q
             /\ FlushNumber(x, n).trace[n] = NULL
             /\ \A m \in Numbers : m # n => FlushNumber(x, n).trace[m] = x.trace[m]
  <2>1. HeapInv(x)
    OBVIOUS
  <2>2. /\ HeapInv(FlushNumber(x, n))
        /\ FlushNumber(x, n).trace[n] = NULL
        /\ \A m \in Numbers : m # n => FlushNumber(x, n).trace[m] = x.trace[m]
        /\ \A u \in Ids : FlushNumber(x, n).obj[u] = NULL <=> x.obj[u] = NULL
    BY <2>1, FlushNumberKeeps
  <2>. QED
    BY <2>2 DEF HeapInv
<1>3. PICK x \in Q : /\ \A n \in Numbers : x.trace[n] = NULL
                     /\ lj_trace_flushall(h) = [x EXCEPT !.curno = 0, !.freetrace = 0]
  <2>. HIDE DEF Q
  <2>. QED
    BY <1>1, <1>2, FlushallStays
<1>4. /\ x \in Heaps /\ Registered(x) /\ Rooted(x) /\ Chained(x) /\ Barring(x)
      /\ \A u \in Ids : x.obj[u] = NULL <=> h.obj[u] = NULL
  BY DEF HeapInv
<1>5. g = [x EXCEPT !.curno = 0, !.freetrace = 0]
  BY <1>3
<1>6. /\ g \in Heaps /\ g.obj = x.obj /\ g.trace = x.trace /\ g.chain = x.chain
      /\ g.bc = x.bc /\ g.iloop = x.iloop /\ g.curno = 0 /\ g.freetrace = 0
  <2>1. x \in Heaps /\ 0 \in 0..MAXTRACE /\ 0 \in 0..MAXTRACE + 1
    BY <1>4, Constants
  <2>. HIDE DEF Q
  <2>. QED
    BY <1>5, <2>1 DEF Heaps
<1>7. Registered(g)
  BY <1>3, <1>4, <1>6, Constants DEF Registered
<1>8. Rooted(g) /\ Barring(g)
  BY <1>4, <1>6 DEF Rooted, Barring
<1>9. Chained(g)
  <2>1. \A p, L : IsChain(x, p, L) => IsChain(g, p, L)
    BY <1>6, SameChains
  <2>2. \A p, L : Led(x, p, L) => Led(g, p, L)
    BY <1>6 DEF Led
  <2>. QED
    BY <1>4, <2>1, <2>2 DEF Chained
<1>10. HeapInv(g)
  BY <1>6, <1>7, <1>8, <1>9 DEF HeapInv
<1>11. ASSUME NEW u \in Ids, g.obj[u] # NULL PROVE g.obj[u].traceno = 0
  <2>1. g.obj[u] \in GCtrace
    BY <1>6, <1>11, HeapFields
  <2>2. g.obj[u].traceno \in 0..MAXTRACE
    BY <2>1, TraceFields
  <2>3. g.obj[u].traceno \notin Numbers
    BY <1>3, <1>6, <1>7, <1>11, Constants DEF Registered
  <2>. QED
    BY <2>2, <2>3, Constants
<1>12. \A p \in Protos : g.chain[p] = 0
  BY <1>3, <1>6, <1>10, HeadTrace, Constants
<1>. QED
  BY <1>3, <1>4, <1>6, <1>10, <1>11, <1>12
--------------------------------------------------------------------------------
(* Heaps with the same traces. *)

\* A set of natural numbers has a smallest member.
LEMMA SmallestOf ==
  ASSUME NEW S, S \subseteq Nat, S # {}
  PROVE  \E m \in S : \A j \in S : ~ (j < m)
<1>. DEFINE R == OpToRel(<, Nat)
<1>1. IsWellFoundedOn(R, Nat)
  BY NatLessThanWellFounded
<1>2. \E x \in S : \A y \in S : ~ (<<y, x>> \in R)
  <2>. HIDE DEF R
  <2>. QED
    BY <1>1, WFMin
<1>3. PICK x \in S : \A y \in S : ~ (<<y, x>> \in R)
  BY <1>2
<1>4. \A y \in S : ~ (y < x)
  <2>. TAKE y \in S
  <2>1. y < x => <<y, x>> \in R
    BY DEF OpToRel
  <2>. QED
    BY <2>1, <1>3
<1>. QED
  BY <1>4

\* The search for a free number misses none.
Counted(h) ==
  /\ h.curno # 0 => h.trace[h.curno] = CUR
  /\ \A n \in 1..h.freetrace - 1 : h.trace[n] # NULL
Sound(h, V, K, mk, cs, bl) ==
  /\ HeapInv(h) /\ Counted(h) /\ Kept(h, V, K) /\ InTree(h, K)
  /\ mk => Marks(h, cs, bl)

\* The traces, and the numbers they go by, are the same.
Alike(h, g) ==
  /\ g.obj = h.obj /\ g.chain = h.chain
  /\ \A n \in Numbers, u \in Ids : g.trace[n] = u <=> h.trace[n] = u
  /\ \A s \in Sites : {g.bc[s]} \cap Numbers = {h.bc[s]} \cap Numbers

\* Heaps with the same traces have the same chains.
LEMMA AlikeChains ==
  ASSUME NEW h, NEW g, Alike(h, g), NEW p, NEW L, IsChain(h, p, L)
  PROVE  IsChain(g, p, L)
<1>1. \A i \in DOMAIN L : L[i] \in Numbers
  BY DEF IsChain
<1>2. \A i \in DOMAIN L : g.trace[L[i]] = h.trace[L[i]]
  BY <1>1 DEF Alike, IsChain
<1>. QED
  BY <1>2 DEF IsChain, Alike

\* Heaps with the same traces have the same traces off the chains.
LEMMA AlikeOff ==
  ASSUME NEW h, Chained(h), NEW g, Alike(h, g), NEW t \in Ids
  PROVE  Off(g, t) <=> Off(h, t)
<1>1. \A p \in Protos : OnChain(g, p) = OnChain(h, p)
  <2>. TAKE p \in Protos
  <2>1. PICK L : IsChain(h, p, L)
    BY DEF Chained
  <2>2. IsChain(g, p, L)
    BY <2>1, AlikeChains
  <2>. QED
    BY <2>1, <2>2, ChainIs
<1>2. \A s \in Sites : ProtoOf[s] \in Protos
  BY Constants
<1>. QED
  BY <1>1, <1>2 DEF Off, On, Has, Alike

\* What a recording does to its number and to bars leaves the heap as it should be.
LEMMA AlikeInv ==
  ASSUME NEW h, HeapInv(h), NEW g \in Heaps, Alike(h, g), Barring(g),
         \A n \in Numbers : g.trace[n] = CUR => g.curno = n
  PROVE  HeapInv(g)
<1>1. Registered(g)
  BY DEF HeapInv, Registered, Alike
<1>2. Rooted(g)
  BY DEF HeapInv, Rooted, Alike
<1>3. ASSUME NEW p \in Protos PROVE \E L : IsChain(g, p, L) /\ Led(g, p, L)
  <2>1. PICK L : IsChain(h, p, L) /\ Led(h, p, L)
    BY DEF HeapInv, Chained
  <2>2. IsChain(g, p, L)
    BY <2>1, AlikeChains
  <2>3. \A n \in Range(L) : n \in Numbers /\ h.trace[n] \in Ids
    BY <2>1, ChainTrace DEF HeapInv
  <2>4. \A n \in Range(L) : g.trace[n] = h.trace[n]
    BY <2>3 DEF Alike
  <2>5. Led(g, p, L)
    BY <2>1, <2>4 DEF Led, Alike
  <2>. QED
    BY <2>2, <2>5
<1>. QED
  BY <1>1, <1>2, <1>3 DEF HeapInv, Chained

\* Heaps with the same traces keep the same traces.
LEMMA AlikeKept ==
  ASSUME NEW h \in Heaps, NEW g, Alike(h, g), NEW V, NEW K, Kept(h, V, K)
  PROVE  Kept(g, V, K)
<1>1. V \subseteq Ids
  BY DEF Kept
<1>2. \A n \in 0..MAXTRACE : n # 0 /\ h.trace[n] \in V => g.trace[n] = h.trace[n]
  BY <1>1, Constants DEF Alike
<1>3. \A t \in V : h.obj[t] # NULL =>
        /\ h.obj[t].link \in 0..MAXTRACE /\ h.obj[t].nextroot \in 0..MAXTRACE
        /\ h.obj[t].nextside \in 0..MAXTRACE
  BY <1>1, HeapFields, TraceFields
<1>4. \A p \in Protos : h.chain[p] \in 0..MAXTRACE
  BY HeapFields
<1>5. g.obj = h.obj /\ g.chain = h.chain
  BY DEF Alike
<1>6. ASSUME NEW t \in V, g.obj[t].traceno # 0
      PROVE  /\ \A n \in {g.obj[t].link, g.obj[t].nextroot, g.obj[t].nextside} :
                  n # 0 => g.trace[n] \in V
             /\ g.obj[t].link # 0 => \/ g.obj[t].link = g.obj[t].traceno
                                     \/ g.obj[g.trace[g.obj[t].link]].root = 0
             /\ g.obj[t].root = 0 => t \in K
  BY <1>2, <1>3, <1>5, <1>6 DEF Kept
<1>7. \A p \in Protos : g.chain[p] # 0 => g.trace[g.chain[p]] \in V
  BY <1>2, <1>4, <1>5 DEF Kept
<1>. QED
  BY <1>5, <1>6, <1>7 DEF Kept

\* Heaps with the same traces have the same trees.
LEMMA AlikeTree ==
  ASSUME NEW h \in Heaps, NEW g, Alike(h, g), NEW K \in SUBSET Ids,
         \A t \in K : h.obj[t] # NULL, InTree(h, K)
  PROVE  InTree(g, K)
<1>1. g.obj = h.obj
  BY DEF Alike
<1>2. \A n \in 0..MAXTRACE, u \in Ids : Names(g, n, u) <=> Names(h, n, u)
  BY Constants DEF Alike, Names
<1>3. \A u \in Ids : h.obj[u] # NULL =>
        /\ h.obj[u].link \in 0..MAXTRACE /\ h.obj[u].nextside \in 0..MAXTRACE
        /\ h.obj[u].root \in 0..MAXTRACE /\ h.obj[u].jumps \in SUBSET Ids
  BY HeapFields, TraceFields
<1>4. \A u \in Ids : h.obj[u] # NULL /\ Home(h, u) \in Ids => Home(g, u) = Home(h, u)
  BY <1>1, <1>3, Constants DEF Home, Alike
<1>5. \A r, t \in Ids : Beside(h, r, t) => Beside(g, r, t)
  BY <1>1, <1>2, <1>3 DEF Beside, Has
<1>6. ASSUME NEW t \in K
      PROVE  /\ g.obj[t].traceno # 0
             /\ Home(g, t) \in K /\ g.obj[Home(g, t)].root = 0
             /\ Beside(g, Home(g, t), t)
             /\ \A u \in g.obj[t].jumps :
                  u \in K /\ (Home(g, u) = Home(g, t) \/ Names(g, g.obj[t].link, u))
  <2>1. /\ h.obj[t].traceno # 0
        /\ Home(h, t) \in K /\ h.obj[Home(h, t)].root = 0
        /\ Beside(h, Home(h, t), t)
        /\ \A u \in h.obj[t].jumps :
             u \in K /\ (Home(h, u) = Home(h, t) \/ Names(h, h.obj[t].link, u))
    BY DEF InTree
  <2>2. Home(g, t) = Home(h, t)
    BY <2>1, <1>4
  <2>3. \A u \in h.obj[t].jumps : u \in K /\ Home(h, u) \in Ids /\ Home(g, u) = Home(h, u)
    BY <2>1, <1>4 DEF InTree
  <2>4. \A u \in h.obj[t].jumps : Names(g, g.obj[t].link, u) <=> Names(h, h.obj[t].link, u)
    BY <1>1, <1>2, <1>3, <2>3
  <2>5. Beside(g, Home(g, t), t)
    BY <2>1, <2>2, <1>5
  <2>. QED
    BY <1>1, <2>1, <2>2, <2>3, <2>4, <2>5
<1>. QED
  BY <1>6 DEF InTree

\* Heaps with the same traces need the same marks.
LEMMA AlikeMarks ==
  ASSUME NEW h, HeapInv(h), NEW g, Alike(h, g), NEW cs, NEW bl \in SUBSET Protos,
         Marks(h, cs, bl)
  PROVE  Marks(g, cs, bl)
<1>1. h \in Heaps /\ Chained(h)
  BY DEF HeapInv
<1>2. g.obj = h.obj /\ g.chain = h.chain
  BY DEF Alike
<1>3. \A n \in 0..MAXTRACE, u \in Ids : Names(g, n, u) <=> Names(h, n, u)
  BY Constants DEF Alike, Names
<1>4. \A u \in Ids : h.obj[u] # NULL =>
        /\ h.obj[u].link \in 0..MAXTRACE /\ h.obj[u].nextside \in 0..MAXTRACE
        /\ h.obj[u].nextroot \in 0..MAXTRACE
  BY <1>1, HeapFields, TraceFields
<1>5. \A p \in bl : h.chain[p] \in 0..MAXTRACE
  BY <1>1, HeapFields
<1>6. \A t \in Ids : Off(g, t) <=> Off(h, t)
  BY <1>1, AlikeOff
<1>7. \A t \in Ids : Has(g, t) <=> Has(h, t)
  BY <1>2 DEF Has
<1>8. \A ts \in SUBSET Ids : Shadow(g, cs, ts) <=> Shadow(h, cs, ts)
  <2>1. \A t \in Ids : Off(h, t) => h.obj[t] # NULL
    BY DEF Off
  <2>. QED
    BY <2>1, <1>2, <1>3, <1>4, <1>6 DEF Shadow
<1>9. ASSUME NEW t \in Ids, cs[t] = "black", Has(g, t),
             NEW u \in Ids, Names(g, g.obj[t].link, u) \/ Names(g, g.obj[t].nextside, u)
      PROVE  cs[u] # "white"
  BY <1>2, <1>3, <1>4, <1>7, <1>9 DEF Marks, Has
<1>10. ASSUME NEW ts \in SUBSET Ids, Shadow(g, cs, ts)
       PROVE  /\ \A p \in bl, u \in Ids : Names(g, g.chain[p], u) => Found(cs, ts, u)
              /\ \A t \in Ids : cs[t] = "black" /\ Has(g, t) =>
                   \A u \in Ids : Names(g, g.obj[t].nextroot, u) => Found(cs, ts, u)
  <2>1. Shadow(h, cs, ts)
    BY <1>8, <1>10
  <2>2. \A p \in bl, u \in Ids : Names(h, h.chain[p], u) => Found(cs, ts, u)
    BY <2>1 DEF Marks
  <2>3. \A t \in Ids : cs[t] = "black" /\ Has(h, t) =>
          \A u \in Ids : Names(h, h.obj[t].nextroot, u) => Found(cs, ts, u)
    BY <2>1 DEF Marks
  <2>4. \A p \in bl, u \in Ids : Names(g, g.chain[p], u) => Found(cs, ts, u)
    BY <1>2, <1>3, <1>5, <2>2
  <2>5. ASSUME NEW t \in Ids, cs[t] = "black", Has(g, t),
               NEW u \in Ids, Names(g, g.obj[t].nextroot, u)
        PROVE  Found(cs, ts, u)
    <3>1. Has(h, t) /\ h.obj[t] # NULL
      BY <2>5, <1>7 DEF Has
    <3>2. Names(h, h.obj[t].nextroot, u)
      BY <3>1, <2>5, <1>2, <1>3, <1>4
    <3>. QED
      BY <3>1, <3>2, <2>3, <2>5
  <2>. QED
    BY <2>4, <2>5
<1>. QED
  BY <1>9, <1>10 DEF Marks

\* So such heaps are sound together.
LEMMA AlikeSound ==
  ASSUME NEW h, NEW g \in Heaps, NEW V, NEW K, NEW mk, NEW cs, NEW bl \in SUBSET Protos,
         Sound(h, V, K, mk, cs, bl), Alike(h, g), Barring(g), Counted(g),
         \A n \in Numbers : g.trace[n] = CUR => g.curno = n
  PROVE  Sound(g, V, K, mk, cs, bl)
<1>1. HeapInv(h) /\ Kept(h, V, K) /\ InTree(h, K) /\ h \in Heaps
  BY DEF Sound, HeapInv
<1>2. HeapInv(g)
  BY <1>1, AlikeInv
<1>3. Kept(g, V, K)
  BY <1>1, AlikeKept
<1>4. InTree(g, K)
  BY <1>1, AlikeTree DEF Kept
<1>5. mk => Marks(g, cs, bl)
  BY <1>1, AlikeMarks DEF Sound
<1>. QED
  BY <1>2, <1>3, <1>4, <1>5 DEF Sound

\* The traces on the chains are among those that are kept.
LEMMA ChainKept ==
  ASSUME NEW h, HeapInv(h), NEW V, NEW K, Kept(h, V, K),
         NEW p \in Protos, NEW L, IsChain(h, p, L), NEW n \in Range(L)
  PROVE  h.trace[n] \in K /\ h.trace[n] \in V
<1>1. h \in Heaps /\ Registered(h) /\ Rooted(h)
  BY DEF HeapInv
<1>2. /\ Len(L) \in Nat /\ DOMAIN L = 1..Len(L)
      /\ h.chain[p] = IF L = <<>> THEN 0 ELSE L[1]
  BY DEF IsChain
<1>3. \A i \in 1..Len(L) : L[i] \in Range(L)
  BY <1>2 DEF Range
<1>4. \A i \in 1..Len(L) :
        /\ h.trace[L[i]] \in Ids /\ h.obj[h.trace[L[i]]] # NULL
        /\ h.obj[h.trace[L[i]]].traceno = L[i] /\ L[i] # 0
        /\ h.obj[h.trace[L[i]]].root = 0
  BY <1>1, <1>3, ChainTrace, Constants
<1>5. \A i \in 1..Len(L) :
        h.obj[h.trace[L[i]]].nextroot = IF i = Len(L) THEN 0 ELSE L[i + 1]
  BY <1>2 DEF IsChain
<1>. DEFINE S == {i \in 1..Len(L) : h.trace[L[i]] \notin V}
<1>6. \A i \in 1..Len(L) : h.trace[L[i]] \in V
  <2>. SUFFICES ASSUME S # {} PROVE FALSE
    OBVIOUS
  <2>1. S \subseteq Nat
    BY <1>2
  <2>2. PICK m \in S : \A j \in S : ~ (j < m)
    <3>. HIDE DEF S
    <3>. QED
      BY <2>1, SmallestOf
  <2>3. m \in 1..Len(L) /\ h.trace[L[m]] \notin V
    OBVIOUS
  <2>4. CASE m = 1
    <3>1. L # <<>>
      BY <2>3, <1>2, EmptySeq
    <3>2. h.chain[p] = L[1] /\ L[1] # 0
      BY <3>1, <1>2, <1>4, <2>3, <2>4
    <3>. QED
      BY <3>2, <2>3, <2>4 DEF Kept
  <2>5. CASE m # 1
    <3>1. m - 1 \in 1..Len(L) /\ m - 1 + 1 = m /\ m - 1 < m /\ m - 1 # Len(L)
      BY <2>3, <2>5, <1>2
    <3>2. h.trace[L[m - 1]] \in V
      BY <3>1, <2>2
    <3>3. h.obj[h.trace[L[m - 1]]].nextroot = L[m]
      BY <3>1, <1>5
    <3>4. h.obj[h.trace[L[m - 1]]].traceno # 0 /\ L[m] # 0
      BY <3>1, <2>3, <1>4
    <3>. DEFINE t == h.trace[L[m - 1]]
    <3>5. t \in V /\ h.obj[t].traceno # 0 /\ h.obj[t].nextroot = L[m]
      BY <3>2, <3>3, <3>4
    <3>. HIDE DEF t
    <3>6. h.trace[L[m]] \in V
      BY <3>4, <3>5 DEF Kept
    <3>. QED
      BY <3>6, <2>3
  <2>. QED
    BY <2>4, <2>5
<1>7. PICK i \in 1..Len(L) : n = L[i]
  BY <1>2 DEF Range
<1>. QED
  BY <1>4, <1>6, <1>7 DEF Kept
--------------------------------------------------------------------------------
(* Calls that leave the traces alone. *)

\* A heap is sound after flushing some traces.
LEMMA FlushSound ==
  ASSUME NEW h, NEW V, NEW K, NEW mk \in BOOLEAN,
         NEW cs \in [Ids -> {"white", "gray", "black"}], NEW bl \in SUBSET Protos,
         Sound(h, V, K, mk, cs, bl), NEW g, FlushKeeps(h, g, V, K, mk, cs, bl)
  PROVE  Sound(g, V, K, mk, cs, bl) /\ Same(h, g)
<1>1. Counted(g)
  BY DEF Sound, Counted, FlushKeeps, Same
<1>. QED
  BY <1>1 DEF Sound, FlushKeeps

\* A heap is sound after lj_trace_flushall; no trace is in a tree then.
LEMMA FlushAllSound ==
  ASSUME NEW h, NEW V, NEW K, NEW mk, NEW cs, NEW bl \in SUBSET Protos,
         Sound(h, V, K, mk, cs, bl), NEW g, g = lj_trace_flushall(h)
  PROVE  /\ Sound(g, V, {}, mk, cs, bl) /\ g.curno = 0
         /\ \A u \in Ids : g.obj[u] = NULL <=> h.obj[u] = NULL
<1>1. HeapInv(h) /\ Kept(h, V, K)
  BY DEF Sound
<1>2. /\ HeapInv(g) /\ g.curno = 0 /\ g.freetrace = 0
      /\ \A n \in Numbers : g.trace[n] = NULL
      /\ \A u \in Ids : g.obj[u] = NULL <=> h.obj[u] = NULL
      /\ \A u \in Ids : g.obj[u] # NULL => g.obj[u].traceno = 0
      /\ \A p \in Protos : g.chain[p] = 0
  BY <1>1, FlushAll
<1>3. Counted(g)
  BY <1>2 DEF Counted
<1>4. Kept(g, V, {})
  BY <1>1, <1>2 DEF Kept
<1>5. InTree(g, {})
  BY DEF InTree
<1>6. Marks(g, cs, bl)
  BY <1>2 DEF Marks, Has, Names
<1>. QED
  BY <1>2, <1>3, <1>4, <1>5, <1>6 DEF Sound

\* Barring an instruction that is plain.
LEMMA BarSound ==
  ASSUME NEW h, NEW V, NEW K, NEW mk, NEW cs, NEW bl \in SUBSET Protos,
         Sound(h, V, K, mk, cs, bl), NEW s \in Sites, h.bc[s] = Plain,
         NEW g, g = Despecialize(h, s)
  PROVE  /\ Sound(g, V, K, mk, cs, bl)
         /\ g.obj = h.obj /\ g.trace = h.trace /\ g.curno = h.curno
<1>1. h \in Heaps /\ Barring(h) /\ Counted(h) /\ Registered(h)
  BY DEF Sound, HeapInv
<1>. DEFINE b == [h.bc EXCEPT ![s] = Barred]
            i == IF KindOf[s] = "ITERN" THEN h.iloop ELSE h.iloop \cup {ProtoOf[s]}
<1>2. /\ b \in [Sites -> Numbers \cup {Plain, Barred}]
      /\ i \in SUBSET Protos
      /\ \A q \in Sites : b[q] = IF q = s THEN Barred ELSE h.bc[q]
  BY <1>1, HeapFields, Constants
<1>3. g = [h EXCEPT !.bc = b, !.iloop = i]
  <2>1. h.bc \in [Sites -> Numbers \cup {Plain, Barred}]
    BY <1>1, HeapFields
  <2>2. g = [h EXCEPT !.bc = [h.bc EXCEPT ![s] = IF h.bc[s] = Plain THEN Barred ELSE Bad],
                      !.iloop = i]
    BY <1>1 DEF Despecialize, Heaps
  <2>. QED
    BY <2>2
<1>. HIDE DEF b, i
<1>4. /\ g \in Heaps /\ g.obj = h.obj /\ g.trace = h.trace /\ g.chain = h.chain
      /\ g.curno = h.curno /\ g.freetrace = h.freetrace /\ g.bc = b /\ g.iloop = i
  BY <1>1, <1>2, <1>3 DEF Heaps
<1>5. Alike(h, g)
  BY <1>2, <1>4, Constants DEF Alike
<1>6. Barring(g)
  BY <1>1, <1>2, <1>4 DEF Barring, i
<1>7. Counted(g) /\ \A n \in Numbers : g.trace[n] = CUR => g.curno = n
  BY <1>1, <1>4 DEF Counted, Registered
<1>. QED
  BY <1>4, <1>5, <1>6, <1>7, AlikeSound

\* lj_trace_reenableproto lifts the bars of a prototype.
LEMMA ReenableSound ==
  ASSUME NEW h, NEW V, NEW K, NEW mk, NEW cs, NEW bl \in SUBSET Protos,
         Sound(h, V, K, mk, cs, bl), NEW p \in Protos,
         NEW g, g = lj_trace_reenableproto(h, p)
  PROVE  /\ Sound(g, V, K, mk, cs, bl)
         /\ g.obj = h.obj /\ g.trace = h.trace /\ g.curno = h.curno
<1>1. h \in Heaps /\ Barring(h) /\ Counted(h) /\ Registered(h)
  BY DEF Sound, HeapInv
<1>2. CASE p \notin h.iloop
  BY <1>2 DEF lj_trace_reenableproto
<1>3. CASE p \in h.iloop
  <2>. DEFINE b == [s \in Sites |-> IF ProtoOf[s] = p /\ KindOf[s] # "ITERN"
                                       /\ h.bc[s] = Barred THEN Plain ELSE h.bc[s]]
  <2>1. b \in [Sites -> Numbers \cup {Plain, Barred}]
    BY <1>1, HeapFields
  <2>2. \A s \in Sites : b[s] = IF ProtoOf[s] = p /\ KindOf[s] # "ITERN"
                                       /\ h.bc[s] = Barred THEN Plain ELSE h.bc[s]
    OBVIOUS
  <2>3. g = [h EXCEPT !.iloop = h.iloop \ {p}, !.bc = b]
    BY <1>1, <1>3 DEF lj_trace_reenableproto, Heaps
  <2>. HIDE DEF b
  <2>4. /\ g \in Heaps /\ g.obj = h.obj /\ g.trace = h.trace /\ g.chain = h.chain
        /\ g.curno = h.curno /\ g.freetrace = h.freetrace /\ g.bc = b
        /\ g.iloop = h.iloop \ {p}
    BY <1>1, <2>1, <2>3 DEF Heaps
  <2>5. Alike(h, g)
    BY <2>2, <2>4, Constants DEF Alike
  <2>6. Barring(g)
    BY <1>1, <2>2, <2>4, Constants DEF Barring
  <2>7. Counted(g) /\ \A n \in Numbers : g.trace[n] = CUR => g.curno = n
    BY <1>1, <2>4 DEF Counted, Registered
  <2>. QED
    BY <2>4, <2>5, <2>6, <2>7, AlikeSound
<1>. QED
  BY <1>2, <1>3

\* The number of the recording is given back.
LEMMA DropSound ==
  ASSUME NEW h, NEW V, NEW K, NEW mk, NEW cs, NEW bl \in SUBSET Protos,
         Sound(h, V, K, mk, cs, bl), NEW g, g = Dropped(h)
  PROVE  /\ Sound(g, V, K, mk, cs, bl)
         /\ g.obj = h.obj /\ g.curno = 0 /\ g.bc = h.bc
         /\ \A n \in Numbers : h.trace[n] \in Ids => g.trace[n] = h.trace[n]
<1>. DEFINE c == h.curno
<1>1. /\ h \in Heaps /\ Barring(h) /\ Counted(h) /\ Registered(h)
      /\ c \in 0..MAXTRACE /\ h.freetrace \in Nat
  BY HeapFields, Constants DEF Sound, HeapInv
<1>2. CASE c = 0
  BY <1>2 DEF Dropped
<1>3. CASE c # 0
  <2>. DEFINE r == [h.trace EXCEPT ![c] = NULL]
              f == IF c < h.freetrace THEN c ELSE h.freetrace
  <2>1. c \in Numbers /\ h.trace[c] = CUR
    BY <1>1, <1>3, Constants DEF Counted
  <2>2. /\ r \in [Numbers -> Ids \cup {NULL, CUR}]
        /\ \A n \in Numbers : r[n] = IF n = c THEN NULL ELSE h.trace[n]
    BY <1>1, <2>1, HeapFields
  <2>3. f \in 0..MAXTRACE + 1 /\ f \in Nat /\ f <= c /\ f <= h.freetrace
    <3>1. h.freetrace \in 0..MAXTRACE + 1
      BY <1>1, HeapFields
    <3>. QED
      BY <3>1, <1>1, Constants
  <2>4. g = [h EXCEPT !.trace = r, !.freetrace = f, !.curno = 0]
    BY <1>1, <1>3 DEF Dropped, Release, Heaps
  <2>. HIDE DEF r, f
  <2>5. /\ g.obj = h.obj /\ g.trace = r /\ g.chain = h.chain
        /\ g.curno = 0 /\ g.freetrace = f /\ g.bc = h.bc /\ g.iloop = h.iloop
    BY <1>1, <2>4 DEF Heaps
  <2>6. g \in Heaps
    <3>1. 0 \in 0..MAXTRACE
      BY Constants
    <3>. QED
      BY <3>1, <1>1, <2>2, <2>3, <2>4 DEF Heaps
  <2>7. Alike(h, g)
    BY <2>1, <2>2, <2>5, Constants DEF Alike
  <2>8. Barring(g)
    BY <1>1, <2>5 DEF Barring
  <2>9. \A n \in Numbers : g.trace[n] # CUR
    BY <1>1, <2>2, <2>5, Constants DEF Registered
  <2>10. Counted(g)
    <3>1. ASSUME NEW n \in 1..f - 1 PROVE r[n] # NULL
      <4>1. n \in 1..h.freetrace - 1 /\ n # c /\ n \in 1..c
        BY <2>3, <1>1
      <4>2. n \in Numbers
        BY <4>1, <1>1, Constants
      <4>. QED
        BY <4>1, <4>2, <2>2, <1>1 DEF Counted
    <3>. QED
      BY <3>1, <2>5 DEF Counted
  <2>. QED
    BY <2>1, <2>2, <2>5, <2>6, <2>7, <2>8, <2>9, <2>10, AlikeSound, Constants
<1>. QED
  BY <1>2, <1>3

\* trace_findfree finds a number that is free, and the smallest one.
LEMMA FindFree ==
  ASSUME NEW h \in Heaps, Counted(h), NEW n, n = trace_findfree(h), n # 0
  PROVE  /\ n \in Numbers /\ h.trace[n] = NULL
         /\ \A m \in 1..n - 1 : h.trace[m] # NULL
<1>. DEFINE free == {m \in From(h)..MAXTRACE : h.trace[m] = NULL}
<1>1. h.freetrace \in Nat /\ MAXTRACE \in Nat
  BY HeapFields, Constants
<1>2. From(h) \in Nat /\ From(h) >= 1
  BY <1>1 DEF From
<1>3. n = CHOOSE m \in free : \A k \in free : m <= k
  BY DEF trace_findfree
<1>4. free # {} /\ free \subseteq Nat
  BY <1>1, <1>2 DEF trace_findfree
<1>5. PICK m \in free : \A j \in free : ~ (j < m)
  <2>. HIDE DEF free
  <2>. QED
    BY <1>4, SmallestOf
<1>6. \A k \in free : m <= k
  BY <1>4, <1>5
<1>7. n \in free /\ \A k \in free : n <= k
  <2>. HIDE DEF free
  <2>. QED
    BY <1>3, <1>5, <1>6
<1>8. ASSUME NEW k \in 1..n - 1 PROVE h.trace[k] # NULL
  <2>1. n \in Nat /\ n <= MAXTRACE /\ k \in Nat /\ k < n /\ k >= 1
    BY <1>1, <1>2, <1>7
  <2>2. CASE k < From(h)
    <3>1. k \in 1..h.freetrace - 1
      BY <2>1, <2>2, <1>1 DEF From
    <3>. QED
      BY <3>1 DEF Counted
  <2>3. CASE k >= From(h)
    <3>1. k \in From(h)..MAXTRACE /\ ~ (n <= k)
      BY <2>1, <2>3, <1>1, <1>2
    <3>. QED
      BY <3>1, <1>7
  <2>. QED
    BY <2>1, <2>2, <2>3, <1>2
<1>9. n \in Numbers
  BY <1>1, <1>2, <1>7 DEF Numbers
<1>. QED
  BY <1>7, <1>8, <1>9

\* A recording takes number n.
Begun(h, n) == [h EXCEPT !.trace[n] = CUR, !.curno = n, !.freetrace = n + 1]

\* A heap is sound when a recording has taken its number.
LEMMA BegunSound ==
  ASSUME NEW h, NEW V, NEW K, NEW mk, NEW cs, NEW bl \in SUBSET Protos,
         Sound(h, V, K, mk, cs, bl), h.curno = 0,
         NEW n, n = trace_findfree(h), n # 0, NEW g, g = Begun(h, n)
  PROVE  /\ Sound(g, V, K, mk, cs, bl)
         /\ g.obj = h.obj /\ g.curno = n /\ n # 0 /\ g.bc = h.bc
         /\ \A m \in Numbers : h.trace[m] \in Ids => g.trace[m] = h.trace[m]
<1>1. /\ h \in Heaps /\ Barring(h) /\ Counted(h) /\ Registered(h)
  BY DEF Sound, HeapInv
<1>2. n \in Numbers /\ h.trace[n] = NULL /\ \A m \in 1..n - 1 : h.trace[m] # NULL
  BY <1>1, FindFree
<1>3. n \in Nat /\ n \in 0..MAXTRACE /\ n + 1 \in 0..MAXTRACE + 1
  BY <1>2, Constants
<1>. DEFINE r == [h.trace EXCEPT ![n] = CUR]
<1>4. /\ r \in [Numbers -> Ids \cup {NULL, CUR}]
      /\ \A m \in Numbers : r[m] = IF m = n THEN CUR ELSE h.trace[m]
  BY <1>1, <1>2, HeapFields
<1>5. g = [h EXCEPT !.trace = r, !.curno = n, !.freetrace = n + 1]
  BY <1>1 DEF Begun, Heaps
<1>. HIDE DEF r
<1>6. /\ g.obj = h.obj /\ g.trace = r /\ g.chain = h.chain
      /\ g.curno = n /\ g.freetrace = n + 1 /\ g.bc = h.bc /\ g.iloop = h.iloop
  BY <1>1, <1>5 DEF Heaps
<1>7. g \in Heaps
  BY <1>1, <1>3, <1>4, <1>5 DEF Heaps
<1>8. Alike(h, g)
  BY <1>2, <1>4, <1>6, Constants DEF Alike
<1>9. Barring(g)
  BY <1>1, <1>6 DEF Barring
<1>10. \A m \in Numbers : g.trace[m] = CUR => g.curno = m
  <2>1. \A m \in Numbers : h.trace[m] # CUR
    BY <1>1, Constants DEF Registered
  <2>. QED
    BY <2>1, <1>4, <1>6
<1>11. Counted(g)
  <2>1. ASSUME NEW m \in 1..n PROVE r[m] # NULL
    <3>1. m \in Numbers /\ (m = n \/ m \in 1..n - 1)
      BY <1>2, <1>3, Constants
    <3>. QED
      BY <3>1, <1>2, <1>4, Constants
  <2>2. g.freetrace - 1 = n
    BY <1>3, <1>6
  <2>. QED
    BY <2>1, <2>2, <1>2, <1>4, <1>6 DEF Counted
<1>. QED
  BY <1>2, <1>4, <1>6, <1>7, <1>8, <1>9, <1>10, <1>11, AlikeSound, Constants
--------------------------------------------------------------------------------
(* A heap with a new trace. *)

\* In g there is one more trace, t, with the number c; it is the first of a chain,
\* or leaves the chains alone; links and side traces may lead to it.
Joins(h, g, t, c, p) ==
  LET s == g.obj[t].start IN
  /\ g.chain[p] = c /\ g.obj[t].root = 0 /\ s \in Sites /\ ProtoOf[s] = p
  /\ g.obj[t].nextroot = h.chain[p] /\ h.bc[s] \notin Numbers /\ g.bc[s] = c
  /\ \A q \in Sites : ProtoOf[q] = p /\ q # s => g.bc[q] = h.bc[q]
Untouched(h, g, p) ==
  g.chain[p] = h.chain[p] /\ \A s \in Sites : ProtoOf[s] = p => g.bc[s] = h.bc[s]
Grown(h, g, t, c) ==
  /\ c \in Numbers /\ t \in Ids /\ h.obj[t] = NULL /\ h.trace[c] \notin Ids
  /\ \A n \in Numbers : g.trace[n] = IF n = c THEN t ELSE h.trace[n]
  /\ g.obj[t] # NULL /\ g.obj[t].traceno = c
  /\ \A u \in Ids : u # t => (g.obj[u] = NULL <=> h.obj[u] = NULL)
  /\ \A u \in Ids : u # t /\ h.obj[u] # NULL =>
       /\ g.obj[u].traceno = h.obj[u].traceno /\ g.obj[u].start = h.obj[u].start
       /\ g.obj[u].root = h.obj[u].root /\ g.obj[u].nextroot = h.obj[u].nextroot
       /\ \/ g.obj[u].link = h.obj[u].link
          \/ h.obj[u].link = 0 /\ h.obj[u].traceno # 0 /\ g.obj[u].link = c
       /\ \/ g.obj[u].nextside = h.obj[u].nextside
          \/ g.obj[u].nextside = c /\ g.obj[t].nextside = h.obj[u].nextside
  /\ \A p \in Protos : Untouched(h, g, p) \/ Joins(h, g, t, c, p)

\* The chain of p in h and in g.
Extended(h, g, p, c) ==
  \E L, M : /\ IsChain(h, p, L) /\ IsChain(g, p, M) /\ Led(g, p, M)
            /\ c \notin Range(L) /\ Range(L) = Range(M) \ {c}

\* A chain of a heap that grew has the same traces, but for the new one.
LEMMA GrownChain ==
  ASSUME NEW h, HeapInv(h), NEW g, NEW t, NEW c, Grown(h, g, t, c), NEW p \in Protos
  PROVE  Extended(h, g, p, c)
<1>1. h \in Heaps /\ Registered(h) /\ Rooted(h)
  BY DEF HeapInv
<1>2. PICK L : IsChain(h, p, L) /\ Led(h, p, L)
  BY DEF HeapInv, Chained
<1>3. \A n \in Range(L) :
        /\ h.trace[n] \in Ids /\ h.obj[h.trace[n]] # NULL /\ n \in Numbers
        /\ h.obj[h.trace[n]].root = 0 /\ h.obj[h.trace[n]].start \in Sites
        /\ ProtoOf[h.obj[h.trace[n]].start] = p
  BY <1>1, <1>2, ChainTrace
<1>4. \A n \in Range(L) : n # c /\ h.trace[n] # t
  BY <1>3 DEF Grown
<1>5. \A n \in Range(L) :
        /\ g.trace[n] = h.trace[n]
        /\ g.obj[g.trace[n]].root = h.obj[h.trace[n]].root
        /\ g.obj[g.trace[n]].start = h.obj[h.trace[n]].start
        /\ g.obj[g.trace[n]].nextroot = h.obj[h.trace[n]].nextroot
  <2>. TAKE n \in Range(L)
  <2>1. g.trace[n] = h.trace[n]
    BY <1>3, <1>4 DEF Grown
  <2>. QED
    BY <2>1, <1>3, <1>4 DEF Grown
<1>6. \A i \in DOMAIN L : L[i] \in Range(L)
  BY DEF Range
<1>7. CASE Untouched(h, g, p)
  <2>1. IsChain(g, p, L)
    <3>1. g.chain[p] = h.chain[p]
      BY <1>7 DEF Untouched
    <3>. QED
      BY <3>1, <1>2, <1>3, <1>5, <1>6 DEF IsChain
  <2>2. Led(g, p, L)
    BY <1>2, <1>5, <1>7 DEF Led, Untouched
  <2>. QED
    BY <1>2, <1>4, <2>1, <2>2 DEF Extended
<1>8. CASE Joins(h, g, t, c, p)
  <2>. DEFINE M == <<c>> \o L
              s == g.obj[t].start
  <2>0. c \in Numbers /\ t \in Ids /\ g.trace[c] = t
    BY DEF Grown
  <2>1. /\ L \in Seq(Numbers) /\ IsInjective(L) /\ Len(L) \in Nat /\ DOMAIN L = 1..Len(L)
        /\ h.chain[p] = IF L = <<>> THEN 0 ELSE L[1]
    BY <1>2 DEF IsChain
  <2>2. M \in Seq(Numbers) /\ IsInjective(M) /\ Range(M) = Range(L) \cup {c}
    BY <2>0, <2>1, <1>4, PushedFront
  <2>3. /\ Len(M) = Len(L) + 1 /\ DOMAIN M = 1..Len(M)
        /\ \A i \in 1..Len(M) : M[i] = IF i = 1 THEN c ELSE L[i - 1]
    BY <2>0, <2>1
  <2>. HIDE DEF M
  <2>4. /\ g.chain[p] = c /\ g.obj[t].root = 0 /\ s \in Sites /\ ProtoOf[s] = p
        /\ g.obj[t].nextroot = h.chain[p] /\ h.bc[s] \notin Numbers /\ g.bc[s] = c
        /\ \A q \in Sites : ProtoOf[q] = p /\ q # s => g.bc[q] = h.bc[q]
    BY <1>8 DEF Joins
  <2>5. M # <<>> /\ M[1] = c
    BY <2>1, <2>2, <2>3, EmptySeq
  <2>6. ASSUME NEW i \in DOMAIN M
        PROVE  /\ g.trace[M[i]] \in Ids
               /\ g.obj[g.trace[M[i]]].root = 0
               /\ ProtoOf[g.obj[g.trace[M[i]]].start] = p
               /\ g.obj[g.trace[M[i]]].nextroot = IF i = Len(M) THEN 0 ELSE M[i + 1]
    <3>1. CASE i = 1
      <4>1. M[i] = c /\ g.trace[M[i]] = t
        BY <3>1, <2>0, <2>5
      <4>2. h.chain[p] = IF i = Len(M) THEN 0 ELSE M[i + 1]
        <5>1. CASE L = <<>>
          <6>1. Len(L) = 0
            BY <5>1
          <6>. QED
            BY <6>1, <5>1, <3>1, <2>1, <2>3
        <5>2. CASE L # <<>>
          <6>1. Len(L) # 0
            BY <5>2, <2>1, EmptySeq
          <6>2. i # Len(M) /\ i + 1 \in 1..Len(M) /\ i + 1 # 1 /\ (i + 1) - 1 = 1
            BY <6>1, <3>1, <2>1, <2>3
          <6>3. M[i + 1] = L[1]
            BY <6>2, <2>3
          <6>. QED
            BY <6>2, <6>3, <5>2, <2>1
        <5>. QED
          BY <5>1, <5>2
      <4>. QED
        BY <4>1, <4>2, <2>0, <2>4
    <3>2. CASE i # 1
      <4>. DEFINE j == i - 1
      <4>1. j \in 1..Len(L) /\ M[i] = L[j] /\ (i = Len(M) <=> j = Len(L)) /\ i \in Int
        BY <3>2, <2>1, <2>3
      <4>2. i # Len(M) => M[i + 1] = L[j + 1]
        <5>1. i # Len(M) => i + 1 \in 1..Len(M) /\ i + 1 # 1 /\ (i + 1) - 1 = j + 1
          BY <4>1, <2>1, <2>3
        <5>. QED
          BY <5>1, <2>3
      <4>. HIDE DEF j
      <4>3. L[j] \in Range(L) /\ j \in DOMAIN L
        BY <4>1, <2>1, <1>6
      <4>4. h.obj[h.trace[L[j]]].nextroot = IF j = Len(L) THEN 0 ELSE L[j + 1]
        BY <4>3, <1>2 DEF IsChain
      <4>. QED
        BY <4>1, <4>2, <4>3, <4>4, <1>3, <1>5
    <3>. QED
      BY <3>1, <3>2
  <2>7. IsChain(g, p, M)
    BY <2>2, <2>4, <2>5, <2>6 DEF IsChain
  <2>8. ASSUME NEW q \in Sites, ProtoOf[q] = p
        PROVE  {g.bc[q]} \cap Numbers = {n \in Range(M) : g.obj[g.trace[n]].start = q}
    <3>1. {h.bc[q]} \cap Numbers = {n \in Range(L) : h.obj[h.trace[n]].start = q}
      BY <1>2, <2>8 DEF Led
    <3>2. {n \in Range(L) : h.obj[h.trace[n]].start = q}
            = {n \in Range(L) : g.obj[g.trace[n]].start = q}
      BY <1>5
    <3>3. CASE q = s
      <4>1. {n \in Range(L) : g.obj[g.trace[n]].start = q} = {}
        BY <3>1, <3>2, <3>3, <2>4
      <4>2. g.obj[g.trace[c]].start = q /\ {g.bc[q]} \cap Numbers = {c}
        BY <3>3, <2>0, <2>4
      <4>. QED
        BY <4>1, <4>2, <2>2
    <3>4. CASE q # s
      <4>1. g.bc[q] = h.bc[q] /\ g.obj[g.trace[c]].start # q
        BY <3>4, <2>0, <2>4, <2>8
      <4>. QED
        BY <4>1, <3>1, <3>2, <2>2
    <3>. QED
      BY <3>3, <3>4
  <2>9. Led(g, p, M)
    BY <2>8 DEF Led
  <2>. QED
    BY <1>2, <1>4, <2>2, <2>7, <2>9 DEF Extended
<1>9. Untouched(h, g, p) \/ Joins(h, g, t, c, p)
  BY DEF Grown
<1>. QED
  BY <1>7, <1>8, <1>9

\* The new trace has its number, its chain and its instruction.
LEMMA GrownInv ==
  ASSUME NEW h, HeapInv(h), Counted(h), NEW g \in Heaps, NEW t, NEW c, Grown(h, g, t, c),
         g.obj[t].root = 0 => g.obj[t].start \in Sites,
         h.curno = c, g.curno = 0, g.freetrace = h.freetrace, Barring(g)
  PROVE  HeapInv(g) /\ Counted(g)
<1>1. /\ h \in Heaps /\ Registered(h) /\ Rooted(h)
      /\ \A n \in Numbers : g.trace[n] = IF n = c THEN t ELSE h.trace[n]
      /\ t \in Ids /\ c \in Numbers /\ h.obj[t] = NULL
  BY DEF HeapInv, Grown
<1>2. \A u \in Ids : u # t => (g.obj[u] = NULL <=> h.obj[u] = NULL)
  BY DEF Grown
<1>3. \A u \in Ids : u # t /\ h.obj[u] # NULL =>
         /\ g.obj[u].traceno = h.obj[u].traceno /\ g.obj[u].start = h.obj[u].start
         /\ g.obj[u].root = h.obj[u].root
         /\ g.obj[u].traceno = 0 => g.obj[u].link = h.obj[u].link
  BY DEF Grown
<1>4. g.obj[t] # NULL /\ g.obj[t].traceno = c /\ c # 0 /\ h.trace[c] \notin Ids
  BY <1>1, Constants DEF Grown
<1>5. Registered(g)
  <2>1. ASSUME NEW n \in Numbers, NEW u \in Ids
        PROVE  g.trace[n] = u <=> g.obj[u] # NULL /\ g.obj[u].traceno = n
    <3>1. h.trace[n] = u <=> h.obj[u] # NULL /\ h.obj[u].traceno = n
      BY <1>1 DEF Registered
    <3>2. CASE u = t
      BY <3>1, <3>2, <1>1, <1>4
    <3>3. CASE u # t /\ n = c
      BY <3>1, <3>3, <1>1, <1>2, <1>3, <1>4
    <3>4. CASE u # t /\ n # c
      BY <3>1, <3>4, <1>1, <1>2, <1>3
    <3>. QED
      BY <3>2, <3>3, <3>4
  <2>2. \A n \in Numbers : g.trace[n] # CUR
    BY <1>1, Constants DEF Registered
  <2>. QED
    BY <2>1, <2>2 DEF Registered
<1>6. Rooted(g)
  <2>1. ASSUME NEW u \in Ids, g.obj[u] # NULL
        PROVE  /\ g.obj[u].root = 0 => g.obj[u].start \in Sites
               /\ g.obj[u].traceno = 0 => g.obj[u].link = 0
    <3>1. CASE u = t
      BY <3>1, <1>4
    <3>2. CASE u # t
      BY <3>2, <2>1, <1>1, <1>2, <1>3 DEF Rooted
    <3>. QED
      BY <3>1, <3>2
  <2>. QED
    BY <2>1 DEF Rooted
<1>7. Chained(g)
  BY GrownChain DEF Extended, Chained
<1>8. Counted(g)
  <2>1. ASSUME NEW n \in 1..g.freetrace - 1 PROVE g.trace[n] # NULL
    <3>1. h.freetrace \in 0..MAXTRACE + 1
      BY <1>1, HeapFields
    <3>2. n \in 1..h.freetrace - 1 /\ n \in Numbers
      BY <3>1, Constants
    <3>. QED
      BY <3>2, <1>1, Constants DEF Counted
  <2>. QED
    BY <2>1 DEF Counted
<1>. QED
  BY <1>5, <1>6, <1>7, <1>8 DEF HeapInv

\* What is off the chains stays off them when a trace is added.
LEMMA GrownOff ==
  ASSUME NEW h, HeapInv(h), NEW g, NEW t, NEW c, Grown(h, g, t, c),
         NEW u \in Ids, u # t
  PROVE  Off(g, u) <=> Off(h, u)
<1>1. \A p \in Protos : OnChain(h, p) = OnChain(g, p) \ {c}
  <2>. TAKE p \in Protos
  <2>1. PICK L, M : IsChain(h, p, L) /\ IsChain(g, p, M) /\ Range(L) = Range(M) \ {c}
    BY GrownChain DEF Extended
  <2>. QED
    BY <2>1, ChainIs
<1>2. \A s \in Sites : ProtoOf[s] \in Protos
  BY Constants
<1>3. /\ g.obj[u] = NULL <=> h.obj[u] = NULL
      /\ h.obj[u] # NULL => /\ g.obj[u].traceno = h.obj[u].traceno
                            /\ g.obj[u].start = h.obj[u].start
  BY DEF Grown
<1>4. h.obj[u] # NULL => h.obj[u].traceno # c
  <2>1. Registered(h) /\ h.trace[c] \notin Ids /\ c \in Numbers
    BY DEF HeapInv, Grown
  <2>. QED
    BY <2>1 DEF Registered
<1>. QED
  BY <1>1, <1>2, <1>3, <1>4 DEF Off, On, Has

\* The new trace is gray while the collector is marking.
LEMMA GrownMarks ==
  ASSUME NEW h, HeapInv(h), NEW g, NEW t, NEW c, Grown(h, g, t, c),
         NEW cs \in [Ids -> {"white", "gray", "black"}], NEW bl \in SUBSET Protos,
         Marks(h, cs, bl)
  PROVE  Marks(g, [cs EXCEPT ![t] = "gray"], bl)
<1>. DEFINE k == [cs EXCEPT ![t] = "gray"]
<1>1. /\ h \in Heaps /\ t \in Ids /\ h.obj[t] = NULL /\ c \in Numbers
      /\ h.trace[c] \notin Ids
      /\ \A n \in Numbers : g.trace[n] = IF n = c THEN t ELSE h.trace[n]
  BY DEF HeapInv, Grown
<1>2. \A u \in Ids : k[u] = IF u = t THEN "gray" ELSE cs[u]
  BY <1>1
<1>. HIDE DEF k
<1>3. \A n \in 0..MAXTRACE, u \in Ids : u # t => (Names(g, n, u) <=> Names(h, n, u))
  BY <1>1, Constants DEF Names
<1>4. \A u \in Ids : u # t => (Off(g, u) <=> Off(h, u))
  BY GrownOff
<1>5. \A u \in Ids : u # t => (Has(g, u) <=> Has(h, u))
  BY DEF Grown, Has
<1>6. \A u \in Ids : u # t /\ h.obj[u] # NULL =>
         /\ g.obj[u].traceno = h.obj[u].traceno
         /\ g.obj[u].nextroot = h.obj[u].nextroot /\ h.obj[u].nextroot \in 0..MAXTRACE
         /\ g.obj[u].link \in {h.obj[u].link, c} /\ h.obj[u].link \in 0..MAXTRACE
         /\ g.obj[u].nextside \in {h.obj[u].nextside, c} /\ h.obj[u].nextside \in 0..MAXTRACE
  <2>1. \A u \in Ids : h.obj[u] # NULL => h.obj[u] \in GCtrace
    BY <1>1, HeapFields
  <2>. QED
    BY <2>1, TraceFields DEF Grown
<1>7. \A u \in Ids : Names(g, c, u) => u = t
  BY <1>1 DEF Names
<1>8. ASSUME NEW x \in Ids, k[x] = "black", Has(g, x),
             NEW u \in Ids, Names(g, g.obj[x].link, u) \/ Names(g, g.obj[x].nextside, u)
      PROVE  k[u] # "white"
  <2>1. CASE u = t
    BY <2>1, <1>2
  <2>2. CASE u # t
    <3>1. x # t /\ cs[x] = "black" /\ Has(h, x) /\ h.obj[x] # NULL
      BY <1>2, <1>5, <1>8 DEF Has
    <3>2. Names(h, h.obj[x].link, u) \/ Names(h, h.obj[x].nextside, u)
      BY <3>1, <2>2, <1>3, <1>6, <1>7, <1>8
    <3>. QED
      BY <3>1, <3>2, <2>2, <1>2 DEF Marks
  <2>. QED
    BY <2>1, <2>2
<1>9. ASSUME NEW ts \in SUBSET Ids, Shadow(g, k, ts)
      PROVE  /\ \A p \in bl, u \in Ids : Names(g, g.chain[p], u) => Found(k, ts, u)
             /\ \A x \in Ids : k[x] = "black" /\ Has(g, x) =>
                  \A u \in Ids : Names(g, g.obj[x].nextroot, u) => Found(k, ts, u)
  <2>1. Shadow(h, cs, ts)
    <3>1. ASSUME NEW x \in Ids, Off(h, x)
          PROVE  /\ cs[x] = "gray" => x \in ts
                 /\ x \in ts /\ cs[x] # "black" /\ h.obj[x].traceno # 0 =>
                      \A u \in Ids : Names(h, h.obj[x].nextroot, u) => u \in ts
      <4>1. h.obj[x] # NULL /\ x # t
        BY <3>1, <1>1 DEF Off
      <4>2. Off(g, x) /\ k[x] = cs[x]
        BY <3>1, <4>1, <1>2, <1>4
      <4>3. \A u \in Ids : Names(h, h.obj[x].nextroot, u) => Names(g, g.obj[x].nextroot, u)
        <5>1. h.obj[x].nextroot \in 0..MAXTRACE /\ g.obj[x].nextroot = h.obj[x].nextroot
          BY <4>1, <1>6
        <5>2. \A u \in Ids : Names(h, h.obj[x].nextroot, u) => u # t
          <6>1. Registered(h)
            BY DEF HeapInv
          <6>. QED
            BY <6>1, <5>1, <1>1, Constants DEF Names, Registered
        <5>. QED
          BY <5>1, <5>2, <1>3
      <4>. QED
        BY <4>1, <4>2, <4>3, <1>6, <1>9 DEF Shadow
    <3>. QED
      BY <3>1 DEF Shadow
  <2>2. \A u \in Ids : Found(cs, ts, u) => Found(k, ts, u)
    BY <1>2 DEF Found
  <2>3. Found(k, ts, t)
    BY <1>1, <1>2 DEF Found
  <2>4. ASSUME NEW p \in bl, NEW u \in Ids, Names(g, g.chain[p], u)
        PROVE  Found(k, ts, u)
    <3>1. CASE u = t
      BY <3>1, <2>3
    <3>2. CASE u # t
      <4>1. g.chain[p] \in {h.chain[p], c} /\ h.chain[p] \in 0..MAXTRACE
        BY <1>1, HeapFields DEF Grown, Untouched, Joins
      <4>2. Names(h, h.chain[p], u)
        BY <4>1, <3>2, <2>4, <1>3, <1>7
      <4>. QED
        BY <4>2, <2>1, <2>2 DEF Marks
    <3>. QED
      BY <3>1, <3>2
  <2>5. ASSUME NEW x \in Ids, k[x] = "black", Has(g, x),
               NEW u \in Ids, Names(g, g.obj[x].nextroot, u)
        PROVE  Found(k, ts, u)
    <3>1. CASE u = t
      BY <3>1, <2>3
    <3>2. CASE u # t
      <4>1. x # t /\ cs[x] = "black" /\ Has(h, x) /\ h.obj[x] # NULL
        BY <1>2, <1>5, <2>5 DEF Has
      <4>2. Names(h, h.obj[x].nextroot, u)
        BY <4>1, <3>2, <1>3, <1>6, <2>5
      <4>. QED
        BY <4>1, <4>2, <2>1, <2>2 DEF Marks
    <3>. QED
      BY <3>1, <3>2
  <2>. QED
    BY <2>4, <2>5
<1>. QED
  BY <1>8, <1>9 DEF Marks, k
--------------------------------------------------------------------------------
(* What is kept with a new trace. *)

\* What the new trace names is kept, and it is kept if something kept names it.
Rests(g, t, c, V, K) ==
  t \in V =>
    /\ \A n \in {g.obj[t].link, g.obj[t].nextroot, g.obj[t].nextside} :
         n # 0 => g.trace[n] \in V
    /\ g.obj[t].link # 0 =>
         g.obj[t].link = c \/ g.obj[g.trace[g.obj[t].link]].root = 0
    /\ g.obj[t].root = 0 => t \in K

\* What is kept names what is kept when a trace is added.
LEMMA GrownKept ==
  ASSUME NEW h, HeapInv(h), NEW V, NEW K, Kept(h, V, K),
         NEW g, NEW t, NEW c, Grown(h, g, t, c),
         NEW V2, NEW K2, V \subseteq V2, V2 \subseteq V \cup {t},
         K \subseteq K2, K2 \subseteq K \cup {t}, K2 \subseteq V2,
         Rests(g, t, c, V2, K2),
         t \in V2 \/ /\ \A u \in V : /\ g.obj[u].link = h.obj[u].link
                                     /\ g.obj[u].nextside = h.obj[u].nextside
                     /\ \A p \in Protos : Untouched(h, g, p),
         \A u \in V : g.obj[u].link # h.obj[u].link => g.obj[t].root = 0
  PROVE  Kept(g, V2, K2)
<1>1. /\ h \in Heaps /\ t \in Ids /\ h.obj[t] = NULL /\ c \in Numbers
      /\ h.trace[c] \notin Ids /\ g.obj[t] # NULL /\ g.obj[t].traceno = c
      /\ \A n \in Numbers : g.trace[n] = IF n = c THEN t ELSE h.trace[n]
  BY DEF HeapInv, Grown
<1>2. V \subseteq Ids /\ \A u \in V : u # t /\ h.obj[u] # NULL
  BY <1>1 DEF Kept
<1>3. \A n \in 0..MAXTRACE : n # 0 /\ h.trace[n] \in V => g.trace[n] = h.trace[n] /\ g.trace[n] \in V2
  BY <1>1, <1>2, Constants
<1>4. g.trace[c] = t
  BY <1>1
<1>5. \A u \in V :
         /\ h.obj[u].nextroot \in 0..MAXTRACE /\ h.obj[u].link \in 0..MAXTRACE
         /\ h.obj[u].nextside \in 0..MAXTRACE
  <2>1. \A u \in V : h.obj[u] \in GCtrace
    BY <1>1, <1>2, HeapFields
  <2>. QED
    BY <2>1, TraceFields
<1>6. \A u \in V :
         /\ g.obj[u] # NULL
         /\ g.obj[u].traceno = h.obj[u].traceno /\ g.obj[u].root = h.obj[u].root
         /\ g.obj[u].nextroot = h.obj[u].nextroot
         /\ g.obj[u].link = h.obj[u].link
              \/ (g.obj[u].link = c /\ t \in V2 /\ g.obj[t].root = 0)
         /\ g.obj[u].nextside = h.obj[u].nextside
              \/ (g.obj[u].nextside = c /\ t \in V2)
  <2>. TAKE u \in V
  <2>1. u \in Ids /\ u # t /\ h.obj[u] # NULL
    BY <1>2
  <2>2. /\ g.obj[u] # NULL
        /\ g.obj[u].traceno = h.obj[u].traceno /\ g.obj[u].root = h.obj[u].root
        /\ g.obj[u].nextroot = h.obj[u].nextroot
        /\ g.obj[u].link = h.obj[u].link \/ g.obj[u].link = c
        /\ g.obj[u].nextside = h.obj[u].nextside \/ g.obj[u].nextside = c
    BY <2>1 DEF Grown
  <2>. QED
    BY <2>2
<1>7. ASSUME NEW u \in V, g.obj[u].traceno # 0
      PROVE  /\ \A n \in {g.obj[u].link, g.obj[u].nextroot, g.obj[u].nextside} :
                  n # 0 => g.trace[n] \in V2
             /\ g.obj[u].link # 0 =>
                  g.obj[u].link = g.obj[u].traceno \/ g.obj[g.trace[g.obj[u].link]].root = 0
             /\ g.obj[u].root = 0 => u \in K2
  <2>1. /\ h.obj[u].traceno # 0
        /\ h.obj[u].link # 0 => h.trace[h.obj[u].link] \in V
        /\ h.obj[u].nextroot # 0 => h.trace[h.obj[u].nextroot] \in V
        /\ h.obj[u].nextside # 0 => h.trace[h.obj[u].nextside] \in V
        /\ h.obj[u].link # 0 => \/ h.obj[u].link = h.obj[u].traceno
                                \/ h.obj[h.trace[h.obj[u].link]].root = 0
        /\ h.obj[u].root = 0 => u \in K
    BY <1>6, <1>7 DEF Kept
  <2>2. g.obj[u].link # 0 => g.trace[g.obj[u].link] \in V2
    BY <2>1, <1>3, <1>4, <1>5, <1>6
  <2>3. g.obj[u].nextroot # 0 => g.trace[g.obj[u].nextroot] \in V2
    BY <2>1, <1>3, <1>5, <1>6
  <2>4. g.obj[u].nextside # 0 => g.trace[g.obj[u].nextside] \in V2
    BY <2>1, <1>3, <1>4, <1>5, <1>6
  <2>5. ASSUME g.obj[u].link # 0
        PROVE  g.obj[u].link = g.obj[u].traceno \/ g.obj[g.trace[g.obj[u].link]].root = 0
    <3>1. CASE g.obj[u].link = h.obj[u].link
      <4>1. g.trace[g.obj[u].link] = h.trace[h.obj[u].link] /\ h.trace[h.obj[u].link] \in V
        BY <2>1, <2>5, <3>1, <1>3, <1>5
      <4>. QED
        BY <4>1, <2>1, <2>5, <3>1, <1>6
    <3>2. CASE g.obj[u].link = c /\ g.obj[t].root = 0
      BY <3>2, <1>4
    <3>. QED
      BY <3>1, <3>2, <1>6
  <2>6. g.obj[u].root = 0 => u \in K2
    BY <2>1, <1>6
  <2>. QED
    BY <2>2, <2>3, <2>4, <2>5, <2>6
<1>8. \A p \in Protos : g.chain[p] # 0 => g.trace[g.chain[p]] \in V2
  <2>. TAKE p \in Protos
  <2>1. h.chain[p] \in 0..MAXTRACE /\ (h.chain[p] # 0 => h.trace[h.chain[p]] \in V)
    BY <1>1, HeapFields DEF Kept
  <2>2. g.chain[p] = h.chain[p] \/ (g.chain[p] = c /\ t \in V2)
    <3>1. Untouched(h, g, p) \/ Joins(h, g, t, c, p)
      BY DEF Grown
    <3>2. CASE Untouched(h, g, p)
      BY <3>2 DEF Untouched
    <3>3. CASE ~ Untouched(h, g, p)
      <4>1. t \in V2
        BY <3>3
      <4>. QED
        BY <4>1, <3>1, <3>3 DEF Joins
    <3>. QED
      BY <3>2, <3>3
  <2>. QED
    BY <2>1, <2>2, <1>3, <1>4
<1>9. \A u \in V2 : g.obj[u] # NULL
  BY <1>1, <1>6
<1>10. \A u \in V2 : g.obj[u].traceno # 0 =>
         /\ \A n \in {g.obj[u].link, g.obj[u].nextroot, g.obj[u].nextside} :
              n # 0 => g.trace[n] \in V2
         /\ g.obj[u].link # 0 =>
              g.obj[u].link = g.obj[u].traceno \/ g.obj[g.trace[g.obj[u].link]].root = 0
         /\ g.obj[u].root = 0 => u \in K2
  <2>1. \A u \in V2 : u \in V \/ u = t
    OBVIOUS
  <2>2. t \in V2 => /\ \A n \in {g.obj[t].link, g.obj[t].nextroot, g.obj[t].nextside} :
                         n # 0 => g.trace[n] \in V2
                    /\ g.obj[t].link # 0 =>
                         g.obj[t].link = c \/ g.obj[g.trace[g.obj[t].link]].root = 0
                    /\ g.obj[t].root = 0 => t \in K2
    BY DEF Rests
  <2>. QED
    BY <2>1, <2>2, <1>1, <1>7, SMTT(30)
<1>11. V2 \subseteq Ids
  BY <1>1, <1>2
<1>. QED
  BY <1>8, <1>9, <1>10, <1>11 DEF Kept

\* The new trace is in a tree, if at all.
Grows(g, t, K) ==
  t \in K =>
    /\ Home(g, t) \in K /\ g.obj[Home(g, t)].root = 0
    /\ Beside(g, Home(g, t), t)
    /\ \A u \in g.obj[t].jumps :
         u \in K /\ (Home(g, u) = Home(g, t) \/ Names(g, g.obj[t].link, u))

\* A trace has the same root when a trace is added.
LEMMA GrownHome ==
  ASSUME NEW h, HeapInv(h), NEW g, NEW t, NEW c, Grown(h, g, t, c),
         NEW x \in Ids, h.obj[x] # NULL, Home(h, x) \in Ids
  PROVE  Home(g, x) = Home(h, x)
<1>1. /\ h \in Heaps /\ h.obj[t] = NULL /\ h.trace[c] \notin Ids
      /\ \A n \in Numbers : g.trace[n] = IF n = c THEN t ELSE h.trace[n]
      /\ g.obj[x].root = h.obj[x].root
  BY DEF HeapInv, Grown
<1>2. h.obj[x].root \in 0..MAXTRACE
  BY <1>1, HeapFields, TraceFields
<1>. QED
  BY <1>1, <1>2, Constants DEF Home

\* A side trace is still on the list of its root when a trace is added.
LEMMA GrownBeside ==
  ASSUME NEW h, HeapInv(h), NEW g, NEW t, NEW c, Grown(h, g, t, c),
         NEW r \in Ids, NEW x \in Ids, Beside(h, r, x)
  PROVE  Beside(g, r, x)
<1>1. /\ h \in Heaps /\ h.obj[t] = NULL /\ h.trace[c] \notin Ids /\ t \in Ids
      /\ c \in Numbers /\ g.obj[t] # NULL /\ g.obj[t].traceno = c /\ Registered(h)
      /\ \A n \in Numbers : g.trace[n] = IF n = c THEN t ELSE h.trace[n]
  BY DEF HeapInv, Grown
<1>2. SUFFICES ASSUME NEW ts \in SUBSET Ids, r \in ts,
                      \A u \in ts, v \in Ids :
                        Has(g, u) /\ Names(g, g.obj[u].nextside, v) => v \in ts
               PROVE  x \in ts
  BY DEF Beside
<1>3. ASSUME NEW u \in ts, NEW v \in Ids, Has(h, u), Names(h, h.obj[u].nextside, v)
      PROVE  v \in ts
  <2>1. u # t /\ h.obj[u] # NULL /\ Has(g, u)
    BY <1>1, <1>3 DEF Has, Grown
  <2>2. h.obj[u].nextside \in Numbers
    <3>1. h.obj[u].nextside \in 0..MAXTRACE
      BY <2>1, <1>1, HeapFields, TraceFields
    <3>. QED
      BY <3>1, <1>3, Constants DEF Names
  <2>3. Names(g, h.obj[u].nextside, v)
    BY <2>2, <1>1, <1>3 DEF Names
  <2>4. CASE g.obj[u].nextside = h.obj[u].nextside
    BY <2>1, <2>3, <2>4, <1>2
  <2>5. CASE g.obj[u].nextside = c /\ g.obj[t].nextside = h.obj[u].nextside
    <3>1. Names(g, g.obj[u].nextside, t) /\ Has(g, t)
      BY <2>5, <1>1, Constants DEF Names, Has
    <3>2. t \in ts
      BY <3>1, <2>1, <1>1, <1>2
    <3>. QED
      BY <3>1, <3>2, <2>3, <2>5, <1>2
  <2>. QED
    BY <2>1, <2>4, <2>5 DEF Grown
<1>. QED
  BY <1>2, <1>3 DEF Beside

\* Trees are trees when a trace is added.
LEMMA GrownTree ==
  ASSUME NEW h, HeapInv(h), NEW K \in SUBSET Ids, \A x \in K : h.obj[x] # NULL,
         InTree(h, K), NEW g, NEW t, NEW c, Grown(h, g, t, c),
         NEW K2, K \subseteq K2, K2 \subseteq K \cup {t}, Grows(g, t, K2),
         \A x \in K : \A y \in g.obj[x].jumps :
           y \in h.obj[x].jumps \/ (y = t /\ t \in K2 /\ Home(g, t) = Home(h, x))
  PROVE  InTree(g, K2)
<1>1. /\ h \in Heaps /\ h.obj[t] = NULL /\ h.trace[c] \notin Ids /\ t \in Ids
      /\ c \in Numbers /\ g.obj[t].traceno = c /\ c # 0
      /\ \A n \in Numbers : g.trace[n] = IF n = c THEN t ELSE h.trace[n]
  BY Constants DEF HeapInv, Grown
<1>2. \A x \in K : Home(h, x) \in K /\ Home(g, x) = Home(h, x)
  BY GrownHome DEF InTree
<1>3. ASSUME NEW x \in K
      PROVE  /\ g.obj[x].traceno # 0
             /\ Home(g, x) \in K2 /\ g.obj[Home(g, x)].root = 0
             /\ Beside(g, Home(g, x), x)
             /\ \A u \in g.obj[x].jumps :
                  u \in K2 /\ (Home(g, u) = Home(g, x) \/ Names(g, g.obj[x].link, u))
  <2>1. /\ h.obj[x].traceno # 0 /\ h.obj[Home(h, x)].root = 0
        /\ Beside(h, Home(h, x), x)
        /\ \A u \in h.obj[x].jumps :
             u \in K /\ (Home(h, u) = Home(h, x) \/ Names(h, h.obj[x].link, u))
    BY DEF InTree
  <2>2. x # t /\ h.obj[x] # NULL /\ Home(h, x) # t /\ h.obj[Home(h, x)] # NULL
    BY <1>1, <1>2
  <2>3. g.obj[x].traceno # 0 /\ g.obj[Home(h, x)].root = 0
    BY <2>1, <2>2, <1>2 DEF Grown
  <2>4. Beside(g, Home(g, x), x)
    BY <2>1, <1>2, GrownBeside
  <2>5. ASSUME NEW u \in g.obj[x].jumps
        PROVE  u \in K2 /\ (Home(g, u) = Home(g, x) \/ Names(g, g.obj[x].link, u))
    <3>1. CASE u = t /\ t \in K2 /\ Home(g, t) = Home(h, x)
      BY <3>1, <1>2
    <3>2. CASE u \in h.obj[x].jumps
      <4>1. u \in K /\ u \in K2
        BY <3>2, <2>1
      <4>2. CASE Home(h, u) = Home(h, x)
        BY <4>1, <4>2, <1>2
      <4>3. CASE Names(h, h.obj[x].link, u)
        <5>1. h.obj[x].link \in 0..MAXTRACE
          BY <2>2, <1>1, HeapFields, TraceFields
        <5>2. g.obj[x].link = h.obj[x].link
          BY <4>3, <2>2 DEF Grown, Names
        <5>3. Names(g, g.obj[x].link, u)
          BY <4>1, <4>3, <5>1, <5>2, <1>1, Constants DEF Names
        <5>. QED
          BY <4>1, <5>3
      <4>. QED
        BY <2>1, <3>2, <4>2, <4>3
    <3>. QED
      BY <3>1, <3>2
  <2>. QED
    BY <2>3, <2>4, <2>5, <1>2
<1>4. ASSUME t \in K2
      PROVE  /\ g.obj[t].traceno # 0
             /\ Home(g, t) \in K2 /\ g.obj[Home(g, t)].root = 0
             /\ Beside(g, Home(g, t), t)
             /\ \A u \in g.obj[t].jumps :
                  u \in K2 /\ (Home(g, u) = Home(g, t) \/ Names(g, g.obj[t].link, u))
  BY <1>1, <1>4 DEF Grows
<1>5. \A x \in K2 : x \in K \/ x = t
  OBVIOUS
<1>. QED
  BY <1>3, <1>4, <1>5 DEF InTree
--------------------------------------------------------------------------------
(* Finishing a root trace. *)

\* What a finished trace may be linked to.
Linked(h, K, lt, lnk) ==
  \/ lt \in {"RETURN", "STITCH"} /\ lnk = 0
  \/ lt = "LOOP" /\ lnk = h.curno
  \/ /\ lt = "ROOT" /\ lnk \in Numbers /\ h.trace[lnk] \in K
     /\ h.obj[h.trace[lnk]].root = 0

\* The trace as it was finished.
Finished(h, g, t, lnk, next, side, jumps) ==
  /\ g \in Heaps /\ g.bc = h.bc /\ g.chain = h.chain /\ g.iloop = h.iloop
  /\ g.freetrace = h.freetrace /\ g.curno = 0
  /\ \A n \in Numbers : g.trace[n] = IF n = h.curno THEN t ELSE h.trace[n]
  /\ \A u \in Ids : u # t => g.obj[u] = h.obj[u]
  /\ g.obj[t] # NULL /\ g.obj[t] \in GCtrace
  /\ g.obj[t].traceno = h.curno /\ g.obj[t].start = rec.start
  /\ g.obj[t].root = rec.root /\ g.obj[t].link = lnk
  /\ g.obj[t].nextroot = next /\ g.obj[t].nextside = side
  /\ g.obj[t].jumps = jumps

\* The fields of the heap with the finished trace.
LEMMA NewTraceIs ==
  ASSUME NEW h \in Heaps, h.curno \in Numbers, NEW t \in Ids,
         rec.start \in Sites \cup {NULL}, rec.root \in 0..MAXTRACE,
         NEW lt \in {"LOOP", "ROOT", "RETURN", "STITCH"}, NEW lnk \in 0..MAXTRACE,
         NEW next \in 0..MAXTRACE, NEW side \in 0..MAXTRACE, NEW jumps \in SUBSET Ids,
         NEW g, g = NewTrace(h, t, lt, lnk, next, side, jumps)
  PROVE  Finished(h, g, t, lnk, next, side, jumps)
<1>. DEFINE T == [traceno |-> h.curno, start |-> rec.start,
                  root |-> rec.root, link |-> lnk, linktype |-> lt,
                  nextroot |-> next, nextside |-> side, jumps |-> jumps]
            o == [h.obj EXCEPT ![t] = T]
            r == [h.trace EXCEPT ![h.curno] = t]
<1>1. T \in GCtrace
  <2>1. h.curno \in 0..MAXTRACE
    BY HeapFields
  <2>. QED
    BY <2>1 DEF GCtrace
<1>2. /\ T.traceno = h.curno /\ T.start = rec.start /\ T.root = rec.root
      /\ T.link = lnk /\ T.nextroot = next /\ T.nextside = side /\ T.jumps = jumps
  OBVIOUS
<1>3. T # NULL
  BY <1>1, NullIsNoTrace
<1>. HIDE DEF T
<1>4. /\ o \in [Ids -> GCtrace \cup {NULL}] /\ o[t] = T
      /\ \A u \in Ids : u # t => o[u] = h.obj[u]
  BY <1>1, HeapFields
<1>5. /\ r \in [Numbers -> Ids \cup {NULL, CUR}]
      /\ \A n \in Numbers : r[n] = IF n = h.curno THEN t ELSE h.trace[n]
  BY HeapFields
<1>6. g = [h EXCEPT !.obj = o, !.trace = r, !.curno = 0]
  BY DEF NewTrace, T, Heaps
<1>. HIDE DEF o, r
<1>7. g \in Heaps
  <2>1. 0 \in 0..MAXTRACE
    BY Constants
  <2>. QED
    BY <2>1, <1>4, <1>5, <1>6 DEF Heaps
<1>8. /\ g.bc = h.bc /\ g.chain = h.chain /\ g.iloop = h.iloop
      /\ g.freetrace = h.freetrace /\ g.curno = 0 /\ g.obj = o /\ g.trace = r
  BY <1>6 DEF Heaps
<1>. QED
  BY <1>1, <1>2, <1>3, <1>4, <1>5, <1>7, <1>8 DEF Finished

\* A trace is finished that a number was taken for.
Fresh(h, t) == h.curno # 0 /\ t \in Ids /\ h.obj[t] = NULL

\* The number of the recording belongs to no trace.
LEMMA FreshIs ==
  ASSUME NEW h, HeapInv(h), Counted(h), NEW t, Fresh(h, t)
  PROVE  /\ h.curno \in Numbers /\ h.curno \in 0..MAXTRACE
         /\ h.trace[h.curno] = CUR /\ h.trace[h.curno] \notin Ids
<1>1. h.curno \in 0..MAXTRACE
  BY HeapFields DEF HeapInv
<1>. QED
  BY <1>1, Constants DEF Fresh, Counted

\* Machine code jumps to the trace itself or to the root trace it links to.
LEMMA TargetsAre ==
  ASSUME NEW h, NEW K \in SUBSET Ids, NEW t \in Ids, NEW lt, NEW lnk, Linked(h, K, lt, lnk),
         h.curno \in 0..MAXTRACE
  PROVE  /\ lt \in {"LOOP", "ROOT", "RETURN", "STITCH"} /\ lnk \in 0..MAXTRACE
         /\ Targets(h, t, lt, lnk) \in SUBSET Ids
         /\ \A u \in Targets(h, t, lt, lnk) :
              u = t \/ (u \in K /\ lnk \in Numbers /\ h.trace[lnk] = u)
         /\ lnk # 0 => lnk = h.curno \/ (lnk \in Numbers /\ h.trace[lnk] \in K
                                           /\ h.obj[h.trace[lnk]].root = 0)
BY Constants DEF Linked, Targets

RootEnded(h, g, V, K, t, mk, cs, bl) ==
  /\ Sound(g, V \cup {t}, K \cup {t}, mk, [cs EXCEPT ![t] = "gray"], bl)
  /\ g.curno = 0 /\ g.obj[t] # NULL
  /\ \A u \in Ids : u # t => (g.obj[u] = NULL <=> h.obj[u] = NULL)

\* A root trace is finished: it heads its chain, its instruction leads to it.
LEMMA StopRootSound ==
  ASSUME NEW h, NEW V, NEW K, NEW mk,
         NEW cs \in [Ids -> {"white", "gray", "black"}], NEW bl \in SUBSET Protos,
         Sound(h, V, K, mk, cs, bl), NEW t, Fresh(h, t),
         rec.start \in Sites, rec.root = 0, h.bc[rec.start] = Plain,
         NEW lt, NEW lnk, Linked(h, K, lt, lnk), NEW g, g = StopRoot(h, t, lt, lnk)
  PROVE  RootEnded(h, g, V, K, t, mk, cs, bl)
<1>. DEFINE c == h.curno
            s == rec.start
            p == ProtoOf[s]
            J == Targets(h, t, lt, lnk)
            x == NewTrace(h, t, lt, lnk, h.chain[p], 0, J)
<1>1. /\ h \in Heaps /\ HeapInv(h) /\ Counted(h) /\ Kept(h, V, K) /\ InTree(h, K)
      /\ Registered(h) /\ Barring(h) /\ t \in Ids /\ h.obj[t] = NULL
      /\ V \subseteq Ids /\ K \subseteq V
      /\ p \in Protos /\ 0 \in 0..MAXTRACE
  BY Constants DEF Sound, HeapInv, Fresh, Kept
<1>2. /\ c \in Numbers /\ c \in 0..MAXTRACE /\ h.trace[c] = CUR /\ h.trace[c] \notin Ids
  BY <1>1, FreshIs
<1>3. /\ lt \in {"LOOP", "ROOT", "RETURN", "STITCH"} /\ lnk \in 0..MAXTRACE
      /\ J \in SUBSET Ids
      /\ \A u \in J : u = t \/ (u \in K /\ lnk \in Numbers /\ h.trace[lnk] = u)
      /\ lnk # 0 => lnk = c \/ (lnk \in Numbers /\ h.trace[lnk] \in K
                                           /\ h.obj[h.trace[lnk]].root = 0)
  BY <1>1, <1>2, TargetsAre
<1>4. h.chain[p] \in 0..MAXTRACE /\ h.bc \in [Sites -> Numbers \cup {Plain, Barred}]
      /\ h.chain \in [Protos -> 0..MAXTRACE]
  BY <1>1, HeapFields
<1>5. /\ x \in Heaps /\ x.bc = h.bc /\ x.chain = h.chain /\ x.iloop = h.iloop
      /\ x.freetrace = h.freetrace /\ x.curno = 0
      /\ \A n \in Numbers : x.trace[n] = IF n = c THEN t ELSE h.trace[n]
      /\ \A u \in Ids : u # t => x.obj[u] = h.obj[u]
      /\ x.obj[t] # NULL /\ x.obj[t] \in GCtrace
      /\ x.obj[t].traceno = c /\ x.obj[t].start = s
      /\ x.obj[t].root = 0 /\ x.obj[t].link = lnk
      /\ x.obj[t].nextroot = h.chain[p] /\ x.obj[t].nextside = 0
      /\ x.obj[t].jumps = J
  <2>1. s \in Sites \cup {NULL} /\ rec.root \in 0..MAXTRACE /\ rec.root = 0
    BY <1>1
  <2>2. h \in Heaps /\ t \in Ids /\ 0 \in 0..MAXTRACE
    BY <1>1
  <2>3. /\ c \in Numbers /\ lt \in {"LOOP", "ROOT", "RETURN", "STITCH"}
        /\ lnk \in 0..MAXTRACE /\ J \in SUBSET Ids /\ h.chain[p] \in 0..MAXTRACE
    BY <1>2, <1>3, <1>4
  <2>. HIDE DEF J, p
  <2>4. x = NewTrace(h, t, lt, lnk, h.chain[p], 0, J)
    OBVIOUS
  <2>. HIDE DEF x
  <2>5. Finished(h, x, t, lnk, h.chain[p], 0, J)
    BY <2>1, <2>2, <2>3, <2>4, NewTraceIs
  <2>. QED
    BY <2>1, <2>5 DEF Finished
<1>. DEFINE b == [h.bc EXCEPT ![s] = c]
            k == [h.chain EXCEPT ![p] = c]
<1>6. /\ b \in [Sites -> Numbers \cup {Plain, Barred}] /\ k \in [Protos -> 0..MAXTRACE]
      /\ \A q \in Sites : b[q] = IF q = s THEN c ELSE h.bc[q]
      /\ \A q \in Protos : k[q] = IF q = p THEN c ELSE h.chain[q]
  BY <1>1, <1>2, <1>4
<1>7. g = [x EXCEPT !.bc = b, !.chain = k]
  <2>1. g = [x EXCEPT !.bc[s] = c, !.chain[p] = c]
    BY DEF StopRoot
  <2>. HIDE DEF x, J
  <2>. QED
    BY <2>1, <1>5 DEF Heaps
<1>. HIDE DEF x, b, k, J
<1>8. /\ g.bc = b /\ g.chain = k /\ g.iloop = h.iloop /\ g.obj = x.obj /\ g.trace = x.trace
      /\ g.freetrace = h.freetrace /\ g.curno = 0
  BY <1>5, <1>7 DEF Heaps
<1>9. g \in Heaps
  <2>1. /\ b \in [Sites -> Numbers \cup {Plain, Barred}]
        /\ k \in [Protos -> 0..MAXTRACE] /\ x \in Heaps
    BY <1>5, <1>6
  <2>. QED
    BY <2>1, <1>7 DEF Heaps
<1>. HIDE DEF p, c
<1>10. Grown(h, g, t, c)
  <2>1. \A q \in Protos : Untouched(h, g, q) \/ Joins(h, g, t, c, q)
    <3>. TAKE q \in Protos
    <3>1. CASE q = p
      <4>1. \A r \in Sites : ProtoOf[r] = q /\ r # s => g.bc[r] = h.bc[r]
        BY <1>6, <1>8
      <4>2. /\ g.chain[q] = c /\ g.obj[t].root = 0 /\ g.obj[t].start = s
            /\ s \in Sites /\ ProtoOf[s] = q /\ g.obj[t].nextroot = h.chain[q]
            /\ g.bc[s] = c
        BY <3>1, <1>1, <1>5, <1>6, <1>8 DEF p
      <4>3. h.bc[s] \notin Numbers
        BY Constants
      <4>. QED
        BY <4>1, <4>2, <4>3 DEF Joins
    <3>2. CASE q # p
      <4>1. \A r \in Sites : ProtoOf[r] = q => r # s
        BY <3>2 DEF p
      <4>. QED
        BY <4>1, <3>2, <1>6, <1>8 DEF Untouched
    <3>. QED
      BY <3>1, <3>2
  <2>2. \A u \in Ids : u # t /\ h.obj[u] # NULL =>
       /\ g.obj[u].traceno = h.obj[u].traceno /\ g.obj[u].start = h.obj[u].start
       /\ g.obj[u].root = h.obj[u].root /\ g.obj[u].nextroot = h.obj[u].nextroot
       /\ g.obj[u].link = h.obj[u].link
       /\ g.obj[u].nextside = h.obj[u].nextside
    BY <1>5, <1>8
  <2>. QED
    BY <2>1, <2>2, <1>1, <1>2, <1>5, <1>8 DEF Grown
<1>11. HeapInv(g) /\ Counted(g)
  <2>1. Barring(g)
    <3>1. \A q \in Sites : b[q] = Barred => h.bc[q] = Barred
      BY <1>2, <1>6, Constants
    <3>. QED
      BY <3>1, <1>1, <1>8 DEF Barring
  <2>. QED
    BY <2>1, <1>1, <1>5, <1>8, <1>9, <1>10, GrownInv DEF c
<1>12. Kept(g, V \cup {t}, K \cup {t})
  <2>1. Rests(g, t, c, V \cup {t}, K \cup {t})
    <3>1. lnk # 0 => g.trace[lnk] \in V \cup {t}
      BY <1>1, <1>2, <1>3, <1>5, <1>8
    <3>2. h.chain[p] # 0 => g.trace[h.chain[p]] \in V \cup {t}
      <4>1. h.chain[p] # 0 => h.chain[p] \in Numbers /\ h.trace[h.chain[p]] \in V
        BY <1>1, <1>4, Constants DEF Kept
      <4>. QED
        BY <4>1, <1>5, <1>8
    <3>3. lnk # 0 => lnk = c \/ g.obj[g.trace[lnk]].root = 0
      <4>1. CASE lnk # 0 /\ lnk # c
        <5>1. /\ lnk \in Numbers /\ h.trace[lnk] \in K /\ h.obj[h.trace[lnk]].root = 0
          BY <4>1, <1>3
        <5>2. h.trace[lnk] # t
          BY <5>1, <1>1 DEF Kept
        <5>3. g.trace[lnk] = h.trace[lnk] /\ h.trace[lnk] \in Ids
          BY <5>1, <4>1, <1>1, <1>5, <1>8
        <5>. QED
          BY <5>1, <5>2, <5>3, <1>5, <1>8
      <4>. QED
        BY <4>1
    <3>. QED
      BY <3>1, <3>2, <3>3, <1>5, <1>8 DEF Rests
  <2>2. \A u \in V : u \in Ids /\ u # t
    BY <1>1 DEF Kept
  <2>3. \A u \in V : g.obj[u].link = h.obj[u].link
    BY <2>2, <1>5, <1>8
  <2>4. K \cup {t} \subseteq V \cup {t}
    BY <1>1
  <2>. QED
    BY <2>1, <2>3, <2>4, <1>1, <1>10, GrownKept
<1>13. InTree(g, K \cup {t})
  <2>1. Grows(g, t, K \cup {t})
    <3>1. Home(g, t) = t
      BY <1>5, <1>8 DEF Home
    <3>2. Beside(g, t, t)
      BY DEF Beside
    <3>3. \A u \in J : u \in K \cup {t} /\ (Home(g, u) = t \/ Names(g, lnk, u))
      <4>. TAKE u \in J
      <4>1. CASE u = t
        BY <4>1, <3>1
      <4>2. CASE u # t
        <5>1. u \in K /\ lnk \in Numbers /\ h.trace[lnk] = u /\ u \in Ids
          BY <4>2, <1>1, <1>3
        <5>2. lnk # c /\ lnk # 0
          BY <5>1, <1>2, Constants
        <5>3. g.trace[lnk] = u
          BY <5>1, <5>2, <1>5, <1>8
        <5>. QED
          BY <5>1, <5>2, <5>3 DEF Names
      <4>. QED
        BY <4>1, <4>2
    <3>. QED
      BY <3>1, <3>2, <3>3, <1>5, <1>8 DEF Grows
  <2>2. \A u \in K : u \in Ids /\ u # t /\ h.obj[u] # NULL
    BY <1>1 DEF Kept
  <2>3. \A u \in K : g.obj[u] = h.obj[u]
    BY <2>2, <1>5, <1>8
  <2>4. K \in SUBSET Ids
    BY <2>2
  <2>. QED
    BY <2>1, <2>2, <2>3, <2>4, <1>1, <1>10, GrownTree
<1>14. mk => Marks(g, [cs EXCEPT ![t] = "gray"], bl)
  BY <1>1, <1>10, GrownMarks DEF Sound
<1>15. /\ \A u \in Ids : u # t => (g.obj[u] = NULL <=> h.obj[u] = NULL)
       /\ g.obj[t] # NULL
  BY <1>5, <1>8
<1>. QED
  BY <1>8, <1>11, <1>12, <1>13, <1>14, <1>15 DEF Sound, RootEnded
--------------------------------------------------------------------------------
(* Finishing a stitched trace. *)

\* A trace that is linked.
LEMMA LinkField ==
  ASSUME NEW T \in GCtrace, NEW n \in 0..MAXTRACE, NEW U, U = [T EXCEPT !.link = n]
  PROVE  /\ U \in GCtrace /\ U.traceno = T.traceno /\ U.start = T.start
         /\ U.root = T.root /\ U.link = n /\ U.nextroot = T.nextroot
         /\ U.nextside = T.nextside /\ U.jumps = T.jumps
BY DEF GCtrace

\* A trace with another list of side traces.
LEMMA SideField ==
  ASSUME NEW T \in GCtrace, NEW n \in 0..MAXTRACE, NEW U, U = [T EXCEPT !.nextside = n]
  PROVE  /\ U \in GCtrace /\ U.traceno = T.traceno /\ U.start = T.start
         /\ U.root = T.root /\ U.link = T.link /\ U.nextroot = T.nextroot
         /\ U.nextside = n /\ U.jumps = T.jumps
BY DEF GCtrace

\* A trace with an exit patched.
LEMMA JumpsField ==
  ASSUME NEW T \in GCtrace, NEW J \in SUBSET Ids, NEW U, U = [T EXCEPT !.jumps = J]
  PROVE  /\ U \in GCtrace /\ U.traceno = T.traceno /\ U.start = T.start
         /\ U.root = T.root /\ U.link = T.link /\ U.nextroot = T.nextroot
         /\ U.nextside = T.nextside /\ U.jumps = J
BY DEF GCtrace

\* A heap with other traces.
LEMMA ObjField ==
  ASSUME NEW x \in Heaps, NEW o \in [Ids -> GCtrace \cup {NULL}],
         NEW g, g = [x EXCEPT !.obj = o]
  PROVE  /\ g \in Heaps /\ g.obj = o /\ g.bc = x.bc /\ g.chain = x.chain
         /\ g.iloop = x.iloop /\ g.trace = x.trace /\ g.freetrace = x.freetrace
         /\ g.curno = x.curno
BY DEF Heaps

\* What ends the recording of a trace keeps more, by the new trace at most.
MoreSound(g, V, K, t, mk, cs, bl) ==
  \E V2, K2 :
    /\ V \subseteq V2 /\ V2 \subseteq V \cup {t} /\ K \subseteq K2
    /\ Sound(g, V2, K2, mk, cs, bl)
Ended(h, g, V, K, t, mk, cs, bl) ==
  /\ MoreSound(g, V, K, t, mk, [cs EXCEPT ![t] = "gray"], bl)
  /\ g.curno = 0 /\ g.obj[t] # NULL
  /\ \A u \in Ids : u # t => (g.obj[u] = NULL <=> h.obj[u] = NULL)

\* A trace is finished that the call of the previous trace is stitched to.
LEMMA StopStitchSound ==
  ASSUME NEW h, NEW V, NEW K, NEW mk,
         NEW cs \in [Ids -> {"white", "gray", "black"}], NEW bl \in SUBSET Protos,
         Sound(h, V, K, mk, cs, bl), NEW t, Fresh(h, t),
         rec.start \in Sites, rec.root = 0, rec.exitno \in Numbers,
         h.trace[rec.exitno] \in Ids, h.obj[h.trace[rec.exitno]].link = 0,
         NEW lt, NEW lnk, Linked(h, K, lt, lnk), NEW g, g = StopStitch(h, t, lt, lnk)
  PROVE  Ended(h, g, V, K, t, mk, cs, bl)
<1>. DEFINE c == h.curno
            w == h.trace[rec.exitno]
            J == Targets(h, t, lt, lnk)
            x == NewTrace(h, t, lt, lnk, 0, 0, J)
<1>1. /\ h \in Heaps /\ HeapInv(h) /\ Counted(h) /\ Kept(h, V, K) /\ InTree(h, K)
      /\ Registered(h) /\ Barring(h) /\ t \in Ids /\ h.obj[t] = NULL
      /\ V \subseteq Ids /\ K \subseteq V
      /\ 0 \in 0..MAXTRACE
  BY Constants DEF Sound, HeapInv, Fresh, Kept
<1>2. /\ c \in Numbers /\ c \in 0..MAXTRACE /\ h.trace[c] = CUR /\ h.trace[c] \notin Ids
  BY <1>1, FreshIs
<1>3. /\ lt \in {"LOOP", "ROOT", "RETURN", "STITCH"} /\ lnk \in 0..MAXTRACE
      /\ J \in SUBSET Ids
      /\ \A u \in J : u = t \/ (u \in K /\ lnk \in Numbers /\ h.trace[lnk] = u)
      /\ lnk # 0 => lnk = c \/ (lnk \in Numbers /\ h.trace[lnk] \in K
                                           /\ h.obj[h.trace[lnk]].root = 0)
  BY <1>1, <1>2, TargetsAre
<1>4. /\ w \in Ids /\ w # t /\ h.obj[w] # NULL /\ h.obj[w].traceno # 0
      /\ h.obj[w].link = 0
  BY <1>1, Constants DEF Registered
<1>5. Finished(h, x, t, lnk, 0, 0, J)
  <2>1. rec.start \in Sites \cup {NULL} /\ rec.root \in 0..MAXTRACE
    BY <1>1
  <2>2. h \in Heaps /\ t \in Ids /\ 0 \in 0..MAXTRACE
    BY <1>1
  <2>3. /\ c \in Numbers /\ lt \in {"LOOP", "ROOT", "RETURN", "STITCH"}
        /\ lnk \in 0..MAXTRACE /\ J \in SUBSET Ids
    BY <1>2, <1>3
  <2>. HIDE DEF J
  <2>4. x = NewTrace(h, t, lt, lnk, 0, 0, J)
    OBVIOUS
  <2>. HIDE DEF x
  <2>. QED
    BY <2>1, <2>2, <2>3, <2>4, NewTraceIs
<1>6. /\ x \in Heaps /\ x.bc = h.bc /\ x.chain = h.chain /\ x.iloop = h.iloop
      /\ x.freetrace = h.freetrace /\ x.curno = 0
      /\ \A n \in Numbers : x.trace[n] = IF n = c THEN t ELSE h.trace[n]
      /\ \A u \in Ids : u # t => x.obj[u] = h.obj[u]
      /\ x.obj[t] # NULL /\ x.obj[t] \in GCtrace
      /\ x.obj[t].traceno = c /\ x.obj[t].start = rec.start
      /\ x.obj[t].root = 0 /\ x.obj[t].link = lnk
      /\ x.obj[t].nextroot = 0 /\ x.obj[t].nextside = 0
      /\ x.obj[t].jumps = J
  BY <1>5 DEF Finished
<1>. DEFINE U == [x.obj[w] EXCEPT !.link = c]
            o == [x.obj EXCEPT ![w] = U]
<1>7. g = [x EXCEPT !.obj = o]
  <2>1. g = [x EXCEPT !.obj[w].link = c]
    BY DEF StopStitch
  <2>2. x.obj \in [Ids -> GCtrace \cup {NULL}]
    BY <1>6, HeapFields
  <2>. HIDE DEF x, J, w
  <2>. QED
    BY <2>1, <2>2, <1>4, <1>6 DEF Heaps
<1>. HIDE DEF x, J
<1>8. /\ U \in GCtrace /\ U.traceno = h.obj[w].traceno /\ U.start = h.obj[w].start
      /\ U.root = h.obj[w].root /\ U.link = c /\ U.nextroot = h.obj[w].nextroot
      /\ U.nextside = h.obj[w].nextside /\ U.jumps = h.obj[w].jumps /\ U # NULL
  <2>1. x.obj[w] = h.obj[w] /\ h.obj[w] \in GCtrace
    BY <1>1, <1>4, <1>6, HeapFields
  <2>. HIDE DEF w
  <2>. QED
    BY <2>1, <1>2, LinkField, NullIsNoTrace
<1>. HIDE DEF U
<1>9. /\ o \in [Ids -> GCtrace \cup {NULL}]
      /\ \A u \in Ids : u # t => o[u] = IF u = w THEN U ELSE h.obj[u]
      /\ o[t] = x.obj[t]
  <2>1. x.obj \in [Ids -> GCtrace \cup {NULL}]
    BY <1>6, HeapFields
  <2>. HIDE DEF w
  <2>. QED
    BY <2>1, <1>1, <1>4, <1>6, <1>8
<1>. HIDE DEF o
<1>10. /\ g \in Heaps /\ g.obj = o /\ g.bc = h.bc /\ g.chain = h.chain
       /\ g.iloop = h.iloop /\ g.trace = x.trace /\ g.freetrace = h.freetrace
       /\ g.curno = 0
  BY <1>6, <1>7, <1>9, ObjField
<1>. HIDE DEF c, w
<1>11. \A u \in Ids : u # t /\ h.obj[u] # NULL =>
         /\ g.obj[u] # NULL
         /\ g.obj[u].traceno = h.obj[u].traceno /\ g.obj[u].start = h.obj[u].start
         /\ g.obj[u].root = h.obj[u].root /\ g.obj[u].nextroot = h.obj[u].nextroot
         /\ \/ g.obj[u].link = h.obj[u].link
            \/ h.obj[u].link = 0 /\ h.obj[u].traceno # 0 /\ g.obj[u].link = c
         /\ g.obj[u].nextside = h.obj[u].nextside
         /\ g.obj[u].jumps = h.obj[u].jumps
  BY <1>4, <1>8, <1>9, <1>10
<1>12. \A u \in Ids : u # t => (g.obj[u] = NULL <=> h.obj[u] = NULL)
  BY <1>4, <1>8, <1>9, <1>10
<1>13. Grown(h, g, t, c)
  <2>1. \A q \in Protos : Untouched(h, g, q)
    BY <1>10 DEF Untouched
  <2>. QED
    BY <2>1, <1>1, <1>2, <1>6, <1>9, <1>10, <1>11, <1>12 DEF Grown
<1>14. HeapInv(g) /\ Counted(g)
  <2>1. Barring(g)
    BY <1>1, <1>10 DEF Barring
  <2>. QED
    BY <2>1, <1>1, <1>6, <1>9, <1>10, <1>13, GrownInv DEF c
<1>15. Kept(g, V \cup {t}, K \cup {t})
  <2>1. Rests(g, t, c, V \cup {t}, K \cup {t})
    <3>1. lnk # 0 => g.trace[lnk] \in V \cup {t}
      BY <1>1, <1>2, <1>3, <1>6, <1>10
    <3>2. lnk # 0 => lnk = c \/ g.obj[g.trace[lnk]].root = 0
      <4>1. CASE lnk # 0 /\ lnk # c
        <5>1. /\ lnk \in Numbers /\ h.trace[lnk] \in K /\ h.obj[h.trace[lnk]].root = 0
          BY <4>1, <1>3
        <5>2. h.trace[lnk] # t /\ h.trace[lnk] \in Ids /\ h.obj[h.trace[lnk]] # NULL
          BY <5>1, <1>1 DEF Kept
        <5>3. g.trace[lnk] = h.trace[lnk]
          BY <5>1, <4>1, <1>6, <1>10
        <5>. QED
          BY <5>1, <5>2, <5>3, <1>11
      <4>. QED
        BY <4>1
    <3>. QED
      BY <3>1, <3>2, <1>6, <1>9, <1>10 DEF Rests
  <2>2. \A u \in V : g.obj[u].link # h.obj[u].link => g.obj[t].root = 0
    BY <1>6, <1>9, <1>10
  <2>3. K \cup {t} \subseteq V \cup {t}
    BY <1>1
  <2>. QED
    BY <2>1, <2>2, <2>3, <1>1, <1>13, GrownKept
<1>16. InTree(g, K \cup {t})
  <2>1. Grows(g, t, K \cup {t})
    <3>1. Home(g, t) = t
      BY <1>6, <1>9, <1>10 DEF Home
    <3>2. Beside(g, t, t)
      BY DEF Beside
    <3>3. \A u \in J : u \in K \cup {t} /\ (Home(g, u) = t \/ Names(g, lnk, u))
      <4>. TAKE u \in J
      <4>1. CASE u = t
        BY <4>1, <3>1
      <4>2. CASE u # t
        <5>1. u \in K /\ lnk \in Numbers /\ h.trace[lnk] = u /\ u \in Ids
          BY <4>2, <1>1, <1>3
        <5>2. lnk # c /\ lnk # 0
          BY <5>1, <1>2, Constants
        <5>3. g.trace[lnk] = u
          BY <5>1, <5>2, <1>6, <1>10
        <5>. QED
          BY <5>1, <5>2, <5>3 DEF Names
      <4>. QED
        BY <4>1, <4>2
    <3>. QED
      BY <3>1, <3>2, <3>3, <1>6, <1>9, <1>10 DEF Grows
  <2>2. \A u \in K : u \in Ids /\ u # t /\ h.obj[u] # NULL
    BY <1>1 DEF Kept
  <2>3. \A u \in K : g.obj[u].jumps = h.obj[u].jumps
    BY <2>2, <1>11
  <2>4. K \in SUBSET Ids
    BY <2>2
  <2>. QED
    BY <2>1, <2>2, <2>3, <2>4, <1>1, <1>13, GrownTree
<1>17. mk => Marks(g, [cs EXCEPT ![t] = "gray"], bl)
  BY <1>1, <1>13, GrownMarks DEF Sound
<1>18. Sound(g, V \cup {t}, K \cup {t}, mk, [cs EXCEPT ![t] = "gray"], bl)
  BY <1>14, <1>15, <1>16, <1>17 DEF Sound
<1>19. MoreSound(g, V, K, t, mk, [cs EXCEPT ![t] = "gray"], bl)
  BY <1>18 DEF MoreSound
<1>. QED
  BY <1>6, <1>9, <1>10, <1>12, <1>19 DEF Ended
--------------------------------------------------------------------------------
(* Finishing a side trace. *)

\* The recording of a side trace: its parent is in the tree of its root.
FromExit(h, r) ==
  /\ r.start = NULL /\ r.parent \in Numbers /\ r.root \in Numbers /\ r.exitno = 0
  /\ h.trace[r.root] \in Ids /\ h.trace[r.parent] \in Ids
  /\ h.obj[h.trace[r.root]].root = 0
  /\ IF h.obj[h.trace[r.parent]].root = 0 THEN r.parent = r.root
     ELSE h.obj[h.trace[r.parent]].root = r.root

\* A side trace is finished: it is on its root's list, its parent's exit jumps to it.
LEMMA StopSideSound ==
  ASSUME NEW h, NEW V, NEW K, NEW mk,
         NEW cs \in [Ids -> {"white", "gray", "black"}], NEW bl \in SUBSET Protos,
         Sound(h, V, K, mk, cs, bl), NEW t, Fresh(h, t), FromExit(h, rec),
         NEW lt, NEW lnk, Linked(h, K, lt, lnk) \/ (lt = "ROOT" /\ lnk = rec.root),
         NEW g, g = StopSide(h, t, lt, lnk)
  PROVE  Ended(h, g, V, K, t, mk, cs, bl)
<1>. DEFINE c == h.curno
            P == h.trace[rec.parent]
            R == h.trace[rec.root]
            J == Targets(h, t, lt, lnk)
            x == NewTrace(h, t, lt, lnk, 0, h.obj[R].nextside, J)
<1>1. /\ h \in Heaps /\ HeapInv(h) /\ Counted(h) /\ Kept(h, V, K) /\ InTree(h, K)
      /\ Registered(h) /\ Barring(h) /\ t \in Ids /\ h.obj[t] = NULL
      /\ V \subseteq Ids /\ K \subseteq V
      /\ 0 \in 0..MAXTRACE
  BY Constants DEF Sound, HeapInv, Fresh, Kept
<1>2. /\ c \in Numbers /\ c \in 0..MAXTRACE /\ h.trace[c] = CUR /\ h.trace[c] \notin Ids
  BY <1>1, FreshIs
<1>3. /\ lt \in {"LOOP", "ROOT", "RETURN", "STITCH"} /\ lnk \in 0..MAXTRACE
      /\ J \in SUBSET Ids
      /\ R \in K =>
           /\ \A u \in J : u = t \/ (u \in K /\ lnk \in Numbers /\ h.trace[lnk] = u)
           /\ lnk # 0 => lnk = c \/ (lnk \in Numbers /\ h.trace[lnk] \in K
                                           /\ h.obj[h.trace[lnk]].root = 0)
  <2>1. CASE Linked(h, K, lt, lnk)
    BY <1>1, <1>2, <2>1, TargetsAre
  <2>2. CASE lt = "ROOT" /\ lnk = rec.root /\ R \in K
    <3>1. Linked(h, K, lt, lnk)
      BY <2>2 DEF FromExit, Linked
    <3>. QED
      BY <1>1, <1>2, <3>1, TargetsAre
  <2>3. CASE lt = "ROOT" /\ lnk = rec.root /\ R \notin K
    BY <2>3, Constants DEF FromExit, Targets
  <2>. QED
    BY <2>1, <2>2, <2>3
<1>4. /\ P \in Ids /\ P # t /\ h.obj[P] # NULL /\ h.obj[P].traceno # 0
      /\ R \in Ids /\ R # t /\ h.obj[R] # NULL /\ h.obj[R].traceno # 0
      /\ h.obj[R].root = 0 /\ Home(h, P) = R
      /\ rec.start = NULL /\ rec.root \in Numbers /\ rec.root # 0 /\ rec.root # c
  BY <1>1, <1>2, Constants DEF Registered, FromExit, Home
<1>5. h.obj[P] \in GCtrace /\ h.obj[R] \in GCtrace /\ h.obj[R].nextside \in 0..MAXTRACE
  <2>1. h.obj[P] \in GCtrace /\ h.obj[R] \in GCtrace
    BY <1>1, <1>4, HeapFields
  <2>. QED
    BY <2>1, TraceFields
<1>6. Finished(h, x, t, lnk, 0, h.obj[R].nextside, J)
  <2>1. rec.start \in Sites \cup {NULL} /\ rec.root \in 0..MAXTRACE
    BY <1>4, Constants
  <2>2. h \in Heaps /\ t \in Ids /\ 0 \in 0..MAXTRACE
    BY <1>1
  <2>3. /\ c \in Numbers /\ lt \in {"LOOP", "ROOT", "RETURN", "STITCH"}
        /\ lnk \in 0..MAXTRACE /\ J \in SUBSET Ids /\ h.obj[R].nextside \in 0..MAXTRACE
    BY <1>2, <1>3, <1>5
  <2>. HIDE DEF J, R
  <2>4. x = NewTrace(h, t, lt, lnk, 0, h.obj[R].nextside, J)
    OBVIOUS
  <2>. HIDE DEF x
  <2>. QED
    BY <2>1, <2>2, <2>3, <2>4, NewTraceIs
<1>7. /\ x \in Heaps /\ x.bc = h.bc /\ x.chain = h.chain /\ x.iloop = h.iloop
      /\ x.freetrace = h.freetrace /\ x.curno = 0
      /\ \A n \in Numbers : x.trace[n] = IF n = c THEN t ELSE h.trace[n]
      /\ \A u \in Ids : u # t => x.obj[u] = h.obj[u]
      /\ x.obj[t] # NULL /\ x.obj[t] \in GCtrace
      /\ x.obj[t].traceno = c /\ x.obj[t].start = rec.start
      /\ x.obj[t].root = rec.root /\ x.obj[t].link = lnk
      /\ x.obj[t].nextroot = 0 /\ x.obj[t].nextside = h.obj[R].nextside
      /\ x.obj[t].jumps = J
  <2>. HIDE DEF x, J, R, c
  <2>. QED
    BY <1>6 DEF Finished, c
<1>. DEFINE A == [x.obj[P] EXCEPT !.jumps = x.obj[P].jumps \cup {t}]
            a == [x.obj EXCEPT ![P] = A]
            B == [a[R] EXCEPT !.nextside = c]
            o == [a EXCEPT ![R] = B]
<1>8. g = [x EXCEPT !.obj = o]
  <2>1. g = [x EXCEPT !.obj[P].jumps = @ \cup {t}, !.obj[R].nextside = c]
    BY DEF StopSide
  <2>2. x.obj \in [Ids -> GCtrace \cup {NULL}]
    BY <1>7, HeapFields
  <2>. HIDE DEF x, J, P, R, c
  <2>. QED
    BY <2>1, <2>2, <1>4, <1>7 DEF Heaps
<1>. HIDE DEF x, J, P, R, c
<1>9. /\ A \in GCtrace /\ A.traceno = h.obj[P].traceno /\ A.start = h.obj[P].start
      /\ A.root = h.obj[P].root /\ A.link = h.obj[P].link
      /\ A.nextroot = h.obj[P].nextroot /\ A.nextside = h.obj[P].nextside
      /\ A.jumps = h.obj[P].jumps \cup {t}
  <2>1. x.obj[P] = h.obj[P] /\ h.obj[P].jumps \cup {t} \in SUBSET Ids
    BY <1>1, <1>4, <1>5, <1>7, TraceFields
  <2>. QED
    BY <2>1, <1>5, JumpsField
<1>. HIDE DEF A
<1>10. /\ a \in [Ids -> GCtrace \cup {NULL}] /\ a[t] = x.obj[t]
       /\ \A u \in Ids : u # t => a[u] = IF u = P THEN A ELSE h.obj[u]
  <2>1. x.obj \in [Ids -> GCtrace \cup {NULL}]
    BY <1>7, HeapFields
  <2>. QED
    BY <2>1, <1>1, <1>4, <1>7, <1>9
<1>. HIDE DEF a
<1>11. a[R] \in GCtrace
  BY <1>4, <1>5, <1>9, <1>10
<1>12. /\ B \in GCtrace /\ B.traceno = a[R].traceno /\ B.start = a[R].start
       /\ B.root = a[R].root /\ B.link = a[R].link
       /\ B.nextroot = a[R].nextroot /\ B.nextside = c /\ B.jumps = a[R].jumps
  BY <1>2, <1>11, SideField
<1>. HIDE DEF B
<1>13. /\ o \in [Ids -> GCtrace \cup {NULL}] /\ o[t] = x.obj[t]
       /\ \A u \in Ids : o[u] = IF u = R THEN B ELSE a[u]
  BY <1>1, <1>4, <1>10, <1>12
<1>. HIDE DEF o
<1>14. /\ g \in Heaps /\ g.obj = o /\ g.bc = h.bc /\ g.chain = h.chain
       /\ g.iloop = h.iloop /\ g.trace = x.trace /\ g.freetrace = h.freetrace
       /\ g.curno = 0
  BY <1>7, <1>8, <1>13, ObjField
<1>15. ASSUME NEW u \in Ids, u # t, h.obj[u] # NULL
       PROVE  /\ g.obj[u] # NULL
              /\ g.obj[u].traceno = h.obj[u].traceno /\ g.obj[u].start = h.obj[u].start
              /\ g.obj[u].root = h.obj[u].root /\ g.obj[u].nextroot = h.obj[u].nextroot
              /\ g.obj[u].link = h.obj[u].link
              /\ g.obj[u].nextside = IF u = R THEN c ELSE h.obj[u].nextside
              /\ g.obj[u].jumps = h.obj[u].jumps
                   \/ (u = P /\ g.obj[u].jumps = h.obj[u].jumps \cup {t})
  <2>1. /\ a[u] # NULL
        /\ a[u].traceno = h.obj[u].traceno /\ a[u].start = h.obj[u].start
        /\ a[u].root = h.obj[u].root /\ a[u].nextroot = h.obj[u].nextroot
        /\ a[u].link = h.obj[u].link /\ a[u].nextside = h.obj[u].nextside
        /\ a[u].jumps = h.obj[u].jumps
             \/ (u = P /\ a[u].jumps = h.obj[u].jumps \cup {t})
    BY <1>9, <1>10, <1>15, NullIsNoTrace
  <2>. QED
    BY <2>1, <1>12, <1>13, <1>14, NullIsNoTrace
<1>16. \A u \in Ids : u # t => (g.obj[u] = NULL <=> h.obj[u] = NULL)
  <2>1. \A u \in Ids : u # t /\ h.obj[u] = NULL => u # R /\ u # P
    BY <1>4
  <2>. QED
    BY <2>1, <1>10, <1>13, <1>14, <1>15
<1>17. Grown(h, g, t, c)
  <2>1. \A q \in Protos : Untouched(h, g, q)
    BY <1>14 DEF Untouched
  <2>2. \A u \in Ids : u # t /\ h.obj[u] # NULL =>
          /\ g.obj[u].traceno = h.obj[u].traceno /\ g.obj[u].start = h.obj[u].start
          /\ g.obj[u].root = h.obj[u].root /\ g.obj[u].nextroot = h.obj[u].nextroot
          /\ g.obj[u].link = h.obj[u].link
          /\ \/ g.obj[u].nextside = h.obj[u].nextside
             \/ g.obj[u].nextside = c /\ g.obj[t].nextside = h.obj[u].nextside
    BY <1>7, <1>13, <1>14, <1>15
  <2>. QED
    BY <2>1, <2>2, <1>1, <1>2, <1>7, <1>13, <1>14, <1>16 DEF Grown
<1>18. HeapInv(g) /\ Counted(g)
  <2>1. Barring(g)
    BY <1>1, <1>14 DEF Barring
  <2>. QED
    BY <2>1, <1>1, <1>4, <1>7, <1>13, <1>14, <1>17, GrownInv DEF c
<1>19. mk => Marks(g, [cs EXCEPT ![t] = "gray"], bl)
  BY <1>1, <1>17, GrownMarks DEF Sound
<1>20. \A u \in K : u \in Ids /\ u # t /\ h.obj[u] # NULL
  BY <1>1 DEF Kept
<1>21. \A u \in V : u \in Ids /\ u # t /\ h.obj[u] # NULL /\ g.obj[u].link = h.obj[u].link
  <2>1. \A u \in V : u \in Ids /\ u # t /\ h.obj[u] # NULL
    BY <1>1 DEF Kept
  <2>. QED
    BY <2>1, <1>15
<1>22. CASE R \in K
  <2>1. Kept(g, V \cup {t}, K \cup {t})
    <3>1. Rests(g, t, c, V \cup {t}, K \cup {t})
      <4>1. lnk # 0 => g.trace[lnk] \in V \cup {t}
        BY <1>1, <1>2, <1>3, <1>7, <1>14, <1>22
      <4>2. lnk # 0 => lnk = c \/ g.obj[g.trace[lnk]].root = 0
        <5>1. CASE lnk # 0 /\ lnk # c
          <6>1. /\ lnk \in Numbers /\ h.trace[lnk] \in K /\ h.obj[h.trace[lnk]].root = 0
            BY <5>1, <1>3, <1>22
          <6>2. h.trace[lnk] # t /\ h.trace[lnk] \in Ids /\ h.obj[h.trace[lnk]] # NULL
            BY <6>1, <1>20
          <6>3. g.trace[lnk] = h.trace[lnk]
            BY <6>1, <5>1, <1>7, <1>14
          <6>. QED
            BY <6>1, <6>2, <6>3, <1>15
        <5>. QED
          BY <5>1
      <4>3. h.obj[R].nextside # 0 => g.trace[h.obj[R].nextside] \in V \cup {t}
        <5>1. h.obj[R].nextside # 0 => h.trace[h.obj[R].nextside] \in V
          BY <1>1, <1>4, <1>22 DEF Kept
        <5>2. h.obj[R].nextside # 0 => h.obj[R].nextside \in Numbers
          BY <1>5, Constants
        <5>. QED
          BY <5>1, <5>2, <1>7, <1>14
      <4>. QED
        BY <4>1, <4>2, <4>3, <1>4, <1>7, <1>13, <1>14 DEF Rests
    <3>2. K \cup {t} \subseteq V \cup {t}
      BY <1>1
    <3>. QED
      BY <3>1, <3>2, <1>1, <1>17, <1>21, GrownKept
  <2>2. Home(g, t) = R
    BY <1>4, <1>7, <1>13, <1>14 DEF Home, R
  <2>3. InTree(g, K \cup {t})
    <3>1. Grows(g, t, K \cup {t})
      <4>1. g.obj[R].root = 0 /\ Has(g, R) /\ g.obj[R].nextside = c
        BY <1>4, <1>15 DEF Has
      <4>2. Names(g, c, t)
        BY <1>2, <1>7, <1>14, Constants DEF Names
      <4>3. Beside(g, R, t)
        BY <4>1, <4>2, <1>1, <1>4 DEF Beside
      <4>4. \A u \in J : u \in K \cup {t} /\ (Home(g, u) = R \/ Names(g, lnk, u))
        <5>. TAKE u \in J
        <5>1. CASE u = t
          BY <5>1, <2>2
        <5>2. CASE u # t
          <6>1. u \in K /\ lnk \in Numbers /\ h.trace[lnk] = u /\ u \in Ids
            BY <5>2, <1>1, <1>3, <1>22
          <6>2. lnk # c /\ lnk # 0
            BY <6>1, <1>2, Constants
          <6>3. g.trace[lnk] = u
            BY <6>1, <6>2, <1>7, <1>14
          <6>. QED
            BY <6>1, <6>2, <6>3 DEF Names
        <5>. QED
          BY <5>1, <5>2
      <4>. QED
        BY <4>1, <4>3, <4>4, <2>2, <1>22, <1>7, <1>13, <1>14 DEF Grows
    <3>2. \A u \in K : \A y \in g.obj[u].jumps :
            y \in h.obj[u].jumps \/ (y = t /\ t \in K \cup {t} /\ Home(g, t) = Home(h, u))
      BY <1>4, <1>15, <1>20, <2>2
    <3>3. K \in SUBSET Ids
      BY <1>20
    <3>. QED
      BY <3>1, <3>2, <3>3, <1>1, <1>17, <1>20, GrownTree
  <2>4. Sound(g, V \cup {t}, K \cup {t}, mk, [cs EXCEPT ![t] = "gray"], bl)
    BY <2>1, <2>3, <1>18, <1>19 DEF Sound
  <2>5. MoreSound(g, V, K, t, mk, [cs EXCEPT ![t] = "gray"], bl)
    BY <2>4 DEF MoreSound
  <2>. QED
    BY <2>5, <1>7, <1>13, <1>14, <1>16 DEF Ended
<1>23. CASE R \notin K
  <2>1. R \notin V /\ P \notin K
    BY <1>1, <1>4, <1>23 DEF Kept, InTree
  <2>2. Kept(g, V, K)
    <3>1. Rests(g, t, c, V, K)
      BY <1>21 DEF Rests
    <3>2. \A u \in V : g.obj[u].link = h.obj[u].link /\ g.obj[u].nextside = h.obj[u].nextside
      BY <2>1, <1>15, <1>21
    <3>3. \A q \in Protos : Untouched(h, g, q)
      BY <1>14 DEF Untouched
    <3>. QED
      BY <3>1, <3>2, <3>3, <1>1, <1>17, GrownKept
  <2>3. InTree(g, K)
    <3>1. Grows(g, t, K)
      BY <1>20 DEF Grows
    <3>2. \A u \in K : g.obj[u].jumps = h.obj[u].jumps
      BY <2>1, <1>15, <1>20
    <3>3. K \in SUBSET Ids
      BY <1>20
    <3>. QED
      BY <3>1, <3>2, <3>3, <1>1, <1>17, <1>20, GrownTree
  <2>4. Sound(g, V, K, mk, [cs EXCEPT ![t] = "gray"], bl)
    BY <2>2, <2>3, <1>18, <1>19 DEF Sound
  <2>5. MoreSound(g, V, K, t, mk, [cs EXCEPT ![t] = "gray"], bl)
    BY <2>4 DEF MoreSound
  <2>. QED
    BY <2>5, <1>7, <1>13, <1>14, <1>16 DEF Ended
<1>. QED
  BY <1>22, <1>23

\* A root trace is finished, as the other kinds are.
LEMMA StopRootEnds ==
  ASSUME NEW h, NEW V, NEW K, NEW mk,
         NEW cs \in [Ids -> {"white", "gray", "black"}], NEW bl \in SUBSET Protos,
         Sound(h, V, K, mk, cs, bl), NEW t, Fresh(h, t),
         rec.start \in Sites, rec.root = 0, h.bc[rec.start] = Plain,
         NEW lt, NEW lnk, Linked(h, K, lt, lnk), NEW g, g = StopRoot(h, t, lt, lnk)
  PROVE  Ended(h, g, V, K, t, mk, cs, bl)
<1>1. RootEnded(h, g, V, K, t, mk, cs, bl)
  BY StopRootSound
<1>2. V \subseteq V \cup {t} /\ K \subseteq K \cup {t}
  OBVIOUS
<1>3. MoreSound(g, V, K, t, mk, [cs EXCEPT ![t] = "gray"], bl)
  BY <1>1, <1>2 DEF MoreSound, RootEnded
<1>. QED
  BY <1>1, <1>3 DEF Ended, RootEnded

\* The recording that starts at a site: a root trace, or one a call is stitched to.
FromSite(h, r) ==
  /\ r.start \in Sites /\ r.parent = 0 /\ r.root = 0
  /\ IF KindOf[r.start] = "CALL"
     THEN /\ r.exitno \in Numbers /\ h.trace[r.exitno] \in Ids
          /\ h.obj[h.trace[r.exitno]].link = 0
     ELSE r.exitno = 0 /\ h.bc[r.start] = Plain

\* What is known of a recording when what it started from may have been freed.
Origin(h, r) ==
  /\ r.parent = 0 => r.root = 0
  /\ ~ Lost(h, {r.parent, r.root, r.exitno}) => FromExit(h, r) \/ FromSite(h, r)

\* trace_stop, whatever was recorded, leaves a sound heap.
LEMMA StopSound ==
  ASSUME NEW h, NEW V, NEW K, NEW mk,
         NEW cs \in [Ids -> {"white", "gray", "black"}], NEW bl \in SUBSET Protos,
         Sound(h, V, K, mk, cs, bl), NEW t, Fresh(h, t),
         FromExit(h, rec) \/ FromSite(h, rec), NEW lt, NEW lnk,
         Linked(h, K, lt, lnk) \/ (rec.start = NULL /\ lt = "ROOT" /\ lnk = rec.root),
         NEW g, g = trace_stop(h, t, lt, lnk)
  PROVE  Ended(h, g, V, K, t, mk, cs, bl)
<1>1. CASE FromExit(h, rec)
  <2>1. g = StopSide(h, t, lt, lnk)
    BY <1>1 DEF trace_stop, FromExit
  <2>. QED
    BY <1>1, <2>1, StopSideSound
<1>2. CASE FromSite(h, rec)
  <2>1. rec.start # NULL /\ rec.start \in Sites /\ rec.root = 0 /\ Linked(h, K, lt, lnk)
    BY <1>2, Constants DEF FromSite
  <2>2. CASE KindOf[rec.start] = "CALL"
    <3>1. g = StopStitch(h, t, lt, lnk)
      BY <2>1, <2>2 DEF trace_stop
    <3>2. /\ rec.exitno \in Numbers /\ h.trace[rec.exitno] \in Ids
          /\ h.obj[h.trace[rec.exitno]].link = 0
      BY <1>2, <2>2 DEF FromSite
    <3>. QED
      BY <3>1, <3>2, <2>1, StopStitchSound
  <2>3. CASE KindOf[rec.start] # "CALL"
    <3>1. g = StopRoot(h, t, lt, lnk)
      BY <2>1, <2>3 DEF trace_stop
    <3>2. h.bc[rec.start] = Plain
      BY <1>2, <2>3 DEF FromSite
    <3>. QED
      BY <3>1, <3>2, <2>1, StopRootEnds
  <2>. QED
    BY <2>2, <2>3
<1>. QED
  BY <1>1, <1>2
--------------------------------------------------------------------------------
(* Aborting a recording. *)

\* A trace with a stitched call, made to link to itself.
Selfed(h, n) == [h EXCEPT !.obj[h.trace[n]].link = n]

\* A stitched call that cannot be linked to a new trace: a link to itself.
SelfLinked(h, g, V, K, mk, cs, bl) ==
  /\ Sound(g, V, K, mk, cs, bl) /\ g.bc = h.bc
  /\ \A u \in Ids : g.obj[u] = NULL <=> h.obj[u] = NULL

\* Linking such a trace to itself.
LEMMA SelfLinkSound ==
  ASSUME NEW h, NEW V, NEW K, NEW mk, NEW cs, NEW bl \in SUBSET Protos,
         Sound(h, V, K, mk, cs, bl), NEW n \in Numbers,
         h.trace[n] \in Ids, h.obj[h.trace[n]].link = 0,
         NEW g, g = Selfed(h, n)
  PROVE  SelfLinked(h, g, V, K, mk, cs, bl)
<1>. DEFINE w == h.trace[n]
            U == [h.obj[w] EXCEPT !.link = n]
            o == [h.obj EXCEPT ![w] = U]
<1>1. /\ h \in Heaps /\ HeapInv(h) /\ Counted(h) /\ Kept(h, V, K) /\ InTree(h, K)
      /\ Registered(h) /\ Rooted(h) /\ Chained(h) /\ Barring(h)
      /\ h.obj \in [Ids -> GCtrace \cup {NULL}] /\ n \in 0..MAXTRACE /\ n # 0
  BY HeapFields, Constants DEF Sound, HeapInv
<1>2. /\ w \in Ids /\ h.obj[w] # NULL /\ h.obj[w].traceno = n /\ h.obj[w].link = 0
      /\ h.obj[w] \in GCtrace
  BY <1>1 DEF Registered
<1>3. g = [h EXCEPT !.obj = o]
  <2>. HIDE DEF w
  <2>1. g = [h EXCEPT !.obj[w].link = n]
    BY DEF w, Selfed
  <2>. QED
    BY <2>1, <1>1, <1>2 DEF Heaps
<1>4. /\ U \in GCtrace /\ U.traceno = n /\ U.start = h.obj[w].start
      /\ U.root = h.obj[w].root /\ U.link = n /\ U.nextroot = h.obj[w].nextroot
      /\ U.nextside = h.obj[w].nextside /\ U.jumps = h.obj[w].jumps /\ U # NULL
  <2>. HIDE DEF w
  <2>. QED
    BY <1>1, <1>2, LinkField, NullIsNoTrace
<1>. HIDE DEF U, w
<1>5. /\ o \in [Ids -> GCtrace \cup {NULL}]
      /\ \A u \in Ids : o[u] = IF u = w THEN U ELSE h.obj[u]
  BY <1>1, <1>2, <1>4
<1>. HIDE DEF o
<1>6. /\ g \in Heaps /\ g.obj = o /\ g.bc = h.bc /\ g.chain = h.chain
      /\ g.iloop = h.iloop /\ g.trace = h.trace /\ g.freetrace = h.freetrace
      /\ g.curno = h.curno
  BY <1>1, <1>3, <1>5, ObjField
<1>7. ASSUME NEW u \in Ids
      PROVE  /\ g.obj[u] = NULL <=> h.obj[u] = NULL
             /\ h.obj[u] # NULL =>
                  /\ g.obj[u].traceno = h.obj[u].traceno /\ g.obj[u].start = h.obj[u].start
                  /\ g.obj[u].root = h.obj[u].root /\ g.obj[u].nextroot = h.obj[u].nextroot
                  /\ g.obj[u].link = IF u = w THEN n ELSE h.obj[u].link
                  /\ g.obj[u].nextside = h.obj[u].nextside
                  /\ g.obj[u].jumps = h.obj[u].jumps
  <2>1. g.obj[u] = IF u = w THEN U ELSE h.obj[u]
    BY <1>5, <1>6
  <2>2. CASE u = w
    BY <2>1, <2>2, <1>2, <1>4
  <2>3. CASE u # w
    BY <2>1, <2>3
  <2>. QED
    BY <2>2, <2>3
<1>8. Registered(g) /\ Barring(g) /\ Counted(g)
  BY <1>1, <1>6, <1>7 DEF Registered, Barring, Counted
<1>9. Rooted(g)
  <2>1. ASSUME NEW u \in Ids, g.obj[u] # NULL
        PROVE  /\ g.obj[u].root = 0 => g.obj[u].start \in Sites
               /\ g.obj[u].traceno = 0 => g.obj[u].link = 0
    BY <2>1, <1>1, <1>2, <1>7 DEF Rooted
  <2>. QED
    BY <2>1 DEF Rooted
<1>10. ASSUME NEW p \in Protos
       PROVE  \E L : IsChain(h, p, L) /\ IsChain(g, p, L) /\ Led(g, p, L)
  <2>1. PICK L : IsChain(h, p, L) /\ Led(h, p, L)
    BY <1>1 DEF Chained
  <2>2. \A m \in Range(L) : h.trace[m] \in Ids /\ h.obj[h.trace[m]] # NULL
    BY <1>1, <2>1, ChainTrace
  <2>3. \A m \in Range(L) :
          /\ g.trace[m] = h.trace[m]
          /\ g.obj[g.trace[m]].root = h.obj[h.trace[m]].root
          /\ g.obj[g.trace[m]].start = h.obj[h.trace[m]].start
          /\ g.obj[g.trace[m]].nextroot = h.obj[h.trace[m]].nextroot
    BY <2>2, <1>6, <1>7
  <2>4. \A i \in DOMAIN L : L[i] \in Range(L)
    BY DEF Range
  <2>5. IsChain(g, p, L)
    <3>1. /\ L \in Seq(Numbers) /\ IsInjective(L)
          /\ g.chain[p] = IF L = <<>> THEN 0 ELSE L[1]
      BY <2>1, <1>6 DEF IsChain
    <3>2. ASSUME NEW i \in DOMAIN L
          PROVE  /\ g.trace[L[i]] \in Ids
                 /\ g.obj[g.trace[L[i]]].root = 0
                 /\ ProtoOf[g.obj[g.trace[L[i]]].start] = p
                 /\ g.obj[g.trace[L[i]]].nextroot =
                      IF i = Len(L) THEN 0 ELSE L[i + 1]
      <4>1. /\ h.trace[L[i]] \in Ids
            /\ h.obj[h.trace[L[i]]].root = 0
            /\ ProtoOf[h.obj[h.trace[L[i]]].start] = p
            /\ h.obj[h.trace[L[i]]].nextroot =
                 IF i = Len(L) THEN 0 ELSE L[i + 1]
        BY <2>1 DEF IsChain
      <4>2. /\ g.trace[L[i]] = h.trace[L[i]]
            /\ g.obj[g.trace[L[i]]].root = h.obj[h.trace[L[i]]].root
            /\ g.obj[g.trace[L[i]]].start = h.obj[h.trace[L[i]]].start
            /\ g.obj[g.trace[L[i]]].nextroot = h.obj[h.trace[L[i]]].nextroot
        BY <2>3, <2>4
      <4>. QED
        BY <4>1, <4>2
    <3>. QED
      BY <3>1, <3>2 DEF IsChain
  <2>6. Led(g, p, L)
    BY <2>1, <2>3, <1>6 DEF Led
  <2>. QED
    BY <2>1, <2>5, <2>6
<1>11. HeapInv(g)
  BY <1>6, <1>8, <1>9, <1>10 DEF HeapInv, Chained
<1>12. \A u \in V : u \in Ids /\ h.obj[u] # NULL
  BY <1>1 DEF Kept
<1>13. Kept(g, V, K)
  <2>1. ASSUME NEW u \in V, g.obj[u].traceno # 0
        PROVE  /\ \A m \in {g.obj[u].link, g.obj[u].nextroot, g.obj[u].nextside} :
                    m # 0 => g.trace[m] \in V
               /\ g.obj[u].link # 0 =>
                    g.obj[u].link = g.obj[u].traceno \/ g.obj[g.trace[g.obj[u].link]].root = 0
               /\ g.obj[u].root = 0 => u \in K
    <3>1. /\ h.obj[u].traceno # 0 /\ u \in Ids /\ h.obj[u] # NULL
          /\ h.obj[u].link # 0 => h.trace[h.obj[u].link] \in V
          /\ h.obj[u].nextroot # 0 => h.trace[h.obj[u].nextroot] \in V
          /\ h.obj[u].nextside # 0 => h.trace[h.obj[u].nextside] \in V
          /\ h.obj[u].link # 0 => \/ h.obj[u].link = h.obj[u].traceno
                                  \/ h.obj[h.trace[h.obj[u].link]].root = 0
          /\ h.obj[u].root = 0 => u \in K
      BY <2>1, <1>1, <1>7, <1>12 DEF Kept
    <3>2. CASE u = w
      <4>1. /\ g.obj[u].link = n /\ g.obj[u].traceno = n /\ h.trace[n] = u
            /\ g.obj[u].root = h.obj[u].root /\ g.obj[u].nextroot = h.obj[u].nextroot
            /\ g.obj[u].nextside = h.obj[u].nextside /\ g.trace = h.trace
        BY <3>1, <3>2, <1>2, <1>6, <1>7 DEF w
      <4>2. g.trace[n] \in V
        BY <4>1, <2>1
      <4>. QED
        BY <3>1, <4>1, <4>2
    <3>3. CASE u # w
      <4>1. h.obj[u].link # 0 /\ h.obj[u].link # h.obj[u].traceno =>
              g.obj[g.trace[h.obj[u].link]].root = 0
        BY <3>1, <1>6, <1>7, <1>12
      <4>. QED
        BY <3>1, <3>3, <4>1, <1>6, <1>7
    <3>. QED
      BY <3>2, <3>3
  <2>2. \A u \in V : g.obj[u] # NULL
    BY <1>7, <1>12
  <2>3. /\ K \subseteq V /\ V \subseteq Ids
        /\ \A p \in Protos : g.chain[p] # 0 => g.trace[g.chain[p]] \in V
    BY <1>1, <1>6 DEF Kept
  <2>. QED
    BY <2>1, <2>2, <2>3 DEF Kept
<1>14. InTree(g, K)
  <2>1. \A u \in Ids : h.obj[u] # NULL => Home(g, u) = Home(h, u)
    BY <1>6, <1>7 DEF Home
  <2>2. \A u \in Ids : Has(g, u) <=> Has(h, u)
    BY <1>7 DEF Has
  <2>3. \A m, u : Names(g, m, u) <=> Names(h, m, u)
    BY <1>6 DEF Names
  <2>4. \A r, u : Beside(h, r, u) => Beside(g, r, u)
    <3>1. \A u \in Ids : Has(h, u) => g.obj[u].nextside = h.obj[u].nextside
      BY <1>7 DEF Has
    <3>. QED
      BY <3>1, <2>2, <2>3 DEF Beside
  <2>5. ASSUME NEW t \in K
        PROVE  /\ g.obj[t].traceno # 0
               /\ Home(g, t) \in K /\ g.obj[Home(g, t)].root = 0
               /\ Beside(g, Home(g, t), t)
               /\ \A u \in g.obj[t].jumps :
                    u \in K /\ (Home(g, u) = Home(g, t) \/ Names(g, g.obj[t].link, u))
    <3>1. /\ h.obj[t].traceno # 0 /\ Home(h, t) \in K /\ h.obj[Home(h, t)].root = 0
          /\ Beside(h, Home(h, t), t)
          /\ \A u \in h.obj[t].jumps :
               u \in K /\ (Home(h, u) = Home(h, t) \/ Names(h, h.obj[t].link, u))
      BY <1>1 DEF InTree
    <3>2. \A u \in K : u \in Ids /\ h.obj[u] # NULL
      BY <1>1, <1>12 DEF Kept
    <3>3. Home(g, t) = Home(h, t) /\ g.obj[t].jumps = h.obj[t].jumps
      BY <2>1, <3>2, <1>7
    <3>4. \A u : Names(h, h.obj[t].link, u) => Names(g, g.obj[t].link, u)
      <4>1. t \in Ids /\ h.obj[t] # NULL
        BY <3>2
      <4>2. CASE t = w
        BY <4>2, <1>2 DEF Names
      <4>3. CASE t # w
        <5>1. g.obj[t].link = h.obj[t].link
          BY <4>1, <4>3, <1>7
        <5>. QED
          BY <5>1, <2>3
      <4>. QED
        BY <4>2, <4>3
    <3>5. \A u \in h.obj[t].jumps : Home(g, u) = Home(h, u)
      BY <3>1, <3>2, <2>1
    <3>6. Beside(g, Home(g, t), t)
      BY <3>1, <3>3, <2>4
    <3>7. g.obj[t].traceno # 0 /\ g.obj[Home(g, t)].root = 0
      BY <3>1, <3>2, <3>3, <1>7
    <3>. QED
      BY <3>1, <3>3, <3>4, <3>5, <3>6, <3>7
  <2>. QED
    BY <2>5 DEF InTree
<1>15. mk => Marks(g, cs, bl)
  <2>. SUFFICES ASSUME Marks(h, cs, bl) PROVE Marks(g, cs, bl)
    BY DEF Sound
  <2>1. \A p \in Protos : OnChain(g, p) = OnChain(h, p)
    <3>. TAKE p \in Protos
    <3>1. PICK L : IsChain(h, p, L) /\ IsChain(g, p, L)
      BY <1>10
    <3>. QED
      BY <3>1, ChainIs
  <2>2. \A u \in Ids : Has(g, u) <=> Has(h, u)
    BY <1>7 DEF Has
  <2>3. \A m, u : Names(g, m, u) <=> Names(h, m, u)
    BY <1>6 DEF Names
  <2>4. \A u \in Ids : Off(g, u) <=> Off(h, u)
    <3>1. \A s \in Sites : ProtoOf[s] \in Protos
      BY Constants
    <3>. QED
      BY <3>1, <2>1, <1>7 DEF Off, On, Has
  <2>5. \A ts \in SUBSET Ids : Shadow(g, cs, ts) <=> Shadow(h, cs, ts)
    <3>1. \A u \in Ids : Off(h, u) => /\ g.obj[u].nextroot = h.obj[u].nextroot
                                      /\ g.obj[u].traceno = h.obj[u].traceno
      BY <1>7 DEF Off
    <3>. QED
      BY <3>1, <2>3, <2>4 DEF Shadow
  <2>6. ASSUME NEW t \in Ids, cs[t] = "black", Has(g, t), NEW u \in Ids,
               Names(g, g.obj[t].link, u) \/ Names(g, g.obj[t].nextside, u)
        PROVE  cs[u] # "white"
    <3>1. Has(h, t) /\ h.obj[t] # NULL
      BY <2>2, <2>6 DEF Has
    <3>2. CASE Names(h, h.obj[t].link, u) \/ Names(h, h.obj[t].nextside, u)
      BY <2>6, <3>1, <3>2 DEF Marks
    <3>3. CASE t = w /\ Names(g, n, u)
      <4>1. u = w
        BY <3>3, <1>6 DEF Names, w
      <4>. QED
        BY <4>1, <3>3, <2>6
    <3>. QED
      BY <2>3, <2>6, <3>1, <3>2, <3>3, <1>7
  <2>7. \A t \in Ids : Has(g, t) => g.obj[t].nextroot = h.obj[t].nextroot
    BY <1>7, <2>2 DEF Has
  <2>. QED
    BY <2>2, <2>3, <2>5, <2>6, <2>7, <1>6 DEF Marks
<1>. QED
  BY <1>6, <1>7, <1>8, <1>11, <1>13, <1>14, <1>15 DEF Sound, SelfLinked

\* What an abort leaves.
Aborted(h, g, V, K, mk, cs, bl) ==
  /\ Sound(g, V, K, mk, cs, bl) /\ g.curno = 0
  /\ \A u \in Ids : g.obj[u] = NULL <=> h.obj[u] = NULL

\* trace_abort, whatever was recorded, leaves a sound heap.
LEMMA AbortSound ==
  ASSUME NEW h, NEW V, NEW K, NEW mk, NEW cs, NEW bl \in SUBSET Protos,
         Sound(h, V, K, mk, cs, bl), Origin(h, rec), NEW g \in trace_abort(h)
  PROVE  /\ Aborted(h, g, V, K, mk, cs, bl)
         /\ rec.start # NULL /\ KindOf[rec.start] \in {"CALL", "RET"} => g.bc = h.bc
<1>1. PICK x \in Penalties(h) : g = Dropped(x)
  BY DEF trace_abort
<1>2. /\ Sound(x, V, K, mk, cs, bl)
      /\ \A u \in Ids : x.obj[u] = NULL <=> h.obj[u] = NULL
      /\ rec.start # NULL /\ KindOf[rec.start] \in {"CALL", "RET"} => x.bc = h.bc
  <2>1. CASE x = h
    BY <2>1
  <2>2. CASE FromSite(h, rec) /\ KindOf[rec.start] # "CALL" /\ KindOf[rec.start] # "RET"
                 /\ x = Despecialize(h, rec.start)
    <3>1. rec.start \in Sites /\ h.bc[rec.start] = Plain
      BY <2>2 DEF FromSite
    <3>2. Sound(x, V, K, mk, cs, bl) /\ x.obj = h.obj
      BY <2>2, <3>1, BarSound
    <3>. QED
      BY <2>2, <3>2
  <2>3. CASE FromSite(h, rec) /\ KindOf[rec.start] = "CALL"
                 /\ x = [h EXCEPT !.obj[h.trace[rec.exitno]].link = rec.exitno]
    <3>1. /\ rec.exitno \in Numbers /\ h.trace[rec.exitno] \in Ids
          /\ h.obj[h.trace[rec.exitno]].link = 0
      BY <2>3 DEF FromSite
    <3>2. x = Selfed(h, rec.exitno)
      BY <2>3 DEF Selfed
    <3>3. SelfLinked(h, x, V, K, mk, cs, bl)
      BY <3>1, <3>2, SelfLinkSound
    <3>. QED
      BY <3>3 DEF SelfLinked
  <2>4. CASE FromExit(h, rec)
    <3>1. rec.parent # 0
      BY <2>4, Constants DEF FromExit
    <3>. QED
      BY <3>1, <1>1, <2>1 DEF Penalties
  <2>5. CASE FromSite(h, rec)
    <3>1. rec.parent = 0 /\ (KindOf[rec.start] # "CALL" => rec.exitno = 0)
          /\ (KindOf[rec.start] = "CALL" => rec.exitno # 0)
      BY <2>5, Constants DEF FromSite
    <3>. QED
      BY <3>1, <1>1, <2>1, <2>2, <2>3, <2>5 DEF Penalties
  <2>6. CASE rec.parent = 0 /\ ~ Lost(h, {rec.exitno})
    <3>1. rec.root = 0 /\ {rec.parent, rec.root, rec.exitno} \ {0} = {rec.exitno} \ {0}
      BY <2>6 DEF Origin
    <3>2. FromExit(h, rec) \/ FromSite(h, rec)
      BY <2>6, <3>1 DEF Origin, Lost
    <3>. QED
      BY <2>4, <2>5, <3>2
  <2>7. CASE rec.parent # 0 \/ Lost(h, {rec.exitno})
    <3>1. x = h
      BY <1>1, <2>7 DEF Penalties, Lost
    <3>. QED
      BY <2>1, <3>1
  <2>. QED
    BY <2>6, <2>7
<1>3. Sound(g, V, K, mk, cs, bl) /\ g.obj = x.obj /\ g.curno = 0 /\ g.bc = x.bc
  BY <1>1, <1>2, DropSound
<1>. QED
  BY <1>2, <1>3 DEF Aborted
--------------------------------------------------------------------------------
(* Freeing a trace. *)

\* What is left when a trace that is not kept has been freed.
Freed(h, g, V, K, t, cs, bl) ==
  /\ Sound(g, V, K, FALSE, cs, bl)
  /\ g.bc = h.bc /\ g.chain = h.chain /\ g.curno = h.curno /\ g.obj[t] = NULL
  /\ \A u \in Ids : u # t => g.obj[u] = h.obj[u]
  /\ \A n \in Numbers : g.trace[n] = IF h.trace[n] = t THEN NULL ELSE h.trace[n]

\* The fields of the heap when a trace has been freed.
LEMMA FreeFields ==
  ASSUME NEW h \in Heaps, Registered(h), NEW t \in Ids, h.obj[t] # NULL,
         NEW g, g = lj_trace_free(h, t)
  PROVE  /\ g \in Heaps /\ g.bc = h.bc /\ g.chain = h.chain /\ g.iloop = h.iloop
         /\ g.curno = h.curno /\ g.obj[t] = NULL
         /\ \A u \in Ids : u # t => g.obj[u] = h.obj[u]
         /\ \A n \in Numbers :
              g.trace[n] = IF n = h.obj[t].traceno THEN NULL ELSE h.trace[n]
         /\ g.freetrace = IF h.obj[t].traceno # 0 /\ h.obj[t].traceno < h.freetrace
                          THEN h.obj[t].traceno ELSE h.freetrace
<1>. DEFINE n == h.obj[t].traceno
            o == [h.obj EXCEPT ![t] = NULL]
<1>1. h.obj[t] \in GCtrace /\ n \in 0..MAXTRACE
  BY HeapFields, TraceFields
<1>2. o \in [Ids -> GCtrace \cup {NULL}] /\ o[t] = NULL
      /\ \A u \in Ids : u # t => o[u] = h.obj[u]
  BY HeapFields
<1>. HIDE DEF o
<1>3. CASE n = 0
  <2>1. g = [h EXCEPT !.obj = o]
    BY <1>3 DEF lj_trace_free, Heaps, o
  <2>2. /\ g \in Heaps /\ g.obj = o /\ g.bc = h.bc /\ g.chain = h.chain
        /\ g.iloop = h.iloop /\ g.trace = h.trace /\ g.freetrace = h.freetrace
        /\ g.curno = h.curno
    BY <1>2, <2>1, ObjField
  <2>3. \A m \in Numbers : m # n
    BY <1>3, Constants
  <2>. QED
    BY <1>2, <1>3, <2>2, <2>3
<1>4. CASE n # 0
  <2>. DEFINE x == Release(h, n)
              f == IF n < h.freetrace THEN n ELSE h.freetrace
              tr == [h.trace EXCEPT ![n] = NULL]
  <2>. HIDE DEF n
  <2>1. n \in Numbers /\ n \in 0..MAXTRACE + 1 /\ f \in 0..MAXTRACE + 1
    BY <1>1, <1>4, Constants, HeapFields
  <2>2. x = [h EXCEPT !.trace = tr, !.freetrace = f]
    BY <2>1 DEF Release, Heaps
  <2>3. tr \in [Numbers -> Ids \cup {NULL, CUR}]
        /\ \A m \in Numbers : tr[m] = IF m = n THEN NULL ELSE h.trace[m]
    BY <2>1, HeapFields
  <2>. HIDE DEF tr, f
  <2>4. /\ x \in Heaps /\ x.trace = tr /\ x.freetrace = f /\ x.bc = h.bc
        /\ x.chain = h.chain /\ x.iloop = h.iloop /\ x.obj = h.obj
        /\ x.curno = h.curno
    BY <2>1, <2>2, <2>3 DEF Heaps
  <2>5. g = [x EXCEPT !.obj[t] = NULL]
    BY <1>4 DEF lj_trace_free, n
  <2>. HIDE DEF x
  <2>6. g = [x EXCEPT !.obj = o]
    BY <2>4, <2>5 DEF Heaps, o
  <2>7. /\ g \in Heaps /\ g.obj = o /\ g.bc = x.bc /\ g.chain = x.chain
        /\ g.iloop = x.iloop /\ g.trace = x.trace /\ g.freetrace = x.freetrace
        /\ g.curno = x.curno
    BY <1>2, <2>4, <2>6, ObjField
  <2>8. g.freetrace = IF n # 0 /\ n < h.freetrace THEN n ELSE h.freetrace
    BY <1>4, <2>4, <2>7 DEF f
  <2>. QED
    BY <1>2, <2>3, <2>4, <2>7, <2>8 DEF n
<1>. QED
  BY <1>3, <1>4

\* Freeing a trace that is not kept leaves a sound heap.
LEMMA FreeSound ==
  ASSUME NEW h, NEW V, NEW K, NEW cs, NEW bl,
         Sound(h, V, K, FALSE, cs, bl), NEW t \in Ids, t \notin V, h.obj[t] # NULL,
         NEW g, g = lj_trace_free(h, t)
  PROVE  Freed(h, g, V, K, t, cs, bl)
<1>. DEFINE n == h.obj[t].traceno
<1>1. /\ h \in Heaps /\ HeapInv(h) /\ Counted(h) /\ Kept(h, V, K) /\ InTree(h, K)
      /\ Registered(h) /\ Rooted(h) /\ Chained(h) /\ Barring(h)
  BY DEF Sound, HeapInv
<1>2. /\ g \in Heaps /\ g.bc = h.bc /\ g.chain = h.chain /\ g.iloop = h.iloop
      /\ g.curno = h.curno /\ g.obj[t] = NULL
      /\ \A u \in Ids : u # t => g.obj[u] = h.obj[u]
      /\ \A m \in Numbers : g.trace[m] = IF m = n THEN NULL ELSE h.trace[m]
      /\ g.freetrace = IF n # 0 /\ n < h.freetrace THEN n ELSE h.freetrace
  BY <1>1, FreeFields
<1>3. n \in 0..MAXTRACE /\ h.freetrace \in 0..MAXTRACE + 1 /\ h.curno \in 0..MAXTRACE
  BY <1>1, HeapFields, TraceFields
<1>4. \A m \in Numbers : m = n <=> h.trace[m] = t
  BY <1>1 DEF Registered
<1>5. \A m \in Numbers : g.trace[m] = IF h.trace[m] = t THEN NULL ELSE h.trace[m]
  BY <1>2, <1>4
<1>. HIDE DEF n
<1>6. Registered(g)
  <2>1. ASSUME NEW m \in Numbers, NEW u \in Ids
        PROVE  g.trace[m] = u <=> g.obj[u] # NULL /\ g.obj[u].traceno = m
    <3>1. h.trace[m] = u <=> h.obj[u] # NULL /\ h.obj[u].traceno = m
      BY <1>1 DEF Registered
    <3>2. CASE u = t
      BY <3>2, <1>2, <1>5, Constants
    <3>3. CASE u # t
      BY <3>1, <3>3, <1>2, <1>5, Constants
    <3>. QED
      BY <3>2, <3>3
  <2>2. \A m \in Numbers : g.trace[m] = CUR => g.curno = m
    BY <1>1, <1>2, <1>5, Constants DEF Registered
  <2>. QED
    BY <2>1, <2>2 DEF Registered
<1>7. Rooted(g)
  BY <1>1, <1>2 DEF Rooted
<1>8. Barring(g)
  BY <1>1, <1>2 DEF Barring
<1>9. Counted(g)
  <2>1. g.curno # 0 => g.trace[g.curno] = CUR
    <3>. SUFFICES ASSUME h.curno # 0 PROVE g.trace[h.curno] = CUR
      BY <1>2
    <3>1. h.curno \in Numbers /\ h.trace[h.curno] = CUR /\ CUR # t
      BY <1>1, <1>3, Constants DEF Counted
    <3>. QED
      BY <3>1, <1>5
  <2>2. ASSUME NEW m \in 1..g.freetrace - 1 PROVE g.trace[m] # NULL
    <3>1. m \in 1..h.freetrace - 1 /\ m # n /\ m \in 1..MAXTRACE
      BY <1>2, <1>3, Constants
    <3>2. m \in Numbers /\ h.trace[m] # NULL
      BY <3>1, <1>1, Constants DEF Counted
    <3>. QED
      BY <3>1, <3>2, <1>2
  <2>. QED
    BY <2>1, <2>2 DEF Counted
<1>10. ASSUME NEW p \in Protos
       PROVE  \E L : IsChain(g, p, L) /\ Led(g, p, L)
  <2>1. PICK L : IsChain(h, p, L) /\ Led(h, p, L)
    BY <1>1 DEF Chained
  <2>2. ASSUME NEW m \in Range(L)
        PROVE  g.trace[m] = h.trace[m] /\ g.obj[g.trace[m]] = h.obj[h.trace[m]]
    <3>1. h.trace[m] \in V /\ h.trace[m] \in Ids /\ m \in Numbers
      BY <1>1, <2>1, ChainKept, ChainTrace
    <3>. QED
      BY <3>1, <1>2, <1>5
  <2>3. \A i \in DOMAIN L : L[i] \in Range(L)
    BY DEF Range
  <2>4. IsChain(g, p, L)
    <3>1. /\ L \in Seq(Numbers) /\ IsInjective(L)
          /\ g.chain[p] = IF L = <<>> THEN 0 ELSE L[1]
      BY <2>1, <1>2 DEF IsChain
    <3>2. ASSUME NEW i \in DOMAIN L
          PROVE  /\ g.trace[L[i]] \in Ids
                 /\ g.obj[g.trace[L[i]]].root = 0
                 /\ ProtoOf[g.obj[g.trace[L[i]]].start] = p
                 /\ g.obj[g.trace[L[i]]].nextroot =
                      IF i = Len(L) THEN 0 ELSE L[i + 1]
      <4>1. /\ h.trace[L[i]] \in Ids
            /\ h.obj[h.trace[L[i]]].root = 0
            /\ ProtoOf[h.obj[h.trace[L[i]]].start] = p
            /\ h.obj[h.trace[L[i]]].nextroot =
                 IF i = Len(L) THEN 0 ELSE L[i + 1]
        BY <2>1 DEF IsChain
      <4>2. /\ g.trace[L[i]] = h.trace[L[i]]
            /\ g.obj[g.trace[L[i]]] = h.obj[h.trace[L[i]]]
        BY <2>2, <2>3
      <4>. QED
        BY <4>1, <4>2
    <3>. QED
      BY <3>1, <3>2 DEF IsChain
  <2>5. Led(g, p, L)
    BY <2>1, <2>2, <1>2 DEF Led
  <2>. QED
    BY <2>4, <2>5
<1>11. HeapInv(g)
  BY <1>2, <1>6, <1>7, <1>8, <1>10 DEF HeapInv, Chained
<1>12. /\ K \subseteq V /\ V \subseteq Ids
       /\ \A u \in V : u # t /\ h.obj[u] # NULL /\ g.obj[u] = h.obj[u] /\ h.obj[u] \in GCtrace
  BY <1>1, <1>2, HeapFields DEF Kept
<1>13. ASSUME NEW m \in 0..MAXTRACE, m # 0, h.trace[m] \in V
       PROVE  g.trace[m] = h.trace[m]
  BY <1>13, <1>5, Constants
<1>14. Kept(g, V, K)
  <2>1. ASSUME NEW u \in V, g.obj[u].traceno # 0
        PROVE  /\ \A m \in {g.obj[u].link, g.obj[u].nextroot, g.obj[u].nextside} :
                    m # 0 => g.trace[m] \in V
               /\ g.obj[u].link # 0 =>
                    g.obj[u].link = g.obj[u].traceno \/ g.obj[g.trace[g.obj[u].link]].root = 0
               /\ g.obj[u].root = 0 => u \in K
    <3>1. /\ \A m \in {h.obj[u].link, h.obj[u].nextroot, h.obj[u].nextside} :
               m # 0 => h.trace[m] \in V
          /\ h.obj[u].link # 0 =>
               h.obj[u].link = h.obj[u].traceno \/ h.obj[h.trace[h.obj[u].link]].root = 0
          /\ h.obj[u].root = 0 => u \in K
      BY <2>1, <1>1, <1>12 DEF Kept
    <3>2. /\ h.obj[u].link \in 0..MAXTRACE /\ h.obj[u].nextroot \in 0..MAXTRACE
          /\ h.obj[u].nextside \in 0..MAXTRACE
      BY <1>12, TraceFields
    <3>3. \A m \in {h.obj[u].link, h.obj[u].nextroot, h.obj[u].nextside} :
            m # 0 => g.trace[m] = h.trace[m]
      BY <3>1, <3>2, <1>13
    <3>. QED
      BY <3>1, <3>3, <1>12
  <2>2. \A p \in Protos : g.chain[p] # 0 => g.trace[g.chain[p]] \in V
    <3>. SUFFICES ASSUME NEW p \in Protos, h.chain[p] # 0 PROVE g.trace[h.chain[p]] \in V
      BY <1>2
    <3>1. h.trace[h.chain[p]] \in V /\ h.chain[p] \in 0..MAXTRACE
      BY <1>1, HeapFields DEF Kept
    <3>. QED
      BY <3>1, <1>13
  <2>3. \A u \in V : g.obj[u] # NULL
    BY <1>12
  <2>. QED
    BY <2>1, <2>2, <2>3, <1>12 DEF Kept
<1>15. InTree(g, K)
  <2>1. ASSUME NEW u \in V, NEW v \in V, NEW m \in 0..MAXTRACE, Names(h, m, v)
        PROVE  Names(g, m, v)
    BY <2>1, <1>13 DEF Names
  <2>2. ASSUME NEW u \in K
        PROVE  Home(h, u) \in K /\ Home(g, u) = Home(h, u)
    <3>1. Home(h, u) \in K /\ Home(h, u) \in V /\ u \in V /\ h.obj[u].root \in 0..MAXTRACE
      BY <1>1, <1>12, TraceFields DEF InTree
    <3>. QED
      BY <3>1, <1>12, <1>13 DEF Home
  <2>3. ASSUME NEW r \in V, NEW x \in V, Beside(h, r, x) PROVE Beside(g, r, x)
    <3>. SUFFICES ASSUME NEW ts \in SUBSET Ids, r \in ts,
                         \A u \in ts, v \in Ids :
                           Has(g, u) /\ Names(g, g.obj[u].nextside, v) => v \in ts
                  PROVE  x \in ts
      BY DEF Beside
    <3>1. ASSUME NEW u \in ts \cap V, NEW v \in Ids, Has(h, u), Names(h, h.obj[u].nextside, v)
          PROVE  v \in ts \cap V
      <4>1. h.obj[u].traceno # 0 /\ h.obj[u].nextside # 0 /\ h.trace[h.obj[u].nextside] = v
        BY <3>1 DEF Has, Names
      <4>2. v \in V /\ h.obj[u].nextside \in 0..MAXTRACE
        BY <4>1, <1>1, <1>12, TraceFields DEF Kept
      <4>3. Has(g, u) /\ Names(g, g.obj[u].nextside, v)
        BY <4>1, <4>2, <1>12, <1>13 DEF Has, Names
      <4>. QED
        BY <4>2, <4>3
    <3>2. ts \cap V \in SUBSET Ids /\ r \in ts \cap V
      OBVIOUS
    <3>3. x \in ts \cap V
      BY <3>1, <3>2, <2>3 DEF Beside
    <3>. QED
      BY <3>3
  <2>4. ASSUME NEW u \in K
        PROVE  /\ g.obj[u].traceno # 0
               /\ Home(g, u) \in K /\ g.obj[Home(g, u)].root = 0
               /\ Beside(g, Home(g, u), u)
               /\ \A v \in g.obj[u].jumps :
                    v \in K /\ (Home(g, v) = Home(g, u) \/ Names(g, g.obj[u].link, v))
    <3>1. /\ h.obj[u].traceno # 0 /\ h.obj[Home(h, u)].root = 0
          /\ Beside(h, Home(h, u), u)
          /\ \A v \in h.obj[u].jumps :
               v \in K /\ (Home(h, v) = Home(h, u) \/ Names(h, h.obj[u].link, v))
      BY <1>1 DEF InTree
    <3>2. Home(h, u) \in K /\ Home(g, u) = Home(h, u) /\ g.obj[u] = h.obj[u]
          /\ g.obj[Home(h, u)] = h.obj[Home(h, u)] /\ h.obj[u].link \in 0..MAXTRACE
      BY <2>2, <1>12, TraceFields
    <3>3. Beside(g, Home(g, u), u)
      BY <3>1, <3>2, <2>3, <1>12
    <3>4. ASSUME NEW v \in h.obj[u].jumps
          PROVE  v \in K /\ (Home(g, v) = Home(g, u) \/ Names(g, h.obj[u].link, v))
      <4>1. v \in K /\ v \in V /\ Home(g, v) = Home(h, v)
        BY <3>1, <2>2, <1>12
      <4>2. Names(h, h.obj[u].link, v) => Names(g, h.obj[u].link, v)
        BY <4>1, <3>2, <2>1
      <4>. QED
        BY <3>1, <3>2, <4>1, <4>2
    <3>. QED
      BY <3>1, <3>2, <3>3, <3>4
  <2>. QED
    BY <2>4 DEF InTree
<1>. QED
  BY <1>2, <1>5, <1>9, <1>11, <1>14, <1>15 DEF Sound, Freed
--------------------------------------------------------------------------------
(* Marking. *)

\* Marking: a trace that becomes black was gray, and what it names is marked.
Names3(h, t, u) ==
  \/ Names(h, h.obj[t].link, u) \/ Names(h, h.obj[t].nextside, u)
  \/ Names(h, h.obj[t].nextroot, u)
Darker(h, cs, bl, cs2, bl2) ==
  /\ \A t \in Ids : cs[t] # "white" => cs2[t] # "white"
  /\ \A t \in Ids : cs[t] = "black" => cs2[t] = "black"
  /\ \A t \in Ids : cs2[t] = "black" /\ cs[t] # "black" /\ Has(h, t) =>
       \A u \in Ids : Names3(h, t, u) => cs2[u] # "white"
  /\ \A p \in bl2 : p \notin bl =>
       \A u \in Ids : Names(h, h.chain[p], u) => cs2[u] # "white"

\* Marking keeps the promise of the colours.
LEMMA DarkerMarks ==
  ASSUME NEW h, NEW cs, NEW bl, Marks(h, cs, bl),
         NEW cs2 \in [Ids -> {"white", "gray", "black"}], NEW bl2,
         Darker(h, cs, bl, cs2, bl2)
  PROVE  Marks(h, cs2, bl2)
<1>1. ASSUME NEW t \in Ids, cs2[t] = "black", Has(h, t), NEW u \in Ids,
             Names(h, h.obj[t].link, u) \/ Names(h, h.obj[t].nextside, u)
      PROVE  cs2[u] # "white"
  <2>1. CASE cs[t] = "black"
    <3>1. cs[u] # "white"
      BY <1>1, <2>1 DEF Marks
    <3>. QED
      BY <3>1 DEF Darker
  <2>2. CASE cs[t] # "black"
    BY <1>1, <2>2 DEF Darker, Names3
  <2>. QED
    BY <2>1, <2>2
<1>2. ASSUME NEW ts \in SUBSET Ids, Shadow(h, cs2, ts)
      PROVE  /\ \A p \in bl2, u \in Ids : Names(h, h.chain[p], u) => Found(cs2, ts, u)
             /\ \A t \in Ids : cs2[t] = "black" /\ Has(h, t) =>
                  \A u \in Ids : Names(h, h.obj[t].nextroot, u) => Found(cs2, ts, u)
  <2>. DEFINE us == ts \cup {v \in Ids : cs2[v] # "white"}
  <2>1. Shadow(h, cs, us)
    <3>. SUFFICES ASSUME NEW t \in Ids, Off(h, t)
                  PROVE  /\ cs[t] = "gray" => t \in us
                         /\ t \in us /\ cs[t] # "black" /\ h.obj[t].traceno # 0 =>
                              \A u \in Ids : Names(h, h.obj[t].nextroot, u) => u \in us
      BY DEF Shadow
    <3>1. cs[t] = "gray" => t \in us
      BY DEF Darker
    <3>2. ASSUME t \in us, cs[t] # "black", h.obj[t].traceno # 0,
                 NEW u \in Ids, Names(h, h.obj[t].nextroot, u)
          PROVE  u \in us
      <4>1. CASE cs2[t] = "black"
        <5>1. Has(h, t)
          BY <3>2 DEF Has, Off
        <5>2. Names3(h, t, u)
          BY <3>2 DEF Names3
        <5>3. cs2[u] # "white"
          BY <5>1, <5>2, <4>1, <3>2 DEF Darker
        <5>. QED
          BY <5>3
      <4>2. CASE cs2[t] # "black"
        <5>1. t \in ts
          <6>1. t \in ts \/ cs2[t] = "gray"
            BY <3>2, <4>2
          <6>. QED
            BY <6>1, <1>2 DEF Shadow
        <5>2. u \in ts
          BY <5>1, <4>2, <3>2, <1>2 DEF Shadow
        <5>. QED
          BY <5>2
      <4>. QED
        BY <4>1, <4>2
    <3>. QED
      BY <3>1, <3>2
  <2>2. us \in SUBSET Ids
    OBVIOUS
  <2>3. \A u \in Ids : Found(cs, us, u) => Found(cs2, ts, u)
    BY DEF Found, Darker
  <2>. HIDE DEF us
  <2>4. /\ \A p \in bl, u \in Ids : Names(h, h.chain[p], u) => Found(cs, us, u)
        /\ \A t \in Ids : cs[t] = "black" /\ Has(h, t) =>
             \A u \in Ids : Names(h, h.obj[t].nextroot, u) => Found(cs, us, u)
    BY <2>1, <2>2 DEF Marks
  <2>5. ASSUME NEW p \in bl2, NEW u \in Ids, Names(h, h.chain[p], u)
        PROVE  Found(cs2, ts, u)
    <3>1. CASE p \in bl
      BY <3>1, <2>3, <2>4, <2>5
    <3>2. CASE p \notin bl
      BY <3>2, <2>5 DEF Darker, Found
    <3>. QED
      BY <3>1, <3>2
  <2>6. ASSUME NEW t \in Ids, cs2[t] = "black", Has(h, t),
               NEW u \in Ids, Names(h, h.obj[t].nextroot, u)
        PROVE  Found(cs2, ts, u)
    <3>1. CASE cs[t] = "black"
      BY <3>1, <2>3, <2>4, <2>6
    <3>2. CASE cs[t] # "black"
      BY <3>2, <2>6 DEF Darker, Names3, Found
    <3>. QED
      BY <3>1, <3>2
  <2>. QED
    BY <2>5, <2>6
<1>. QED
  BY <1>1, <1>2 DEF Marks

\* A heap is sound while it is being marked.
LEMMA DarkerSound ==
  ASSUME NEW h, NEW V, NEW K, NEW mk, NEW cs, NEW bl, Sound(h, V, K, mk, cs, bl),
         NEW cs2 \in [Ids -> {"white", "gray", "black"}], NEW bl2,
         Darker(h, cs, bl, cs2, bl2)
  PROVE  Sound(h, V, K, mk, cs2, bl2)
<1>. SUFFICES ASSUME mk PROVE Marks(h, cs2, bl2)
  BY DEF Sound
<1>1. Marks(h, cs, bl)
  BY DEF Sound
<1>. QED
  BY <1>1, DarkerMarks

\* A set that is closed under names, and has the heads of the chains in it.
NameClosed(h, V, B) ==
  /\ \A t \in V \cap B : Has(h, t) => \A u \in Ids : Names3(h, t, u) => u \in B
  /\ \A p \in Protos, u \in Ids : Names(h, h.chain[p], u) => u \in B
Homely(h, K, B) == {t \in K \cap B : Home(h, t) \in B}

\* What is kept may be narrowed to what is closed under names, as the atomic phase
\* of the collector narrows it to what is black.
LEMMA NarrowSound ==
  ASSUME NEW h, NEW V, NEW K, NEW cs, NEW bl, Sound(h, V, K, FALSE, cs, bl),
         NEW B, NameClosed(h, V, B), NEW cs2, NEW bl2
  PROVE  Sound(h, V \cap B, Homely(h, K, B), FALSE, cs2, bl2)
<1>. DEFINE W == V \cap B
            H == Homely(h, K, B)
<1>1. HeapInv(h) /\ Counted(h) /\ Kept(h, V, K) /\ InTree(h, K)
  BY DEF Sound
<1>2. K \subseteq V /\ V \subseteq Ids /\ H \subseteq W /\ H \subseteq K
  BY <1>1 DEF Kept, Homely
<1>3. ASSUME NEW t \in W, h.obj[t].traceno # 0,
             NEW n \in {h.obj[t].link, h.obj[t].nextroot, h.obj[t].nextside}, n # 0
      PROVE  h.trace[n] \in W
  <2>1. Has(h, t) /\ h.trace[n] \in V /\ h.trace[n] \in Ids
    BY <1>1, <1>2, <1>3 DEF Kept, Has
  <2>2. Names3(h, t, h.trace[n])
    BY <1>3 DEF Names3, Names
  <2>. QED
    BY <2>1, <2>2 DEF NameClosed
<1>4. ASSUME NEW t \in K, Home(h, t) = t, t \in B
      PROVE  t \in H
  BY <1>4 DEF Homely
<1>5. Kept(h, W, H)
  <2>1. \A t \in W : h.obj[t].traceno # 0 =>
          /\ h.obj[t].link # 0 => \/ h.obj[t].link = h.obj[t].traceno
                                  \/ h.obj[h.trace[h.obj[t].link]].root = 0
          /\ h.obj[t].root = 0 => t \in K
    BY <1>1 DEF Kept
  <2>2. \A t \in W : h.obj[t].traceno # 0 /\ h.obj[t].root = 0 => t \in H
    BY <2>1, <1>4 DEF Home
  <2>3. ASSUME NEW p \in Protos, h.chain[p] # 0 PROVE h.trace[h.chain[p]] \in W
    <3>1. h.trace[h.chain[p]] \in V /\ h.trace[h.chain[p]] \in Ids
      BY <2>3, <1>1, <1>2 DEF Kept
    <3>. QED
      BY <3>1, <2>3 DEF NameClosed, Names
  <2>4. \A t \in W : h.obj[t] # NULL
    BY <1>1 DEF Kept
  <2>. QED
    BY <1>2, <1>3, <2>1, <2>2, <2>3, <2>4 DEF Kept
<1>6. ASSUME NEW r \in W, NEW x, Beside(h, r, x)
      PROVE  x \in W
  <2>1. ASSUME NEW u \in W, NEW v \in Ids, Has(h, u), Names(h, h.obj[u].nextside, v)
        PROVE  v \in W
    BY <2>1, <1>3 DEF Has, Names
  <2>2. W \in SUBSET Ids
    BY <1>2
  <2>. QED
    BY <2>1, <2>2, <1>6 DEF Beside
<1>7. InTree(h, H)
  <2>1. ASSUME NEW t \in H
        PROVE  /\ h.obj[t].traceno # 0
               /\ Home(h, t) \in H /\ h.obj[Home(h, t)].root = 0
               /\ Beside(h, Home(h, t), t)
               /\ \A u \in h.obj[t].jumps :
                    u \in H /\ (Home(h, u) = Home(h, t) \/ Names(h, h.obj[t].link, u))
    <3>1. /\ h.obj[t].traceno # 0 /\ Home(h, t) \in K
          /\ h.obj[Home(h, t)].root = 0 /\ Beside(h, Home(h, t), t)
          /\ \A u \in h.obj[t].jumps :
               u \in K /\ (Home(h, u) = Home(h, t) \/ Names(h, h.obj[t].link, u))
      BY <1>1, <1>2 DEF InTree
    <3>2. Home(h, t) \in B /\ t \in W /\ Home(h, t) \in W
      BY <3>1, <1>2 DEF Homely
    <3>3. Home(h, t) \in H
      BY <3>1, <3>2, <1>4 DEF Home
    <3>4. ASSUME NEW u \in h.obj[t].jumps PROVE u \in H
      <4>1. CASE Home(h, u) = Home(h, t)
        <5>1. Beside(h, Home(h, t), u) /\ u \in K
          BY <3>1, <4>1, <1>1 DEF InTree
        <5>2. u \in W
          BY <5>1, <3>2, <1>6
        <5>. QED
          BY <5>1, <5>2, <4>1, <3>2 DEF Homely
      <4>2. CASE Names(h, h.obj[t].link, u)
        <5>1. u \in K /\ h.obj[t].link # 0 /\ h.trace[h.obj[t].link] = u
          BY <3>1, <4>2 DEF Names
        <5>2. u \in W
          BY <5>1, <3>1, <3>2, <1>3
        <5>3. h.obj[t].link = h.obj[t].traceno \/ h.obj[u].root = 0
          BY <5>1, <3>1, <3>2, <1>1 DEF Kept
        <5>4. CASE h.obj[u].root = 0
          BY <5>1, <5>2, <5>4, <1>4 DEF Home
        <5>5. CASE h.obj[t].link = h.obj[t].traceno
          <6>1. h \in Heaps /\ t \in Ids /\ h.obj[t] # NULL /\ h.obj[t].traceno \in Numbers
            BY <3>1, <3>2, <1>1, <1>2, HeapFields, TraceFields, Constants DEF HeapInv, Kept
          <6>2. h.trace[h.obj[t].traceno] = t
            BY <6>1, <1>1 DEF HeapInv, Registered
          <6>. QED
            BY <6>2, <5>1, <5>5
        <5>. QED
          BY <5>3, <5>4, <5>5
      <4>. QED
        BY <3>1, <4>1, <4>2
    <3>. QED
      BY <3>1, <3>3, <3>4
  <2>. QED
    BY <2>1 DEF InTree
<1>. QED
  BY <1>1, <1>5, <1>7 DEF Sound
================================================================================
