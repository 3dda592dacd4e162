---------------------------- MODULE Finalizer_proof ----------------------------
(* Theorems about Finalizer for any userdata, metatables and callables, in the *)
(* programs that are Careful.                                                  *)
EXTENDS Finalizer, ListLemmas, FiniteSetTheorems, TLAPS

-------------------------------------------------------------------------------
(* The inductive invariant *)

\* The programs that fin_run is about: no full collection while userdata are
\* queued or being queued, none from the finalizers of lua_close.
Careful == ~LateFullGC /\ ~CloseCollect

Frame == [kind : {"fin", "finish", "cycle"}, u : Udata \cup {None}]

\* The userdata and metatables Lua code can name.
Handles == held \cup Running \cup wkeys \cup wvals

\* Types, with what the lists and the control stack consist of.  Only a userdata
\* with a __gc is queued or finalized, and a metatable is set once.
Lists ==
  /\ cand \in Seq(Udata) /\ queue \in Seq(Udata) /\ born \in Seq(Udata)
  /\ IsInjective(born)
  /\ Range(cand) \cup Range(queue) \subseteq Range(born)
Created ==
  /\ (alloc \cup Handles) \cap Udata \subseteq Range(born)
  /\ \A u \in Udata \ Range(born) : mt[u] = None
Stack ==
  /\ frames \in Seq(Frame)
  /\ \A u \in Range(queue) \cup Running : mt[u] \in Meta
  /\ phase # "done" => rounds < MaxRounds
  /\ phase # "astray"
Typed == TypeOK /\ Lists /\ Created /\ Stack

\* What has not been created, is a candidate or is queued was never finalized.
Uncalled ==
  \A u \in Udata :
    u \in Range(cand) \cup Range(queue) \/ u \notin Range(born) => calls[u] = 0

\* o is in A, and so is what it refers to.
Whole(o, A) ==
  /\ o \in A
  /\ o \in hasgc => GcOf[o] \in A
  /\ o \in Udata /\ mt[o] # None =>
       mt[o] \in A /\ (mt[o] \in hasgc => GcOf[mt[o]] \in A)

\* What the lists in X, Lua code and running finalizers need is in A.
Intact(X, A) ==
  /\ \A o \in X \cup Handles : Whole(o, A)
  /\ \A u \in Running : GcOf[mt[u]] \in A

\* None of it has been freed, nor will the sweep that is going on free it.
Present == phase # "done" => Intact(Range(queue) \cup Range(cand), alloc)
Spared ==
  phase = "run" => Intact(Range(queue) \cup (Range(cand) \ dead), alloc \ dead)

Pos(c) == Place(cand, c)

\* Dead candidates lie ahead of the cursor of the candidate sweep.
Scanned ==
  /\ cursor \in Range(born) \cup {None}
  /\ gcstate # "sweepudata" => Range(cand) \cap dead = {}
  /\ gcstate = "sweepudata" =>
       \A i \in DOMAIN cand :
         cand[i] \in dead => OnSegment(cursor) /\ Pos(cursor) < i

\* Which phases find objects dead, and where the cursors are.
Deaths ==
  phase = "run" /\ gcstate \in {"pause", "mark", "finalize"} => dead = {}
Cursors ==
  /\ stale = {}
  /\ phase = "run" =>
       /\ gcstate = "sweepudata" => OnSegment(cursor) /\ rcursor = None
       /\ gcstate = "sweep" => OnSegment(rcursor)

\* Nobody refers to a queued userdata, and none is queued when a cycle starts.
Queued ==
  phase = "run" =>
    /\ Range(queue) \cap Handles = {}
    /\ gcstate \in {"pause", "mark"} => queue = <<>>

\* lua_close runs finalizers only; the first half of a full collection calls no
\* finalizer and queues nothing.
Nesting ==
  /\ phase # "run" => \A f \in Range(frames) : f.kind = "fin"
  /\ phase = "done" => frames = <<>>
  /\ \A i \in DOMAIN frames :
       frames[i].kind = "finish" =>
         /\ i = Len(frames)
         /\ queue = <<>> /\ gcstate \in {"sweep", "finalize", "pause"}

\* The segment and the queue are in the order of creation, newest first, and
\* the candidates which will be queued are older than those which are.
Ordered ==
  /\ Reverses(cand, born)
  /\ phase = "run" => Reverses(queue, born)
  /\ phase = "run" /\ gcstate = "sweepudata" =>
       \A q \in Range(queue), u \in Range(cand) \cap dead : Place(born, q) > Place(born, u)

Sound == Present /\ Spared /\ Deaths /\ Cursors /\ Queued /\ Nesting /\ Ordered
IInv == Typed /\ FinalizedOnce /\ Uncalled /\ Scanned /\ Sound

-------------------------------------------------------------------------------
(* The control stack, the cursors and the steps that have several outcomes *)

Udatas(fs) == {f.u : f \in Range(fs)} \ {None}

LEMMA FrameLemma ==
  ASSUME NEW fs \in Seq(Frame)
  PROVE  /\ \A u \in Udata : /\ Append(fs, Fin(u)) \in Seq(Frame)
                             /\ Udatas(Append(fs, Fin(u))) = Udatas(fs) \cup {u}
         /\ \A k \in {"finish", "cycle"} :
              /\ Append(fs, Full(k)) \in Seq(Frame)
              /\ Udatas(Append(fs, Full(k))) = Udatas(fs)
         /\ fs # <<>> => /\ Front(fs) \in Seq(Frame)
                         /\ Udatas(Front(fs)) \subseteq Udatas(fs)
         /\ Udatas(fs) \subseteq Udata
  <1>1. ASSUME NEW u \in Udata
        PROVE  /\ Append(fs, Fin(u)) \in Seq(Frame)
               /\ Udatas(Append(fs, Fin(u))) = Udatas(fs) \cup {u}
    <2>1. Fin(u) \in Frame /\ Fin(u).u = u /\ u # None
      BY NoneAssumption DEF Fin, Frame
    <2>2. /\ Append(fs, Fin(u)) \in Seq(Frame)
          /\ Range(Append(fs, Fin(u))) = Range(fs) \cup {Fin(u)}
      BY <2>1, Appended
    <2> QED BY <2>1, <2>2 DEF Udatas
  <1>2. ASSUME NEW k \in {"finish", "cycle"}
        PROVE  /\ Append(fs, Full(k)) \in Seq(Frame)
               /\ Udatas(Append(fs, Full(k))) = Udatas(fs)
    <2>1. Full(k) \in Frame /\ Full(k).u = None
      BY DEF Full, Frame
    <2>2. /\ Append(fs, Full(k)) \in Seq(Frame)
          /\ Range(Append(fs, Full(k))) = Range(fs) \cup {Full(k)}
      BY <2>1, Appended
    <2> QED BY <2>1, <2>2 DEF Udatas
  <1>3. ASSUME fs # <<>>
        PROVE  Front(fs) \in Seq(Frame) /\ Udatas(Front(fs)) \subseteq Udatas(fs)
    BY <1>3, WithoutLast DEF Udatas
  <1>4. Udatas(fs) \subseteq Udata
    <2>1. Range(fs) \subseteq Frame
      BY DEF Range
    <2> QED BY <2>1 DEF Udatas, Frame
  <1> QED BY <1>1, <1>2, <1>3, <1>4

LEMMA RunningIs == Running = Udatas(frames)
  BY DEF Running, Udatas

\* What lies ahead of a cursor.
LEMMA AheadLemma ==
  ASSUME Typed, NEW c
  PROVE  /\ Pos(c) \in 0..Len(cand) /\ Len(cand) \in Nat
         /\ Len(Ahead(c)) = Len(cand) - Pos(c)
         /\ Ahead(c) # <<>> => /\ Pos(c) < Len(cand)
                               /\ Head(Ahead(c)) = cand[Pos(c) + 1]
  <1>1. cand \in Seq(Udata) /\ IsInjective(cand) /\ Len(cand) \in Nat
    BY DEF Typed, TypeOK, Lists
  <1>2. Pos(c) \in 0..Len(cand)
    BY <1>1, Position DEF Pos
  <1>3. Ahead(c) = SubSeq(cand, Pos(c) + 1, Len(cand))
    BY DEF Ahead, Pos, Place
  <1> DEFINE p == Pos(c)
  <1>4. \A i \in (p + 1)..Len(cand) : cand[i] \in Udata
    BY <1>1, <1>2, ElementOfSeq
  <1>5. /\ Ahead(c) \in Seq(Udata)
        /\ Len(Ahead(c)) =
             IF p + 1 <= Len(cand) THEN Len(cand) - (p + 1) + 1 ELSE 0
        /\ \A i \in 1..(Len(cand) - (p + 1) + 1) :
             Ahead(c)[i] = cand[(p + 1) + i - 1]
    BY <1>1, <1>2, <1>3, <1>4, SubSeqProperties
  <1> HIDE DEF p
  <1>6. p \in Nat /\ p <= Len(cand)
    BY <1>1, <1>2 DEF p
  <1>7. Len(Ahead(c)) = Len(cand) - p
    <2>1. ASSUME NEW l, NEW n \in Nat, l = IF p + 1 <= n THEN n - (p + 1) + 1 ELSE 0,
                 p <= n
          PROVE  l = n - p
      BY ONLY <1>6, <2>1
    <2> QED BY <1>1, <1>5, <1>6, <2>1
  <1>8. ASSUME Ahead(c) # <<>>
        PROVE  p < Len(cand) /\ Head(Ahead(c)) = cand[p + 1]
    <2>1. Len(Ahead(c)) # 0
      BY <1>5, <1>8, EmptySeq
    <2>2. p < Len(cand)
      BY <1>1, <1>6, <1>7, <2>1
    <2>3. 1 \in 1..(Len(cand) - (p + 1) + 1) /\ (p + 1) + 1 - 1 = p + 1
      BY <1>1, <1>6, <2>2
    <2>4. Head(Ahead(c)) = Ahead(c)[1]
      BY <1>5, <1>8, HeadTailProperties
    <2> QED BY <1>5, <2>2, <2>3, <2>4
  <1> QED BY <1>1, <1>2, <1>7, <1>8 DEF p

\* A step of the candidate sweep: nothing is left to scan, or the candidate
\* behind the cursor is.
LEMMA SweepCases ==
  ASSUME Typed, SweepUdata, OnSegment(cursor)
  PROVE  \/ /\ UNCHANGED <<alloc, dead, cand, cursor, queue, rcursor, finalized, stale>>
            /\ gcstate' = "sweep"
            /\ Pos(cursor) = Len(cand)
         \/ \E n \in 1..Len(cand) :
              /\ n = Pos(cursor) + 1
              /\ Scan(cand[n])
              /\ gcstate' = IF n = Len(cand) THEN "sweep" ELSE "sweepudata"
              /\ UNCHANGED <<stale, rcursor>>
  <1> DEFINE p == Pos(cursor)
  <1>1. /\ p \in 0..Len(cand) /\ Len(cand) \in Nat
        /\ Len(Ahead(cursor)) = Len(cand) - p
        /\ Ahead(cursor) # <<>> => /\ p < Len(cand)
                                   /\ Head(Ahead(cursor)) = cand[p + 1]
    BY AheadLemma
  <1>2. gcstate = "sweepudata"
    BY DEF SweepUdata
  <1> HIDE DEF p
  <1>3. gcstate' = IF Len(cand) - p <= 1 THEN "sweep" ELSE "sweepudata"
    BY <1>1, <1>2 DEF SweepUdata
  <1>5. CASE Ahead(cursor) = <<>>
    <2>1. p = Len(cand)
      BY <1>1, <1>5
    <2>2. gcstate' = "sweep"
      BY <1>1, <1>3, <2>1
    <2> QED BY <1>5, <2>1, <2>2 DEF SweepUdata, lists, p
  <1>6. CASE Ahead(cursor) # <<>>
    <2>1. p + 1 \in 1..Len(cand) /\ Head(Ahead(cursor)) = cand[p + 1]
      BY <1>1, <1>6
    <2>2. gcstate' = IF p + 1 = Len(cand) THEN "sweep" ELSE "sweepudata"
      BY <1>1, <1>3, <2>1
    <2>3. Scan(cand[p + 1]) /\ UNCHANGED <<stale, rcursor>>
      BY <1>6, <2>1 DEF SweepUdata
    <2> QED BY <1>6, <2>1, <2>2, <2>3 DEF p
  <1> QED BY <1>5, <1>6

\* gc_finalize: the userdata is freed behind a direct finalizer, stays where it
\* is, or goes back to the root list, with its finalizer called or not.
Passed(u) ==
  /\ Relinked(u)
  /\ \/ frames' = frames
     \/ HasGC(u) /\ frames' = Append(frames, Fin(u))
     \/ Top = "cycle" /\ frames' = Front(frames)
  /\ calls' \in {calls, [calls EXCEPT ![u] = @ + 1]}
  /\ lost' \in {lost, lost \cup {u}}

LEMMA FinalizeCases ==
  ASSUME NEW u, NEW nores, Finalize(u, nores)
  PROVE  \/ nores /\ HasGC(u) /\ FinalizeDirect(u)
         \/ nores /\ ThrowDirect
         \/ Passed(u)
  BY DEF Finalize, Passed, CallGC, ThrowGC

\* A userdata Lua code can reach is one it can name.
LEMMA ReachLemma ==
  ASSUME Typed
  PROVE  /\ Reach \cap Udata \subseteq held \cup Running
         /\ Access \cap Udata \subseteq Handles
         /\ Reach \subseteq Access
         /\ Reach \cup Access \subseteq Udata \cup Meta \cup Callable
  <1>1. /\ mt \in [Udata -> Meta \cup {None}] /\ hasgc \subseteq Meta
        /\ held \subseteq Udata \cup Meta /\ Running \subseteq Udata
        /\ wkeys \cup wvals \subseteq Udata
        /\ \A u \in Running : mt[u] \in Meta
    BY RunningIs, FrameLemma DEF Typed, TypeOK, Stack
  <1>2. ASSUME NEW S, S \subseteq Udata \cup Meta
        PROVE  /\ Closure(S) \cap Udata \subseteq S
               /\ Closure(S) \subseteq Udata \cup Meta \cup Callable
    <2>1. \A m \in Meta : GcOf[m] \in Callable
      BY GcOfAssumption
    <2> QED BY <1>1, <1>2, <2>1, KindsAssumption, NoneAssumption DEF Closure
  <1>3. \A u \in Running : GcOf[mt[u]] \in Callable
    BY <1>1, GcOfAssumption
  <1>4. /\ Closure(held \cup Running) \cap Udata \subseteq held \cup Running
        /\ Closure(held \cup Running) \subseteq Udata \cup Meta \cup Callable
    BY <1>1, <1>2
  <1>5. /\ Closure(wkeys \cup wvals) \cap Udata \subseteq wkeys \cup wvals
        /\ Closure(wkeys \cup wvals) \subseteq Udata \cup Meta \cup Callable
    BY <1>1, <1>2
  <1> QED BY <1>3, <1>4, <1>5, KindsAssumption DEF Reach, Access, Handles

-------------------------------------------------------------------------------
(* Type correctness *)

LEMMA InitTyped == Init => Typed /\ FinalizedOnce /\ Uncalled
  <1> SUFFICES ASSUME Init PROVE Typed /\ FinalizedOnce /\ Uncalled
    OBVIOUS
  <1>1. /\ Range(<<>>) = {} /\ IsInjective(<<>>)
        /\ <<>> \in Seq(Udata) /\ <<>> \in Seq(Frame)
    BY DEF Range, IsInjective
  <1>2. Running = {}
    BY <1>1, RunningIs DEF Init, Udatas
  <1> DEFINE e == <<>>
  <1>3. cand = e /\ queue = e /\ born = e /\ frames = e
    BY DEF Init
  <1>4. Range(e) = {} /\ IsInjective(e) /\ e \in Seq(Udata) /\ e \in Seq(Frame)
    BY <1>1
  <1> HIDE DEF e
  <1>5. TypeOK
    BY <1>3, <1>4, RoundsAssumption DEF Init, TypeOK
  <1>6. Lists /\ Stack
    BY <1>2, <1>3, <1>4, RoundsAssumption DEF Init, Lists, Stack
  <1>7. Created
    BY <1>2, <1>3, <1>4, KindsAssumption DEF Init, Created, Handles
  <1>8. FinalizedOnce /\ Uncalled
    BY DEF Init, FinalizedOnce, Uncalled
  <1> QED BY <1>5, <1>6, <1>7, <1>8 DEF Typed

\* A candidate is unlinked from the segment.
LEMMA CandidateLemma ==
  ASSUME Typed, NEW n \in 1..Len(cand)
  PROVE  LET u == cand[n] IN
         /\ u \in Range(cand) /\ u \in Udata
         /\ RemoveFirst(cand, u) \in Seq(Udata)
         /\ IsInjective(RemoveFirst(cand, u))
         /\ Range(RemoveFirst(cand, u)) = Range(cand) \ {u}
         /\ Append(queue, u) \in Seq(Udata) /\ IsInjective(Append(queue, u))
         /\ Range(Append(queue, u)) = Range(queue) \cup {u}
  <1> DEFINE u == cand[n]
  <1>1. /\ cand \in Seq(Udata) /\ IsInjective(cand)
        /\ queue \in Seq(Udata) /\ IsInjective(queue)
        /\ Range(cand) \cap Range(queue) = {} /\ Range(cand) \subseteq Udata
    BY DEF Typed, TypeOK, Lists
  <1>2. DOMAIN cand = 1..Len(cand)
    BY <1>1
  <1>3. u \in Range(cand) /\ u \in Udata /\ u \notin Range(queue)
    BY <1>1, <1>2 DEF Range
  <1> HIDE DEF u
  <1>4. /\ RemoveFirst(cand, u) \in Seq(Udata)
        /\ IsInjective(RemoveFirst(cand, u))
        /\ Range(RemoveFirst(cand, u)) = Range(cand) \ {u}
    BY <1>1, <1>3, Unlinked
  <1>5. /\ Append(queue, u) \in Seq(Udata) /\ IsInjective(Append(queue, u))
        /\ Range(Append(queue, u)) = Range(queue) \cup {u}
    BY <1>1, <1>3, Appended
  <1> QED BY <1>3, <1>4, <1>5 DEF u

LEMMA SweepUdataTyped ==
  ASSUME Typed, FinalizedOnce, Uncalled, SweepUdata, OnSegment(cursor)
  PROVE  Typed' /\ FinalizedOnce' /\ Uncalled'
  <1> USE DEF meta, log, prog, Typed, Lists, Created, Stack, Handles, RunningIs
  <1>1. UNCHANGED <<mt, hasgc, calls, lost, born, held, wkeys, wvals, frames,
                    phase, rounds>> /\ Running' = Running
    BY DEF SweepUdata, Running
  <1>2. CASE UNCHANGED <<alloc, dead, cand, cursor, queue, rcursor, finalized, stale>>
             /\ gcstate' = "sweep"
    BY <1>1, <1>2 DEF TypeOK, FinalizedOnce, Uncalled
  <1>3. ASSUME NEW n \in 1..Len(cand), Scan(cand[n]),
               gcstate' \in {"sweep", "sweepudata"}, UNCHANGED <<stale, rcursor>>
        PROVE  Typed' /\ FinalizedOnce' /\ Uncalled'
    <2> DEFINE u == cand[n]
    <2>1. /\ u \in Range(cand) /\ u \in Udata
          /\ RemoveFirst(cand, u) \in Seq(Udata)
          /\ IsInjective(RemoveFirst(cand, u))
          /\ Range(RemoveFirst(cand, u)) = Range(cand) \ {u}
          /\ Append(queue, u) \in Seq(Udata) /\ IsInjective(Append(queue, u))
          /\ Range(Append(queue, u)) = Range(queue) \cup {u}
      BY CandidateLemma
    <2>2. Scan(u)
      BY <1>3
    <2> HIDE DEF u
    <2>3. CASE Keep(u)
      BY <1>1, <1>3, <2>1, <2>3 DEF Keep, TypeOK, FinalizedOnce, Uncalled
    <2>4. CASE Park(u)
      BY <1>1, <1>3, <2>1, <2>4 DEF Park, TypeOK, FinalizedOnce, Uncalled
    <2>5. CASE QueueDead(u) /\ HasGC(u)
      BY <1>1, <1>3, <2>1, <2>5 DEF QueueDead, HasGC, TypeOK, FinalizedOnce, Uncalled
    <2>6. CASE FreeDead(u)
      BY <1>1, <1>3, <2>1, <2>6 DEF FreeDead, TypeOK, FinalizedOnce, Uncalled
    <2> QED BY <2>2, <2>3, <2>4, <2>5, <2>6 DEF Scan
  <1> QED BY <1>2, <1>3, SweepCases

LEMMA SweepRootTyped ==
  ASSUME Typed, FinalizedOnce, Uncalled, SweepRoot, OnSegment(rcursor)
  PROVE  Typed' /\ FinalizedOnce' /\ Uncalled'
  <1> USE DEF meta, log, prog, Typed, Lists, Created, Stack, Handles
  <1>1. UNCHANGED <<cursor, queue, mt, hasgc, finalized, calls, lost, born, held,
                    wkeys, wvals, frames, phase, rounds>> /\ Running' = Running
    BY DEF SweepRoot, SweepSegment, Running
  <1>2. stale' = stale
    BY DEF SweepRoot, SweepSegment
  <1>3. /\ gcstate' \in {"sweep", "finalize", "pause"}
        /\ rcursor' \in {rcursor, None} \/ rcursor' = Head(Ahead(rcursor))
    BY DEF SweepRoot, SweepSegment, SweptLast, SweepEnd
  <1>4. rcursor' \in Udata \cup {None}
    <2>1. CASE rcursor' \in {rcursor, None}
      BY <2>1 DEF TypeOK
    <2>2. CASE rcursor' = Head(Ahead(rcursor)) /\ Len(Ahead(rcursor)) > 1
      <3> DEFINE n == Pos(rcursor) + 1
      <3>1. n \in 1..Len(cand) /\ rcursor' = cand[n]
        <4>1. /\ Pos(rcursor) \in 0..Len(cand) /\ Len(cand) \in Nat
              /\ Len(Ahead(rcursor)) = Len(cand) - Pos(rcursor)
              /\ Ahead(rcursor) # <<>> => Head(Ahead(rcursor)) = cand[Pos(rcursor) + 1]
          BY AheadLemma
        <4>2. Ahead(rcursor) # <<>>
          BY <2>2
        <4> QED BY <2>2, <4>1, <4>2
      <3> HIDE DEF n
      <3> QED BY <3>1, CandidateLemma
    <2>3. \/ rcursor' \in {rcursor, None}
          \/ rcursor' = Head(Ahead(rcursor)) /\ Len(Ahead(rcursor)) > 1
      <3>1. Len(Ahead(rcursor)) \in Int
        BY AheadLemma
      <3>2. ~(Len(Ahead(rcursor)) <= 1) => Len(Ahead(rcursor)) > 1
        BY <3>1
      <3> QED BY <3>2 DEF SweepRoot, SweepSegment, SweptLast
    <2> QED BY <2>1, <2>2, <2>3
  <1> DEFINE Fewer == /\ alloc' \subseteq alloc /\ dead' \subseteq alloc'
                      /\ cand' \in Seq(Udata) /\ IsInjective(cand')
                      /\ Range(cand') \subseteq Range(cand)
  <1>5. Fewer
    <2>1. CASE UNCHANGED <<alloc, dead, cand>>
      BY <2>1 DEF TypeOK
    <2>2. ASSUME NEW o \in dead \cap OnRoot, alloc' = alloc \ {o}, dead' = dead \ {o},
                 cand' = RemoveFirst(cand, o)
          PROVE  Fewer
      <3>1. CASE o \in Range(cand)
        <4>1. DOMAIN cand = 1..Len(cand)
          OBVIOUS
        <4>2. PICK n \in 1..Len(cand) : cand[n] = o
          BY <3>1, <4>1 DEF Range
        <4> QED BY <2>2, <4>2, CandidateLemma DEF TypeOK
      <3>2. CASE o \notin Range(cand)
        <4>1. cand' = cand
          BY <2>2, <3>2 DEF RemoveFirst, Range
        <4> QED BY <2>2, <4>1 DEF TypeOK
      <3> QED BY <3>1, <3>2
    <2> QED BY <2>1, <2>2 DEF SweepRoot, SweepSegment
  <1> QED BY <1>1, <1>2, <1>3, <1>4, <1>5 DEF TypeOK, FinalizedOnce, Uncalled

\* gc_finalize of the first userdata of the queue.
LEMMA FinalizeTyped ==
  ASSUME Typed, FinalizedOnce, Uncalled, queue # <<>>, NEW nores,
         Finalize(Head(queue), nores),
         UNCHANGED <<gcstate, cursor, rcursor, meta, finalized, born, prog, phase,
                     rounds, stale>>
  PROVE  Typed' /\ FinalizedOnce' /\ Uncalled'
  <1> USE DEF meta, prog, Typed, Lists, Created, Stack, Handles
  <1> DEFINE u == Head(queue)
  <1>1. /\ u \in Range(queue) /\ u \in Udata /\ u \notin Range(cand)
        /\ u \in Range(born) /\ mt[u] \in Meta /\ calls[u] = 0
        /\ Tail(queue) \in Seq(Udata) /\ IsInjective(Tail(queue))
        /\ Range(Tail(queue)) = Range(queue) \ {u}
    BY DroppedHead DEF TypeOK, Uncalled
  <1>2. \/ FinalizeDirect(u) \/ ThrowDirect \/ Passed(u)
    BY FinalizeCases
  <1>3. Running = Udatas(frames) /\ Running' = Udatas(frames')
    BY DEF Running, Udatas
  <1>4. Top = "cycle" => frames # <<>>
    BY DEF Top
  <1>5. /\ Append(frames, Fin(u)) \in Seq(Frame)
        /\ Udatas(Append(frames, Fin(u))) = Udatas(frames) \cup {u}
        /\ frames # <<>> => /\ Front(frames) \in Seq(Frame)
                            /\ Udatas(Front(frames)) \subseteq Udatas(frames)
    <2>1. frames \in Seq(Frame) /\ u \in Udata
      BY <1>1
    <2> HIDE DEF u
    <2> QED BY ONLY <2>1, FrameLemma
  <1> HIDE DEF u
  <1> DEFINE more == [calls EXCEPT ![u] = @ + 1]
  <1>6. /\ more \in [Udata -> Nat] /\ \A v \in Udata : more[v] <= 1
        /\ \A v \in Udata : v # u => more[v] = calls[v]
    <2>1. calls \in [Udata -> Nat] /\ \A v \in Udata : calls[v] <= 1
      BY DEF TypeOK, FinalizedOnce
    <2>2. more \in [Udata -> Nat]
      BY <1>1, <2>1
    <2>3. \A v \in Udata : more[v] = IF v = u THEN 1 ELSE calls[v]
      BY <1>1, <2>1
    <2> HIDE DEF more
    <2> QED BY ONLY <2>1, <2>2, <2>3
  <1> HIDE DEF more
  <1>7. CASE FinalizeDirect(u)
    <2>1. calls' = more /\ Running' = Running
      BY <1>3, <1>7 DEF FinalizeDirect, more
    <2>2. TypeOK'
      BY <1>1, <1>6, <1>7, <2>1 DEF FinalizeDirect, TypeOK
    <2>3. FinalizedOnce' /\ Uncalled'
      BY <1>1, <1>6, <1>7, <2>1 DEF FinalizeDirect, FinalizedOnce, Uncalled
    <2> QED BY <1>1, <1>7, <2>1, <2>2, <2>3 DEF FinalizeDirect, TypeOK
  <1>8. CASE ThrowDirect
    <2>1. frames' \in Seq(Frame) /\ Running' \subseteq Running
      BY <1>3, <1>4, <1>5, <1>8 DEF ThrowDirect
    <2> QED BY <1>8, <2>1 DEF ThrowDirect, TypeOK, FinalizedOnce, Uncalled
  <1>9. CASE Passed(u)
    <2>1. frames' \in Seq(Frame) /\ Running' \subseteq Running \cup {u}
      BY <1>3, <1>4, <1>5, <1>9 DEF Passed
    <2>2. calls' \in {calls, more}
      BY <1>9 DEF Passed, more
    <2>3. FinalizedOnce' /\ Uncalled'
      BY <1>1, <1>6, <1>9, <2>2 DEF Passed, Relinked, FinalizedOnce, Uncalled
    <2>4. TypeOK'
      BY <1>1, <1>6, <1>9, <2>2 DEF Passed, Relinked, TypeOK
    <2>5. Lists'
      BY <1>1, <1>9 DEF Passed, Relinked
    <2>6. Created'
      BY <1>1, <1>9, <2>1 DEF Passed, Relinked, TypeOK
    <2>7. Stack'
      BY <1>1, <1>9, <2>1 DEF Passed, Relinked
    <2> QED BY <2>3, <2>4, <2>5, <2>6, <2>7
  <1> QED BY <1>2, <1>7, <1>8, <1>9

\* lj_gc_separateudata queues the candidates with a __gc behind the others.
LEMMA EnqueuedLemma ==
  ASSUME Typed, Enqueued
  PROVE  /\ queue' \in Seq(Udata) /\ IsInjective(queue')
         /\ Range(queue') = Range(queue) \cup {cand[i] : i \in WithGC}
         /\ {cand[i] : i \in WithGC} \subseteq Range(cand)
         /\ \A i \in WithGC : mt[cand[i]] \in Meta
  <1>1. /\ cand \in Seq(Udata) /\ IsInjective(cand) /\ Len(cand) \in Nat
        /\ queue \in Seq(Udata) /\ IsInjective(queue)
        /\ Range(cand) \cap Range(queue) = {} /\ hasgc \subseteq Meta
    BY DEF Typed, TypeOK, Lists
  <1>2. DOMAIN cand = 1..Len(cand)
    BY <1>1
  <1> DEFINE C == Cardinality(WithGC)
  <1>3. C \in Nat
    <2>1. IsFiniteSet(1..Len(cand))
      BY <1>1, FS_Interval
    <2>2. WithGC \subseteq 1..Len(cand)
      BY <1>2 DEF WithGC
    <2>3. IsFiniteSet(WithGC)
      BY <2>1, <2>2, FS_Subset
    <2> QED BY <2>3, FS_CardinalityType
  <1> HIDE DEF C
  <1>4. PICK f \in InOrder : queue' = queue \o [i \in DOMAIN f |-> cand[f[i]]]
    BY DEF Enqueued
  <1>5. /\ f \in [1..C -> WithGC] /\ Range(f) = WithGC
        /\ \A i, j \in DOMAIN f : i < j => f[i] < f[j]
    BY DEF InOrder, C
  <1> DEFINE g == [i \in DOMAIN f |-> cand[f[i]]]
  <1>6. \A i \in WithGC : i \in DOMAIN cand /\ cand[i] \in Range(cand)
    BY DEF WithGC, Range
  <1>7. g \in Seq(Udata) /\ DOMAIN g = 1..C
    <2>1. \A i \in 1..C : cand[f[i]] \in Udata
      BY <1>1, <1>2, <1>5, <1>6, ElementOfSeq
    <2>2. g \in [1..C -> Udata]
      BY <1>5, <2>1
    <2> QED BY <1>3, <2>2, SeqDef
  <1>8. IsInjective(g)
    <2>1. ASSUME NEW i \in 1..C, NEW j \in 1..C, g[i] = g[j]
          PROVE  i = j
      <3>1. f[i] \in DOMAIN cand /\ f[j] \in DOMAIN cand /\ cand[f[i]] = cand[f[j]]
        BY <1>5, <1>6, <2>1
      <3>2. f[i] = f[j]
        BY <1>1, <3>1 DEF IsInjective
      <3>3. f[i] \in Int /\ i \in Int /\ j \in Int
        BY <1>2, <1>3, <3>1
      <3>4. ~(i < j) /\ ~(j < i)
        BY <1>5, <3>2, <3>3
      <3> QED BY <3>3, <3>4
    <2> QED BY <1>7, <2>1 DEF IsInjective
  <1>9. Range(g) = {cand[i] : i \in WithGC}
    BY <1>5 DEF Range
  <1> HIDE DEF g
  <1>10. /\ {cand[i] : i \in WithGC} \subseteq Range(cand)
         /\ \A i \in WithGC : mt[cand[i]] \in Meta
    BY <1>1, <1>6 DEF WithGC, HasGC
  <1>11. queue' = queue \o g
    BY <1>4 DEF g
  <1>12. Range(queue) \cap Range(g) = {}
    BY <1>1, <1>9, <1>10
  <1> QED BY <1>1, <1>7, <1>8, <1>9, <1>10, <1>11, <1>12, Joined

LEMMA SeparatedTyped ==
  ASSUME Typed, FinalizedOnce, Uncalled, Close \/ CloseRound
  PROVE  Typed' /\ FinalizedOnce' /\ Uncalled'
  <1> USE DEF meta, prog, Typed, Lists, Created, Stack, Handles
  <1>1. UNCHANGED <<cursor, rcursor, meta, calls, lost, born, prog, frames, stale>>
        /\ Running' = Running
    BY DEF Close, CloseRound, Running
  <1> DEFINE e == <<>>
  <1>2. Range(e) = {} /\ IsInjective(e) /\ e \in Seq(Udata)
    BY DEF Range, IsInjective
  <1> HIDE DEF e
  <1>3. ASSUME Separated, UNCHANGED <<alloc, dead, gcstate>>,
               phase' \in {"run", "close"}, rounds' \in Nat, rounds' < MaxRounds
        PROVE  Typed' /\ FinalizedOnce' /\ Uncalled'
    <2>1. /\ queue' \in Seq(Udata) /\ IsInjective(queue')
          /\ Range(queue') = Range(queue) \cup {cand[i] : i \in WithGC}
          /\ {cand[i] : i \in WithGC} \subseteq Range(cand)
          /\ \A i \in WithGC : mt[cand[i]] \in Meta
      BY <1>3, EnqueuedLemma DEF Separated
    <2>2. /\ cand' = e
          /\ finalized' = finalized \cup {cand[i] : i \in WithGC}
      BY <1>3 DEF Separated, Enqueued, e
    <2>3. MaxRounds \in Nat /\ rounds' \in 0..MaxRounds
      BY <1>3, RoundsAssumption
    <2> QED BY <1>1, <1>2, <1>3, <2>1, <2>2, <2>3
            DEF TypeOK, FinalizedOnce, Uncalled
  <1>4. CASE Close
    <2>1. /\ Separated /\ UNCHANGED <<alloc, dead, gcstate, rounds>>
          /\ phase = "run" /\ phase' = "close"
      BY <1>4 DEF Close
    <2>2. rounds \in Nat /\ rounds < MaxRounds
      BY <2>1, RoundsAssumption DEF TypeOK
    <2> QED BY <1>3, <2>1, <2>2
  <1>5. CASE CloseRound
    <2>1. rounds \in Nat /\ rounds < MaxRounds /\ rounds' = rounds + 1 /\ queue = e
      BY <1>5, RoundsAssumption DEF CloseRound, TypeOK, e
    <2>2. CASE Separated /\ UNCHANGED <<phase, alloc, dead, gcstate>>
               /\ rounds + 1 < MaxRounds
      BY <1>3, <1>5, <2>1, <2>2 DEF CloseRound
    <2>3. CASE /\ phase' = "done" /\ alloc' = {} /\ dead' = {} /\ cand' = e
               /\ gcstate' = "pause" /\ UNCHANGED <<queue, finalized>>
      <3>1. MaxRounds \in Nat /\ rounds' \in 0..MaxRounds
        BY <2>1, RoundsAssumption
      <3> QED BY <1>1, <1>2, <2>1, <2>3, <3>1
              DEF TypeOK, FinalizedOnce, Uncalled
    <2> QED BY <1>5, <2>2, <2>3 DEF CloseRound, e
  <1> QED BY <1>4, <1>5

\* The control stack grows and shrinks.
LEMMA StackTyped ==
  ASSUME Typed, FinalizedOnce, Uncalled,
         FullGC \/ FullGCRestart \/ FullGCDone \/ Return
  PROVE  Typed' /\ FinalizedOnce' /\ Uncalled'
  <1> USE DEF lists, meta, log, prog, Typed, Lists, Created, Stack, Handles
  <1>1. /\ UNCHANGED <<alloc, dead, cand, cursor, queue, mt, hasgc, finalized, calls,
                       lost, born, held, wkeys, wvals, phase, rounds, stale>>
        /\ gcstate' \in {gcstate, "sweep", "mark"} /\ rcursor' \in {rcursor, None}
    BY DEF FullGC, FullGCRestart, FullGCDone, Return
  <1>2. frames' \in Seq(Frame) /\ Udatas(frames') \subseteq Udatas(frames)
    <2>1. \A k \in {"finish", "cycle"} :
            /\ Append(frames, Full(k)) \in Seq(Frame)
            /\ Udatas(Append(frames, Full(k))) = Udatas(frames)
      BY FrameLemma
    <2>2. ASSUME frames # <<>>
          PROVE  /\ Front(frames) \in Seq(Frame)
                 /\ Udatas(Front(frames)) \subseteq Udatas(frames)
                 /\ Append(Front(frames), Full("cycle")) \in Seq(Frame)
                 /\ Udatas(Append(Front(frames), Full("cycle")))
                      \subseteq Udatas(frames)
      <3>1. /\ Front(frames) \in Seq(Frame)
            /\ Udatas(Front(frames)) \subseteq Udatas(frames)
        BY <2>2, FrameLemma
      <3>2. /\ Append(Front(frames), Full("cycle")) \in Seq(Frame)
            /\ Udatas(Append(Front(frames), Full("cycle"))) = Udatas(Front(frames))
        BY <3>1, FrameLemma
      <3> QED BY <3>1, <3>2
    <2>3. \/ frames' = Append(frames, Full("finish"))
          \/ frames # <<>> /\ frames' = Append(Front(frames), Full("cycle"))
          \/ frames # <<>> /\ frames' = Front(frames)
      BY DEF FullGC, FullGCRestart, FullGCDone, Return, Top
    <2> QED BY <2>1, <2>2, <2>3
  <1>3. Running' \subseteq Running
    BY <1>2 DEF Running, Udatas
  <1> QED BY <1>1, <1>2, <1>3 DEF TypeOK, FinalizedOnce, Uncalled

LEMMA NewTyped ==
  ASSUME Typed, FinalizedOnce, Uncalled, NEW u \in Udata, New(u)
  PROVE  Typed' /\ FinalizedOnce' /\ Uncalled'
  <1> USE DEF meta, Typed, Lists, Created, Stack, Handles
  <1>1. /\ UNCHANGED <<gcstate, dead, cursor, rcursor, queue, meta, finalized, calls,
                       lost, wkeys, wvals, frames, phase, rounds, stale>>
        /\ alloc' = alloc \cup {u} /\ held' = held \cup {u} /\ Running' = Running
    BY DEF New, Running
  <1>2. u \notin Range(born) /\ u \notin Range(cand) /\ u \notin Range(queue)
    BY DEF New
  <1>3. /\ cand' \in Seq(Udata) /\ IsInjective(cand')
        /\ Range(cand') = Range(cand) \cup {u}
    <2>1. cand' = <<u>> \o cand
      BY DEF New
    <2>2. cand \in Seq(Udata) /\ IsInjective(cand)
      BY DEF TypeOK
    <2> QED BY <1>2, <2>1, <2>2, PushedFront
  <1>4. /\ born' \in Seq(Udata) /\ IsInjective(born')
        /\ Range(born') = Range(born) \cup {u}
    BY <1>2, Appended DEF New
  <1> QED BY <1>1, <1>2, <1>3, <1>4 DEF TypeOK, FinalizedOnce, Uncalled

LEMMA OtherTyped ==
  ASSUME Typed, FinalizedOnce, Uncalled,
         \/ MarkStart \/ Atomic
         \/ \E u \in Udata : AddWeak(u) \/ Hold(u)
         \/ \E u \in Udata, m \in Meta : SetMeta(u, m)
         \/ \E m \in Meta : ClearGC(m)
         \/ \E o \in Udata \cup (Meta \ Registry) : Release(o)
  PROVE  Typed' /\ FinalizedOnce' /\ Uncalled'
  <1> USE DEF lists, meta, log, prog, Typed, Lists, Created, Stack, FinalizedOnce, Uncalled
  <1>1. CASE MarkStart
    BY <1>1 DEF MarkStart, TypeOK, Handles, Running
  <1>2. CASE Atomic
    BY <1>2 DEF Atomic, TypeOK, Handles, Running
  <1>3. ASSUME NEW u \in Udata, AddWeak(u) \/ Hold(u)
        PROVE  Typed' /\ FinalizedOnce' /\ Uncalled'
    <2>1. u \in Handles
      BY <1>3, ReachLemma DEF AddWeak, Hold
    <2>2. Handles' \subseteq Handles
      BY <1>3, <2>1 DEF AddWeak, Hold, Handles, Running
    <2>3. Running' = Running
      BY <1>3 DEF AddWeak, Hold, Running
    <2> QED BY <1>3, <2>2, <2>3 DEF AddWeak, Hold, TypeOK
  <1>4. ASSUME NEW u \in Udata, NEW m \in Meta, SetMeta(u, m)
        PROVE  Typed' /\ FinalizedOnce' /\ Uncalled'
    <2>1. u \in Handles /\ mt' = [mt EXCEPT ![u] = m] /\ u \in Range(born)
      BY <1>4, ReachLemma DEF SetMeta
    <2>2. Handles' = Handles /\ Running' = Running
      BY <1>4 DEF SetMeta, Handles, Running
    <2>3. mt' \in [Udata -> Meta \cup {None}]
      BY <2>1 DEF TypeOK
    <2>4. /\ \A v \in Udata \ Range(born) : mt'[v] = mt[v]
          /\ \A v \in Udata : mt[v] \in Meta => mt'[v] \in Meta
      BY <2>1 DEF TypeOK
    <2>5. Range(queue) \cup Running \subseteq Udata
      BY RunningIs, FrameLemma DEF TypeOK
    <2>6. TypeOK'
      BY <1>4, <2>3 DEF SetMeta, TypeOK
    <2> QED BY <1>4, <2>2, <2>4, <2>5, <2>6 DEF SetMeta
  <1>5. ASSUME NEW m \in Meta, ClearGC(m)
        PROVE  Typed' /\ FinalizedOnce' /\ Uncalled'
    BY <1>5 DEF ClearGC, TypeOK, Handles, Running
  <1>6. ASSUME NEW o \in Udata \cup (Meta \ Registry), Release(o)
        PROVE  Typed' /\ FinalizedOnce' /\ Uncalled'
    BY <1>6 DEF Release, TypeOK, Handles, Running
  <1> QED BY <1>1, <1>2, <1>3, <1>4, <1>5, <1>6

LEMMA FinalizeStepTyped ==
  ASSUME Typed, FinalizedOnce, Uncalled, FinalizeStep \/ CloseFinalize
  PROVE  Typed' /\ FinalizedOnce' /\ Uncalled'
  <1>1. CASE queue # <<>>
    <2>1. PICK nores : Finalize(Head(queue), nores)
      BY <1>1 DEF FinalizeStep, CloseFinalize
    <2>2. UNCHANGED <<gcstate, cursor, rcursor, meta, finalized, born, prog, phase,
                      rounds, stale>>
      BY <1>1 DEF FinalizeStep, CloseFinalize
    <2> QED BY <1>1, <2>1, <2>2, FinalizeTyped
  <1>2. CASE queue = <<>>
    <2>1. /\ gcstate' = "pause"
          /\ UNCHANGED <<alloc, dead, cand, queue, calls, lost, frames, cursor,
                         rcursor, mt, hasgc, finalized, born, held, wkeys, wvals,
                         phase, rounds, stale>>
      BY <1>2 DEF FinalizeStep, CloseFinalize, meta, prog
    <2> QED BY <2>1 DEF Typed, Lists, Created, Stack, TypeOK, FinalizedOnce,
                        Uncalled, Handles, Running
  <1> QED BY <1>1, <1>2

\* The collector does not run while lua_close does.
LEMMA PhaseLemma ==
  ASSUME Typed, Nesting
  PROVE  /\ Careful /\ InGC => phase = "run"
         /\ InLua => phase # "done"
         /\ frames # <<>> => phase # "done"
         /\ Top \in {"finish", "cycle"} => phase = "run"
         /\ Careful /\ FullGC => phase = "run"
  <1>1. frames \in Seq(Frame) /\ phase \in {"run", "close", "done"}
    BY DEF Typed, Stack, TypeOK
  <1>2. Top \in {"finish", "cycle", "fin"} => frames # <<>>
    BY DEF Top
  <1>3. frames # <<>> => Last(frames) \in Range(frames)
    BY <1>1, WithoutLast
  <1>4. Top \in {"finish", "cycle"} => phase = "run"
    BY <1>2, <1>3 DEF Top, Nesting
  <1>5. frames # <<>> => phase # "done"
    BY DEF Nesting
  <1> QED BY <1>1, <1>2, <1>4, <1>5 DEF Careful, InGC, InLua, FullGC

\* So neither sweep goes astray.
LEMMA OnCourse ==
  ASSUME Typed, Careful, Sound
  PROVE  /\ SweepUdata => OnSegment(cursor)
         /\ SweepRoot => OnSegment(rcursor)
  <1>1. SweepUdata \/ SweepRoot => phase = "run"
    BY PhaseLemma DEF Sound, SweepUdata, SweepRoot
  <1> QED BY <1>1 DEF Sound, Cursors, SweepUdata, SweepRoot

LEMMA TypedStep ==
  ASSUME Typed, FinalizedOnce, Uncalled, Careful, Sound, [Next]_vars
  PROVE  Typed' /\ FinalizedOnce' /\ Uncalled'
  <1>1. CASE UNCHANGED vars
    BY <1>1 DEF vars, lists, meta, log, prog, Typed, Lists, Created, Stack, TypeOK,
                FinalizedOnce, Uncalled, Handles, Running
  <1>2. CASE SweepUdata
    BY <1>2, OnCourse, SweepUdataTyped
  <1>3. CASE SweepRoot
    BY <1>3, OnCourse, SweepRootTyped
  <1>4. CASE FinalizeStep \/ CloseFinalize
    BY <1>4, FinalizeStepTyped
  <1>5. CASE Close \/ CloseRound
    BY <1>5, SeparatedTyped
  <1>6. CASE FullGC \/ FullGCRestart \/ FullGCDone \/ Return
    BY <1>6, StackTyped
  <1>7. CASE \E u \in Udata : New(u)
    BY <1>7, NewTyped
  <1>8. CASE \/ MarkStart \/ Atomic
             \/ \E u \in Udata : AddWeak(u) \/ Hold(u)
             \/ \E u \in Udata, m \in Meta : SetMeta(u, m)
             \/ \E m \in Meta : ClearGC(m)
             \/ \E o \in Udata \cup (Meta \ Registry) : Release(o)
    BY <1>8, OtherTyped
  <1> QED BY <1>1, <1>2, <1>3, <1>4, <1>5, <1>6, <1>7, <1>8
          DEF Next, Collector, Closing

-------------------------------------------------------------------------------
(* What is needed is kept *)

\* Steps that keep all objects and add nothing to what is needed.
Quiet ==
  /\ UNCHANGED <<mt, alloc, dead>> /\ hasgc' \subseteq hasgc
  /\ Running' \subseteq Running /\ Handles' \subseteq Handles
  /\ \/ /\ phase' = phase
        /\ Range(queue') \subseteq Range(queue) /\ Range(cand') \subseteq Range(cand)
     \/ /\ phase' = "close" /\ phase # "done"
        /\ Range(queue') \cup Range(cand') \subseteq Range(queue) \cup Range(cand)

LEMMA QuietGood ==
  ASSUME Present, Spared, Quiet
  PROVE  Present' /\ Spared'
  <1>1. Present'
    <2> SUFFICES ASSUME phase' # "done"
                 PROVE  Intact(Range(queue) \cup Range(cand), alloc)'
      BY DEF Present
    <2>1. Intact(Range(queue) \cup Range(cand), alloc)
      BY DEF Present, Quiet
    <2>2. /\ Range(queue') \cup Range(cand') \subseteq Range(queue) \cup Range(cand)
          /\ alloc' = alloc
      BY DEF Quiet
    <2> QED BY <2>1, <2>2 DEF Quiet, Intact, Whole
  <1>2. Spared'
    <2> SUFFICES ASSUME phase' = "run"
                 PROVE  Intact(Range(queue) \cup (Range(cand) \ dead), alloc \ dead)'
      BY DEF Spared
    <2>1. /\ phase = "run"
          /\ Range(queue') \subseteq Range(queue) /\ Range(cand') \subseteq Range(cand)
      BY DEF Quiet
    <2>2. Intact(Range(queue) \cup (Range(cand) \ dead), alloc \ dead)
      BY <2>1 DEF Spared
    <2> QED BY <2>1, <2>2 DEF Quiet, Intact, Whole
  <1> QED BY <1>1, <1>2

LEMMA QuietSteps ==
  ASSUME Typed, Typed', Present, Spared, Nesting,
         \/ UNCHANGED vars \/ MarkStart \/ FullGC \/ FullGCRestart \/ FullGCDone
         \/ Return \/ Close \/ CloseRound
         \/ FinalizeStep /\ (queue = <<>> \/ ThrowDirect)
         \/ \E u \in Udata : AddWeak(u) \/ Hold(u)
         \/ \E m \in Meta : ClearGC(m)
         \/ \E o \in Udata \cup (Meta \ Registry) : Release(o)
  PROVE  Present' /\ Spared'
  <1> USE DEF lists, meta, log, prog, Handles
  <1>1. frames \in Seq(Frame) /\ Running = Udatas(frames) /\ Running' = Udatas(frames')
    BY DEF Typed, Stack, Running, Udatas
  <1>2. /\ Udatas(Append(frames, Full("finish"))) = Udatas(frames)
        /\ frames # <<>> =>
             /\ Udatas(Front(frames)) \subseteq Udatas(frames)
             /\ Udatas(Append(Front(frames), Full("cycle"))) \subseteq Udatas(frames)
    <2>1. Udatas(Append(frames, Full("finish"))) = Udatas(frames)
      BY <1>1, FrameLemma
    <2>2. ASSUME frames # <<>>
          PROVE  /\ Udatas(Front(frames)) \subseteq Udatas(frames)
                 /\ Udatas(Append(Front(frames), Full("cycle"))) \subseteq Udatas(frames)
      <3>1. /\ Front(frames) \in Seq(Frame)
            /\ Udatas(Front(frames)) \subseteq Udatas(frames)
        BY <1>1, <2>2, FrameLemma
      <3>2. Udatas(Append(Front(frames), Full("cycle"))) = Udatas(Front(frames))
        BY <3>1, FrameLemma
      <3> QED BY <3>1, <3>2
    <2> QED BY <2>1, <2>2
  <1>3. Top # "none" => frames # <<>>
    BY DEF Top
  <1>4. CASE UNCHANGED vars \/ MarkStart
    <2>1. Quiet
      BY <1>4 DEF vars, MarkStart, Quiet, Running
    <2> QED BY <2>1, QuietGood
  <1>5. CASE FullGC \/ FullGCRestart \/ FullGCDone \/ Return
    <2>1. Udatas(frames') \subseteq Udatas(frames)
      BY <1>2, <1>3, <1>5 DEF FullGC, FullGCRestart, FullGCDone, Return
    <2>2. Quiet
      BY <1>1, <1>5, <2>1 DEF FullGC, FullGCRestart, FullGCDone, Return, Quiet
    <2> QED BY <2>2, QuietGood
  <1>6. ASSUME Separated, UNCHANGED <<alloc, dead, mt, hasgc, held, wkeys, wvals, frames>>,
               phase' = "close", phase # "done"
        PROVE  Present' /\ Spared'
    <2>1. /\ Range(queue') = Range(queue) \cup {cand[i] : i \in WithGC}
          /\ {cand[i] : i \in WithGC} \subseteq Range(cand)
      BY <1>6, EnqueuedLemma DEF Separated
    <2>2. Range(cand') = {}
      BY <1>6 DEF Separated, Range
    <2>3. Quiet
      BY <1>6, <2>1, <2>2 DEF Quiet, Running
    <2> QED BY <2>3, QuietGood
  <1>7. CASE Close
    BY <1>6, <1>7 DEF Close
  <1>8. CASE CloseRound
    <2>1. CASE Separated /\ UNCHANGED <<phase, alloc, dead, gcstate>>
      BY <1>6, <1>8, <2>1 DEF CloseRound
    <2>2. CASE phase' = "done"
      BY <2>2 DEF Present, Spared
    <2> QED BY <1>8, <2>1, <2>2 DEF CloseRound
  <1>9. CASE FinalizeStep /\ (queue = <<>> \/ ThrowDirect)
    <2>1. UNCHANGED <<alloc, dead, cand, queue>> /\ frames' \in {frames, Front(frames)}
          /\ (frames' = Front(frames) => frames' = frames \/ Top = "cycle")
      <3>1. CASE queue = <<>>
        BY <1>9, <3>1 DEF FinalizeStep
      <3>2. CASE ThrowDirect
        BY <3>2 DEF ThrowDirect
      <3> QED BY <1>9, <3>1, <3>2
    <2>2. Udatas(frames') \subseteq Udatas(frames)
      BY <1>2, <1>3, <2>1
    <2>3. Quiet
      BY <1>1, <1>9, <2>1, <2>2 DEF FinalizeStep, Quiet
    <2> QED BY <2>3, QuietGood
  <1>10. ASSUME NEW u \in Udata, AddWeak(u) \/ Hold(u)
         PROVE  Present' /\ Spared'
    <2>1. u \in Handles
      BY <1>10, ReachLemma DEF AddWeak, Hold
    <2>2. Quiet
      BY <1>10, <2>1 DEF AddWeak, Hold, Quiet, Running
    <2> QED BY <2>2, QuietGood
  <1>11. ASSUME NEW m \in Meta, ClearGC(m)
         PROVE  Present' /\ Spared'
    <2>1. Quiet
      BY <1>11 DEF ClearGC, Quiet, Running
    <2> QED BY <2>1, QuietGood
  <1>12. ASSUME NEW o \in Udata \cup (Meta \ Registry), Release(o)
         PROVE  Present' /\ Spared'
    <2>1. Quiet
      BY <1>12 DEF Release, Quiet, Running
    <2> QED BY <2>1, QuietGood
  <1> QED BY <1>4, <1>5, <1>7, <1>8, <1>9, <1>10, <1>11, <1>12

\* What atomic() reaches is all that is needed.
LEMMA AtomicIntact ==
  ASSUME Typed, Present, Queued, Atomic, phase = "run"
  PROVE  Present' /\ Spared'
  <1> USE DEF meta, log
  <1>1. /\ UNCHANGED <<alloc, cand, queue, mt, hasgc, held, frames, phase>>
        /\ dead' = alloc \ Reach /\ queue = <<>> /\ Running' = Running
        /\ wkeys' \subseteq wkeys \cap Reach /\ wvals' \subseteq wvals \cap Reach
    BY DEF Atomic, Queued, Running
  <1>2. Handles' \subseteq Handles
    BY <1>1 DEF Handles
  <1>3. Intact(Range(queue) \cup Range(cand), alloc)
    BY DEF Present
  <1>4. Present'
    BY <1>1, <1>2, <1>3 DEF Present, Intact, Whole
  <1>5. Range(queue) = {}
    BY <1>1 DEF Range
  <1>6. Handles' \cup (Range(cand) \cap Reach) \subseteq held \cup Running
    <2>1. /\ Reach \cap Udata \subseteq held \cup Running
          /\ wkeys \cup wvals \cup Range(cand) \subseteq Udata
      BY ReachLemma DEF Typed, TypeOK
    <2> QED BY <1>1, <2>1 DEF Handles
  <1>7. ASSUME NEW o \in held \cup Running PROVE Whole(o, Reach)
    <2>1. None \notin Meta /\ o # None
      BY NoneAssumption, RunningIs, FrameLemma DEF Typed, TypeOK, Stack
    <2> QED BY <2>1 DEF Whole, Reach, Closure
  <1>8. ASSUME NEW o \in held \cup Running PROVE Whole(o, alloc \ dead')
    <2>1. Whole(o, alloc)
      BY <1>3 DEF Intact, Handles
    <2> QED BY <1>1, <1>7, <2>1 DEF Whole
  <1>9. \A u \in Running : GcOf[mt[u]] \in alloc \ dead'
    BY <1>1, <1>3 DEF Intact, Reach
  <1>10. Spared'
    <2>1. Range(cand) \subseteq alloc
      BY <1>3 DEF Intact, Whole
    <2>2. Range(cand) \ dead' \subseteq held \cup Running
      BY <1>1, <1>6, <2>1
    <2>3. \A o \in Handles' \cup (Range(cand) \ dead') : Whole(o, alloc \ dead')
      BY <1>6, <1>8, <2>2
    <2> QED BY <1>1, <1>5, <1>9, <2>3 DEF Spared, Intact, Whole
  <1> QED BY <1>4, <1>10

\* A step of the candidate sweep keeps what is needed: a userdata that is queued
\* gets what it refers to back from the dead, one that is freed was dead.
LEMMA SweepUdataIntact ==
  ASSUME Typed, Present, Spared, SweepUdata, OnSegment(cursor), phase = "run"
  PROVE  Present' /\ Spared'
  <1> USE DEF meta, log, prog
  <1>1. /\ UNCHANGED <<mt, hasgc, held, wkeys, wvals, frames, phase>>
        /\ Running' = Running /\ Handles' = Handles
    BY DEF SweepUdata, Running, Handles
  <1>2. /\ Intact(Range(queue) \cup Range(cand), alloc)
        /\ Intact(Range(queue) \cup (Range(cand) \ dead), alloc \ dead)
    BY DEF Present, Spared
  <1>3. /\ mt \in [Udata -> Meta \cup {None}] /\ hasgc \subseteq Meta
        /\ Range(cand) \cap Range(queue) = {}
        /\ Range(cand) \cup Range(queue) \subseteq Udata
        /\ Handles \subseteq Udata \cup Meta /\ Running \subseteq Udata
        /\ \A u \in Running : mt[u] \in Meta
        /\ \A m \in Meta : GcOf[m] \in Callable
    BY RunningIs, FrameLemma, GcOfAssumption DEF Typed, TypeOK, Stack, Handles
  <1>4. CASE UNCHANGED <<alloc, dead, cand, cursor, queue, rcursor, finalized>>
    <2>1. Quiet
      BY <1>1, <1>4 DEF Quiet
    <2> QED BY <2>1, QuietGood
  <1>5. ASSUME NEW n \in 1..Len(cand), Scan(cand[n])
        PROVE  Present' /\ Spared'
    <2> DEFINE u == cand[n]
    <2>1. /\ u \in Range(cand) /\ u \in Udata
          /\ Range(RemoveFirst(cand, u)) = Range(cand) \ {u}
          /\ Range(Append(queue, u)) = Range(queue) \cup {u}
      BY CandidateLemma
    <2>2. Scan(u)
      BY <1>5
    <2> HIDE DEF u
    <2>3. CASE Keep(u)
      <3>1. Quiet
        BY <1>1, <2>3 DEF Keep, Quiet
      <3> QED BY <3>1, QuietGood
    <2>4. CASE Park(u)
      <3>1. Quiet
        BY <1>1, <2>1, <2>4 DEF Park, Quiet
      <3> QED BY <3>1, QuietGood
    <2>5. CASE QueueDead(u) /\ HasGC(u)
      <3>1. /\ alloc' = alloc /\ dead' = dead \ Preserved(u)
            /\ Range(cand') = Range(cand) \ {u}
            /\ Range(queue') = Range(queue) \cup {u}
        BY <2>1, <2>5 DEF QueueDead
      <3>2. Present'
        BY <1>1, <1>2, <2>1, <3>1 DEF Present, Intact, Whole
      <3>3. Whole(u, alloc)
        BY <1>2, <2>1 DEF Intact
      <3>4. mt[u] \in Meta /\ mt[u] \in hasgc /\ GcOf[mt[u]] \in Callable /\ u \notin hasgc
        BY <1>3, <2>1, <2>5, KindsAssumption DEF HasGC
      <3>5. Whole(u, alloc \ dead')
        BY <3>1, <3>3, <3>4 DEF Whole, Preserved
      <3>6. Range(cand') \ dead' \subseteq Range(cand) \ dead
        BY <1>3, <2>1, <3>1, <3>4, KindsAssumption DEF Preserved
      <3>7. alloc \ dead \subseteq alloc' \ dead'
        BY <3>1
      <3>8. \A o \in Range(queue) \cup (Range(cand) \ dead) \cup Handles :
              Whole(o, alloc' \ dead')
        BY <1>2, <3>7 DEF Intact, Whole
      <3>9. \A x \in Running : GcOf[mt[x]] \in alloc' \ dead'
        BY <1>2, <3>7 DEF Intact
      <3> QED BY <1>1, <3>1, <3>2, <3>5, <3>6, <3>8, <3>9 DEF Spared, Intact, Whole
    <2>6. CASE FreeDead(u) /\ u \in dead
      <3>1. /\ alloc' = alloc \ {u} /\ dead' = dead \ {u} /\ queue' = queue
            /\ Range(cand') = Range(cand) \ {u}
        BY <2>1, <2>6 DEF FreeDead
      <3>2. alloc' \ dead' = alloc \ dead
        BY <2>6, <3>1
      <3>3. Spared'
        BY <1>1, <1>2, <2>6, <3>1, <3>2 DEF Spared, Intact, Whole
      <3>4. u \notin Handles /\ u \notin Range(queue)
        BY <1>2, <1>3, <2>1, <2>6 DEF Intact, Whole
      <3>5. \A o : o # u /\ Whole(o, alloc) => Whole(o, alloc')
        BY <1>3, <2>1, <3>1, KindsAssumption DEF Whole
      <3>6. \A o \in Range(queue') \cup Range(cand') \cup Handles : Whole(o, alloc')
        BY <1>2, <3>1, <3>4, <3>5 DEF Intact
      <3>7. \A x \in Running : GcOf[mt[x]] \in alloc'
        BY <1>2, <1>3, <2>1, <3>1, KindsAssumption DEF Intact
      <3>8. Present'
        BY <1>1, <3>6, <3>7 DEF Present, Intact, Whole
      <3> QED BY <3>3, <3>8
    <2> QED BY <2>2, <2>3, <2>4, <2>5, <2>6 DEF Scan
  <1> QED BY <1>4, <1>5, SweepCases

\* The root sweep frees nothing that is needed.
LEMMA SweepRootIntact ==
  ASSUME Typed, Spared, Present, Scanned, SweepRoot, OnSegment(rcursor),
         phase = "run"
  PROVE  Present' /\ Spared'
  <1> USE DEF meta, log, prog
  <1>1. /\ UNCHANGED <<queue, mt, hasgc, held, wkeys, wvals, frames, phase>>
        /\ Running' = Running /\ Handles' = Handles
    BY DEF SweepRoot, SweepSegment, Running, Handles
  <1>2. Range(cand) \cap dead = {}
    BY DEF Scanned, SweepRoot
  <1>3. CASE UNCHANGED <<alloc, dead, cand>>
    <2>1. Quiet
      BY <1>1, <1>3 DEF Quiet
    <2> QED BY <2>1, QuietGood
  <1>4. ASSUME NEW o \in dead \cap OnRoot, alloc' = alloc \ {o}, dead' = dead \ {o},
               cand' = RemoveFirst(cand, o)
        PROVE  Present' /\ Spared'
    <2>1. cand' = cand
      <3>1. o \notin Range(cand) /\ DOMAIN cand = 1..Len(cand)
        BY <1>2 DEF Typed, Lists
      <3> QED BY <1>4, <3>1 DEF RemoveFirst, Range
    <2>2. alloc' \ dead' = alloc \ dead /\ alloc \ dead \subseteq alloc'
      BY <1>4
    <2>3. Intact(Range(queue) \cup Range(cand), alloc \ dead)
      <3>1. Range(cand) \ dead = Range(cand)
        BY <1>2
      <3> QED BY <3>1 DEF Spared
    <2>4. Spared'
      BY <1>1, <2>1, <2>2, <2>3 DEF Spared, Intact, Whole
    <2>5. Present'
      BY <1>1, <2>1, <2>2, <2>3 DEF Present, Intact, Whole
    <2> QED BY <2>4, <2>5
  <1> QED BY <1>3, <1>4 DEF SweepRoot, SweepSegment

LEMMA FinalizeIntact ==
  ASSUME Typed, Present, Spared, Queued, queue # <<>>, phase # "done",
         NEW nores \in BOOLEAN, nores => phase = "run", Finalize(Head(queue), nores),
         ~ThrowDirect,
         UNCHANGED <<mt, hasgc, held, wkeys, wvals, phase>>
  PROVE  Present' /\ Spared'
  <1> DEFINE u == Head(queue)
  <1>1. /\ mt \in [Udata -> Meta \cup {None}] /\ hasgc \subseteq Meta
        /\ u \in Range(queue) /\ u \in Udata /\ u \notin Range(cand)
        /\ Range(Tail(queue)) = Range(queue) \ {u}
        /\ Range(queue) \subseteq Udata
        /\ \A m \in Meta : GcOf[m] \in Callable
        /\ \A x \in Running : mt[x] \in Meta
    BY DroppedHead, GcOfAssumption DEF Typed, TypeOK, Lists, Stack
  <1>2. Intact(Range(queue) \cup Range(cand), alloc)
    BY DEF Present
  <1>3. phase = "run" =>
          Intact(Range(queue) \cup (Range(cand) \ dead), alloc \ dead)
    BY DEF Spared
  <1>4. \/ nores /\ HasGC(u) /\ FinalizeDirect(u)
        \/ Passed(u)
    BY FinalizeCases
  <1>5. Running = Udatas(frames) /\ Running' = Udatas(frames')
    BY DEF Running, Udatas
  <1> HIDE DEF u
  <1>6. CASE nores /\ HasGC(u) /\ FinalizeDirect(u)
    <2>1. /\ alloc' = alloc \ {u} /\ dead' = dead \ {u} /\ cand' = cand
          /\ Range(queue') = Range(queue) \ {u} /\ Running' = Running
      BY <1>1, <1>5, <1>6 DEF FinalizeDirect, u
    <2>2. Handles' = Handles /\ u \notin Handles
      BY <1>1, <1>6, <2>1 DEF Handles, Queued
    <2>3. \A A, o : o # u /\ Whole(o, A) => Whole(o, A \ {u})
      BY <1>1, KindsAssumption DEF Whole
    <2>4. alloc' \ dead' = (alloc \ dead) \ {u}
      BY <2>1
    <2>5. \A o \in Range(queue') \cup Range(cand') \cup Handles' : Whole(o, alloc')
      BY <1>1, <1>2, <2>1, <2>2, <2>3 DEF Intact
    <2>6. \A o \in Range(queue') \cup (Range(cand') \ dead') \cup Handles' :
            Whole(o, alloc' \ dead')
      BY <1>1, <1>3, <1>6, <2>1, <2>2, <2>3, <2>4 DEF Intact
    <2>7. \A x \in Running : GcOf[mt[x]] \in alloc' /\ GcOf[mt[x]] \in alloc' \ dead'
      BY <1>1, <1>3, <1>6, <2>1, KindsAssumption DEF Intact
    <2> QED BY <2>1, <2>5, <2>6, <2>7 DEF Present, Spared, Intact, Whole
  <1>7. CASE Passed(u)
    <2>1. /\ alloc' = alloc /\ dead' = dead \ {u} /\ cand' = cand
          /\ Range(queue') = Range(queue) \ {u}
      BY <1>1, <1>7 DEF Passed, Relinked, u
    <2>2. \/ Running' \subseteq Running
          \/ HasGC(u) /\ Running' = Running \cup {u}
      <3>1. frames \in Seq(Frame)
        BY DEF Typed, Stack
      <3>2. /\ Udatas(Append(frames, Fin(u))) = Udatas(frames) \cup {u}
            /\ frames # <<>> => Udatas(Front(frames)) \subseteq Udatas(frames)
        BY ONLY <1>1, <3>1, FrameLemma
      <3>3. Top = "cycle" => frames # <<>>
        BY DEF Top
      <3> QED BY <1>5, <1>7, <3>2, <3>3 DEF Passed
    <2>3. Handles' \subseteq Handles \cup {u}
      BY <2>2 DEF Handles
    <2>4. Whole(u, alloc) /\ (phase = "run" => Whole(u, alloc \ dead))
      BY <1>1, <1>2, <1>3 DEF Intact
    <2>5. HasGC(u) => /\ GcOf[mt[u]] \in alloc
                      /\ phase = "run" => GcOf[mt[u]] \in alloc \ dead
      BY <1>1, <2>4, NoneAssumption DEF Whole, HasGC
    <2>6. \A o \in Range(queue') \cup Range(cand') \cup Handles' : Whole(o, alloc)
      BY <1>2, <2>1, <2>3, <2>4 DEF Intact
    <2>7. phase = "run" =>
            \A o \in Range(queue') \cup (Range(cand') \ dead') \cup Handles' :
              Whole(o, alloc \ dead)
      BY <1>1, <1>3, <2>1, <2>3, <2>4 DEF Intact
    <2>8. \A x \in Running' : /\ GcOf[mt[x]] \in alloc
                              /\ phase = "run" => GcOf[mt[x]] \in alloc \ dead
      BY <1>2, <1>3, <2>2, <2>5 DEF Intact
    <2>9. alloc \ dead \subseteq alloc' \ dead'
      BY <2>1
    <2>10. Present'
      BY <2>1, <2>6, <2>8 DEF Present, Intact, Whole
    <2>11. Spared'
      BY <2>7, <2>8, <2>9 DEF Spared, Intact, Whole
    <2> QED BY <2>10, <2>11
  <1> QED BY <1>4, <1>6, <1>7

LEMMA NewIntact ==
  ASSUME Typed, Present, Spared, Nesting, NEW u \in Udata, New(u)
  PROVE  Present' /\ Spared'
  <1> USE DEF meta
  <1>1. /\ UNCHANGED <<dead, queue, mt, hasgc, wkeys, wvals, frames, phase>>
        /\ alloc' = alloc \cup {u} /\ Running' = Running
        /\ Handles' = Handles \cup {u} /\ phase # "done"
    BY PhaseLemma DEF New, Running, Handles
  <1>2. u \notin Range(born) /\ mt[u] = None /\ u \notin alloc /\ u \notin dead
    BY DEF New, Typed, Created, TypeOK
  <1>3. u \notin hasgc
    BY KindsAssumption DEF Typed, TypeOK
  <1>4. Range(cand') = Range(cand) \cup {u}
    <2>1. /\ cand \in Seq(Udata) /\ IsInjective(cand) /\ u \notin Range(cand)
          /\ cand' = <<u>> \o cand
      BY <1>2 DEF Typed, TypeOK, Lists, New
    <2> QED BY <2>1, PushedFront
  <1>5. Intact(Range(queue) \cup Range(cand), alloc)
    BY <1>1 DEF Present
  <1>6. Whole(u, alloc') /\ Whole(u, alloc' \ dead')
    BY <1>1, <1>2, <1>3 DEF Whole
  <1>7. Present'
    BY <1>1, <1>4, <1>5, <1>6 DEF Present, Intact, Whole
  <1>8. ASSUME phase = "run"
        PROVE  Intact(Range(queue) \cup (Range(cand) \ dead), alloc \ dead)'
    <2>1. Intact(Range(queue) \cup (Range(cand) \ dead), alloc \ dead)
      BY <1>8 DEF Spared
    <2>2. alloc \ dead \subseteq alloc' \ dead'
      BY <1>1
    <2> QED BY <1>1, <1>4, <1>6, <2>1, <2>2 DEF Intact, Whole
  <1>9. Spared'
    BY <1>1, <1>8 DEF Spared
  <1> QED BY <1>7, <1>9

LEMMA SetMetaIntact ==
  ASSUME Typed, Typed', Present, Spared, Nesting,
         NEW u \in Udata, NEW m \in Meta, SetMeta(u, m)
  PROVE  Present' /\ Spared'
  <1> USE DEF lists, log, prog
  <1>1. /\ UNCHANGED <<alloc, dead, cand, queue, hasgc, held, wkeys, wvals, frames, phase>>
        /\ mt' = [mt EXCEPT ![u] = m] /\ mt[u] = None /\ m \in Reach
        /\ Running' = Running /\ Handles' = Handles /\ phase # "done"
    BY PhaseLemma DEF SetMeta, Running, Handles
  <1>2. /\ mt \in [Udata -> Meta \cup {None}] /\ hasgc \subseteq Meta
        /\ \A x \in Meta : GcOf[x] \in Callable
        /\ Running \subseteq Udata /\ \A x \in Running : mt[x] \in Meta
    BY RunningIs, FrameLemma, GcOfAssumption DEF Typed, TypeOK, Stack
  <1>3. \A v \in Udata : mt'[v] = IF v = u THEN m ELSE mt[v]
    BY <1>1, <1>2
  <1> DEFINE After(o, A) ==
           /\ o \in A
           /\ o \in hasgc => GcOf[o] \in A
           /\ o \in Udata /\ mt'[o] # None =>
                mt'[o] \in A /\ (mt'[o] \in hasgc => GcOf[mt'[o]] \in A)
  <1>4. ASSUME NEW X, NEW A, Intact(X, A)
        PROVE  /\ \A o \in X \cup Handles : After(o, A)
               /\ \A x \in Running : GcOf[mt'[x]] \in A
    <2>1. m \in A /\ (m \in hasgc => GcOf[m] \in A)
      <3>1. PICK o \in held \cup Running :
              \/ m = o
              \/ o \in Udata /\ m = mt[o]
        BY <1>1, <1>2, NoneAssumption, KindsAssumption DEF Reach, Closure
      <3>2. Whole(o, A)
        BY <1>4 DEF Intact, Handles
      <3>3. m # None
        BY NoneAssumption
      <3> QED BY <3>1, <3>2, <3>3 DEF Whole
    <2>2. \A o : Whole(o, A) => After(o, A)
      BY <1>1, <1>3, <2>1 DEF Whole
    <2>3. u \notin Running
      BY <1>1, <1>2, NoneAssumption
    <2> QED BY <1>2, <1>3, <1>4, <2>2, <2>3 DEF Intact
  <1>5. Present'
    <2>1. Intact(Range(queue) \cup Range(cand), alloc)
      BY <1>1 DEF Present
    <2> QED BY <1>1, <1>4, <2>1 DEF Present, Intact, Whole
  <1>6. Spared'
    <2> SUFFICES ASSUME phase = "run" PROVE Spared'
      BY <1>1 DEF Spared
    <2> DEFINE X == Range(queue) \cup (Range(cand) \ dead)  A == alloc \ dead
    <2>1. Intact(X, A)
      BY DEF Spared
    <2>2. /\ \A o \in X \cup Handles : After(o, A)
          /\ \A x \in Running : GcOf[mt'[x]] \in A
      BY <1>4, <2>1
    <2>3. /\ Range(queue)' \cup (Range(cand)' \ dead') \cup Handles' = X \cup Handles
          /\ alloc' \ dead' = A
      BY <1>1
    <2> QED BY <1>1, <2>2, <2>3 DEF Spared, Intact, Whole
  <1> QED BY <1>5, <1>6

LEMMA IntactStep ==
  ASSUME Typed, Typed', Careful, Scanned, Sound, [Next]_vars
  PROVE  Present' /\ Spared'
  <1> USE DEF Sound
  <1>1. CASE \/ UNCHANGED vars \/ MarkStart \/ FullGC \/ FullGCRestart \/ FullGCDone
             \/ Return \/ Close \/ CloseRound
             \/ FinalizeStep /\ (queue = <<>> \/ ThrowDirect)
             \/ \E u \in Udata : AddWeak(u) \/ Hold(u)
             \/ \E m \in Meta : ClearGC(m)
             \/ \E o \in Udata \cup (Meta \ Registry) : Release(o)
    BY <1>1, QuietSteps
  <1>2. CASE Atomic
    <2>1. phase = "run"
      BY <1>2, PhaseLemma DEF Atomic
    <2> QED BY <1>2, <2>1, AtomicIntact
  <1>3. CASE SweepUdata
    <2>1. phase = "run"
      BY <1>3, PhaseLemma DEF SweepUdata
    <2> QED BY <1>3, <2>1, OnCourse, SweepUdataIntact
  <1>4. CASE SweepRoot
    <2>1. phase = "run"
      BY <1>4, PhaseLemma DEF SweepRoot
    <2> QED BY <1>4, <2>1, OnCourse, SweepRootIntact
  <1>5. CASE FinalizeStep /\ queue # <<>> /\ ~ThrowDirect
    <2>1. phase = "run"
      BY <1>5, PhaseLemma DEF FinalizeStep
    <2>2. Finalize(Head(queue), TRUE) /\ UNCHANGED <<mt, hasgc, held, wkeys, wvals, phase>>
      BY <1>5 DEF FinalizeStep, meta, prog
    <2> QED BY <1>5, <2>1, <2>2, FinalizeIntact
  <1>6. CASE CloseFinalize
    <2>1. /\ phase = "close" /\ queue # <<>> /\ ~ThrowDirect
          /\ Finalize(Head(queue), FALSE)
          /\ UNCHANGED <<mt, hasgc, held, wkeys, wvals, phase>>
      BY <1>6 DEF CloseFinalize, meta, prog, ThrowDirect, Top
    <2> QED BY <2>1, FinalizeIntact
  <1>7. CASE \E u \in Udata : New(u)
    BY <1>7, NewIntact
  <1>8. CASE \E u \in Udata, m \in Meta : SetMeta(u, m)
    BY <1>8, SetMetaIntact
  <1> QED BY <1>1, <1>2, <1>3, <1>4, <1>5, <1>6, <1>7, <1>8
          DEF Next, Collector, Closing

-------------------------------------------------------------------------------
(* The queue and the control stack *)

LEMMA QueuedStep ==
  ASSUME Typed, Typed', Careful, Sound, [Next]_vars
  PROVE  Queued'
  <1> USE DEF Sound, lists, meta, log, prog
  <1> SUFFICES ASSUME phase' = "run"
               PROVE  /\ Range(queue') \cap Handles' = {}
                      /\ gcstate' \in {"pause", "mark"} => queue' = <<>>
    BY DEF Queued
  <1>1. Running = Udatas(frames) /\ Running' = Udatas(frames')
    BY DEF Running, Udatas
  <1>2. frames \in Seq(Frame) /\ Range(queue) \subseteq Udata
    BY DEF Typed, Stack, TypeOK
  <1>3. phase = "run"
    BY DEF Next, vars, Collector, Closing, MarkStart, Atomic, SweepUdata, SweepRoot,
           SweepSegment, Stray,
           FinalizeStep, FullGCRestart, FullGCDone, FullGC, Return, Close,
           CloseFinalize, CloseRound, New, AddWeak, SetMeta, ClearGC, Hold, Release
  <1>4. /\ Range(queue) \cap Handles = {}
        /\ gcstate \in {"pause", "mark"} => queue = <<>>
    BY <1>3 DEF Queued
  <1>5. CASE UNCHANGED vars \/ MarkStart \/ Atomic
    BY <1>4, <1>5 DEF vars, MarkStart, Atomic, Handles, Running
  <1>6. CASE SweepUdata
    <2>0. OnSegment(cursor)
      BY <1>6, OnCourse
    <2>1. /\ Handles' = Handles
          /\ \A o \in Handles : o \notin dead
      BY <1>3, <1>6, <2>0 DEF SweepUdata, Handles, Running, Spared, Intact, Whole
    <2>2. CASE queue' = queue /\ gcstate' \in {"sweep", "sweepudata"}
      BY <1>4, <2>1, <2>2
    <2>3. ASSUME NEW n \in 1..Len(cand), Scan(cand[n]),
                 gcstate' \in {"sweep", "sweepudata"}
          PROVE  /\ Range(queue') \cap Handles' = {}
                 /\ gcstate' \in {"pause", "mark"} => queue' = <<>>
      <3> DEFINE u == cand[n]
      <3>1. Range(Append(queue, u)) = Range(queue) \cup {u}
        BY CandidateLemma
      <3>2. Scan(u)
        BY <2>3
      <3> HIDE DEF u
      <3>3. \/ queue' = queue
            \/ queue' = Append(queue, u) /\ u \in dead
        BY <3>2 DEF Scan, Keep, Park, QueueDead, FreeDead
      <3> QED BY <1>4, <2>1, <2>3, <3>1, <3>3
    <2> QED BY <1>6, <2>0, <2>2, <2>3, SweepCases
  <1>7. CASE SweepRoot
    <2>0. OnSegment(rcursor)
      BY <1>7, OnCourse
    <2>1. queue' = queue /\ Handles' = Handles
      BY <1>7, <2>0 DEF SweepRoot, SweepSegment, Handles, Running
    <2>2. gcstate' \in {"pause", "mark"} => queue = <<>>
      BY <1>7, <2>0 DEF SweepRoot, SweepSegment, SweptLast, SweepEnd
    <2> QED BY <1>4, <2>1, <2>2
  <1>8. CASE FinalizeStep
    <2>1. CASE queue = <<>>
      BY <1>4, <1>8, <2>1 DEF FinalizeStep, Handles, Running
    <2>2. CASE queue # <<>>
      <3> DEFINE u == Head(queue)
      <3>1. u \in Range(queue) /\ u \in Udata /\ Range(Tail(queue)) = Range(queue) \ {u}
        BY <2>2, DroppedHead DEF Typed, TypeOK, Lists
      <3>2. \/ FinalizeDirect(u) \/ ThrowDirect \/ Passed(u)
        BY <1>8, <2>2, FinalizeCases DEF FinalizeStep
      <3>3. UNCHANGED <<gcstate, held, wkeys, wvals>> /\ gcstate = "finalize"
        BY <1>8, <2>2 DEF FinalizeStep
      <3> HIDE DEF u
      <3>4. /\ Udatas(Append(frames, Fin(u))) = Udatas(frames) \cup {u}
            /\ frames # <<>> => Udatas(Front(frames)) \subseteq Udatas(frames)
        BY ONLY <1>2, <3>1, FrameLemma
      <3>5. Top = "cycle" => frames # <<>>
        BY DEF Top
      <3>6. CASE FinalizeDirect(u)
        <4>1. Handles' = Handles /\ Range(queue') = Range(queue) \ {u}
          BY <3>1, <3>3, <3>6 DEF FinalizeDirect, Handles, Running
        <4> QED BY <1>4, <3>3, <4>1
      <3>7. CASE ThrowDirect
        <4>1. Handles' \subseteq Handles /\ queue' = queue
          BY <1>1, <3>3, <3>4, <3>5, <3>7 DEF ThrowDirect, Handles
        <4> QED BY <1>4, <3>3, <4>1
      <3>8. CASE Passed(u)
        <4>1. Handles' \subseteq Handles \cup {u} /\ Range(queue') = Range(queue) \ {u}
          BY <1>1, <3>1, <3>3, <3>4, <3>5, <3>8 DEF Passed, Relinked, Handles, u
        <4> QED BY <1>4, <3>3, <4>1
      <3> QED BY <3>2, <3>6, <3>7, <3>8
    <2> QED BY <2>1, <2>2
  <1>9. CASE FullGC \/ FullGCRestart \/ FullGCDone \/ Return
    <2>1. queue' = queue /\ UNCHANGED <<held, wkeys, wvals>>
      BY <1>9 DEF FullGC, FullGCRestart, FullGCDone, Return
    <2>2. Udatas(frames') \subseteq Udatas(frames)
      <3>1. Top # "none" => frames # <<>>
        BY DEF Top
      <3>2. Udatas(Append(frames, Full("finish"))) = Udatas(frames)
        BY <1>2, FrameLemma
      <3>3. ASSUME frames # <<>>
            PROVE  /\ Udatas(Front(frames)) \subseteq Udatas(frames)
                   /\ Udatas(Append(Front(frames), Full("cycle"))) \subseteq Udatas(frames)
        <4>1. /\ Front(frames) \in Seq(Frame)
              /\ Udatas(Front(frames)) \subseteq Udatas(frames)
          BY <1>2, <3>3, FrameLemma
        <4>2. Udatas(Append(Front(frames), Full("cycle"))) = Udatas(Front(frames))
          BY <4>1, FrameLemma
        <4> QED BY <4>1, <4>2
      <3> QED BY <1>9, <3>1, <3>2, <3>3 DEF FullGC, FullGCRestart, FullGCDone, Return
    <2>3. Handles' \subseteq Handles
      BY <1>1, <2>1, <2>2 DEF Handles
    <2>4. gcstate' \in {"pause", "mark"} => queue = <<>>
      <3>1. CASE FullGC \/ FullGCDone \/ Return
        BY <1>4, <3>1 DEF FullGC, FullGCDone, Return
      <3>2. CASE FullGCRestart
        <4>1. frames # <<>> /\ frames[Len(frames)].kind = "finish"
          BY <3>2 DEF FullGCRestart, Top, Last
        <4>2. Len(frames) \in DOMAIN frames
          BY <1>2, <4>1, EmptySeq
        <4> QED BY <4>1, <4>2 DEF Nesting
      <3> QED BY <1>9, <3>1, <3>2
    <2> QED BY <1>4, <2>1, <2>3, <2>4
  <1>10. ASSUME NEW u \in Udata, New(u)
         PROVE  /\ Range(queue') \cap Handles' = {}
                /\ gcstate' \in {"pause", "mark"} => queue' = <<>>
    <2>1. u \notin Range(queue)
      BY <1>10 DEF New, Typed, Lists
    <2>2. UNCHANGED <<queue, gcstate>> /\ Handles' \subseteq Handles \cup {u}
      BY <1>10 DEF New, Handles, Running
    <2> QED BY <1>4, <2>1, <2>2
  <1>11. CASE \/ \E u \in Udata : AddWeak(u) \/ Hold(u)
              \/ \E u \in Udata, m \in Meta : SetMeta(u, m)
              \/ \E m \in Meta : ClearGC(m)
              \/ \E o \in Udata \cup (Meta \ Registry) : Release(o)
    <2>1. \A u \in Udata : AddWeak(u) \/ Hold(u) => u \in Handles
      BY ReachLemma DEF AddWeak, Hold
    <2>2. UNCHANGED <<queue, gcstate>> /\ Handles' \subseteq Handles
      BY <1>11, <2>1 DEF AddWeak, Hold, SetMeta, ClearGC, Release, Handles, Running
    <2> QED BY <1>4, <2>2
  <1>12. CASE Close \/ CloseFinalize \/ CloseRound
    BY <1>3, <1>12 DEF Close, CloseFinalize, CloseRound
  <1> QED BY <1>5, <1>6, <1>7, <1>8, <1>9, <1>10, <1>11, <1>12
          DEF Next, Collector, Closing


\* Only the last frame can be a first half of a full collection.
LEMMA FinishLemma ==
  ASSUME Typed, Nesting
  PROVE  /\ frames \in Seq(Frame)
         /\ Top # "finish" => \A f \in Range(frames) : f.kind # "finish"
         /\ Top # "none" => frames # <<>>
         /\ frames # <<>> => /\ Front(frames) \in Seq(Frame)
                             /\ Range(Front(frames)) \subseteq Range(frames)
                             /\ \A f \in Range(Front(frames)) : f.kind # "finish"
  <1>1. frames \in Seq(Frame) /\ DOMAIN frames = 1..Len(frames) /\ Len(frames) \in Nat
    BY DEF Typed, Stack
  <1>2. ASSUME Top # "finish", NEW f \in Range(frames), f.kind = "finish"
        PROVE  FALSE
    <2>1. PICK i \in DOMAIN frames : frames[i] = f
      BY DEF Range
    <2>2. i = Len(frames)
      BY <1>2, <2>1 DEF Nesting
    <2>3. frames # <<>>
      BY <2>1
    <2> QED BY <1>2, <2>1, <2>2, <2>3 DEF Top, Last
  <1>3. ASSUME frames # <<>>
        PROVE  /\ Front(frames) \in Seq(Frame)
               /\ Range(Front(frames)) \subseteq Range(frames)
               /\ \A f \in Range(Front(frames)) : f.kind # "finish"
    <2>1. /\ Front(frames) \in Seq(Frame) /\ Len(Front(frames)) = Len(frames) - 1
          /\ \A i \in 1..Len(Front(frames)) : Front(frames)[i] = frames[i]
          /\ Range(Front(frames)) \subseteq Range(frames)
      BY <1>1, <1>3, WithoutLast
    <2>2. ASSUME NEW f \in Range(Front(frames)), f.kind = "finish"
          PROVE  FALSE
      <3>1. PICK i \in 1..Len(Front(frames)) : Front(frames)[i] = f
        BY <2>1 DEF Range
      <3>2. ASSUME NEW n \in Nat, NEW k \in 1..(n - 1)
            PROVE  k \in 1..n /\ k # n
        OBVIOUS
      <3>3. i \in 1..Len(frames) /\ i # Len(frames) /\ frames[i] = f
        BY ONLY <1>1, <2>1, <3>1, <3>2
      <3> QED BY <1>1, <2>2, <3>3 DEF Nesting
    <2> QED BY <2>1, <2>2
  <1>4. Top # "none" => frames # <<>>
    BY DEF Top
  <1> QED BY <1>1, <1>2, <1>3, <1>4

LEMMA NestingStep ==
  ASSUME Typed, Typed', Careful, Sound, [Next]_vars
  PROVE  Nesting'
  <1> USE DEF Sound, lists, meta, log, prog
  <1>1. /\ frames \in Seq(Frame)
        /\ Top # "finish" => \A f \in Range(frames) : f.kind # "finish"
        /\ Top # "none" => frames # <<>>
        /\ frames # <<>> => /\ Front(frames) \in Seq(Frame)
                            /\ Range(Front(frames)) \subseteq Range(frames)
                            /\ \A f \in Range(Front(frames)) : f.kind # "finish"
    BY FinishLemma
  <1>2. /\ phase \in {"run", "close", "done"}
        /\ phase # "run" => \A f \in Range(frames) : f.kind = "fin"
        /\ phase = "done" => frames = <<>>
        /\ Top = "finish" => /\ queue = <<>>
                             /\ gcstate \in {"sweep", "finalize", "pause"}
    <2>1. ASSUME Top = "finish"
          PROVE  queue = <<>> /\ gcstate \in {"sweep", "finalize", "pause"}
      <3>1. frames # <<>> /\ frames[Len(frames)].kind = "finish"
        BY <2>1 DEF Top, Last
      <3>2. Len(frames) \in DOMAIN frames
        BY <1>1, <3>1, EmptySeq
      <3> QED BY <3>1, <3>2 DEF Nesting
    <2> QED BY <2>1 DEF Nesting, Typed, Stack, TypeOK
  <1>3. frames' \in Seq(Frame)
    BY DEF Typed, Stack
  \* No first half of a full collection is on the stack afterwards.
  <1>4. ASSUME \A f \in Range(frames') : f.kind # "finish",
               phase' # "run" => \A f \in Range(frames') : f.kind = "fin",
               phase' = "done" => frames' = <<>>
        PROVE  Nesting'
    <2>1. \A i \in DOMAIN frames' : frames'[i] \in Range(frames')
      BY DEF Range
    <2> QED BY <1>4, <2>1 DEF Nesting
  <1>5. CASE UNCHANGED <<frames, phase, queue, gcstate>>
    BY <1>5 DEF Nesting
  <1>6. CASE UNCHANGED <<frames, phase>> /\ Top # "finish"
    BY <1>1, <1>2, <1>4, <1>6
  <1>7. CASE MarkStart \/ Atomic \/ SweepUdata
    <2>1. UNCHANGED <<frames, phase>> /\ Top # "finish"
      BY <1>2, <1>7, OnCourse DEF MarkStart, Atomic, SweepUdata, InLua, Top
    <2> QED BY <1>6, <2>1
  <1>8. CASE SweepRoot
    <2>1. /\ UNCHANGED <<frames, phase, queue>>
          /\ gcstate' \in {"sweep", "finalize", "pause"}
      BY <1>8, OnCourse DEF SweepRoot, SweepSegment, SweptLast, SweepEnd
    <2> QED BY <2>1 DEF Nesting
  <1>9. CASE FullGC
    <2>1. /\ frames' = Append(frames, Full("finish")) /\ phase' = phase
          /\ phase = "run" /\ Top # "finish"
          /\ queue' = <<>> /\ gcstate' \in {"sweep", "finalize", "pause"}
      <3>1. phase = "run"
        BY <1>9, PhaseLemma
      <3>2. queue = <<>> /\ gcstate # "sweepudata"
        BY <1>9 DEF FullGC, Careful
      <3>3. gcstate \in {"pause", "mark", "sweepudata", "sweep", "finalize"}
        BY DEF Typed, TypeOK
      <3>4. Top # "finish"
        BY <1>9 DEF FullGC, InLua, Top
      <3> QED BY <1>9, <3>1, <3>2, <3>3, <3>4 DEF FullGC
    <2>2. Full("finish") \in Frame
      BY DEF Full, Frame
    <2>3. /\ Len(frames') = Len(frames) + 1 /\ Len(frames) \in Nat
          /\ \A i \in 1..Len(frames) : frames'[i] = frames[i]
      BY <1>1, <2>1, <2>2, Appended
    <2>4. \A i \in 1..Len(frames) : frames[i].kind # "finish"
      BY <1>1, <2>1 DEF Range
    <2>5. ASSUME NEW i \in DOMAIN frames', frames'[i].kind = "finish"
          PROVE  i = Len(frames')
      <3>1. i \in 1..(Len(frames) + 1)
        BY <1>3, <2>3, <2>5
      <3>2. i \in 1..Len(frames) \/ i = Len(frames) + 1
        BY <2>3, <3>1
      <3> QED BY <2>3, <2>4, <2>5, <3>2
    <2> QED BY <2>1, <2>5 DEF Nesting
  <1>10. CASE FullGCRestart
    <2>1. /\ frames' = Append(Front(frames), Full("cycle")) /\ phase' = phase
          /\ phase = "run" /\ frames # <<>>
      BY <1>1, <1>10, PhaseLemma DEF FullGCRestart
    <2>2. Full("cycle") \in Frame /\ Full("cycle").kind = "cycle"
      BY DEF Full, Frame
    <2>3. Range(frames') = Range(Front(frames)) \cup {Full("cycle")}
      BY <1>1, <2>1, <2>2, Appended
    <2> QED BY <1>1, <1>4, <2>1, <2>2, <2>3
  <1>11. ASSUME frames' = Front(frames), frames # <<>>, phase' = phase
         PROVE  Nesting'
    BY <1>1, <1>2, <1>4, <1>11
  <1>12. CASE FullGCDone \/ Return
    BY <1>1, <1>11, <1>12 DEF FullGCDone, Return
  <1>13. CASE FinalizeStep \/ CloseFinalize
    <2>1. UNCHANGED phase /\ phase # "done" /\ Top # "finish"
      BY <1>13, PhaseLemma DEF FinalizeStep, CloseFinalize, Top, Careful
    <2>2. CASE queue = <<>>
      BY <1>6, <1>13, <2>1, <2>2 DEF FinalizeStep, CloseFinalize
    <2>3. CASE queue # <<>>
      <3> DEFINE u == Head(queue)
      <3>1. u \in Udata
        BY <2>3, DroppedHead DEF Typed, TypeOK, Lists
      <3>2. FinalizeDirect(u) \/ ThrowDirect \/ Passed(u)
        BY <1>13, <2>3, FinalizeCases DEF FinalizeStep, CloseFinalize
      <3> HIDE DEF u
      <3>3. \/ frames' = frames
            \/ frames' = Append(frames, Fin(u))
            \/ frames' = Front(frames) /\ frames # <<>>
        BY <1>1, <3>2 DEF FinalizeDirect, ThrowDirect, Passed
      <3>4. Fin(u) \in Frame /\ Fin(u).kind = "fin"
        BY <3>1 DEF Fin, Frame
      <3>5. Range(Append(frames, Fin(u))) = Range(frames) \cup {Fin(u)}
        BY <1>1, <3>4, Appended
      <3>6. CASE frames' = Append(frames, Fin(u))
        BY <1>1, <1>2, <1>4, <2>1, <3>4, <3>5, <3>6
      <3> QED BY <1>6, <1>11, <2>1, <3>3, <3>6
    <2> QED BY <2>2, <2>3
  <1>14. CASE Close \/ CloseRound
    <2>1. frames' = <<>> /\ DOMAIN frames' = {}
      <3>1. frames' = <<>>
        BY <1>14 DEF Close, CloseRound
      <3> QED BY <3>1
    <2> QED BY <1>4, <2>1 DEF Range
  <1>15. CASE \/ UNCHANGED vars
              \/ \E u \in Udata : New(u) \/ AddWeak(u) \/ Hold(u)
              \/ \E u \in Udata, m \in Meta : SetMeta(u, m)
              \/ \E m \in Meta : ClearGC(m)
              \/ \E o \in Udata \cup (Meta \ Registry) : Release(o)
    <2>1. UNCHANGED <<frames, phase, queue, gcstate>>
      BY <1>15 DEF vars, New, AddWeak, Hold, SetMeta, ClearGC, Release
    <2> QED BY <1>5, <2>1
  <1> QED BY <1>7, <1>8, <1>9, <1>10, <1>12, <1>13, <1>14, <1>15
          DEF Next, Collector, Closing


-------------------------------------------------------------------------------
(* The dead, the cursors and the order of the lists *)

LEMMA RunBefore ==
  ASSUME [Next]_vars, phase' = "run"
  PROVE  phase = "run"
  BY DEF Next, vars, Collector, Closing, MarkStart, Atomic, SweepUdata, SweepRoot,
         SweepSegment, Stray,
         FinalizeStep, FullGCRestart, FullGCDone, FullGC, Return, Close,
         CloseFinalize, CloseRound, New, AddWeak, SetMeta, ClearGC, Hold, Release

\* Steps that none of these depends on.
Calm == UNCHANGED <<gcstate, dead, cand, cursor, rcursor, queue, born, phase, stale>>

LEMMA CalmSteps ==
  ASSUME \/ UNCHANGED vars \/ FullGCDone \/ Return
         \/ \E u \in Udata : AddWeak(u) \/ Hold(u)
         \/ \E u \in Udata, m \in Meta : SetMeta(u, m)
         \/ \E m \in Meta : ClearGC(m)
         \/ \E o \in Udata \cup (Meta \ Registry) : Release(o)
  PROVE  Calm
  BY DEF Calm, vars, lists, log, FullGCDone, Return, AddWeak, Hold, SetMeta, ClearGC,
         Release

\* A finalized userdata leaves the dead and the queue at its head.
LEMMA FinalizeCalm ==
  ASSUME FinalizeStep \/ CloseFinalize
  PROVE  /\ UNCHANGED <<cand, cursor, rcursor, born, phase, stale>>
         /\ dead' \subseteq dead
         /\ \/ queue' = queue
            \/ queue # <<>> /\ queue' = Tail(queue)
         /\ FinalizeStep => gcstate = "finalize" /\ gcstate' \in {"finalize", "pause"}
  <1>1. CASE queue = <<>>
    BY <1>1 DEF FinalizeStep, CloseFinalize
  <1>2. CASE queue # <<>>
    <2> DEFINE u == Head(queue)
    <2>1. /\ FinalizeDirect(u) \/ ThrowDirect \/ Passed(u)
          /\ UNCHANGED <<gcstate, cursor, rcursor, born, phase, stale>>
      BY <1>2, FinalizeCases DEF FinalizeStep, CloseFinalize
    <2> HIDE DEF u
    <2>2. /\ cand' = cand /\ dead' \subseteq dead
          /\ queue' = queue \/ queue' = Tail(queue)
      BY <2>1 DEF FinalizeDirect, ThrowDirect, Passed, Relinked
    <2> QED BY <1>2, <2>1, <2>2 DEF FinalizeStep, CloseFinalize
  <1> QED BY <1>1, <1>2

\* The root sweep frees no candidate, and all of the dead before it comes to its end.
LEMMA SweepRootCases ==
  ASSUME Typed, Scanned, SweepRoot, OnSegment(rcursor)
  PROVE  /\ UNCHANGED <<cand, cursor, queue, born, phase>>
         /\ gcstate = "sweep" /\ dead' \subseteq dead /\ Range(cand) \cap dead = {}
         /\ \/ gcstate' \in {"finalize", "pause"} /\ dead' \subseteq Range(queue)
            \/ gcstate' = "sweep" /\ rcursor' \in {rcursor} \cup Range(cand)
         /\ stale' = stale
  <1>1. /\ UNCHANGED <<cursor, queue, born, phase>> /\ gcstate = "sweep"
        /\ stale' = stale
    BY DEF SweepRoot, SweepSegment, log
  <1>2. Range(cand) \cap dead = {}
    BY <1>1 DEF Scanned
  <1>3. dead \subseteq (dead \cap OnRoot) \cup Range(queue)
    BY DEF OnRoot, Typed, TypeOK
  <1>4. ASSUME SweptLast
        PROVE  gcstate' \in {"finalize", "pause"}
    BY <1>4 DEF SweptLast, SweepEnd
  <1>5. CASE dead \cap OnRoot = {} /\ UNCHANGED <<alloc, dead, cand>>
    <2>1. dead' \subseteq Range(queue) /\ dead' \subseteq dead
      BY <1>3, <1>5
    <2>2. CASE SweptLast
      BY <1>1, <1>2, <1>4, <1>5, <2>1, <2>2
    <2>3. CASE ~(Len(Ahead(rcursor)) <= 1)
      <3>1. rcursor' = Head(Ahead(rcursor)) /\ gcstate' = gcstate
        BY <1>5, <2>3 DEF SweepRoot, SweepSegment
      <3>2. /\ Pos(rcursor) \in 0..Len(cand) /\ Len(cand) \in Nat
            /\ Len(Ahead(rcursor)) = Len(cand) - Pos(rcursor)
            /\ Ahead(rcursor) # <<>> => /\ Pos(rcursor) < Len(cand)
                                        /\ Head(Ahead(rcursor)) = cand[Pos(rcursor) + 1]
        BY AheadLemma
      <3>3. Ahead(rcursor) # <<>>
        <4>1. Len(<<>>) = 0
          OBVIOUS
        <4> QED BY <2>3, <4>1
      <3>4. Pos(rcursor) + 1 \in 1..Len(cand)
        BY <3>2, <3>3
      <3>5. cand[Pos(rcursor) + 1] \in Range(cand)
        BY <3>4 DEF Range, Typed, Lists
      <3> QED BY <1>1, <1>2, <1>5, <2>1, <3>1, <3>2, <3>3, <3>5
    <2> QED BY <1>5, <2>2, <2>3 DEF SweepRoot, SweepSegment
  <1>6. ASSUME NEW o \in dead \cap OnRoot, dead' = dead \ {o},
               cand' = RemoveFirst(cand, o),
               IF dead \cap OnRoot = {o} /\ Len(Ahead(rcursor)) <= 1
               THEN SweptLast
               ELSE UNCHANGED <<gcstate, rcursor>>
        PROVE  /\ cand' = cand
               /\ \/ gcstate' \in {"finalize", "pause"} /\ dead' \subseteq Range(queue)
                  \/ gcstate' = "sweep" /\ rcursor' \in {rcursor} \cup Range(cand)
    <2>1. cand' = cand
      <3>1. o \notin Range(cand) /\ DOMAIN cand = 1..Len(cand)
        BY <1>2 DEF Typed, Lists
      <3> QED BY <1>6, <3>1 DEF RemoveFirst, Range
    <2> QED BY <1>1, <1>3, <1>4, <1>6, <2>1
  <1> QED BY <1>1, <1>2, <1>5, <1>6 DEF SweepRoot, SweepSegment

\* Behind the cursor of the candidate sweep nothing is dead.
LEMMA ScannedLemma ==
  ASSUME Typed, Scanned, gcstate = "sweepudata",
         NEW n \in 1..Len(cand), n = Pos(cursor) + 1
  PROVE  /\ Pos(cand[n]) = n /\ cursor # cand[n] /\ cand[n] \in Range(cand)
         /\ \A i \in DOMAIN cand : cand[i] \in dead => n <= i
         /\ DOMAIN cand = 1..Len(cand) /\ Len(cand) \in Nat
  <1>1. /\ cand \in Seq(Udata) /\ IsInjective(cand)
        /\ DOMAIN cand = 1..Len(cand) /\ Len(cand) \in Nat
    BY DEF Typed, TypeOK, Lists
  <1>2. /\ Pos(cand[n]) = n /\ cand[n] \in Range(cand)
        /\ Pos(cursor) \in 0..Len(cand)
    BY <1>1, Position DEF Pos, Range
  <1>3. cursor # cand[n]
    <2>1. n # Pos(cursor)
      BY <1>1, <1>2
    <2> QED BY <1>2, <2>1
  <1>4. \A i \in DOMAIN cand : cand[i] \in dead => Pos(cursor) < i
    BY DEF Scanned
  <1>5. \A i \in DOMAIN cand : cand[i] \in dead => n <= i
    BY <1>1, <1>2, <1>4
  <1> QED BY <1>1, <1>2, <1>3, <1>5

LEMMA ScanCases ==
  ASSUME NEW u, Scan(u)
  PROVE  /\ dead' \subseteq dead
         /\ \/ u \notin dead' /\ cand' = cand /\ cursor' = u /\ queue' = queue
            \/ /\ cand' = RemoveFirst(cand, u) /\ cursor' = cursor
               /\ \/ queue' = queue
                  \/ u \in dead /\ queue' = Append(queue, u)
  BY DEF Scan, Keep, Park, QueueDead, FreeDead

LEMMA SweepUdataScanned ==
  ASSUME Typed, Scanned, SweepUdata, OnSegment(cursor)
  PROVE  Scanned'
  <1>1. gcstate = "sweepudata" /\ born' = born
    BY DEF SweepUdata
  <1>2. /\ cand \in Seq(Udata) /\ IsInjective(cand)
        /\ DOMAIN cand = 1..Len(cand) /\ Len(cand) \in Nat
    BY DEF Typed, TypeOK, Lists
  <1>3. CASE UNCHANGED <<dead, cand, cursor>> /\ Pos(cursor) = Len(cand)
    <2>1. \A i \in DOMAIN cand : cand[i] \notin dead
      BY <1>1, <1>2, <1>3 DEF Scanned
    <2>2. Range(cand) \cap dead = {}
      BY <2>1 DEF Range
    <2> QED BY <1>1, <1>3, <2>1, <2>2 DEF Scanned
  <1>4. ASSUME NEW n \in 1..Len(cand), n = Pos(cursor) + 1,
               Scan(cand[n]), gcstate' = IF n = Len(cand) THEN "sweep" ELSE "sweepudata"
        PROVE  Scanned'
    <2> DEFINE u == cand[n]
    <2>1. /\ Pos(u) = n /\ u \in Range(cand) /\ cursor # u
          /\ \A i \in DOMAIN cand : cand[i] \in dead => n <= i
      BY <1>1, <1>4, ScannedLemma
    <2>2. /\ dead' \subseteq dead
          /\ \/ u \notin dead' /\ cand' = cand /\ cursor' = u
             \/ cand' = RemoveFirst(cand, u) /\ cursor' = cursor
      BY <1>4, ScanCases
    <2>3. /\ Len(RemoveFirst(cand, u)) = Len(cand) - 1
          /\ DOMAIN RemoveFirst(cand, u) = 1..Len(RemoveFirst(cand, u))
          /\ \A i \in 1..Len(RemoveFirst(cand, u)) :
               RemoveFirst(cand, u)[i] = IF i < n THEN cand[i] ELSE cand[i + 1]
          /\ Range(RemoveFirst(cand, u)) = Range(cand) \ {u}
      <3>1. /\ RemoveFirst(cand, u) \in Seq(Udata)
            /\ Len(RemoveFirst(cand, u)) = Len(cand) - 1
            /\ \A i \in 1..Len(RemoveFirst(cand, u)) :
                 RemoveFirst(cand, u)[i] = IF i < n THEN cand[i] ELSE cand[i + 1]
        BY ONLY <1>2, <1>4, UnlinkedAt
      <3>2. DOMAIN RemoveFirst(cand, u) = 1..Len(RemoveFirst(cand, u))
        BY ONLY <3>1
      <3>3. Range(RemoveFirst(cand, u)) = Range(cand) \ {u}
        BY ONLY <1>2, <2>1, Unlinked
      <3> QED BY <3>1, <3>2, <3>3
    <2>4. Place(RemoveFirst(cand, u), cursor) = Pos(cursor)
      <3>1. Pos(cursor) \in 0..Len(cand)
        BY <1>2, Position DEF Pos
      <3>2. Place(cand, cursor) < n
        BY <1>4, <3>1 DEF Pos
      <3> QED BY <1>2, <1>4, <3>2, PlaceUnlinked DEF Pos
    <2>5. Range(cand') \cap dead' \subseteq (Range(cand) \cap dead) \ {u}
      BY <2>2, <2>3
    <2>6. ASSUME gcstate' = "sweep"
          PROVE  Range(cand') \cap dead' = {}
      <3>1. n = Len(cand)
        BY <1>4, <2>6
      <3>2. \A i \in DOMAIN cand : cand[i] \in dead => i = n
        BY <1>2, <2>1, <3>1
      <3> QED BY <2>5, <3>2 DEF Range
    <2> HIDE DEF u
    <2>7. ASSUME gcstate' = "sweepudata", NEW i \in DOMAIN cand', cand'[i] \in dead'
          PROVE  Place(cand', cursor') < i
      <3>1. CASE u \notin dead' /\ cand' = cand /\ cursor' = u
        <4>1. cand[i] \in dead /\ i \in 1..Len(cand) /\ cand[i] # u
          BY <1>2, <2>2, <2>7, <3>1
        <4>2. n <= i /\ i # n
          BY <1>2, <2>1, <4>1 DEF u
        <4>3. n < i
          BY <4>1, <4>2
        <4> QED BY <2>1, <3>1, <4>3 DEF Pos
      <3>2. CASE cand' = RemoveFirst(cand, u) /\ cursor' = cursor
        <4>1. i \in 1..(Len(cand) - 1)
          BY <2>3, <2>7, <3>2
        <4>2. cand'[i] = IF i < n THEN cand[i] ELSE cand[i + 1]
          BY <2>3, <3>2, <4>1
        <4>3. i \in 1..Len(cand) /\ i \in Nat
          BY <1>2, <4>1
        <4>4. ~(i < n)
          <5>1. ASSUME i < n
                PROVE  FALSE
            <6>1. cand[i] \in dead /\ i \in DOMAIN cand
              BY <1>2, <2>2, <2>7, <4>2, <4>3, <5>1
            <6>2. n <= i
              BY <2>1, <6>1
            <6> QED BY <4>3, <5>1, <6>2
          <5> QED BY <5>1
        <4>5. Pos(cursor) \in Nat
          BY <1>2, Position DEF Pos
        <4>6. Pos(cursor) < i
          BY ONLY <1>4, <4>3, <4>4, <4>5
        <4> QED BY <2>4, <3>2, <4>6
      <3> QED BY <2>2, <3>1, <3>2
    <2>8. cursor' \in Range(born) \cup {None} /\ OnSegment(cursor)'
      <3>1. Range(cand) \subseteq Range(born)
        BY DEF Typed, Lists
      <3> QED BY <1>4, <2>1, <2>2, <2>3, <3>1 DEF OnSegment
    <2> QED BY <1>1, <1>4, <2>6, <2>7, <2>8 DEF Scanned, Pos
  <1> QED BY <1>1, <1>3, <1>4, SweepCases


\* A new userdata stands before all candidates.
LEMMA NewLemma ==
  ASSUME Typed, NEW u \in Udata, New(u)
  PROVE  /\ u \notin Range(born) /\ u \notin Range(cand) /\ u \notin dead
         /\ cand' = <<u>> \o cand /\ Range(cand') = Range(cand) \cup {u}
         /\ DOMAIN cand' = 1..(Len(cand) + 1) /\ Len(cand) \in Nat
         /\ \A i \in DOMAIN cand' : cand'[i] = IF i = 1 THEN u ELSE cand[i - 1]
         /\ UNCHANGED <<gcstate, dead, cursor, rcursor, queue, phase, stale>>
         /\ born' = Append(born, u)
  <1>1. /\ cand \in Seq(Udata) /\ IsInjective(cand) /\ u \notin Range(born)
        /\ u \notin Range(cand) /\ u \notin dead /\ Len(cand) \in Nat
    BY DEF Typed, TypeOK, Lists, Created, New
  <1>2. cand' = <<u>> \o cand
    BY DEF New
  <1> DEFINE q == <<u>> \o cand
  <1>3. Range(q) = Range(cand) \cup {u}
    BY ONLY <1>1, PushedFront, u \in Udata
  <1>4. /\ DOMAIN q = 1..(Len(cand) + 1)
        /\ \A i \in 1..(Len(cand) + 1) : q[i] = IF i = 1 THEN u ELSE cand[i - 1]
    BY <1>1
  <1> HIDE DEF q
  <1>5. cand' = q
    BY <1>2 DEF q
  <1> QED BY <1>1, <1>2, <1>3, <1>4, <1>5 DEF New

LEMMA ScannedStep ==
  ASSUME Typed, Careful, Scanned, Sound, [Next]_vars
  PROVE  Scanned'
  <1> USE DEF lists, meta, log, prog
  <1>1. /\ cursor \in Range(born) \cup {None}
        /\ gcstate # "sweepudata" => Range(cand) \cap dead = {}
    BY DEF Scanned
  <1>2. CASE \/ UNCHANGED vars \/ FullGCDone \/ Return
             \/ \E u \in Udata : AddWeak(u) \/ Hold(u)
             \/ \E u \in Udata, m \in Meta : SetMeta(u, m)
             \/ \E m \in Meta : ClearGC(m)
             \/ \E o \in Udata \cup (Meta \ Registry) : Release(o)
    <2>1. Calm
      BY <1>2, CalmSteps
    <2> QED BY <2>1 DEF Calm, Scanned, Pos, OnSegment
  <1>3. CASE MarkStart \/ FullGCRestart
    BY <1>1, <1>3 DEF MarkStart, FullGCRestart, Scanned
  <1>4. CASE Atomic
    <2>1. /\ gcstate' = "sweepudata" /\ cursor' = None /\ cand' = cand
          /\ born' = born
      BY <1>4 DEF Atomic
    <2>2. /\ cand \in Seq(Udata) /\ IsInjective(cand) /\ Range(cand) \subseteq Udata
          /\ DOMAIN cand = 1..Len(cand)
      BY DEF Typed, TypeOK, Lists
    <2>3. None \notin Range(cand)
      BY <2>2, NoneAssumption
    <2>4. Place(cand, None) = 0
      BY ONLY <2>2, <2>3, Position
    <2>5. \A i \in DOMAIN cand : Place(cand', cursor') < i
      BY <2>1, <2>2, <2>4
    <2> QED BY <2>1, <2>5 DEF Scanned, Pos, OnSegment
  <1>5. CASE SweepUdata
    BY <1>5, OnCourse, SweepUdataScanned
  <1>6. CASE SweepRoot
    <2>1. /\ UNCHANGED <<cand, cursor, born>> /\ dead' \subseteq dead
          /\ Range(cand) \cap dead = {} /\ gcstate' \in {"finalize", "pause", "sweep"}
      BY <1>6, OnCourse, SweepRootCases
    <2> QED BY <1>1, <2>1 DEF Scanned
  <1>7. CASE FinalizeStep \/ CloseFinalize
    <2>1. /\ UNCHANGED <<cand, cursor, born>> /\ dead' \subseteq dead
          /\ FinalizeStep => gcstate = "finalize" /\ gcstate' \in {"finalize", "pause"}
          /\ CloseFinalize => gcstate' = gcstate
      BY <1>7, FinalizeCalm DEF CloseFinalize
    <2> QED BY <1>1, <1>7, <2>1 DEF Scanned, Pos, OnSegment
  <1>8. CASE FullGC
    <2>1. UNCHANGED <<cand, cursor, born, dead>>
      BY <1>8 DEF FullGC
    <2>2. \/ gcstate' = "sweep" /\ gcstate # "sweepudata"
          \/ gcstate' = gcstate
      BY <1>8 DEF FullGC
    <2> QED BY <1>1, <2>1, <2>2 DEF Scanned, Pos, OnSegment
  <1>9. ASSUME NEW u \in Udata, New(u)
        PROVE  Scanned'
    <2>1. /\ u \notin dead /\ u \notin Range(cand) /\ u \notin Range(born)
          /\ cand' = <<u>> \o cand /\ Range(cand') = Range(cand) \cup {u}
          /\ DOMAIN cand' = 1..(Len(cand) + 1) /\ Len(cand) \in Nat
          /\ \A i \in DOMAIN cand' : cand'[i] = IF i = 1 THEN u ELSE cand[i - 1]
          /\ UNCHANGED <<gcstate, dead, cursor>> /\ born' = Append(born, u)
      BY <1>9, NewLemma
    <2>2. /\ cand \in Seq(Udata) /\ IsInjective(cand) /\ DOMAIN cand = 1..Len(cand)
          /\ born \in Seq(Udata)
      BY DEF Typed, TypeOK, Lists
    <2>3. ASSUME gcstate = "sweepudata", NEW i \in DOMAIN cand', cand'[i] \in dead
          PROVE  OnSegment(cursor) /\ Place(cand', cursor') < i
      <3>1. i - 1 \in DOMAIN cand /\ cand[i - 1] \in dead /\ i \in Nat
        BY <2>1, <2>2, <2>3
      <3>2. Pos(cursor) < i - 1 /\ OnSegment(cursor)
        BY <2>3, <3>1 DEF Scanned
      <3>3. cursor # u
        BY <1>1, <2>1, NoneAssumption
      <3>4. Place(<<u>> \o cand, cursor) =
              IF cursor \in Range(cand) THEN Place(cand, cursor) + 1 ELSE 0
        BY ONLY <2>1, <2>2, <3>3, PlacePushed, u \in Udata
      <3>5. Place(cand, cursor) \in Nat
        BY <2>2, Position
      <3>6. Place(cand, cursor) < i - 1
        BY <3>2 DEF Pos
      <3>7. Place(<<u>> \o cand, cursor) < i
        BY ONLY <3>1, <3>4, <3>5, <3>6
      <3> QED BY <2>1, <3>2, <3>7
    <2>4. Range(born') = Range(born) \cup {u}
      BY <2>1, <2>2, Appended
    <2>5. OnSegment(cursor) => OnSegment(cursor)'
      BY <2>1 DEF OnSegment
    <2>6. gcstate' # "sweepudata" => Range(cand') \cap dead' = {}
      BY <1>1, <2>1
    <2> QED BY <1>1, <2>1, <2>3, <2>4, <2>5, <2>6 DEF Scanned, Pos
  <1>10. CASE Close \/ CloseRound
    <2>1. cand' = <<>> /\ UNCHANGED <<cursor, born>>
      BY <1>10 DEF Close, CloseRound, Separated
    <2>2. Range(cand') = {} /\ DOMAIN cand' = {}
      BY <2>1 DEF Range
    <2> QED BY <1>1, <2>1, <2>2 DEF Scanned
  <1> QED BY <1>2, <1>3, <1>4, <1>5, <1>6, <1>7, <1>8, <1>9, <1>10
          DEF Next, Collector, Closing

LEMMA DeathsStep ==
  ASSUME Typed, Typed', Careful, Scanned, Sound, [Next]_vars
  PROVE  Deaths'
  <1> USE DEF Sound, lists, meta, log, prog
  <1> SUFFICES ASSUME phase' = "run" PROVE Deaths'
    BY DEF Deaths
  <1>1. phase = "run"
    BY RunBefore
  <1>2. gcstate \in {"pause", "mark", "finalize"} => dead = {}
    BY <1>1 DEF Deaths
  <1>3. CASE \/ UNCHANGED vars \/ FullGCDone \/ Return
             \/ \E u \in Udata : AddWeak(u) \/ Hold(u)
             \/ \E u \in Udata, m \in Meta : SetMeta(u, m)
             \/ \E m \in Meta : ClearGC(m)
             \/ \E o \in Udata \cup (Meta \ Registry) : Release(o)
    <2>1. Calm
      BY <1>3, CalmSteps
    <2> QED BY <2>1 DEF Calm, Deaths
  <1>4. CASE MarkStart \/ FullGCRestart \/ FullGC
    BY <1>2, <1>4 DEF MarkStart, FullGCRestart, FullGC, Deaths
  <1>5. CASE Atomic
    BY <1>5 DEF Atomic, Deaths
  <1>6. CASE SweepUdata
    BY <1>6, OnCourse, SweepCases DEF SweepUdata, Deaths
  <1>7. CASE SweepRoot
    <2>1. \/ gcstate' \in {"finalize", "pause"} /\ dead' \subseteq Range(queue)
          \/ gcstate' = "sweep"
      BY <1>7, OnCourse, SweepRootCases
    <2>2. dead' \subseteq dead
      BY <1>7, OnCourse, SweepRootCases
    <2>3. Range(queue) \cap dead = {}
      BY <1>1 DEF Spared, Intact, Whole
    <2> QED BY <2>1, <2>2, <2>3 DEF Deaths
  <1>8. CASE FinalizeStep \/ CloseFinalize
    <2>1. FinalizeStep
      BY <1>1, <1>8 DEF CloseFinalize
    <2>2. dead' \subseteq dead /\ gcstate = "finalize"
      BY <2>1, FinalizeCalm
    <2> QED BY <1>2, <2>2 DEF Deaths
  <1>9. ASSUME NEW u \in Udata, New(u)
        PROVE  Deaths'
    BY <1>2, <1>9 DEF New, Deaths
  <1>10. CASE Close \/ CloseRound
    BY <1>1, <1>10 DEF Close, CloseRound
  <1> QED BY <1>3, <1>4, <1>5, <1>6, <1>7, <1>8, <1>9, <1>10
          DEF Next, Collector, Closing

LEMMA CursorsStep ==
  ASSUME Typed, Typed', Careful, Scanned, Sound, [Next]_vars
  PROVE  Cursors'
  <1> USE DEF Sound, lists, meta, log, prog
  <1>1. /\ stale = {}
        /\ phase = "run" =>
             /\ gcstate = "sweepudata" => OnSegment(cursor) /\ rcursor = None
             /\ gcstate = "sweep" => OnSegment(rcursor)
    BY DEF Cursors
  <1>2. phase' = "run" => phase = "run"
    BY RunBefore
  <1>3. CASE \/ UNCHANGED vars \/ FullGCDone \/ Return
             \/ \E u \in Udata : AddWeak(u) \/ Hold(u)
             \/ \E u \in Udata, m \in Meta : SetMeta(u, m)
             \/ \E m \in Meta : ClearGC(m)
             \/ \E o \in Udata \cup (Meta \ Registry) : Release(o)
    <2>1. Calm
      BY <1>3, CalmSteps
    <2> QED BY <2>1 DEF Calm, Cursors, OnSegment
  <1>4. CASE MarkStart \/ FullGCRestart
    BY <1>1, <1>4 DEF MarkStart, FullGCRestart, Cursors
  <1>5. CASE Atomic
    BY <1>1, <1>5 DEF Atomic, Cursors, OnSegment
  <1>6. CASE SweepUdata
    <2>1. phase = "run" /\ gcstate = "sweepudata"
      BY <1>6, PhaseLemma DEF SweepUdata
    <2>2. OnSegment(cursor) /\ rcursor = None
      BY <1>1, <2>1
    <2>3. ASSUME UNCHANGED <<cand, cursor, rcursor, stale>>
          PROVE  Cursors'
      BY <1>1, <2>2, <2>3 DEF Cursors, OnSegment
    <2>4. ASSUME NEW n \in 1..Len(cand), n = Pos(cursor) + 1, Scan(cand[n]),
                 UNCHANGED <<stale, rcursor>>
          PROVE  Cursors'
      <3> DEFINE u == cand[n]
      <3>1. u \in Range(cand) /\ cursor # u
        BY <2>1, <2>4, ScannedLemma
      <3>2. Range(RemoveFirst(cand, u)) = Range(cand) \ {u}
        BY CandidateLemma
      <3>3. \/ cand' = cand /\ cursor' = u
            \/ cand' = RemoveFirst(cand, u) /\ cursor' = cursor
        BY <2>4, ScanCases
      <3> HIDE DEF u
      <3>4. OnSegment(cursor)'
        BY <2>2, <3>1, <3>2, <3>3 DEF OnSegment
      <3> QED BY <1>1, <2>2, <2>4, <3>4 DEF Cursors, OnSegment
    <2> QED BY <1>6, <2>2, <2>3, <2>4, SweepCases
  <1>7. CASE SweepRoot
    <2>1. phase = "run"
      BY <1>7, PhaseLemma DEF SweepRoot
    <2>2. /\ UNCHANGED <<cand, phase, stale>> /\ gcstate = "sweep"
          /\ \/ gcstate' \in {"finalize", "pause"}
             \/ gcstate' = "sweep" /\ rcursor' \in {rcursor} \cup Range(cand)
      BY <1>7, <2>1, OnCourse, SweepRootCases
    <2> QED BY <1>1, <2>1, <2>2 DEF Cursors, OnSegment
  <1>8. CASE FinalizeStep \/ CloseFinalize
    <2>1. /\ UNCHANGED <<cand, cursor, rcursor, phase, stale>>
          /\ FinalizeStep => gcstate' \in {"finalize", "pause"}
      BY <1>8, FinalizeCalm
    <2>2. CloseFinalize => phase = "close"
      BY DEF CloseFinalize
    <2> QED BY <1>1, <1>8, <2>1, <2>2 DEF Cursors
  <1>9. CASE FullGC
    <2>1. UNCHANGED <<cand, cursor, phase, stale>>
      BY <1>9 DEF FullGC
    <2>2. \/ gcstate' = "sweep" /\ rcursor' = None
          \/ UNCHANGED <<gcstate, rcursor>>
      BY <1>9 DEF FullGC
    <2> QED BY <1>1, <2>1, <2>2 DEF Cursors, OnSegment
  <1>10. ASSUME NEW u \in Udata, New(u)
         PROVE  Cursors'
    <2>1. /\ Range(cand') = Range(cand) \cup {u}
          /\ UNCHANGED <<gcstate, cursor, rcursor, phase, stale>>
      BY <1>10, NewLemma
    <2> QED BY <1>1, <2>1 DEF Cursors, OnSegment
  <1>11. CASE Close \/ CloseRound
    <2>1. stale' = stale /\ phase' # "run"
      BY <1>2, <1>11 DEF Close, CloseRound
    <2> QED BY <1>1, <2>1 DEF Cursors
  <1> QED BY <1>3, <1>4, <1>5, <1>6, <1>7, <1>8, <1>9, <1>10, <1>11
          DEF Next, Collector, Closing


\* What a step of the candidate sweep queues is younger than what it leaves.
LEMMA SweepUdataOrdered ==
  ASSUME Typed, Scanned, Ordered, SweepUdata, OnSegment(cursor), phase = "run"
  PROVE  Ordered'
  <1>1. gcstate = "sweepudata" /\ phase' = phase /\ born' = born
    BY DEF SweepUdata
  <1>2. /\ cand \in Seq(Udata) /\ IsInjective(cand) /\ queue \in Seq(Udata)
        /\ DOMAIN cand = 1..Len(cand) /\ Len(cand) \in Nat
    BY DEF Typed, TypeOK, Lists
  <1>3. /\ Reverses(cand, born) /\ Reverses(queue, born)
        /\ \A q \in Range(queue), x \in Range(cand) \cap dead :
             Place(born, q) > Place(born, x)
    BY <1>1 DEF Ordered
  <1>4. ASSUME Reverses(cand', born), Reverses(queue', born),
               \A q \in Range(queue'), x \in Range(cand') \cap dead' :
                 Place(born, q) > Place(born, x)
        PROVE  Ordered'
    BY <1>1, <1>4 DEF Ordered
  <1>5. CASE UNCHANGED <<dead, cand, queue>>
    BY <1>3, <1>4, <1>5
  <1>6. ASSUME NEW n \in 1..Len(cand), n = Pos(cursor) + 1, Scan(cand[n])
        PROVE  Ordered'
    <2> DEFINE u == cand[n]
               r == RemoveFirst(cand, u)
    <2>1. /\ u \in Range(cand) /\ u \in Udata
          /\ Range(r) = Range(cand) \ {u}
          /\ Range(Append(queue, u)) = Range(queue) \cup {u}
      BY CandidateLemma
    <2>2. \A i \in DOMAIN cand : cand[i] \in dead => n <= i
      BY <1>1, <1>6, ScannedLemma
    <2>3. /\ dead' \subseteq dead
          /\ \/ cand' = cand /\ queue' = queue
             \/ /\ cand' = r
                /\ \/ queue' = queue
                   \/ u \in dead /\ queue' = Append(queue, u)
      BY <1>6, ScanCases
    <2>4. Reverses(r, born)
      BY ONLY <1>2, <1>3, n \in 1..Len(cand), ReversesUnlinked
    <2>5. ASSUME NEW x \in (Range(cand) \cap dead) \ {u}
          PROVE  Place(born, u) > Place(born, x)
      <3>1. PICK i \in DOMAIN cand : cand[i] = x
        BY DEF Range
      <3>2. n \in DOMAIN cand /\ n < i
        BY <1>2, <2>2, <2>5, <3>1
      <3> QED BY <1>3, <3>1, <3>2 DEF Reverses
    <2>6. ASSUME u \in dead
          PROVE  Reverses(Append(queue, u), born)
      <3>1. \A x \in Range(queue) : Place(born, x) > Place(born, u)
        BY <1>3, <2>1, <2>6
      <3> HIDE DEF u
      <3> QED BY ONLY <1>2, <1>3, <2>1, <3>1, ReversesAppended
    <2> HIDE DEF u, r
    <2>7. CASE cand' = cand /\ queue' = queue
      BY <1>3, <1>4, <2>3, <2>7
    <2>8. CASE cand' = r /\ queue' = queue
      BY <1>3, <1>4, <2>1, <2>3, <2>4, <2>8
    <2>9. CASE cand' = r /\ u \in dead /\ queue' = Append(queue, u)
      <3>1. ASSUME NEW q \in Range(queue'), NEW x \in Range(cand') \cap dead'
            PROVE  Place(born, q) > Place(born, x)
        BY <1>3, <2>1, <2>3, <2>5, <2>9, <3>1
      <3> QED BY <1>4, <2>4, <2>6, <2>9, <3>1
    <2> QED BY <2>3, <2>7, <2>8, <2>9
  <1> QED BY <1>5, <1>6, SweepCases

LEMMA OrderedStep ==
  ASSUME Typed, Typed', Careful, Scanned, Sound, [Next]_vars
  PROVE  Ordered'
  <1> USE DEF Sound, lists, meta, log, prog
  <1>1. /\ Reverses(cand, born)
        /\ phase = "run" => Reverses(queue, born)
    BY DEF Ordered
  <1>2. phase' = "run" => phase = "run"
    BY RunBefore
  <1>3. CASE \/ UNCHANGED vars \/ FullGCDone \/ Return
             \/ \E u \in Udata : AddWeak(u) \/ Hold(u)
             \/ \E u \in Udata, m \in Meta : SetMeta(u, m)
             \/ \E m \in Meta : ClearGC(m)
             \/ \E o \in Udata \cup (Meta \ Registry) : Release(o)
    <2>1. Calm
      BY <1>3, CalmSteps
    <2> QED BY <2>1 DEF Calm, Ordered
  \* Steps after which no candidate is waiting for the sweep to queue it.
  <1>4. ASSUME UNCHANGED <<cand, queue, born>>, gcstate' # "sweepudata" \/ queue = <<>>
        PROVE  Ordered'
    BY <1>1, <1>2, <1>4 DEF Ordered, Range
  <1>5. CASE MarkStart \/ FullGCRestart
    BY <1>4, <1>5 DEF MarkStart, FullGCRestart
  <1>6. CASE Atomic
    <2>1. phase = "run" /\ gcstate = "mark"
      BY <1>6, PhaseLemma DEF Atomic
    <2>2. queue = <<>>
      BY <2>1 DEF Queued
    <2> QED BY <1>4, <1>6, <2>2 DEF Atomic
  <1>7. CASE SweepUdata
    <2>1. phase = "run"
      BY <1>7, PhaseLemma DEF SweepUdata
    <2> QED BY <1>7, <2>1, OnCourse, SweepUdataOrdered
  <1>8. CASE SweepRoot
    <2>1. phase = "run"
      BY <1>8, PhaseLemma DEF SweepRoot
    <2>2. /\ UNCHANGED <<cand, queue, born>>
          /\ gcstate' \in {"finalize", "pause", "sweep"}
      BY <1>8, <2>1, OnCourse, SweepRootCases
    <2> QED BY <1>4, <2>2
  <1>9. CASE FinalizeStep \/ CloseFinalize
    <2>1. /\ UNCHANGED <<cand, born, phase>>
          /\ \/ queue' = queue
             \/ queue # <<>> /\ queue' = Tail(queue)
          /\ FinalizeStep => gcstate' \in {"finalize", "pause"}
      BY <1>9, FinalizeCalm
    <2>2. CloseFinalize => phase = "close"
      BY DEF CloseFinalize
    <2>3. ASSUME queue # <<>>, phase = "run"
          PROVE  Reverses(Tail(queue), born)
      <3>1. queue \in Seq(Udata)
        BY DEF Typed, Lists
      <3> QED BY ONLY <1>1, <2>3, <3>1, ReversesTail
    <2> QED BY <1>1, <1>9, <2>1, <2>2, <2>3 DEF Ordered
  <1>10. CASE FullGC
    <2>1. UNCHANGED <<cand, queue, born, dead, phase>>
      BY <1>10 DEF FullGC
    <2>2. gcstate' = "sweep" \/ gcstate' = gcstate
      BY <1>10 DEF FullGC
    <2> QED BY <1>4, <2>1, <2>2 DEF Ordered
  <1>11. ASSUME NEW u \in Udata, New(u)
         PROVE  Ordered'
    <2>1. /\ u \notin Range(born) /\ u \notin dead
          /\ cand' = <<u>> \o cand /\ Range(cand') = Range(cand) \cup {u}
          /\ UNCHANGED <<gcstate, dead, queue, phase>>
          /\ born' = Append(born, u)
      BY <1>11, NewLemma
    <2>2. /\ cand \in Seq(Udata) /\ queue \in Seq(Udata) /\ born \in Seq(Udata)
          /\ IsInjective(born)
          /\ Range(cand) \subseteq Range(born) /\ Range(queue) \subseteq Range(born)
      BY DEF Typed, Lists
    <2>3. Reverses(<<u>> \o cand, Append(born, u))
      BY ONLY <1>1, <2>1, <2>2, ReversesPushed, u \in Udata
    <2>4. phase = "run" => Reverses(queue, Append(born, u))
      BY ONLY <1>1, <2>1, <2>2, ReversesPushed, u \in Udata
    <2>5. \A x \in Range(born) : Place(Append(born, u), x) = Place(born, x)
      BY ONLY <2>1, <2>2, PlaceAppended, u \in Udata
    <2>6. ASSUME phase = "run", gcstate = "sweepudata",
                 NEW q \in Range(queue), NEW x \in Range(cand') \cap dead
          PROVE  Place(Append(born, u), q) > Place(Append(born, u), x)
      <3>1. x \in Range(cand) \cap dead
        BY <2>1
      <3>2. Place(born, q) > Place(born, x)
        BY <2>6, <3>1 DEF Ordered
      <3> QED BY <2>2, <2>5, <3>1, <3>2
    <2> QED BY <2>1, <2>3, <2>4, <2>6 DEF Ordered
  <1>12. CASE Close \/ CloseRound
    <2>1. phase' # "run" /\ cand' = <<>>
      BY <1>2, <1>12 DEF Close, CloseRound, Separated
    <2>2. Reverses(cand', born')
      <3> DEFINE e == <<>>
      <3>1. cand' = e /\ DOMAIN e = {}
        BY <2>1
      <3> HIDE DEF e
      <3> QED BY <3>1 DEF Reverses
    <2> QED BY <2>1, <2>2 DEF Ordered
  <1> QED BY <1>3, <1>5, <1>6, <1>7, <1>8, <1>9, <1>10, <1>11, <1>12
          DEF Next, Collector, Closing

-------------------------------------------------------------------------------
(* Invariance *)

LEMMA InitSound == Init => Scanned /\ Sound
  <1> SUFFICES ASSUME Init PROVE Scanned /\ Sound
    OBVIOUS
  <1>1. Range(<<>>) = {}
    BY DEF Range
  <1>2. Running = {}
    BY <1>1, RunningIs DEF Init, Udatas
  <1> DEFINE e == <<>>
  <1>3. cand = e /\ queue = e /\ born = e /\ frames = e /\ e = <<>>
    BY DEF Init
  <1>4. Range(e) = {} /\ DOMAIN e = {}
    BY <1>1
  <1> HIDE DEF e
  <1>5. Handles = Meta /\ dead = {} /\ alloc = Meta \cup Callable
    BY <1>2 DEF Init, Handles
  <1>6. ASSUME NEW m \in Meta
        PROVE  Whole(m, Meta \cup Callable)
    <2>1. m \notin Udata /\ GcOf[m] \in Callable
      BY KindsAssumption, GcOfAssumption
    <2> QED BY <2>1 DEF Whole
  <1>7. Present /\ Spared
    BY <1>2, <1>3, <1>4, <1>5, <1>6 DEF Present, Spared, Intact
  <1>8. Scanned /\ Deaths /\ Cursors
    BY <1>3, <1>4 DEF Init, Scanned, Deaths, Cursors
  <1>9. Queued /\ Nesting
    BY <1>3, <1>4 DEF Init, Queued, Nesting
  <1>10. Ordered
    BY <1>3, <1>4 DEF Init, Ordered, Reverses
  <1> QED BY <1>7, <1>8, <1>9, <1>10 DEF Sound

LEMMA IInvStep == Careful /\ IInv /\ [Next]_vars => IInv'
  <1> SUFFICES ASSUME Careful, IInv, [Next]_vars PROVE IInv'
    OBVIOUS
  <1>1. Typed' /\ FinalizedOnce' /\ Uncalled'
    BY TypedStep DEF IInv
  <1>2. Scanned'
    BY ScannedStep DEF IInv
  <1>3. Typed /\ Scanned /\ Sound
    BY DEF IInv
  <1>4. Sound'
    BY <1>1, <1>3, IntactStep, QueuedStep, NestingStep, DeathsStep, CursorsStep,
       OrderedStep DEF Sound
  <1> QED BY <1>1, <1>2, <1>4 DEF IInv

THEOREM Invariance ==
  ASSUME Careful PROVE Spec => []IInv
  <1>1. Init => IInv
    BY InitTyped, InitSound DEF IInv
  <1>2. IInv /\ [Next]_vars => IInv'
    BY IInvStep
  <1> QED BY <1>1, <1>2, PTL DEF Spec

\* The lists hold userdata, each once and in one list, the dead are allocated,
\* and a userdata's metatable is one, or none.
THEOREM TypeCorrect ==
  ASSUME Careful PROVE Spec => []TypeOK
  <1>1. IInv => TypeOK
    BY DEF IInv, Typed
  <1> QED BY <1>1, Invariance, PTL

\* gc_finalize calls the finalizer of a userdata at most once, whatever the
\* finalizers do, full collections before lua_close included.
THEOREM CalledOnce ==
  ASSUME Careful PROVE Spec => []FinalizedOnce
  <1>1. IInv => FinalizedOnce
    BY DEF IInv
  <1> QED BY <1>1, Invariance, PTL

\* Nothing the program, a finalizer or a weak table refers to has been freed, the
\* userdata freed right behind their direct finalizers included.
THEOREM NothingDangles ==
  ASSUME Careful PROVE Spec => []NoDangling
  <1>1. IInv => NoDangling
    <2> SUFFICES ASSUME IInv, phase # "done" PROVE Access \subseteq alloc
      BY DEF NoDangling
    <2>1. /\ \A o \in Handles : Whole(o, alloc)
          /\ \A u \in Running : GcOf[mt[u]] \in alloc
      BY DEF IInv, Sound, Present, Intact
    <2>2. /\ held \subseteq Udata \cup Meta /\ hasgc \subseteq Meta
          /\ Running \subseteq Udata /\ wkeys \cup wvals \subseteq Udata
      BY RunningIs, FrameLemma DEF IInv, Typed, TypeOK, Stack
    <2>3. ASSUME NEW S, S \subseteq Handles
          PROVE  Closure(S) \subseteq alloc
      BY <2>1, <2>2, <2>3, KindsAssumption DEF Closure, Whole
    <2>4. /\ held \cup Running \subseteq Handles
          /\ wkeys \cup wvals \subseteq Handles
      BY DEF Handles
    <2>5. /\ Closure(held \cup Running) \subseteq alloc
          /\ Closure(wkeys \cup wvals) \subseteq alloc
      BY <2>3, <2>4
    <2> QED BY <2>1, <2>5 DEF Access, Reach
  <1> QED BY <1>1, Invariance, PTL

\* gc_sweepudata makes a userdata it queues, its metatable and its __gc callable
\* current-white, and no sweep frees them before gc_finalize has resolved it.
THEOREM QueuedArePreserved ==
  ASSUME Careful PROVE Spec => []QueuedPreserved
  <1>1. IInv => QueuedPreserved
    <2> SUFFICES ASSUME IInv, phase # "done", NEW u \in Range(queue)
                 PROVE  /\ {u, mt[u]} \subseteq alloc
                        /\ HasGC(u) => GcOf[mt[u]] \in alloc
      BY DEF QueuedPreserved
    <2>1. Whole(u, alloc)
      BY DEF IInv, Sound, Present, Intact
    <2>2. u \in Udata /\ mt[u] \in Meta /\ mt[u] # None
      BY NoneAssumption DEF IInv, Typed, TypeOK, Stack
    <2> QED BY <2>1, <2>2 DEF Whole, HasGC
  <1> QED BY <1>1, Invariance, PTL

\* The queue has the userdata found dead by one candidate sweep, newest first,
\* although the sweep is interleaved with the creation of new userdata.
THEOREM NewestFirst ==
  ASSUME Careful PROVE Spec => []ReverseOfCreation
  <1>1. IInv => ReverseOfCreation
    <2> SUFFICES ASSUME IInv, phase = "run",
                        NEW i \in 1..Len(queue), NEW j \in 1..Len(queue), i < j
                 PROVE  Age(queue[i]) > Age(queue[j])
      BY DEF ReverseOfCreation
    <2>1. Reverses(queue, born) /\ DOMAIN queue = 1..Len(queue)
      BY DEF IInv, Sound, Ordered, Typed, Lists
    <2>2. Place(born, queue[i]) > Place(born, queue[j])
      BY <2>1 DEF Reverses
    <2> QED BY <2>2 DEF Age, Place
  <1> QED BY <1>1, Invariance, PTL

\* Both sweeps stand on the userdata segment whenever they go on, whatever the
\* steps in between have moved away from it.
THEOREM CursorsStayValid ==
  ASSUME Careful PROVE Spec => []CursorOnSegment
  <1>1. IInv => CursorOnSegment
    BY DEF IInv, Sound, Cursors, CursorOnSegment
  <1> QED BY <1>1, Invariance, PTL

\* Only gc_finalize, after the call, frees a userdata that has a finalizer and is
\* a candidate or queued, or lua_close when its rounds are used up.
THEOREM NoneFreedUncalled ==
  ASSUME Careful PROVE Spec => FinalizedBeforeFree
  <1> DEFINE A == \A u \in alloc \cap (Range(cand) \cup Range(queue)) :
                    (u \notin alloc' /\ HasGC(u)) =>
                      calls'[u] = 1 \/ rounds' = MaxRounds
  <1>1. IInv /\ [Next]_vars => [A]_vars
    <2> SUFFICES ASSUME IInv, [Next]_vars,
                        NEW u \in alloc \cap (Range(cand) \cup Range(queue)),
                        u \notin alloc', HasGC(u)
                 PROVE  calls'[u] = 1 \/ rounds' = MaxRounds
      OBVIOUS
    <2>1. /\ Typed /\ Scanned /\ u \in Udata /\ calls[u] = 0
          /\ calls \in [Udata -> Nat]
      BY DEF IInv, Typed, TypeOK, Uncalled
    <2>7. /\ SweepUdata => OnSegment(cursor)
          /\ SweepRoot => OnSegment(rcursor)
      BY OnCourse DEF IInv
    <2> USE DEF lists, meta, log, prog
    <2>2. CASE SweepUdata
      <3>1. \A x : Scan(x) => alloc' = alloc \/ (alloc' = alloc \ {x} /\ ~HasGC(x))
        BY DEF Scan, Keep, Park, QueueDead, FreeDead
      <3> QED BY <2>1, <2>2, <2>7, <3>1, SweepCases
    <2>3. CASE SweepRoot
      <3>1. Range(cand) \cap dead = {}
        BY <2>1, <2>3, <2>7, SweepRootCases
      <3>2. u \in dead \cap OnRoot
        BY <2>3, <2>7 DEF SweepRoot, SweepSegment
      <3> QED BY <3>1, <3>2 DEF OnRoot
    <2>4. CASE FinalizeStep \/ CloseFinalize
      <3>1. queue # <<>>
        BY <2>4 DEF FinalizeStep, CloseFinalize
      <3> DEFINE h == Head(queue)
      <3>2. FinalizeDirect(h) \/ ThrowDirect \/ Passed(h)
        BY <2>4, <3>1, FinalizeCases DEF FinalizeStep, CloseFinalize
      <3> HIDE DEF h
      <3>3. FinalizeDirect(h) /\ u = h
        BY <3>2 DEF FinalizeDirect, ThrowDirect, Passed, Relinked
      <3>4. calls' = [calls EXCEPT ![u] = @ + 1]
        BY <3>3 DEF FinalizeDirect
      <3> QED BY <2>1, <3>4
    <2>5. CASE CloseRound
      <3>1. queue = <<>> /\ phase = "close" /\ rounds' = rounds + 1
        BY <2>5 DEF CloseRound
      <3>2. ~(rounds + 1 < MaxRounds /\ WithGC # {})
        BY <2>5 DEF CloseRound
      <3>3. u \in Range(cand)
        BY <3>1 DEF Range
      <3>4. WithGC # {}
        BY <3>3 DEF WithGC, Range
      <3>5. rounds \in Nat /\ rounds < MaxRounds /\ MaxRounds \in Nat
        BY <2>1, <3>1, RoundsAssumption DEF Typed, TypeOK, Stack
      <3>6. ~(rounds + 1 < MaxRounds)
        BY <3>2, <3>4
      <3> QED BY ONLY <3>1, <3>5, <3>6
    <2>6. CASE \/ UNCHANGED vars \/ MarkStart \/ Atomic \/ FullGC \/ FullGCRestart
               \/ FullGCDone \/ Return \/ Close
               \/ \E x \in Udata : New(x) \/ AddWeak(x) \/ Hold(x)
               \/ \E x \in Udata, m \in Meta : SetMeta(x, m)
               \/ \E m \in Meta : ClearGC(m)
               \/ \E o \in Udata \cup (Meta \ Registry) : Release(o)
      BY <2>6 DEF vars, MarkStart, Atomic, FullGC, FullGCRestart, FullGCDone, Return,
                  Close, New, AddWeak, Hold, SetMeta, ClearGC, Release
    <2> QED BY <2>2, <2>3, <2>4, <2>5, <2>6 DEF Next, Collector, Closing
  <1> QED BY <1>1, Invariance, PTL DEF Spec, FinalizedBeforeFree
================================================================================
