------------------------------- MODULE Finalizer -------------------------------
(***************************************************************************)
(* Userdata finalization in src/lj_gc.c, from the candidate segment that    *)
(* lj_udata_new builds behind the main thread to the call of __gc: the     *)
(* partial sweep of the candidates with its cursor, the preservation of    *)
(* metatable and callable, the mmudata queue, the two ways a finalizer is  *)
(* called, finalizers that call collectgarbage() themselves, and the       *)
(* rounds of lua_close.                                                    *)
(*                                                                         *)
(* The mark phase is one step here (module GC has it in detail): atomic()  *)
(* keeps what is reachable at that moment.  A finalizer refers to nothing  *)
(* but its argument, the leaf finalizers gc_sweepudata is written for.     *)
(***************************************************************************)
EXTENDS Naturals, Sequences, SequencesExt, FiniteSets

CONSTANTS
  Udata, Meta, Callable,
  GcOf,         \* the __gc callable of each metatable, while it has one
  Direct,       \* metatables whose __gc is a C function without upvalues
  None,         \* no metatable; as a cursor, &mainthread(g)->nextgc
  MaxRounds,    \* lua_close: rounds of finalization before it gives up
  Registry,     \* metatables that the registry keeps (luaL_newmetatable)
  Clearable,    \* bound: metatables that may lose their __gc
  WeakUdata,    \* bound: userdata that may be put in weak tables
  Late,         \* bound: userdata that are created in the last round only
  LateFullGC,   \* programs may run a full collection while userdata are
                \* being queued or wait for their finalizers
  CloseCollect  \* finalizers called by lua_close may run the collector

ASSUME NoneAssumption == None \notin Udata \cup Meta
ASSUME KindsAssumption ==
  Udata \cap Meta = {} /\ Udata \cap Callable = {} /\ Meta \cap Callable = {}
ASSUME GcOfAssumption == GcOf \in [Meta -> Callable] /\ Direct \subseteq Meta
ASSUME RoundsAssumption == MaxRounds \in Nat \ {0}
ASSUME SwitchesAssumption == LateFullGC \in BOOLEAN /\ CloseCollect \in BOOLEAN

VARIABLES
  gcstate,    \* g->gc.state; "mark" stands for GCSpropagate and GCSatomic
  alloc,      \* the allocated objects
  dead,       \* those with the other white: not marked, not swept yet
  cand,       \* the userdata chained behind the main thread, newest first
  cursor,     \* g->gc.sweepudata: the userdata whose nextgc field it is
  rcursor,    \* g->gc.sweep, likewise; None also while on the root list
  queue,      \* g->gc.mmudata
  mt, hasgc,  \* metatable of each userdata; metatables with a __gc field
  finalized,  \* LJ_GC_FINALIZED
  calls,      \* how often the finalizer of each userdata has been called
  lost,       \* userdata whose call was given up by a throwing checkstack
  held,       \* what the program refers to
  wkeys, wvals, \* userdata that are keys and values of weak tables
  born,       \* userdata in the order of their creation
  frames,     \* control stack: finalizers and full collections in progress
  phase, rounds, \* "run", "close" (lua_close), "done"; "astray": see below;
              \* rounds of lua_close
  stale       \* the sweep that has been run from a cursor outside the segment

lists == <<cand, cursor, rcursor, queue>>
meta  == <<mt, hasgc>>
log   == <<finalized, calls, lost, born>>
prog  == <<held, wkeys, wvals>>
vars  == <<gcstate, alloc, dead, lists, meta, log, prog, frames,
           phase, rounds, stale>>

HasGC(u) == mt[u] \in hasgc              \* lj_meta_fastg(.., MM_gc)
Fin(u)   == [kind |-> "fin", u |-> u]
Full(k)  == [kind |-> k, u |-> None]     \* k is "finish" or "cycle"
Top      == IF frames = <<>> THEN "none" ELSE Last(frames).kind
Running  == {f.u : f \in Range(frames)} \ {None}

\* References: from the program, and from the stack of a running finalizer.
Closure(S) ==
  LET ms == (S \cup {mt[u] : u \in S \cap Udata}) \ {None}
  IN  S \cup ms \cup {GcOf[m] : m \in ms \cap hasgc}
Reach  == Closure(held \cup Running) \cup {GcOf[mt[u]] : u \in Running}
Access == Reach \cup Closure(wkeys \cup wvals)

\* Lua code runs: the program itself or a finalizer.
InLua == \/ frames = <<>> /\ phase = "run"
         \/ Top = "fin"
\* The collector runs: an allocation, a full collection, or collectgarbage
\* called by a finalizer (automatic steps are off in there).
InGC == \/ InLua /\ (phase = "close" => CloseCollect)
        \/ Top \in {"finish", "cycle"}

-------------------------------------------------------------------------------
(* The collector *)

\* gc_mark_start.  In lj_gc_fullgc it is the second half that starts a cycle.
MarkStart ==
  /\ InLua /\ InGC
  /\ gcstate = "pause"
  /\ gcstate' = "mark"
  /\ UNCHANGED <<alloc, dead, lists, meta, log, prog, frames, phase,
                 rounds, stale>>

\* atomic(): what has not been reached is dead; weak tables drop it, and
\* weak values drop finalized userdata, too.  The queue is not marked.
Atomic ==
  /\ InGC
  /\ gcstate = "mark"
  /\ dead' = alloc \ Reach
  /\ wkeys' = wkeys \cap Reach
  /\ wvals' = (wvals \cap Reach) \ finalized
  /\ cursor' = None /\ rcursor' = None
  /\ gcstate' = "sweepudata"
  /\ UNCHANGED <<alloc, cand, queue, meta, log, held, frames, phase,
                 rounds, stale>>

\* What gc_sweepudata does to one candidate.
Keep(u) ==
  /\ cursor' = u
  /\ UNCHANGED <<alloc, dead, cand, queue, finalized>>
ParkAndFollow(u) ==
  /\ cand' = RemoveFirst(cand, u) /\ cursor' = u
  /\ UNCHANGED <<alloc, dead, queue, finalized>>
Park(u) ==
  /\ cand' = RemoveFirst(cand, u)
  /\ UNCHANGED <<alloc, dead, cursor, rcursor, queue, finalized>>
PreservedUdata(u) == {u}
Preserved(u) == {u, mt[u], GcOf[mt[u]]}  \* made current-white again
QueueDeadFirst(u) ==
  /\ finalized' = finalized \cup {u}
  /\ dead' = dead \ Preserved(u)
  /\ cand' = RemoveFirst(cand, u)
  /\ queue' = <<u>> \o queue
  /\ UNCHANGED <<alloc, cursor>>
QueueDead(u) ==
  /\ finalized' = finalized \cup {u}
  /\ dead' = dead \ Preserved(u)
  /\ cand' = RemoveFirst(cand, u)
  /\ queue' = Append(queue, u)
  /\ UNCHANGED <<alloc, cursor>>
FreeDead(u) ==
  /\ alloc' = alloc \ {u} /\ dead' = dead \ {u}
  /\ cand' = RemoveFirst(cand, u)
  /\ UNCHANGED <<cursor, queue, finalized>>
ScanFreeing(u) == IF u \notin dead THEN Keep(u) ELSE FreeDead(u)
Scan(u) ==
  IF u \notin dead
  THEN IF HasGC(u) THEN Keep(u) ELSE Park(u)
  ELSE IF HasGC(u) THEN QueueDead(u) ELSE FreeDead(u)

\* A cursor stands in the segment unless the userdata it points into has been
\* moved to another list.  A sweep from there walks the wrong list, frees or
\* queues what it finds, and may not end: the model ends here instead.
OnSegment(c) == c \in Range(cand) \cup {None}
Stray(sweep) ==
  /\ stale' = stale \cup {sweep}
  /\ phase' = "astray" /\ frames' = <<>>
  /\ UNCHANGED <<gcstate, alloc, dead, lists, finalized>>

\* The candidates that a cursor on the segment has not passed.
Ahead(c) == SubSeq(cand, SelectInSeq(cand, LAMBDA u : u = c) + 1, Len(cand))

\* One step of gc_sweepudata, with GCSWEEPUDATAMAX = 1: the first candidate
\* ahead of the cursor, and the end of the phase when there is no other.
SweepUdata ==
  /\ InGC
  /\ gcstate = "sweepudata"
  /\ \/ ~ OnSegment(cursor) /\ Stray("sweepudata")
     \/ /\ OnSegment(cursor)
        /\ IF Ahead(cursor) = <<>>
           THEN UNCHANGED <<alloc, dead, lists, finalized>>
           ELSE Scan(Head(Ahead(cursor))) /\ UNCHANGED rcursor
        /\ gcstate' = IF Len(Ahead(cursor)) <= 1 THEN "sweep" ELSE gcstate
        /\ UNCHANGED <<frames, phase, stale>>
  /\ UNCHANGED <<meta, calls, lost, born, prog, rounds>>

\* gc_sweep of one object: of the root list first, then of the candidates
\* behind the main thread, all of them alive.
SweepEndPause == "pause"
SweepEnd == IF queue # <<>> THEN "finalize" ELSE "pause"
OnRoot == alloc \ Range(queue)
SweptLast ==
  /\ gcstate' = SweepEnd
  /\ rcursor' = None
SweepSegment ==
  /\ OnSegment(rcursor)
  /\ \/ \E o \in dead \cap OnRoot :
          /\ alloc' = alloc \ {o} /\ dead' = dead \ {o}
          /\ cand' = RemoveFirst(cand, o)
          /\ IF dead \cap OnRoot = {o} /\ Len(Ahead(rcursor)) <= 1
             THEN SweptLast
             ELSE UNCHANGED <<gcstate, rcursor>>
     \/ /\ dead \cap OnRoot = {}
        /\ UNCHANGED <<alloc, dead, cand>>
        /\ IF Len(Ahead(rcursor)) <= 1
           THEN SweptLast
           ELSE rcursor' = Head(Ahead(rcursor)) /\ UNCHANGED gcstate
  /\ UNCHANGED <<cursor, queue, finalized, frames, phase, stale>>
SweepRoot ==
  /\ InGC
  /\ gcstate = "sweep"
  /\ SweepSegment \/ (~ OnSegment(rcursor) /\ Stray("sweep"))
  /\ UNCHANGED <<meta, calls, lost, born, prog, rounds>>

\* gc_finalize for the head of the queue.  With nores (allow_nores: not in
\* lua_close) a direct finalizer runs while the userdata is still queued, which
\* is freed at once, never to be seen again.
FinalizeDirect(u) ==
  /\ calls' = [calls EXCEPT ![u] = @ + 1]
  /\ alloc' = alloc \ {u} /\ dead' = dead \ {u}
  /\ queue' = Tail(queue)
  /\ UNCHANGED <<cand, lost, frames>>
\* Its checkstack throws before that, while the userdata is still queued.
ThrowDirect ==
  /\ Top = "cycle"
  /\ frames' = Front(frames)
  /\ UNCHANGED <<alloc, dead, cand, queue, calls, lost>>

\* Otherwise the userdata goes back to the root list, white, before __gc is
\* resolved and called; lj_state_checkstack may throw before the call, which
\* leaves a full collection in progress, too.
Relinked(u) ==
  /\ queue' = Tail(queue)
  /\ dead' = dead \ {u}
  /\ UNCHANGED <<alloc, cand>>
CallGC(u) ==
  /\ calls' = [calls EXCEPT ![u] = @ + 1]
  /\ frames' = IF mt[u] \in Direct THEN frames ELSE Append(frames, Fin(u))
  /\ UNCHANGED lost
ThrowGC(u) ==
  /\ lost' = lost \cup {u}
  /\ frames' = IF Top = "cycle" THEN Front(frames) ELSE frames
  /\ UNCHANGED calls
FinalizeStillQueued(u, nores) ==
  /\ HasGC(u)
  /\ CallGC(u)
  /\ UNCHANGED <<alloc, dead, cand, queue>>
FinalizeNores(u, nores) ==
  IF HasGC(u) /\ mt[u] \in Direct
  THEN FinalizeDirect(u) \/ ThrowDirect
  ELSE /\ Relinked(u)
       /\ IF HasGC(u) THEN CallGC(u) \/ ThrowGC(u)
          ELSE UNCHANGED <<calls, lost, frames>>
Finalize(u, nores) ==
  IF HasGC(u) /\ nores /\ mt[u] \in Direct
  THEN FinalizeDirect(u) \/ ThrowDirect
  ELSE /\ Relinked(u)
       /\ IF HasGC(u) THEN CallGC(u) \/ ThrowGC(u)
          ELSE UNCHANGED <<calls, lost, frames>>

FinalizeStep ==
  /\ InGC /\ Top # "finish"
  /\ gcstate = "finalize"
  /\ IF queue # <<>>
     THEN /\ Finalize(Head(queue), TRUE)
          /\ UNCHANGED gcstate
     ELSE /\ gcstate' = "pause"
          /\ UNCHANGED <<alloc, dead, cand, queue, calls, lost, frames>>
  /\ UNCHANGED <<cursor, rcursor, meta, finalized, born, prog, phase, rounds, stale>>

\* lj_gc_fullgc: a cycle in its mark phase is abandoned by sweeping (and
\* keeping) everything; a sweep in progress is finished; then one whole cycle
\* runs, finalizers included.
FullGC ==
  /\ InLua /\ (phase = "close" => CloseCollect)
  /\ queue # <<>> \/ gcstate = "sweepudata" => LateFullGC
  /\ frames' = Append(frames, Full("finish"))
  /\ IF gcstate \in {"pause", "mark"}
     THEN gcstate' = "sweep" /\ rcursor' = None
     ELSE UNCHANGED <<gcstate, rcursor>>
  /\ UNCHANGED <<alloc, dead, cand, cursor, queue, meta, log, prog, phase, rounds, stale>>
FullGCRestart ==
  /\ Top = "finish"
  /\ gcstate \in {"finalize", "pause"}
  /\ gcstate' = "mark"
  /\ frames' = Append(Front(frames), Full("cycle"))
  /\ UNCHANGED <<alloc, dead, lists, meta, log, prog, phase, rounds,
                 stale>>
FullGCDone ==
  /\ Top = "cycle"
  /\ gcstate = "pause"
  /\ frames' = Front(frames)
  /\ UNCHANGED <<gcstate, alloc, dead, lists, meta, log, prog, phase,
                 rounds, stale>>

\* The finalizer returns.
Return ==
  /\ Top = "fin"
  /\ frames' = Front(frames)
  /\ UNCHANGED <<gcstate, alloc, dead, lists, meta, log, prog, phase,
                 rounds, stale>>

-------------------------------------------------------------------------------
(* lua_close *)

\* lj_gc_separateudata(g, 1): every candidate with a __gc goes to the queue, in
\* the order of the segment, and the others to the root list.  The sweep cursor
\* is left as it is.
WithGC == {i \in DOMAIN cand : HasGC(cand[i])}
InOrder ==
  {f \in [1..Cardinality(WithGC) -> WithGC] :
     Range(f) = WithGC /\ \A i, j \in DOMAIN f : i < j => f[i] < f[j]}
Enqueued ==
  /\ \E f \in InOrder : queue' = queue \o [i \in DOMAIN f |-> cand[f[i]]]
  /\ finalized' = finalized \cup {cand[i] : i \in WithGC}
SeparatedAgain ==
  /\ Enqueued
  /\ UNCHANGED cand
Separated ==
  /\ Enqueued
  /\ cand' = <<>>

Close ==
  /\ phase = "run" /\ frames = <<>>
  /\ phase' = "close"
  /\ Separated
  /\ UNCHANGED <<gcstate, alloc, dead, cursor, rcursor, meta, calls, lost, born,
                 prog, frames, rounds, stale>>

\* lj_gc_finalize_udata inside the protected call.
CloseFinalize ==
  /\ phase = "close" /\ frames = <<>>
  /\ queue # <<>>
  /\ Finalize(Head(queue), FALSE)
  /\ UNCHANGED <<gcstate, cursor, rcursor, meta, finalized, born, prog, phase, rounds,
                 stale>>

\* The end of a round: separate again, or free all that is left.
CloseRound ==
  /\ phase = "close" /\ frames = <<>>
  /\ queue = <<>>
  /\ rounds' = rounds + 1
  /\ IF rounds + 1 < MaxRounds /\ WithGC # {}
     THEN /\ Separated
          /\ UNCHANGED <<phase, alloc, dead, gcstate>>
     ELSE /\ phase' = "done"
          /\ alloc' = {} /\ dead' = {}
          /\ cand' = <<>>
          /\ gcstate' = "pause"
          /\ UNCHANGED <<queue, finalized>>
  /\ UNCHANGED <<cursor, rcursor, meta, calls, lost, born, prog, frames, stale>>

-------------------------------------------------------------------------------
(* The program, and the bodies of finalizers *)

\* lj_udata_new: chained right behind the main thread, current-white.
New(u) ==
  /\ InLua
  /\ u \notin Range(born) /\ (u \in Late => rounds = MaxRounds - 1)
  /\ born' = Append(born, u)
  /\ alloc' = alloc \cup {u}
  /\ cand' = <<u>> \o cand
  /\ held' = held \cup {u}
  /\ UNCHANGED <<gcstate, dead, cursor, rcursor, queue, meta, finalized, calls,
                 lost, wkeys, wvals, frames, phase, rounds, stale>>

\* setmetatable on a userdata, once.
SetMeta(u, m) ==
  /\ InLua
  /\ u \in Reach /\ m \in Reach
  /\ mt[u] = None
  /\ mt' = [mt EXCEPT ![u] = m]
  /\ UNCHANGED <<gcstate, alloc, dead, lists, hasgc, log, prog, frames,
                 phase, rounds, stale>>

\* __gc is removed from a metatable.
ClearGC(m) ==
  /\ InLua
  /\ m \in Reach \cap Clearable
  /\ hasgc' = hasgc \ {m}
  /\ UNCHANGED <<gcstate, alloc, dead, lists, mt, log, prog, frames,
                 phase, rounds, stale>>

\* A reference is stored where the program finds it, or dropped.
Hold(u) ==
  /\ InLua
  /\ u \in Access
  /\ held' = held \cup {u}
  /\ UNCHANGED <<gcstate, alloc, dead, lists, meta, log, wkeys, wvals,
                 frames, phase, rounds, stale>>
Release(o) ==
  /\ InLua
  /\ held' = held \ {o}
  /\ UNCHANGED <<gcstate, alloc, dead, lists, meta, log, wkeys, wvals,
                 frames, phase, rounds, stale>>

\* A userdata becomes a key or a value of a weak table.
AddWeak(u) ==
  /\ InLua
  /\ u \in (Reach \cap WeakUdata) \ (wkeys \cup wvals)
  /\ \/ wkeys' = wkeys \cup {u} /\ UNCHANGED wvals
     \/ wvals' = wvals \cup {u} /\ UNCHANGED wkeys
  /\ UNCHANGED <<gcstate, alloc, dead, lists, meta, log, held, frames,
                 phase, rounds, stale>>

Init ==
  /\ gcstate = "pause"
  /\ alloc = Meta \cup Callable /\ dead = {}
  /\ cand = <<>> /\ cursor = None /\ rcursor = None /\ queue = <<>>
  /\ mt = [u \in Udata |-> None] /\ hasgc = Meta
  /\ finalized = {} /\ calls = [u \in Udata |-> 0] /\ lost = {} /\ born = <<>>
  /\ held = Meta /\ wkeys = {} /\ wvals = {}
  /\ frames = <<>>
  /\ phase = "run" /\ rounds = 0
  /\ stale = {}

Collector == MarkStart \/ Atomic \/ SweepUdata \/ SweepRoot \/ FinalizeStep
               \/ FullGCRestart \/ FullGCDone
Closing == CloseFinalize \/ CloseRound
Next ==
  \/ Collector \/ FullGC \/ Return
  \/ Close \/ Closing
  \/ \E u \in Udata : New(u) \/ AddWeak(u)
  \/ \E u \in Udata, m \in Meta : SetMeta(u, m)
  \/ \E m \in Meta : ClearGC(m)
  \/ \E u \in Udata : Hold(u)
  \/ \E o \in Udata \cup (Meta \ Registry) : Release(o)

Spec == Init /\ [][Next]_vars

\* Allocation drives the collector, except inside a finalizer, where its
\* threshold is LJ_MAX_MEM; finalizers return; lua_close runs to its end.
Stepping == Collector /\ Top # "fin"
Fairness == WF_vars(Stepping) /\ SF_vars(Return) /\ WF_vars(Closing)
FairSpec == Spec /\ Fairness

-------------------------------------------------------------------------------
(* Properties *)

TypeOK ==
  /\ gcstate \in {"pause", "mark", "sweepudata", "sweep", "finalize"}
  /\ alloc \subseteq Udata \cup Meta \cup Callable
  /\ dead \subseteq alloc
  /\ Range(cand) \cup Range(queue) \cup Range(born) \subseteq Udata
  /\ IsInjective(cand) /\ IsInjective(queue)
  /\ Range(cand) \cap Range(queue) = {}
  /\ {cursor, rcursor} \subseteq Udata \cup {None}
  /\ mt \in [Udata -> Meta \cup {None}] /\ hasgc \subseteq Meta
  /\ finalized \cup lost \subseteq Udata
  /\ calls \in [Udata -> Nat]
  /\ held \subseteq Udata \cup Meta
  /\ wkeys \cup wvals \subseteq Udata
  /\ phase \in {"run", "close", "done", "astray"} /\ rounds \in 0..MaxRounds
  /\ stale \subseteq {"sweepudata", "sweep"}

\* What the program and the running finalizers can get at, through weak tables
\* too, is allocated: freeing a userdata right after a direct finalizer, which
\* the stock collector never does, leaves nobody with a reference to it.
NoDangling == phase # "done" => Access \subseteq alloc

\* A queued userdata keeps its metatable and its __gc callable until its
\* finalizer has been resolved, however many sweeps come in between.
QueuedPreserved ==
  phase # "done" =>
    \A u \in Range(queue) :
      /\ {u, mt[u]} \subseteq alloc
      /\ HasGC(u) => GcOf[mt[u]] \in alloc

\* A finalizer is called at most once, whether its userdata is resurrected,
\* the call is nested in another finalizer, or the state is closed under it.
FinalizedOnce == \A u \in Udata : calls[u] <= 1

\* A candidate with a finalizer, or a queued userdata, is not freed before the
\* call, unless lua_close has used up its rounds.
FinalizedBeforeFree ==
  [][ \A u \in alloc \cap (Range(cand) \cup Range(queue)) :
        (u \notin alloc' /\ HasGC(u)) =>
          calls'[u] = 1 \/ rounds' = MaxRounds ]_vars

\* The userdata found dead in one cycle are finalized in the reverse order of
\* their creation.
Age(u) == SelectInSeq(born, LAMBDA x : x = u)
ReverseOfCreation ==
  phase = "run" =>
    \A i, j \in 1..Len(queue) : i < j => Age(queue[i]) > Age(queue[j])

\* Neither sweep ever runs from a cursor that points into a userdata which has
\* been moved to the queue or the root list meanwhile.
CursorOnSegment == stale = {}

\* The comment above lj_gc_separateudata: moving objects cannot invalidate an
\* in-progress root-list sweep.
RootSweepValid == "sweep" \notin stale

\* Under fairness a candidate that nothing can bring back is finalized, in the
\* next cycle or by lua_close, unless its call is given up, __gc is removed, or
\* lua_close has used up its rounds.
FinalizedEventually ==
  \A u \in Udata :
    (u \in Range(cand) /\ HasGC(u) /\ u \notin Access) ~>
      (calls[u] = 1 \/ u \in lost \/ ~HasGC(u) \/ rounds = MaxRounds)
================================================================================
