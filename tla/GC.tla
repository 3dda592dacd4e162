---------------------------------- MODULE GC ----------------------------------
(***************************************************************************)
(* The incremental tri-colour collector of src/lj_gc.c together with the   *)
(* mutator that runs between two collector steps: allocation, loads,       *)
(* stores with their write barriers, closures and their upvalues,          *)
(* coroutines, string interning and compiled traces.                       *)
(*                                                                         *)
(* The intrusive lists of the code (gray, grayagain, weak, the root list   *)
(* and the string chains) are sets here: the order in which the collector  *)
(* takes objects from a list is left open.  Finalizers are modelled in     *)
(* module Finalizer; userdata have no __gc metamethod here.                *)
(***************************************************************************)
EXTENDS Naturals, FiniteSets

CONSTANTS
  Tab, Func, Upval, Udata, Str, Thread,  \* the objects of each GC type
  Main,        \* the main thread, a root that is never freed
  Fixed,       \* objects with the LJ_GC_FIXED bit: strings and Main
  NoThread,    \* the owner of a closed upvalue
  SweepMax,    \* GCSWEEPMAX: objects swept by one step
  HasJit,      \* LJ_HASJIT: the build has the JIT compiler
  MaxRefs      \* bound: references in the heap and in registers

Obj   == Tab \cup Func \cup Upval \cup Udata \cup Str \cup Thread
Value == Obj \ Upval                     \* what a TValue can hold

ASSUME KindsAssumption ==
  /\ Tab \cap Func = {} /\ Tab \cap Upval = {} /\ Tab \cap Udata = {}
  /\ Tab \cap Str = {} /\ Tab \cap Thread = {}
  /\ Func \cap Upval = {} /\ Func \cap Udata = {} /\ Func \cap Str = {}
  /\ Func \cap Thread = {} /\ Upval \cap Udata = {} /\ Upval \cap Str = {}
  /\ Upval \cap Thread = {} /\ Udata \cap Str = {} /\ Udata \cap Thread = {}
  /\ Str \cap Thread = {}
ASSUME MainAssumption == Main \in Thread /\ NoThread \notin Obj
ASSUME FixedAssumption == Main \in Fixed /\ Fixed \subseteq Str \cup {Main}
ASSUME BoundsAssumption ==
  SweepMax \in Nat \ {0} /\ MaxRefs \in Nat /\ HasJit \in BOOLEAN

VARIABLES
  gcstate,     \* g->gc.state
  currentwhite,\* g->gc.currentwhite
  mark,        \* the colour bits of gch.marked, or "free"
  refs,        \* strong references; for a thread, its stack slots
  wrefs,       \* the weak entries of a table with a __mode
  weakmode,    \* the tables whose metatable has a __mode now
  gray, grayagain, weak,  \* the three gclist lists
  owner,       \* of an open upvalue: the thread whose stack slot it names
  cand,        \* the userdata candidate segment after the main thread
  unswept,     \* objects ahead of the sweep cursor of the current phase
  gcroot,      \* g->gcroot[]
  cur,         \* the running thread
  jit, regs,   \* g->jit_base is set; references only in machine registers
  full         \* progress of lj_gc_fullgc: "no", "finish", "cycle"

heap  == <<refs, wrefs, weakmode, owner, gcroot>>
lists == <<gray, grayagain, weak>>
run   == <<cur, jit, regs>>
vars  == <<gcstate, currentwhite, mark, heap, lists, cand, unswept, run, full>>

Traversable == Tab \cup Func \cup Thread   \* types that go on the gray list
Whites == {"white0", "white1"}
GCStates == {"pause", "propagate", "atomic",
             "sweepudata", "sweepstring", "sweep"}
Marking  == gcstate \in {"propagate", "atomic"}

otherwhite == IF currentwhite = "white0" THEN "white1" ELSE "white0"
Allocated(o) == mark[o] # "free"
iswhite(o) == mark[o] \in Whites
isdead(o)  == mark[o] = otherwhite
IsOpen(u)  == owner[u] # NoThread
OpenOf(ths) == {u \in Upval : owner[u] \in ths}

\* The slots of a thread's stack; an open upvalue names one of them.
Slots(th) == refs[th] \cup UNION {refs[u] : u \in OpenOf({th})}
AllRefs(o) == IF o \in Thread THEN Slots(o) ELSE refs[o] \cup wrefs[o]
\* What a traversal of o marks: not the weak entries of a weak table.
Strong(o) == IF o \in weakmode THEN refs[o] ELSE AllRefs(o)

-------------------------------------------------------------------------------
(* Marking *)

\* gc_mark: the objects one call for each white object of S marks.  Upvalues
\* pass the mark on to their value, userdata to metatable and environment.
White(S) == {o \in S : iswhite(o)}
Marked(S) ==
  LET direct == White(S)
      value  == direct \cup White(UNION {refs[u] : u \in direct \cap Upval})
  IN  value \cup White(UNION {refs[d] : d \in value \cap Udata})

\* Userdata and closed upvalues are never gray.
TintOpenBlack(o) == IF o \in Udata \cup Upval THEN "black" ELSE "gray"
Tint(o) == IF o \in Udata \/ (o \in Upval /\ ~IsOpen(o))
           THEN "black" ELSE "gray"
\* What gc_mark links into the gray list.
OnGrayAll(M) == M
OnGray(M) == M \cap Traversable
MarkColour(M) == [o \in Obj |-> IF o \in M THEN Tint(o) ELSE mark[o]]

\* gc_mark_start: begin a cycle from the root set.
MarkStart ==
  LET M == Marked({Main} \cup gcroot) IN
  /\ gcstate = "pause" /\ full # "cycle"
  /\ gcstate' = "propagate"
  /\ mark' = MarkColour(M)
  /\ gray' = OnGray(M)
  /\ grayagain' = {} /\ weak' = {}
  /\ full' = IF full = "finish" THEN "cycle" ELSE full
  /\ UNCHANGED <<currentwhite, heap, cand, unswept, run>>

\* Threads and weak tables are never black.
StaysGrayThreads == Thread
StaysGray == Thread \cup weakmode

\* propagatemark: traverse one gray object.  Threads go on the second-chance
\* list and weak tables on the weak list; both stay gray.
Propagate(o) ==
  LET M == Marked(Strong(o)) IN
  /\ gcstate = "propagate"
  /\ o \in gray
  /\ mark' = [MarkColour(M) EXCEPT
                ![o] = IF o \in StaysGray THEN "gray" ELSE "black"]
  /\ gray' = (gray \ {o}) \cup (OnGray(M))
  /\ grayagain' = grayagain \cup ({o} \cap Thread)
  /\ weak' = weak \cup ({o} \cap weakmode)
  /\ UNCHANGED <<gcstate, currentwhite, heap, cand, unswept, run, full>>

\* The gray list is empty: end of the mark phase.
PropagateDoneAgain ==
  /\ gcstate = "propagate"
  /\ gray = {}
  /\ IF grayagain = {} THEN gcstate' = "atomic" /\ UNCHANGED <<gray, grayagain>>
     ELSE gray' = grayagain /\ grayagain' = {} /\ UNCHANGED gcstate
  /\ UNCHANGED <<currentwhite, mark, heap, weak, cand, unswept, run, full>>
PropagateDone ==
  /\ gcstate = "propagate"
  /\ gray = {}
  /\ gcstate' = "atomic"
  /\ UNCHANGED <<currentwhite, mark, heap, lists, cand, unswept, run, full>>

\* What atomic() traverses: left-over gray objects, open upvalues that are
\* already gray, the weak list, the running thread and the roots again, the
\* second-chance list, and every white object found on the way.
FrontierNoSecondChance ==
  gray \cup weak \cup {u \in Upval : IsOpen(u) /\ mark[u] = "gray"}
    \cup White({cur} \cup gcroot)
FrontierNoUpvals ==
  gray \cup weak \cup grayagain \cup White({cur} \cup gcroot)
Frontier ==
  gray \cup weak \cup grayagain
    \cup {u \in Upval : IsOpen(u) /\ mark[u] = "gray"}
    \cup White({cur} \cup gcroot)
Spreads(T) == Frontier \subseteq T /\ \A o \in T : White(Strong(o)) \subseteq T
IsTraversal(T) ==
  /\ Spreads(T)
  /\ \A S \in SUBSET Obj : Spreads(S) => T \subseteq S

AtomicTint(o) ==
  IF o \in StaysGray \cup Str \/ (o \in Upval /\ IsOpen(o))
  THEN "gray" ELSE "black"

\* gc_clearweak: a weak entry survives when it is a string, which is marked
\* for that, or when it has been marked through other references.
WeakStr(T) == Str \cap UNION {wrefs[t] : t \in T \cap weakmode}
ClearWeakUntraversed(T) ==
  [o \in Obj |-> IF o \in T \cap weakmode
                 THEN wrefs[o] \cap (Str \cup T) ELSE wrefs[o]]
ClearWeak(T) ==
  [o \in Obj |-> IF o \in T \cap weakmode
                 THEN {r \in wrefs[o] : r \in Str \cup T \/ ~iswhite(r)}
                 ELSE wrefs[o]]

NoFlip == currentwhite
FlipWhite == otherwhite

\* atomic(): finish marking, clear weak tables and flip the current white.
\* Nothing reads the three lists again before gc_mark_start resets them, so
\* they are left empty here.
Atomic ==
  /\ gcstate = "atomic"
  /\ ~jit
  /\ \E T \in SUBSET Obj :
       /\ IsTraversal(T)
       /\ mark' = [o \in Obj |-> IF o \in T THEN AtomicTint(o)
                                 ELSE IF o \in White(WeakStr(T)) THEN "gray"
                                 ELSE mark[o]]
       /\ wrefs' = ClearWeak(T)
  /\ gray' = {} /\ grayagain' = {} /\ weak' = {}
  /\ currentwhite' = FlipWhite
  /\ gcstate' = "sweepudata"
  /\ unswept' = cand
  /\ UNCHANGED <<refs, weakmode, owner, gcroot, cand, run, full>>

-------------------------------------------------------------------------------
(* Sweeping *)

\* The part of a list one sweep step covers: SweepMax objects, or the rest.
Batch(S) ==
  /\ S \subseteq unswept
  /\ \/ S = unswept /\ Cardinality(S) <= SweepMax
     \/ Cardinality(S) = SweepMax
DeadIn(S) == {o \in S \ Fixed : isdead(o)}
SweepColourNotFixed(S) ==
  [o \in Obj |-> IF o \in DeadIn(S) THEN "free"
                 ELSE IF o \in S \ Fixed THEN currentwhite ELSE mark[o]]
SweepColour(S) ==
  [o \in Obj |-> IF o \in DeadIn(S) THEN "free"
                 ELSE IF o \in S THEN currentwhite ELSE mark[o]]
Cleared(f, D) == [o \in Obj |-> IF o \in D THEN {} ELSE f[o]]
RootList == {o \in Value \ Str : Allocated(o)}
              \cup {u \in Upval : Allocated(u) /\ ~IsOpen(u)}

\* gc_sweepudata for userdata without __gc: the live ones are parked on the
\* root list, the dead ones freed.
SweepUdata ==
  /\ gcstate = "sweepudata"
  /\ \E S \in SUBSET unswept :
       /\ Batch(S)
       /\ mark' = SweepColour(S)
       /\ refs' = Cleared(refs, DeadIn(S))
       /\ cand' = cand \ S
       /\ IF S = unswept
          THEN /\ gcstate' = "sweepstring"
               /\ unswept' = {s \in Str : Allocated(s)}
          ELSE /\ unswept' = unswept \ S
               /\ UNCHANGED gcstate
  /\ UNCHANGED <<currentwhite, wrefs, weakmode, owner, gcroot, lists, run, full>>

\* gc_sweepstr: sweep one chain of the string table, which may be empty.
SweepString ==
  /\ gcstate = "sweepstring"
  /\ \E S \in SUBSET unswept :
       /\ S # {} \/ unswept = {}
       /\ mark' = SweepColour(S)
       /\ IF S = unswept
          THEN /\ gcstate' = "sweep"
               /\ unswept' = RootList
          ELSE /\ unswept' = unswept \ S
               /\ UNCHANGED gcstate
  /\ UNCHANGED <<currentwhite, heap, lists, cand, run, full>>

\* The value of an open upvalue stays in its stack slot when that is freed.
Unnamed(D) ==
  [o \in Obj |-> refs[o] \cup UNION {refs[u] : u \in OpenOf({o}) \cap D}]

\* gc_sweep: sweep a part of the root list.  The open upvalues of a thread
\* are swept with it, and those that survive a dead thread are closed.
SweepRoot ==
  /\ gcstate = "sweep"
  /\ \E S \in SUBSET unswept :
       LET swept == S \cup OpenOf(S \cap Thread)
           dead  == DeadIn(swept) IN
       /\ Batch(S)
       /\ mark' = SweepColour(swept)
       /\ refs' = Cleared(Unnamed(dead), dead)
       /\ wrefs' = Cleared(wrefs, dead)
       /\ weakmode' = weakmode \ dead
       /\ owner' = [u \in Upval |-> IF u \in dead \/ owner[u] \in dead
                                    THEN NoThread ELSE owner[u]]
       /\ cand' = cand \ dead
       /\ unswept' = unswept \ S
       /\ IF S = unswept
          THEN /\ gcstate' = "pause"
               /\ full' = IF full = "cycle" THEN "no" ELSE full
          ELSE UNCHANGED <<gcstate, full>>
  /\ UNCHANGED <<currentwhite, gcroot, lists, run>>

\* lj_gc_fullgc: a cycle caught in its mark phase is abandoned by sweeping
\* everything (and keeping it); then one complete cycle runs.  No mutator
\* action is enabled before full is "no" again.
FullGCOneSweep ==
  /\ full = "no" /\ ~jit
  /\ full' = "cycle"
  /\ IF gcstate \in {"pause", "propagate", "atomic"}
     THEN /\ gcstate' = "sweepstring"
          /\ unswept' = {s \in Str : Allocated(s)}
          /\ gray' = {} /\ grayagain' = {} /\ weak' = {}
     ELSE UNCHANGED <<gcstate, unswept, lists>>
  /\ UNCHANGED <<currentwhite, mark, heap, cand, run>>
FullGC ==
  /\ full = "no" /\ ~jit
  /\ full' = "finish"
  /\ IF gcstate \in {"pause", "propagate", "atomic"}
     THEN /\ gcstate' = "sweepstring"
          /\ unswept' = {s \in Str : Allocated(s)}
          /\ gray' = {} /\ grayagain' = {} /\ weak' = {}
     ELSE UNCHANGED <<gcstate, unswept, lists>>
  /\ UNCHANGED <<currentwhite, mark, heap, cand, run>>

Collector ==
  \/ MarkStart \/ PropagateDone \/ Atomic
  \/ \E o \in Obj : Propagate(o)
  \/ SweepUdata \/ SweepString \/ SweepRoot

-------------------------------------------------------------------------------
(* The mutator *)

\* The values the running code can name, and the upvalues of its closures.
Held == Slots(cur) \cup regs \cup gcroot
UpvalsOf(fs) == Upval \cap UNION {refs[f] : f \in fs \cap Func}
Sources == Held \cup UpvalsOf(Held)

\* Bound: a mutator action that adds a reference needs room for it.
Room == Cardinality({p \in Obj \X Obj : p[2] \in refs[p[1]] \cup wrefs[p[1]]})
          + Cardinality(regs) < MaxRefs

\* The interning and the upvalue lookup bring a dead object back.
NotResurrected(o) == mark[o]
Resurrected(o) == IF isdead(o) THEN currentwhite ELSE mark[o]

\* A value arrives in a stack slot, or in a register on a trace.
Receive(o, r) ==
  /\ Room
  /\ regs' = IF jit THEN regs \cup {o} ELSE regs
  /\ refs' = IF jit THEN r ELSE [r EXCEPT ![cur] = @ \cup {o}]

\* lj_mem_newgco, lj_udata_new, lj_str_alloc: a new object has the current white.
New(o) ==
  /\ full = "no"
  /\ mark[o] = "free"
  /\ mark' = [mark EXCEPT ![o] = currentwhite]
  /\ Receive(o, refs)
  /\ cand' = cand \cup ({o} \cap Udata)
  /\ UNCHANGED <<gcstate, currentwhite, wrefs, weakmode, owner, gcroot, lists,
                 unswept, cur, jit, full>>

\* lj_func_newL_gc: a new closure over upvalue u; flip says which dead upvalue
\* func_finduv brings back, and slot which value a new open upvalue names.
Closure(f, u, newmark, newrefs, newowner) ==
  /\ full = "no" /\ ~jit
  /\ mark[f] = "free"
  /\ mark' = [newmark EXCEPT ![f] = currentwhite]
  /\ Receive(f, [newrefs EXCEPT ![f] = {u}])
  /\ owner' = newowner
  /\ UNCHANGED <<gcstate, currentwhite, wrefs, weakmode, gcroot, lists, cand,
                 unswept, cur, jit, full>>

ClosureOpen(f, u, v) ==
  /\ mark[u] = "free"
  /\ v \in Slots(cur)
  /\ Closure(f, u, [mark EXCEPT ![u] = currentwhite],
             [refs EXCEPT ![u] = {v}], [owner EXCEPT ![u] = cur])
ClosureFound(f, u) ==
  /\ owner[u] = cur
  /\ Closure(f, u, [mark EXCEPT ![u] = Resurrected(u)],
             refs, owner)
ClosureInherit(f, u) ==
  /\ u \in UpvalsOf(Held)
  /\ Closure(f, u, mark, refs, owner)

\* A load of a reference of a table, function, thread, userdata or upvalue.
Load(o, r) ==
  /\ full = "no"
  /\ o \in Sources
  /\ r \in AllRefs(o) \cap Value
  /\ Receive(r, refs)
  /\ UNCHANGED <<gcstate, currentwhite, mark, wrefs, weakmode, owner, gcroot,
                 lists, cand, unswept, cur, jit, full>>

\* A stack slot or register is overwritten or popped.
Drop(r) ==
  /\ full = "no"
  /\ r \in refs[cur] \cup regs
  /\ refs' = [refs EXCEPT ![cur] = @ \ {r}]
  /\ regs' = regs \ {r}
  /\ UNCHANGED <<gcstate, currentwhite, mark, wrefs, weakmode, owner, gcroot,
                 lists, cand, unswept, cur, jit, full>>

\* lj_gc_barriert, lj_gc_objbarriert and, for any value, lj_gc_anybarriert: a
\* black table goes back to gray (lj_gc_barrierback).
NoBarrierBack(t, v, any) == {}
BarrierBack(t, v, any) ==
  IF mark[t] = "black" /\ (any \/ iswhite(v)) THEN {t} ELSE {}

StoreTab(t, v, any) ==
  LET back == BarrierBack(t, v, any) IN
  /\ full = "no"
  /\ t \in Held /\ v \in Held
  /\ Room
  /\ \/ refs' = [refs EXCEPT ![t] = @ \cup {v}] /\ UNCHANGED wrefs
     \/ wrefs' = [wrefs EXCEPT ![t] = @ \cup {v}] /\ UNCHANGED refs
  /\ mark' = [o \in Obj |-> IF o \in back THEN "gray" ELSE mark[o]]
  /\ grayagain' = IF Marking THEN grayagain \cup back ELSE grayagain
  /\ UNCHANGED <<gcstate, currentwhite, weakmode, owner, gcroot, gray, weak,
                 cand, unswept, run, full>>

\* lj_gc_barrierf and lj_gc_barrieruv: while marking, the frontier moves
\* forward to v; while sweeping, the black object o is whitened instead.
BarrierForward(o, v) ==
  LET M == Marked({v}) IN
  IF mark[o] = "black" /\ iswhite(v)
  THEN IF Marking
       THEN /\ mark' = MarkColour(M)
            /\ gray' = gray \cup (OnGray(M))
       ELSE /\ mark' = [mark EXCEPT ![o] = currentwhite]
            /\ UNCHANGED gray
  ELSE UNCHANGED <<mark, gray>>

\* A store to a function or userdata (upvalue, environment, metatable).
StoreObj(o, v) ==
  /\ full = "no"
  /\ o \in Held /\ v \in Held
  /\ o \in Udata => v \in Tab
  /\ Room
  /\ refs' = [refs EXCEPT ![o] = @ \cup {v}]
  /\ BarrierForward(o, v)
  /\ UNCHANGED <<gcstate, currentwhite, wrefs, weakmode, owner, gcroot,
                 grayagain, weak, cand, unswept, run, full>>

\* A store to an upvalue; an open one is a stack slot and needs no barrier.
StoreUpval(u, v) ==
  /\ full = "no"
  /\ u \in UpvalsOf(Held) \cup OpenOf({cur})
  /\ v \in Held
  /\ refs' = [refs EXCEPT ![u] = {v}]
  /\ IF IsOpen(u) THEN UNCHANGED <<mark, gray>> ELSE BarrierForward(u, v)
  /\ UNCHANGED <<gcstate, currentwhite, wrefs, weakmode, owner, gcroot,
                 grayagain, weak, cand, unswept, run, full>>

\* lua_upvaluejoin: a closure gets another upvalue for its own.
UpvalueJoin(f, u, v) ==
  /\ full = "no" /\ ~jit
  /\ f \in Held /\ u \in refs[f] /\ v \in UpvalsOf(Held)
  /\ refs' = [refs EXCEPT ![f] = (@ \ {u}) \cup {v}]
  /\ BarrierForward(f, v)
  /\ UNCHANGED <<gcstate, currentwhite, wrefs, weakmode, owner, gcroot,
                 grayagain, weak, cand, unswept, run, full>>

\* lua_xmove: a value is pushed on the stack of another thread.
StoreThread(th, v) ==
  /\ full = "no" /\ ~jit
  /\ th \in Held /\ th # Main /\ v \in Held
  /\ Room
  /\ refs' = [refs EXCEPT ![th] = @ \cup {v}]
  /\ UNCHANGED <<gcstate, currentwhite, mark, wrefs, weakmode, owner, gcroot,
                 lists, cand, unswept, run, full>>

\* A reference is overwritten by a value that is not collectable.
Unlink(o, r) ==
  /\ full = "no"
  /\ o \in Sources \ Thread
  /\ r \in refs[o] \cup wrefs[o]
  /\ refs' = [refs EXCEPT ![o] = @ \ {r}]
  /\ wrefs' = [wrefs EXCEPT ![o] = @ \ {r}]
  /\ UNCHANGED <<gcstate, currentwhite, mark, weakmode, owner, gcroot, lists,
                 cand, unswept, run, full>>

\* A __mode appears in, or disappears from, the metatable of t.
SetMode(t) ==
  /\ full = "no"
  /\ t \in Held
  /\ weakmode' = IF t \in weakmode THEN weakmode \ {t} ELSE weakmode \cup {t}
  /\ UNCHANGED <<gcstate, currentwhite, mark, refs, wrefs, owner, gcroot, lists,
                 cand, unswept, run, full>>

\* A base metatable is set or reset.  No barrier: gcroot[] is marked again.
SetRoot(t) ==
  /\ full = "no"
  /\ t \in Held
  /\ gcroot' = IF t \in gcroot THEN gcroot \ {t} ELSE gcroot \cup {t}
  /\ UNCHANGED <<gcstate, currentwhite, mark, refs, wrefs, weakmode, owner,
                 lists, cand, unswept, run, full>>

\* lj_str_new finds an interned string, resurrecting it when it is dead.
Intern(s) ==
  /\ full = "no"
  /\ Allocated(s)
  /\ mark' = [mark EXCEPT ![s] = Resurrected(s)]
  /\ Receive(s, refs)
  /\ UNCHANGED <<gcstate, currentwhite, wrefs, weakmode, owner, gcroot, lists,
                 cand, unswept, cur, jit, full>>

\* Outside the mark phase a gray upvalue is closed white, to be swept.
ClosedAsIs(u) == mark[u]
ClosedColour(u) == IF mark[u] = "gray" THEN currentwhite ELSE mark[u]

\* lj_func_closeuv and lj_gc_closeuv: an open upvalue of the running thread is
\* freed when dead, else closed; a gray one turns black or white.
CloseUpval(u) ==
  LET M == Marked(refs[u]) IN
  /\ full = "no"
  /\ owner[u] = cur
  /\ owner' = [owner EXCEPT ![u] = NoThread]
  /\ refs' = IF isdead(u) THEN [refs EXCEPT ![u] = {}] ELSE refs
  /\ IF isdead(u)
     THEN mark' = [mark EXCEPT ![u] = "free"] /\ UNCHANGED gray
     ELSE IF mark[u] = "gray" /\ Marking
     THEN /\ mark' = [MarkColour(M) EXCEPT ![u] = "black"]
          /\ gray' = gray \cup (OnGray(M))
     ELSE /\ mark' = [mark EXCEPT ![u] = ClosedColour(u)]
          /\ UNCHANGED gray
  /\ UNCHANGED <<gcstate, currentwhite, wrefs, weakmode, gcroot, grayagain,
                 weak, cand, unswept, run, full>>

\* The main thread resumes a coroutine on its stack, which yields or returns.
Resume(co) ==
  /\ full = "no" /\ ~jit
  /\ cur = Main
  /\ co \in Slots(Main) /\ co # Main
  /\ cur' = co
  /\ UNCHANGED <<gcstate, currentwhite, mark, heap, lists, cand, unswept, jit,
                 regs, full>>
Yield ==
  /\ full = "no" /\ ~jit
  /\ cur # Main
  /\ cur' = Main
  /\ UNCHANGED <<gcstate, currentwhite, mark, heap, lists, cand, unswept, jit,
                 regs, full>>

\* Compiled code runs with its values in registers; a trace exit restores the
\* stack from the snapshot.
EnterTrace ==
  /\ HasJit
  /\ full = "no" /\ ~jit
  /\ jit' = TRUE
  /\ UNCHANGED <<gcstate, currentwhite, mark, heap, lists, cand, unswept, cur,
                 regs, full>>
ExitTrace ==
  /\ jit
  /\ jit' = FALSE
  /\ regs' = {}
  /\ refs' = [refs EXCEPT ![cur] = @ \cup regs]
  /\ UNCHANGED <<gcstate, currentwhite, mark, wrefs, weakmode, owner, gcroot,
                 lists, cand, unswept, cur, full>>

Mutator ==
  \/ \E o \in Value : New(o) \/ Drop(o)
  \/ \E o \in Obj, r \in Value : Load(o, r)
  \/ \E o, r \in Obj : Unlink(o, r)
  \/ \E f \in Func, u \in Upval :
       ClosureFound(f, u) \/ ClosureInherit(f, u)
  \/ \E f \in Func, u, v \in Upval : UpvalueJoin(f, u, v)
  \/ \E f \in Func, u \in Upval, v \in Value : ClosureOpen(f, u, v)
  \/ \E t \in Tab, v \in Value, any \in BOOLEAN : StoreTab(t, v, any)
  \/ \E o \in Func \cup Udata, v \in Value : StoreObj(o, v)
  \/ \E u \in Upval, v \in Value : StoreUpval(u, v)
  \/ \E th \in Thread, v \in Value : StoreThread(th, v)
  \/ \E t \in Tab : SetMode(t) \/ SetRoot(t)
  \/ \E s \in Str : Intern(s)
  \/ \E u \in Upval : CloseUpval(u)
  \/ \E co \in Thread : Resume(co)
  \/ Yield \/ EnterTrace \/ ExitTrace

Init ==
  /\ gcstate = "pause"
  /\ currentwhite = "white0"
  /\ mark = [o \in Obj |-> IF o \in Fixed THEN "white0" ELSE "free"]
  /\ refs = [o \in Obj |-> {}]
  /\ wrefs = [o \in Obj |-> {}]
  /\ weakmode = {}
  /\ gray = {} /\ grayagain = {} /\ weak = {}
  /\ owner = [u \in Upval |-> NoThread]
  /\ cand = {} /\ unswept = {}
  /\ gcroot = {}
  /\ cur = Main
  /\ jit = FALSE /\ regs = {}
  /\ full = "no"

Next == Collector \/ FullGC \/ Mutator
Spec == Init /\ [][Next]_vars

\* Allocation keeps driving the collector (lj_gc_check), a trace exits when its
\* code is done, and the exit it is forced to take in GCSatomic runs a step
\* (lj_trace_exit), so atomic is not put off for ever by a run of traces.
Fairness == WF_vars(Collector) /\ SF_vars(Atomic) /\ WF_vars(ExitTrace)
FairSpec == Spec /\ Fairness

-------------------------------------------------------------------------------
(* Properties *)

TypeOK ==
  /\ gcstate \in GCStates
  /\ currentwhite \in Whites
  /\ mark \in [Obj -> Whites \cup {"gray", "black", "free"}]
  /\ refs \in [Obj -> SUBSET Obj]
  /\ wrefs \in [Obj -> SUBSET Value]
  /\ weakmode \subseteq Tab
  /\ gray \subseteq Traversable /\ grayagain \subseteq Tab \cup Thread
  /\ weak \subseteq Tab
  /\ owner \in [Upval -> Thread \cup {NoThread}]
  /\ cand \subseteq Udata /\ unswept \subseteq Obj
  /\ gcroot \subseteq Tab
  /\ cur \in Thread
  /\ jit \in BOOLEAN /\ regs \subseteq Value
  /\ full \in {"no", "finish", "cycle"}

\* What the program can get at: the closure of the roots.
Roots == {Main, cur} \cup gcroot \cup regs
IsClosed(C) == \A o \in C : AllRefs(o) \subseteq C

\* Every object the program can reach, through weak entries too, is allocated:
\* no sequence of collector steps, barriers, resurrections and sweeps frees
\* something the program still has a path to.
NoDangling ==
  \E C \in SUBSET Obj :
    /\ Roots \subseteq C
    /\ IsClosed(C)
    /\ \A o \in C : Allocated(o)

\* The marking invariant that all the write barriers exist for: between two
\* steps of the mark phase no black object holds a white one, weak or not.
TriColour ==
  Marking => \A o \in Obj : mark[o] = "black" => White(AllRefs(o)) = {}

\* Every gray object that needs traversal is on a list, and, the gclist link
\* being one field, on one list only; what is on a list is gray.
GrayListed ==
  Marking =>
    /\ \A o \in Traversable :
         mark[o] = "gray" <=> o \in gray \cup grayagain \cup weak
    /\ gray \cap grayagain = {} /\ gray \cap weak = {}
    /\ grayagain \cap weak = {}

\* A cycle ends with every object current-white, whatever was allocated,
\* closed, interned or barriered meanwhile: lj_gc_barrierf, lj_gc_barrierback
\* and lj_gc_closeuv assert that no black or gray object meets GCSpause.
CleanPause ==
  gcstate = "pause" => \A o \in Obj : Allocated(o) => mark[o] = currentwhite

\* Reachable without weak entries, of what is strongly held.
StronglyReachable(o) ==
  \A C \in SUBSET Obj :
    ({Main, cur} \cup gcroot \subseteq C /\ \A x \in C : Strong(x) \subseteq C)
      => o \in C

\* gc_clearweak drops an entry only when nothing but weak tables leads to the
\* object, and never a string.
WeakClearing ==
  [][ (gcstate = "atomic" /\ gcstate' = "sweepudata") =>
        \A t \in Tab : \A r \in wrefs[t] \ wrefs'[t] :
          r \notin Str /\ ~StronglyReachable(r) ]_vars

\* A full collection frees everything that was unreachable when it began its
\* own cycle, and runs to the end.
Unreachable(o) ==
  \E C \in SUBSET Obj :
    Roots \cup Fixed \subseteq C /\ IsClosed(C) /\ o \notin C
FullGCFrees ==
  [][ (full = "cycle" /\ full' = "no") =>
        \A o \in Obj : Unreachable(o) => mark'[o] = "free" ]_vars

\* Under fairness every cycle that is started ends.
CycleEnds == gcstate # "pause" ~> gcstate = "pause"

\* Under fairness garbage that nothing can bring back is freed, even when the
\* mutator keeps allocating, storing and running traces.
GarbageFreed ==
  \A o \in Tab \cup Func \cup Udata :
    (Allocated(o) /\ Unreachable(o)) ~> ~Allocated(o)
================================================================================
