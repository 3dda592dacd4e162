------------------------------- MODULE GC_proof -------------------------------
(* Type correctness and the safety of the collector for every population of   *)
(* objects, from an inductive invariant, and that a full collection frees all *)
(* garbage, from what more holds while one is under way.                      *)
EXTENDS GC, TLAPS

(***************************************************************************)
(* Types.                                                                  *)
(***************************************************************************)

LEMMA InitType == Init => TypeOK
<1>. SUFFICES ASSUME Init PROVE TypeOK
  OBVIOUS
<1>1. /\ gcstate \in GCStates /\ currentwhite \in Whites
      /\ mark \in [Obj -> Whites \cup {"gray", "black", "free"}]
  BY DEF Init, GCStates, Whites
<1>2. /\ refs \in [Obj -> SUBSET Obj] /\ wrefs \in [Obj -> SUBSET Value]
      /\ owner \in [Upval -> Thread \cup {NoThread}]
  BY DEF Init
<1>3. /\ weakmode \subseteq Tab /\ gray \subseteq Traversable
      /\ grayagain \subseteq Tab \cup Thread /\ weak \subseteq Tab
      /\ cand \subseteq Udata /\ unswept \subseteq Obj /\ gcroot \subseteq Tab
      /\ regs \subseteq Value
  BY DEF Init
<1>4. cur \in Thread /\ jit \in BOOLEAN /\ full \in {"no", "finish", "cycle"}
  BY MainAssumption DEF Init
<1>. QED
  BY <1>1, <1>2, <1>3, <1>4 DEF TypeOK

\* The colours a marking call gives.
LEMMA MarkColourType ==
  ASSUME TypeOK, NEW M
  PROVE  MarkColour(M) \in [Obj -> Whites \cup {"gray", "black", "free"}]
  BY DEF TypeOK, MarkColour, Tint, Whites

LEMMA MarkedType ==
  ASSUME TypeOK, NEW S \in SUBSET Obj
  PROVE  Marked(S) \in SUBSET Obj
  BY DEF TypeOK, Marked, White, Obj

\* What the sweep leaves behind.
LEMMA SweepType ==
  ASSUME TypeOK, NEW S
  PROVE  SweepColour(S) \in [Obj -> Whites \cup {"gray", "black", "free"}]
  BY DEF TypeOK, SweepColour, Whites

LEMMA ClearedType ==
  ASSUME NEW R, NEW f \in [Obj -> SUBSET R], NEW D
  PROVE  Cleared(f, D) \in [Obj -> SUBSET R]
  BY DEF Cleared

\* Stack slots and everything the mutator can name are objects; what a slot
\* holds is a value.
LEMMA HeldType ==
  ASSUME TypeOK
  PROVE  /\ \A o \in Obj : AllRefs(o) \subseteq Obj /\ Strong(o) \subseteq Obj
         /\ \A th \in Thread : Slots(th) \subseteq Obj
         /\ Held \subseteq Obj /\ Sources \subseteq Obj
  BY DEF TypeOK, AllRefs, Strong, Slots, OpenOf, Held, Sources, UpvalsOf,
         Obj, Value

LEMMA UnnamedType ==
  ASSUME TypeOK, NEW D
  PROVE  Unnamed(D) \in [Obj -> SUBSET Obj]
<1>1. Upval \subseteq Obj
  BY DEF Obj
<1>2. ASSUME NEW o \in Obj, NEW u \in OpenOf({o}) \cap D
      PROVE  refs[u] \subseteq Obj
  BY <1>1 DEF TypeOK, OpenOf
<1>3. ASSUME NEW o \in Obj
      PROVE  refs[o] \cup UNION {refs[u] : u \in OpenOf({o}) \cap D} \subseteq Obj
  BY <1>2 DEF TypeOK
<1> QED BY <1>3 DEF Unnamed

LEMMA CollectorType ==
  ASSUME TypeOK, Collector \/ FullGC
  PROVE  TypeOK'
<1> USE DEF TypeOK
<1>1. CASE MarkStart
  <2>1. {Main} \cup gcroot \in SUBSET Obj
    BY MainAssumption DEF Obj
  <2> QED
    BY <1>1, <2>1, MarkedType, MarkColourType
    DEF MarkStart, heap, run, OnGray, GCStates
<1>2. CASE PropagateDone
  BY <1>2 DEF PropagateDone, heap, run, lists, GCStates
<1>3. CASE Atomic
  <2>1. PICK T \in SUBSET Obj :
          /\ mark' = [o \in Obj |-> IF o \in T THEN AtomicTint(o)
                                    ELSE IF o \in White(WeakStr(T)) THEN "gray"
                                    ELSE mark[o]]
          /\ wrefs' = ClearWeak(T)
    BY <1>3 DEF Atomic
  <2>2. mark' \in [Obj -> Whites \cup {"gray", "black", "free"}]
    BY <2>1 DEF AtomicTint
  <2>3. wrefs' \in [Obj -> SUBSET Value]
    BY <2>1 DEF ClearWeak
  <2>4. UNCHANGED <<refs, weakmode, owner, gcroot, cand, cur, jit, regs, full>>
    BY <1>3 DEF Atomic, run
  <2>5. /\ gray' = {} /\ grayagain' = {} /\ weak' = {}
        /\ currentwhite' \in Whites /\ gcstate' \in GCStates /\ unswept' = cand
    BY <1>3 DEF Atomic, FlipWhite, otherwhite, Whites, GCStates
  <2> QED BY <2>2, <2>3, <2>4, <2>5 DEF Obj
<1>4. CASE \E o \in Obj : Propagate(o)
  <2>1. PICK o \in Obj : Propagate(o)
    BY <1>4
  <2>2. Marked(Strong(o)) \in SUBSET Obj
    BY HeldType, MarkedType
  <2>3. mark' \in [Obj -> Whites \cup {"gray", "black", "free"}]
    BY <2>1, MarkColourType DEF Propagate
  <2> QED BY <2>1, <2>2, <2>3 DEF Propagate, heap, run, OnGray
<1>5. CASE SweepUdata
  <2>1. PICK S \in SUBSET unswept :
          /\ mark' = SweepColour(S)
          /\ refs' = Cleared(refs, DeadIn(S))
          /\ cand' = cand \ S
          /\ gcstate' \in GCStates
          /\ unswept' \subseteq Str \cup unswept
    BY <1>5 DEF SweepUdata, GCStates
  <2>2. refs' \in [Obj -> SUBSET Obj]
    BY <2>1, ClearedType
  <2>3. UNCHANGED <<currentwhite, wrefs, weakmode, owner, gcroot, gray,
                    grayagain, weak, cur, jit, regs, full>>
    BY <1>5 DEF SweepUdata, lists, run
  <2> QED BY <2>1, <2>2, <2>3, SweepType DEF Obj
<1>6. CASE SweepString
  <2>1. PICK S \in SUBSET unswept :
          /\ mark' = SweepColour(S)
          /\ gcstate' \in GCStates
          /\ unswept' \subseteq Obj
    BY <1>6 DEF SweepString, GCStates, RootList, Obj, Value
  <2>2. UNCHANGED <<currentwhite, refs, wrefs, weakmode, owner, gcroot, gray,
                    grayagain, weak, cand, cur, jit, regs, full>>
    BY <1>6 DEF SweepString, lists, run, heap
  <2> QED BY <2>1, <2>2, SweepType
<1>7. CASE SweepRoot
  <2>1. PICK S \in SUBSET unswept :
          LET swept == S \cup OpenOf(S \cap Thread)
              dead  == DeadIn(swept) IN
          /\ mark' = SweepColour(swept)
          /\ refs' = Cleared(Unnamed(dead), dead)
          /\ wrefs' = Cleared(wrefs, dead)
          /\ weakmode' = weakmode \ dead
          /\ owner' = [u \in Upval |-> IF u \in dead \/ owner[u] \in dead
                                       THEN NoThread ELSE owner[u]]
          /\ cand' = cand \ dead
          /\ unswept' = unswept \ S
          /\ gcstate' \in GCStates
          /\ full' \in {"no", full}
    BY <1>7 DEF SweepRoot, GCStates
  <2> DEFINE dead == DeadIn(S \cup OpenOf(S \cap Thread))
  <2>2. Unnamed(dead) \in [Obj -> SUBSET Obj]
    BY UnnamedType
  <2>3. refs' \in [Obj -> SUBSET Obj] /\ wrefs' \in [Obj -> SUBSET Value]
    BY <2>1, <2>2, ClearedType
  <2>4. owner' \in [Upval -> Thread \cup {NoThread}]
    BY <2>1
  <2>5. UNCHANGED <<currentwhite, gcroot, gray, grayagain, weak, cur, jit, regs>>
    BY <1>7 DEF SweepRoot, lists, run
  <2> QED BY <2>1, <2>3, <2>4, <2>5, SweepType
<1>8. CASE FullGC
  <2>1. /\ gcstate' \in GCStates
        /\ gray' \in {gray, {}} /\ grayagain' \in {grayagain, {}}
        /\ weak' \in {weak, {}}
        /\ unswept' \subseteq Str \cup unswept
        /\ full' = "finish"
    BY <1>8 DEF FullGC, GCStates, lists
  <2>2. UNCHANGED <<currentwhite, mark, refs, wrefs, weakmode, owner, gcroot,
                    cand, cur, jit, regs>>
    BY <1>8 DEF FullGC, heap, run
  <2> QED BY <2>1, <2>2 DEF Obj
<1> QED BY <1>1, <1>2, <1>3, <1>4, <1>5, <1>6, <1>7, <1>8 DEF Collector

LEMMA ReceiveType ==
  ASSUME TypeOK, NEW o \in Value, NEW r \in [Obj -> SUBSET Obj], Receive(o, r)
  PROVE  refs' \in [Obj -> SUBSET Obj] /\ regs' \subseteq Value
<1>1. o \in Obj /\ cur \in Obj
  BY DEF TypeOK, Value, Obj
<1> QED BY <1>1 DEF TypeOK, Receive

LEMMA BarrierForwardType ==
  ASSUME TypeOK, NEW o \in Obj, NEW v \in Obj, BarrierForward(o, v)
  PROVE  /\ mark' \in [Obj -> Whites \cup {"gray", "black", "free"}]
         /\ gray' \subseteq Traversable
<1>1. MarkColour(Marked({v})) \in [Obj -> Whites \cup {"gray", "black", "free"}]
  BY MarkColourType
<1>2. [mark EXCEPT ![o] = currentwhite]
        \in [Obj -> Whites \cup {"gray", "black", "free"}]
  BY DEF TypeOK
<1> QED BY <1>1, <1>2 DEF BarrierForward, OnGray, TypeOK

LEMMA KindsInObj ==
  /\ Value \subseteq Obj /\ Upval \subseteq Obj /\ Tab \subseteq Value
  /\ Func \subseteq Value /\ Udata \subseteq Value /\ Str \subseteq Value
  /\ Thread \subseteq Value
  BY KindsAssumption DEF Value, Obj

LEMMA MutatorType ==
  ASSUME TypeOK, Mutator
  PROVE  TypeOK'
<1> USE KindsInObj
<1> DEFINE Colours == Whites \cup {"gray", "black", "free"}
<1>0. \A x \in Obj : [mark EXCEPT ![x] = currentwhite] \in [Obj -> Colours]
  BY DEF TypeOK
<1>1. ASSUME NEW o \in Value, New(o) PROVE TypeOK'
  BY <1>1, <1>0, ReceiveType DEF New, TypeOK, lists
<1>2. ASSUME NEW o \in Value, Drop(o) PROVE TypeOK'
  BY <1>2 DEF Drop, TypeOK, lists
<1>3. ASSUME NEW o \in Obj, NEW r \in Value, Load(o, r) PROVE TypeOK'
  BY <1>3, ReceiveType DEF Load, TypeOK, lists
<1>4. ASSUME NEW o \in Obj, NEW r \in Obj, Unlink(o, r) PROVE TypeOK'
  BY <1>4 DEF Unlink, TypeOK, lists, run
<1>5. ASSUME NEW f \in Func, NEW u \in Upval,
             NEW m \in [Obj -> Colours], NEW r \in [Obj -> SUBSET Obj],
             NEW w \in [Upval -> Thread \cup {NoThread}],
             Closure(f, u, m, r, w)
      PROVE  TypeOK'
  <2>1. [r EXCEPT ![f] = {u}] \in [Obj -> SUBSET Obj]
    OBVIOUS
  <2>2. refs' \in [Obj -> SUBSET Obj] /\ regs' \subseteq Value
    BY <1>5, <2>1, ReceiveType DEF Closure
  <2>3. mark' \in [Obj -> Colours]
    BY <1>5 DEF Closure, TypeOK
  <2> QED BY <1>5, <2>2, <2>3 DEF Closure, TypeOK, lists
<1>6. ASSUME NEW f \in Func, NEW u \in Upval, ClosureFound(f, u) PROVE TypeOK'
  <2>1. [mark EXCEPT ![u] = Resurrected(u)] \in [Obj -> Colours]
    BY DEF TypeOK, Resurrected
  <2> QED BY <1>6, <1>5, <2>1 DEF ClosureFound, TypeOK
<1>7. ASSUME NEW f \in Func, NEW u \in Upval, ClosureInherit(f, u) PROVE TypeOK'
  BY <1>7, <1>5 DEF ClosureInherit, TypeOK
<1>8. ASSUME NEW f \in Func, NEW u \in Upval, NEW v \in Value,
             ClosureOpen(f, u, v)
      PROVE  TypeOK'
  <2>1. [refs EXCEPT ![u] = {v}] \in [Obj -> SUBSET Obj]
    BY DEF TypeOK
  <2>2. [owner EXCEPT ![u] = cur] \in [Upval -> Thread \cup {NoThread}]
    BY DEF TypeOK
  <2> QED BY <1>8, <1>5, <1>0, <2>1, <2>2 DEF ClosureOpen
<1>9. ASSUME NEW t \in Tab, NEW v \in Value, NEW any \in BOOLEAN,
              StoreTab(t, v, any)
      PROVE TypeOK'
  <2>1. mark' \in [Obj -> Colours]
    BY <1>9 DEF StoreTab, TypeOK
  <2>2. refs' \in [Obj -> SUBSET Obj] /\ wrefs' \in [Obj -> SUBSET Value]
    BY <1>9 DEF StoreTab, TypeOK
  <2>3. grayagain' \subseteq Tab \cup Thread
    BY <1>9 DEF StoreTab, BarrierBack, TypeOK
  <2> QED BY <1>9, <2>1, <2>2, <2>3 DEF StoreTab, TypeOK, run
<1>10. ASSUME NEW o \in Func \cup Udata, NEW v \in Value, StoreObj(o, v)
       PROVE  TypeOK'
  <2>1. /\ mark' \in [Obj -> Colours]
        /\ gray' \subseteq Traversable
    BY <1>10, BarrierForwardType DEF StoreObj
  <2> QED BY <1>10, <2>1 DEF StoreObj, TypeOK, run
<1>11. ASSUME NEW f \in Func, NEW u \in Upval, NEW v \in Upval,
              UpvalueJoin(f, u, v)
       PROVE  TypeOK'
  <2>1. /\ mark' \in [Obj -> Colours]
        /\ gray' \subseteq Traversable
    BY <1>11, BarrierForwardType DEF UpvalueJoin
  <2> QED BY <1>11, <2>1 DEF UpvalueJoin, TypeOK, run
<1>12. ASSUME NEW u \in Upval, NEW v \in Value, StoreUpval(u, v) PROVE TypeOK'
  <2>1. /\ mark' \in [Obj -> Colours]
        /\ gray' \subseteq Traversable
    BY <1>12, BarrierForwardType DEF StoreUpval, TypeOK
  <2> QED BY <1>12, <2>1 DEF StoreUpval, TypeOK, run
<1>13. ASSUME NEW th \in Thread, NEW v \in Value, StoreThread(th, v)
       PROVE  TypeOK'
  BY <1>13 DEF StoreThread, TypeOK, lists, run
<1>14. ASSUME NEW t \in Tab, SetMode(t) \/ SetRoot(t) PROVE TypeOK'
  BY <1>14 DEF SetMode, SetRoot, TypeOK, lists, run
<1>15. ASSUME NEW s \in Str, Intern(s) PROVE TypeOK'
  BY <1>15, ReceiveType DEF Intern, Resurrected, TypeOK, lists
<1>16. ASSUME NEW u \in Upval, CloseUpval(u) PROVE TypeOK'
  <2>1. MarkColour(Marked(refs[u])) \in [Obj -> Colours]
    BY MarkColourType
  <2>2. mark' \in [Obj -> Colours]
    BY <1>16, <2>1 DEF CloseUpval, ClosedColour, TypeOK
  <2>3. gray' \subseteq Traversable
    BY <1>16 DEF CloseUpval, OnGray, TypeOK
  <2> QED BY <1>16, <2>2, <2>3 DEF CloseUpval, TypeOK, run
<1>17. ASSUME NEW co \in Thread, Resume(co) PROVE TypeOK'
  BY <1>17 DEF Resume, TypeOK, lists, heap
<1>18. ASSUME Yield \/ EnterTrace \/ ExitTrace PROVE TypeOK'
  <2>1. CASE Yield
    BY <2>1, MainAssumption DEF Yield, TypeOK, lists, heap
  <2>2. CASE EnterTrace
    BY <2>2 DEF EnterTrace, TypeOK, lists, heap
  <2>3. CASE ExitTrace
    <3>1. refs' \in [Obj -> SUBSET Obj]
      BY <2>3 DEF ExitTrace, TypeOK
    <3> QED BY <2>3, <3>1 DEF ExitTrace, TypeOK, lists
  <2> QED BY <1>18, <2>1, <2>2, <2>3
<1> QED
  BY <1>1, <1>2, <1>3, <1>4, <1>6, <1>7, <1>8, <1>9, <1>10, <1>11, <1>12,
     <1>13, <1>14, <1>15, <1>16, <1>17, <1>18 DEF Mutator

\* Every step keeps every variable in its type.
THEOREM TypeCorrect == Spec => []TypeOK
<1>1. ASSUME TypeOK, UNCHANGED vars PROVE TypeOK'
  BY <1>1 DEF TypeOK, vars, heap, lists, run
<1>2. TypeOK /\ [Next]_vars => TypeOK'
  BY <1>1, CollectorType, MutatorType DEF Next
<1> QED BY InitType, <1>2, PTL DEF Spec


(***************************************************************************)
(* The inductive invariant.  An object is safe when it is allocated and not *)
(* dead; the sweep frees what is not safe, so everything rests on the safe  *)
(* objects being closed under references (Closed) and containing the roots *)
(* (RootsSafe).  Atomic establishes that for the new white from the         *)
(* marking invariant (Marks), which the barriers keep.                      *)
(***************************************************************************)

Safe(o) == mark[o] # "free" /\ mark[o] # otherwhite

\* What each kind of object can refer to; free objects refer to nothing.
Shape ==
  /\ \A o \in Str : refs[o] = {}
  /\ \A o \in Udata : refs[o] \subseteq Tab
  /\ \A o \in Upval \cup Tab \cup Thread : refs[o] \subseteq Value
  /\ \A o \in Obj \ Tab : wrefs[o] = {}
  /\ \A o \in Obj : mark[o] = "free" => refs[o] = {} /\ wrefs[o] = {}
  /\ \A u \in Upval : IsOpen(u) => mark[u] # "free" /\ mark[owner[u]] # "free"

\* Userdata and closed upvalues are never gray; threads, strings and open
\* upvalues never black.
Colours ==
  /\ \A o \in Udata : mark[o] # "gray"
  /\ \A o \in Thread \cup Str : mark[o] # "black"
  /\ \A u \in Upval : mark[u] # (IF IsOpen(u) THEN "black" ELSE "gray")

RootsSafe ==
  /\ Safe(Main) /\ Safe(cur)
  /\ \A o \in gcroot \cup regs : Safe(o)
  /\ ~jit => regs = {}
  /\ \A o \in Fixed : mark[o] # "free"

Closed ==
  /\ \A o, r \in Obj : Safe(o) /\ r \in refs[o] \cup wrefs[o] => Safe(r)
  /\ \A u \in Upval, r \in Obj :
       IsOpen(u) /\ Safe(owner[u]) /\ r \in refs[u] => Safe(r)

\* The mark phase: nothing is dead, black objects hold no white ones, and gray
\* objects are on exactly one list.
NoneDead == \A o \in Obj : mark[o] # otherwhite
BlackClean ==
  \A o, r \in Obj : mark[o] = "black" /\ r \in refs[o] \cup wrefs[o] => ~iswhite(r)
Marks == Marking => NoneDead /\ BlackClean /\ ~iswhite(Main)

\* What the sweep has still to recolour, and what it visits in each phase.
Stale(o) == mark[o] # "free" /\ mark[o] # currentwhite
Sweeps ==
  /\ gcstate = "sweepudata" => unswept \subseteq Udata
  /\ gcstate = "sweepstring" =>
       unswept \subseteq Str /\ \A s \in Str : Stale(s) => s \in unswept
  /\ gcstate = "sweep" =>
       /\ \A s \in Str : ~Stale(s)
       /\ \A o \in Value : Stale(o) => o \in unswept
       /\ \A u \in Upval :
            Stale(u) => IF IsOpen(u) THEN owner[u] \in unswept ELSE u \in unswept

Inv ==
  Shape /\ Colours /\ RootsSafe /\ Closed /\ Marks /\ GrayListed /\ Sweeps
    /\ CleanPause
IInv == TypeOK /\ Inv

\* The two whites differ, and neither is another colour.
LEMMA WhitesDiffer ==
  ASSUME currentwhite \in Whites
  PROVE  /\ otherwhite \in Whites /\ otherwhite # currentwhite
         /\ Whites = {currentwhite, otherwhite}
         /\ \A w \in Whites : w # "gray" /\ w # "black" /\ w # "free"
  BY DEF Whites, otherwhite

LEMMA InitInv == Init => Inv
<1> SUFFICES ASSUME Init PROVE Inv
  OBVIOUS
<1> USE KindsInObj, KindsAssumption, MainAssumption, FixedAssumption
<1>1. \A o \in Obj : mark[o] = (IF o \in Fixed THEN "white0" ELSE "free")
                       /\ refs[o] = {} /\ wrefs[o] = {}
  BY DEF Init
<1>2. \A u \in Upval : ~IsOpen(u)
  BY DEF Init, IsOpen
<1>3. /\ gcstate = "pause" /\ currentwhite = "white0" /\ otherwhite = "white1"
      /\ gcroot = {} /\ regs = {} /\ cur = Main
  BY DEF Init, otherwhite
<1>4. Shape
  BY <1>1, <1>2 DEF Shape
<1>5. Colours
  BY <1>1, <1>2 DEF Colours
<1>6. RootsSafe
  BY <1>1, <1>3 DEF RootsSafe, Safe, Obj
<1>7. Closed
  BY <1>1, <1>2 DEF Closed
<1>8. Marks /\ GrayListed /\ Sweeps
  BY <1>3 DEF Marks, GrayListed, Marking, Sweeps
<1>9. CleanPause
  BY <1>1, <1>3 DEF CleanPause, Allocated
<1> QED BY <1>4, <1>5, <1>6, <1>7, <1>8, <1>9 DEF Inv

(***************************************************************************)
(* Mutator steps that add references to safe objects and revive dead or    *)
(* free objects, but touch no list and no other colour.                    *)
(***************************************************************************)

\* What the program can name is safe, and so is all it can load.
LEMMA HeldSafe ==
  ASSUME IInv
  PROVE  /\ \A v \in Held : v \in Value /\ Safe(v)
         /\ \A u \in UpvalsOf(Held) : u \in Upval /\ Safe(u)
         /\ \A o \in Sources : o \in Obj /\ Safe(o)
         /\ \A o \in Sources : \A r \in AllRefs(o) : r \in Obj /\ Safe(r)
<1> USE KindsInObj DEF IInv, Inv
<1>0. /\ cur \in Thread /\ cur \in Obj /\ Safe(cur)
      /\ \A o \in Obj : refs[o] \subseteq Obj /\ wrefs[o] \subseteq Obj
  BY DEF TypeOK, RootsSafe
<1>1. ASSUME NEW th \in Thread, Safe(th), NEW v \in Slots(th)
      PROVE  v \in Value /\ Safe(v)
  <2>1. CASE v \in refs[th]
    BY <1>0, <1>1, <2>1 DEF Shape, Closed
  <2>2. CASE \E u \in OpenOf({th}) : v \in refs[u]
    <3>1. PICK u \in Upval : owner[u] = th /\ v \in refs[u]
      BY <2>2 DEF OpenOf
    <3>2. IsOpen(u)
      BY <3>1, MainAssumption DEF IsOpen, Value, Obj
    <3>3. v \in Value
      BY <3>1 DEF Shape
    <3> QED BY <1>1, <3>1, <3>2, <3>3 DEF Closed
  <2> QED BY <1>1, <2>1, <2>2 DEF Slots
<1>2. \A v \in Held : v \in Value /\ Safe(v)
  BY <1>0, <1>1 DEF Held, TypeOK, RootsSafe
<1>3. \A u \in UpvalsOf(Held) : u \in Upval /\ Safe(u)
  BY <1>0, <1>2 DEF UpvalsOf, Closed
<1>4. \A o \in Sources : o \in Obj /\ Safe(o)
  BY <1>2, <1>3 DEF Sources
<1>5. ASSUME NEW o \in Sources, NEW r \in AllRefs(o)
      PROVE  r \in Obj /\ Safe(r)
  <2>1. CASE o \in Thread
    BY <1>1, <1>4, <2>1 DEF AllRefs
  <2>2. CASE o \notin Thread
    BY <1>0, <1>4, <2>2 DEF AllRefs, Closed
  <2> QED BY <2>1, <2>2
<1> QED BY <1>2, <1>3, <1>4, <1>5

LEMMA Grow ==
  ASSUME IInv, TypeOK', Shape', RootsSafe',
         UNCHANGED <<gcstate, currentwhite, gray, grayagain, weak, unswept>>,
         \A o \in Obj :
           \/ mark'[o] = mark[o]
           \/ mark'[o] = currentwhite /\ mark[o] = "free"
           \/ mark'[o] = currentwhite /\ mark[o] = otherwhite /\ o \in Str \cup Upval,
         \A o, r \in Obj : r \in refs'[o] \cup wrefs'[o] =>
           \/ mark'[o] = mark[o] /\ r \in refs[o] \cup wrefs[o]
           \/ Safe(r)' /\ mark[o] # "black",
         \A u \in Upval :
           \/ owner'[u] = owner[u]
           \/ /\ owner'[u] \in Thread /\ mark'[u] = currentwhite
              /\ \A r \in refs'[u] : Safe(r)'
  PROVE  Inv'
<1> USE KindsInObj, KindsAssumption, MainAssumption, WhitesDiffer DEF IInv, Inv
<1>0. currentwhite \in Whites /\ otherwhite' = otherwhite /\ Main \in Obj
  BY DEF TypeOK, otherwhite
<1>1. \A o \in Obj : Safe(o) => mark'[o] = mark[o] /\ Safe(o)'
  BY <1>0 DEF Safe
<1>2. Colours'
  BY <1>0 DEF Colours, IsOpen, TypeOK
<1>3. Closed'
  <2>1. ASSUME NEW o \in Obj, NEW r \in Obj, Safe(o)',
               r \in refs'[o] \cup wrefs'[o]
        PROVE  Safe(r)'
    <3>1. CASE mark'[o] = mark[o] /\ r \in refs[o] \cup wrefs[o]
      BY <1>0, <1>1, <2>1, <3>1 DEF Closed, Safe
    <3> QED BY <2>1, <3>1
  <2>2. ASSUME NEW u \in Upval, NEW r \in Obj, IsOpen(u)', Safe(owner[u])',
               r \in refs'[u]
        PROVE  Safe(r)'
    <3>1. CASE owner'[u] = owner[u] /\ mark'[u] = mark[u] /\ r \in refs[u]
      <4>1. owner[u] \in Thread /\ IsOpen(u) /\ mark[owner[u]] # "free"
        BY <2>2, <3>1 DEF IsOpen, TypeOK, Shape
      <4>2. Safe(owner[u])
        BY <1>0, <2>2, <3>1, <4>1 DEF Safe
      <4> QED BY <1>1, <3>1, <4>1, <4>2 DEF Closed
    <3>2. wrefs[u] = {}
      BY DEF Shape
    <3>3. r \in refs'[u] \cup wrefs'[u] /\ u \in Obj
      BY <2>2
    <3> QED BY <2>2, <3>1, <3>2, <3>3
  <2> QED BY <2>1, <2>2 DEF Closed
<1>4. Marks'
  <2> SUFFICES ASSUME Marking' PROVE (NoneDead /\ BlackClean /\ ~iswhite(Main))'
    BY DEF Marks
  <2>1. Marking
    BY DEF Marking
  <2>2. NoneDead'
    BY <1>0, <2>1 DEF Marks, NoneDead
  <2>3. ASSUME NEW o \in Obj, NEW r \in Obj, mark'[o] = "black",
               r \in refs'[o] \cup wrefs'[o]
        PROVE  ~iswhite(r)'
    <3>1. mark[o] = "black"
      BY <1>0, <2>3
    <3>2. r \in refs[o] \cup wrefs[o]
      BY <2>3, <3>1
    <3>3. Safe(o)
      BY <1>0, <3>1 DEF Safe
    <3>4. Safe(r)
      BY <3>2, <3>3 DEF Closed
    <3> QED BY <1>1, <2>1, <3>1, <3>2, <3>4 DEF Marks, BlackClean, iswhite
  <2>4. ~iswhite(Main)'
    BY <1>1, <2>1 DEF Marks, RootsSafe, iswhite
  <2> QED BY <2>2, <2>3, <2>4 DEF BlackClean
<1>5. GrayListed'
  BY <1>0 DEF GrayListed, Marking, Traversable
<1>6. Sweeps'
  <2>1. \A o \in Obj : Stale(o)' => Stale(o)
    BY <1>0 DEF Stale
  <2>2. \A u \in Upval : Stale(u)' => owner'[u] = owner[u]
    BY DEF Stale
  <2> QED BY <2>1, <2>2 DEF Sweeps, IsOpen
<1>7. CleanPause'
  BY <1>0 DEF CleanPause, Allocated
<1> QED BY <1>2, <1>3, <1>4, <1>5, <1>6, <1>7

\* A value arrives in a slot of the running thread, or in a register.
LEMMA Received ==
  ASSUME IInv, NEW v \in Value, NEW r \in [Obj -> SUBSET Obj], Receive(v, r),
         jit' = jit, cur' = cur
  PROVE  /\ \A o \in Obj, x \in Obj :
              x \in refs'[o] => x \in r[o] \/ (o = cur /\ x = v /\ x \in Value)
         /\ \A o \in Obj : r[o] \subseteq refs'[o]
         /\ \A o \in regs' : o \in regs \/ o = v
         /\ ~jit' => regs' = regs
<1> USE KindsInObj DEF IInv
<1>1. cur \in Obj
  BY DEF TypeOK
<1> QED BY <1>1 DEF Receive

LEMMA NewInv ==
  ASSUME IInv, TypeOK', NEW o \in Value, New(o)
  PROVE  Inv'
<1> USE KindsInObj, KindsAssumption, MainAssumption, WhitesDiffer DEF IInv, Inv
<1>0. /\ currentwhite \in Whites /\ currentwhite' = currentwhite
      /\ otherwhite' = otherwhite /\ cur' = cur /\ jit' = jit
      /\ cur \in Thread /\ Main \in Obj /\ Fixed \subseteq Obj
      /\ refs \in [Obj -> SUBSET Obj]
      /\ regs \subseteq Obj /\ gcroot \subseteq Obj
  BY FixedAssumption DEF TypeOK, New, otherwhite
<1>1. \A x \in Obj : mark'[x] = IF x = o THEN currentwhite ELSE mark[x]
  BY DEF New, TypeOK
<1>2. mark[o] = "free"
  BY DEF New
<1>3. /\ \A x \in Obj, y \in Obj :
           y \in refs'[x] => y \in refs[x] \/ (x = cur /\ y = o)
      /\ \A y \in regs' : y \in regs \/ y = o
      /\ ~jit' => regs' = regs
  BY <1>0, Received DEF New
<1>4. UNCHANGED <<wrefs, owner, gcroot, gcstate, gray, grayagain, weak, unswept>>
  BY DEF New, lists
<1>5. \A x \in Obj : Safe(x) => mark'[x] = mark[x] /\ Safe(x)'
  BY <1>0, <1>1, <1>2 DEF Safe
<1>6. Safe(o)' /\ Safe(cur)
  BY <1>0, <1>1 DEF Safe, RootsSafe
<1>7. RootsSafe'
  BY <1>0, <1>1, <1>3, <1>4, <1>5, <1>6 DEF RootsSafe
<1>8. Shape'
  <2>1. \A x \in Obj : refs'[x] \subseteq Obj
    BY DEF TypeOK
  <2>2. \A x \in Obj : mark'[x] = "free" => mark[x] = "free" /\ x # cur
    BY <1>0, <1>1, <1>2, <1>6 DEF Safe
  <2>3. \A u \in Upval : IsOpen(u) => owner[u] \in Obj
    BY DEF IsOpen, TypeOK
  <2> QED BY <1>0, <1>1, <1>3, <1>4, <2>1, <2>2, <2>3 DEF Shape, IsOpen
<1>9. \A x, y \in Obj : y \in refs'[x] \cup wrefs'[x] =>
        \/ mark'[x] = mark[x] /\ y \in refs[x] \cup wrefs[x]
        \/ Safe(y)' /\ mark[x] # "black"
  <2>1. refs[o] = {} /\ wrefs[o] = {}
    BY <1>2 DEF Shape
  <2>2. mark[cur] # "black"
    BY <1>0 DEF Colours
  <2> QED BY <1>1, <1>3, <1>4, <1>6, <2>1, <2>2
<1> QED BY <1>0, <1>1, <1>2, <1>4, <1>7, <1>8, <1>9, Grow

LEMMA InternInv ==
  ASSUME IInv, TypeOK', NEW s \in Str, Intern(s)
  PROVE  Inv'
<1> USE KindsInObj, KindsAssumption, MainAssumption, WhitesDiffer DEF IInv, Inv
<1>0. /\ currentwhite \in Whites /\ currentwhite' = currentwhite
      /\ otherwhite' = otherwhite /\ cur' = cur /\ jit' = jit
      /\ cur \in Thread /\ Main \in Obj /\ Fixed \subseteq Obj
      /\ refs \in [Obj -> SUBSET Obj]
      /\ regs \subseteq Obj /\ gcroot \subseteq Obj
  BY FixedAssumption DEF TypeOK, Intern, otherwhite
<1>1. \A x \in Obj : mark'[x] = IF x = s THEN Resurrected(s) ELSE mark[x]
  BY DEF Intern, TypeOK
<1>2. mark[s] # "free"
  BY DEF Intern, Allocated
<1>3. /\ \A x \in Obj, y \in Obj :
           y \in refs'[x] => y \in refs[x] \/ (x = cur /\ y = s)
      /\ \A y \in regs' : y \in regs \/ y = s
      /\ ~jit' => regs' = regs
  BY <1>0, Received DEF Intern
<1>4. UNCHANGED <<wrefs, owner, gcroot, gcstate, gray, grayagain, weak, unswept>>
  BY DEF Intern, lists
<1>5. \A x \in Obj : Safe(x) => mark'[x] = mark[x] /\ Safe(x)'
  BY <1>0, <1>1, <1>2 DEF Safe, Resurrected, isdead
<1>6. Safe(s)' /\ Safe(cur)
  BY <1>0, <1>1, <1>2 DEF Safe, RootsSafe, Resurrected, isdead
<1>7. RootsSafe'
  BY <1>0, <1>1, <1>2, <1>3, <1>4, <1>5, <1>6 DEF RootsSafe, Resurrected
<1>8. Shape'
  <2>1. \A x \in Obj : refs'[x] \subseteq Obj
    BY DEF TypeOK
  <2>2. \A x \in Obj : mark'[x] = "free" <=> mark[x] = "free"
    BY <1>0, <1>1, <1>2 DEF Resurrected
  <2>3. \A u \in Upval : IsOpen(u) => owner[u] \in Obj
    BY DEF IsOpen, TypeOK
  <2>4. mark[cur] # "free"
    BY <1>6 DEF Safe
  <2> QED BY <1>0, <1>3, <1>4, <2>1, <2>2, <2>3, <2>4 DEF Shape, IsOpen
<1>9. \A x, y \in Obj : y \in refs'[x] \cup wrefs'[x] =>
        \/ mark'[x] = mark[x] /\ y \in refs[x] \cup wrefs[x]
        \/ Safe(y)' /\ mark[x] # "black"
  <2>1. refs[s] = {} /\ wrefs[s] = {}
    BY DEF Shape
  <2>2. mark[cur] # "black"
    BY <1>0 DEF Colours
  <2> QED BY <1>1, <1>3, <1>4, <1>6, <2>1, <2>2
<1>10. \A x \in Obj :
         \/ mark'[x] = mark[x]
         \/ mark'[x] = currentwhite /\ mark[x] = otherwhite /\ x \in Str \cup Upval
  BY <1>1 DEF Resurrected, isdead
<1> QED BY <1>0, <1>4, <1>7, <1>8, <1>9, <1>10, Grow

\* Steps that leave every colour, owner and list alone: references to safe
\* values appear in allocated threads and open upvalues only.
HasSlots(o) == o \in Thread \/ (o \in Upval /\ IsOpen(o))
LEMMA SameColours ==
  ASSUME IInv, TypeOK', RootsSafe',
         UNCHANGED <<gcstate, currentwhite, mark, gray, grayagain, weak,
                     unswept, owner>>,
         \A o, r \in Obj : r \in refs'[o] =>
           \/ r \in refs[o]
           \/ HasSlots(o) /\ mark[o] # "free" /\ r \in Value /\ Safe(r),
         \A o \in Obj : wrefs'[o] \subseteq wrefs[o]
  PROVE  Inv'
<1> USE KindsInObj, KindsAssumption, MainAssumption DEF IInv, Inv
<1>0. otherwhite' = otherwhite
  BY DEF otherwhite
<1>1. Shape'
  <2>1. \A o \in Obj : refs'[o] \subseteq Obj
    BY DEF TypeOK
  <2> QED BY <2>1 DEF Shape, IsOpen, HasSlots
<1>2. \A o, r \in Obj : r \in refs'[o] \cup wrefs'[o] =>
        \/ mark'[o] = mark[o] /\ r \in refs[o] \cup wrefs[o]
        \/ Safe(r)' /\ mark[o] # "black"
  BY <1>0 DEF Safe, Colours, HasSlots
<1> QED BY <1>1, <1>2, Grow

LEMMA LoadInv ==
  ASSUME IInv, TypeOK', NEW o \in Obj, NEW r \in Value, Load(o, r)
  PROVE  Inv'
<1> USE KindsInObj, KindsAssumption, MainAssumption DEF IInv, Inv
<1>1. /\ UNCHANGED <<gcstate, currentwhite, mark, gray, grayagain, weak,
                     unswept, owner, wrefs, gcroot, cur, jit>>
      /\ otherwhite' = otherwhite
  BY DEF Load, lists, otherwhite
<1>2. Safe(r)
  BY HeldSafe DEF Load
<1>3. cur \in Thread /\ refs \in [Obj -> SUBSET Obj] /\ mark[cur] # "free"
  BY DEF TypeOK, RootsSafe, Safe
<1>4. /\ \A x \in Obj, y \in Obj :
           y \in refs'[x] => y \in refs[x] \/ (x = cur /\ y = r /\ y \in Value)
      /\ \A y \in regs' : y \in regs \/ y = r
      /\ ~jit' => regs' = regs
  BY <1>1, <1>3, Received DEF Load
<1>5. RootsSafe'
  BY <1>1, <1>2, <1>4 DEF RootsSafe, Safe
<1> QED BY <1>1, <1>2, <1>3, <1>4, <1>5, SameColours DEF HasSlots

LEMMA DropInv ==
  ASSUME IInv, TypeOK', NEW r \in Value, Drop(r)
  PROVE  Inv'
<1> USE DEF IInv, Inv
<1>1. /\ UNCHANGED <<gcstate, currentwhite, mark, gray, grayagain, weak,
                     unswept, owner, wrefs, gcroot, cur, jit>>
      /\ otherwhite' = otherwhite
  BY DEF Drop, lists, otherwhite
<1>2. \A x \in Obj : refs'[x] \subseteq refs[x]
  BY DEF Drop, TypeOK
<1>3. RootsSafe'
  BY <1>1 DEF RootsSafe, Safe, Drop
<1> QED BY <1>1, <1>2, <1>3, SameColours

LEMMA UnlinkInv ==
  ASSUME IInv, TypeOK', NEW o \in Obj, NEW r \in Obj, Unlink(o, r)
  PROVE  Inv'
<1> USE DEF IInv, Inv
<1>1. /\ UNCHANGED <<gcstate, currentwhite, mark, gray, grayagain, weak,
                     unswept, owner, gcroot, cur, jit, regs>>
      /\ otherwhite' = otherwhite
  BY DEF Unlink, lists, run, otherwhite
<1>2. \A x \in Obj : refs'[x] \subseteq refs[x] /\ wrefs'[x] \subseteq wrefs[x]
  BY DEF Unlink, TypeOK
<1>3. RootsSafe'
  BY <1>1 DEF RootsSafe, Safe
<1> QED BY <1>1, <1>2, <1>3, SameColours

LEMMA StoreThreadInv ==
  ASSUME IInv, TypeOK', NEW th \in Thread, NEW v \in Value, StoreThread(th, v)
  PROVE  Inv'
<1> USE KindsInObj DEF IInv, Inv
<1>1. /\ UNCHANGED <<gcstate, currentwhite, mark, gray, grayagain, weak,
                     unswept, owner, wrefs, gcroot, cur, jit, regs>>
      /\ otherwhite' = otherwhite
  BY DEF StoreThread, lists, run, otherwhite
<1>2. Safe(v) /\ mark[th] # "free"
  BY HeldSafe DEF StoreThread, Safe
<1>3. \A x, y \in Obj : y \in refs'[x] => y \in refs[x] \/ (x = th /\ y = v)
  BY DEF StoreThread, TypeOK
<1>4. RootsSafe'
  BY <1>1 DEF RootsSafe, Safe
<1> QED BY <1>1, <1>2, <1>3, <1>4, SameColours DEF HasSlots

LEMMA SetModeInv ==
  ASSUME IInv, TypeOK', NEW t \in Tab, SetMode(t)
  PROVE  Inv'
<1> USE DEF IInv, Inv
<1>1. UNCHANGED <<gcstate, currentwhite, mark, gray, grayagain, weak, unswept,
                  owner, refs, wrefs, gcroot, cur, jit, regs, otherwhite>>
  BY DEF SetMode, lists, run, otherwhite
<1>2. RootsSafe'
  BY <1>1 DEF RootsSafe, Safe
<1> QED BY <1>1, <1>2, SameColours

LEMMA SetRootInv ==
  ASSUME IInv, TypeOK', NEW t \in Tab, SetRoot(t)
  PROVE  Inv'
<1> USE DEF IInv, Inv
<1>1. UNCHANGED <<gcstate, currentwhite, mark, gray, grayagain, weak, unswept,
                  owner, refs, wrefs, cur, jit, regs, otherwhite>>
  BY DEF SetRoot, lists, run, otherwhite
<1>2. Safe(t)
  BY HeldSafe DEF SetRoot
<1>3. RootsSafe'
  BY <1>1, <1>2 DEF RootsSafe, Safe, SetRoot
<1> QED BY <1>1, <1>3, SameColours

\* Coroutine switches, and traces that are entered and left.
LEMMA RunInv ==
  ASSUME IInv, TypeOK',
         (\E co \in Thread : Resume(co)) \/ Yield \/ EnterTrace \/ ExitTrace
  PROVE  Inv'
<1> USE KindsInObj, MainAssumption DEF IInv, Inv
<1>1. ASSUME NEW co \in Thread, Resume(co)
      PROVE  Inv'
  <2>1. UNCHANGED <<gcstate, currentwhite, mark, gray, grayagain, weak, unswept,
                    owner, refs, wrefs, gcroot, jit, regs, otherwhite>>
    BY <1>1 DEF Resume, lists, heap, otherwhite
  <2>2. Safe(co)
    BY <1>1, HeldSafe DEF Resume, Held
  <2>3. RootsSafe'
    BY <1>1, <2>1, <2>2 DEF RootsSafe, Safe, Resume
  <2> QED BY <2>1, <2>3, SameColours
<1>2. CASE Yield \/ EnterTrace
  <2>1. UNCHANGED <<gcstate, currentwhite, mark, gray, grayagain, weak, unswept,
                    owner, refs, wrefs, gcroot, regs, otherwhite>>
    BY <1>2 DEF Yield, EnterTrace, lists, heap, otherwhite
  <2>2. RootsSafe'
    BY <1>2, <2>1 DEF RootsSafe, Safe, Yield, EnterTrace
  <2> QED BY <2>1, <2>2, SameColours
<1>3. CASE ExitTrace
  <2>1. UNCHANGED <<gcstate, currentwhite, mark, gray, grayagain, weak, unswept,
                    owner, wrefs, gcroot, cur, otherwhite>>
    BY <1>3 DEF ExitTrace, lists, otherwhite
  <2>2. RootsSafe'
    BY <1>3, <2>1 DEF RootsSafe, Safe, ExitTrace
  <2>3. cur \in Thread /\ mark[cur] # "free"
    BY DEF TypeOK, RootsSafe, Safe
  <2>4. \A o, r \in Obj : r \in refs'[o] =>
          r \in refs[o] \/ (o = cur /\ r \in regs /\ r \in Value /\ Safe(r))
    BY <1>3 DEF ExitTrace, TypeOK, RootsSafe
  <2> QED BY <2>1, <2>2, <2>3, <2>4, SameColours DEF HasSlots
<1> QED BY <1>1, <1>2, <1>3

\* A new closure over a new, a found or an inherited upvalue.
LEMMA ClosureStep ==
  ASSUME IInv, TypeOK', NEW f \in Func, NEW u \in Upval,
         NEW m \in [Obj -> Whites \cup {"gray", "black", "free"}],
         NEW r \in [Obj -> SUBSET Obj],
         NEW w \in [Upval -> Thread \cup {NoThread}],
         Closure(f, u, m, r, w),
         \A x \in Obj \ {u} : m[x] = mark[x],
         m[u] # "free" /\ m[u] # otherwhite,
         m[u] # mark[u] =>
           /\ m[u] = currentwhite
           /\ mark[u] = "free" \/ (mark[u] = otherwhite /\ owner[u] = cur),
         \A x, y \in Obj : y \in r[x] =>
           \/ y \in refs[x]
           \/ x = u /\ mark[u] = "free" /\ y \in Value /\ Safe(y),
         \A x \in Upval :
           w[x] = owner[x] \/ (x = u /\ w[u] = cur /\ mark[u] = "free")
  PROVE  Inv'
<1> USE KindsInObj, KindsAssumption, MainAssumption, WhitesDiffer DEF IInv, Inv
<1>0. /\ currentwhite \in Whites /\ currentwhite' = currentwhite
      /\ otherwhite' = otherwhite /\ cur' = cur /\ jit' = jit
      /\ cur \in Thread /\ Main \in Obj /\ Fixed \subseteq Obj
      /\ regs \subseteq Obj /\ gcroot \subseteq Obj
  BY FixedAssumption DEF TypeOK, Closure, otherwhite
<1>1. \A x \in Obj : mark'[x] = IF x = f THEN currentwhite
                                ELSE IF x = u THEN m[u] ELSE mark[x]
  BY DEF Closure
<1>2. mark[f] = "free" /\ f # u /\ f \in Obj /\ u \in Obj /\ f \in Value
  BY DEF Closure
<1> DEFINE r1 == [r EXCEPT ![f] = {u}]
<1>3. r1 \in [Obj -> SUBSET Obj] /\ Receive(f, r1)
  BY <1>2 DEF Closure
<1>4. /\ \A x \in Obj, y \in Obj :
           y \in refs'[x] => y \in r1[x] \/ (x = cur /\ y = f)
      /\ \A y \in regs' : y \in regs \/ y = f
      /\ ~jit' => regs' = regs
  <2> HIDE DEF r1
  <2> QED BY <1>0, <1>2, <1>3, Received
<1>5. \A x \in Obj, y \in Obj : y \in refs'[x] =>
        \/ y \in refs[x]
        \/ x = u /\ mark[u] = "free" /\ y \in Value /\ Safe(y)
        \/ x = f /\ y = u
        \/ x = cur /\ y = f
  <2>1. \A x \in Obj : r1[x] = IF x = f THEN {u} ELSE r[x]
    OBVIOUS
  <2>2. ASSUME NEW x \in Obj, NEW y \in Obj, y \in refs'[x]
        PROVE  \/ y \in refs[x]
               \/ x = u /\ mark[u] = "free" /\ y \in Value /\ Safe(y)
               \/ x = f /\ y = u
               \/ x = cur /\ y = f
    <3>1. y \in r1[x] \/ (x = cur /\ y = f)
      BY <1>4, <2>2
    <3> HIDE DEF r1
    <3> QED BY <2>1, <3>1
  <2> QED BY <2>2
<1>6. UNCHANGED <<wrefs, gcroot, gcstate, gray, grayagain, weak, unswept>>
      /\ owner' = w
  BY DEF Closure, lists
<1>7. \A x \in Obj : Safe(x) => mark'[x] = mark[x] /\ Safe(x)'
  <2>1. Safe(u) => m[u] = mark[u]
    BY DEF Safe
  <2> QED BY <1>0, <1>1, <1>2, <2>1 DEF Safe
<1>8. Safe(f)' /\ Safe(u)' /\ Safe(cur) /\ mark[cur] # "black"
  BY <1>0, <1>1, <1>2 DEF Safe, RootsSafe, Colours
<1>9. RootsSafe'
  BY <1>0, <1>1, <1>2, <1>4, <1>6, <1>7, <1>8 DEF RootsSafe
<1>10. Shape'
  <2>1. \A x \in Obj : refs'[x] \subseteq Obj
    BY DEF TypeOK
  <2>2. \A x \in Obj : mark'[x] = "free" => mark[x] = "free" /\ x \notin {cur, f, u}
    BY <1>0, <1>1, <1>2, <1>8 DEF Safe
  <2>3. \A x \in Upval : IsOpen(x)' =>
          \/ IsOpen(x) /\ owner'[x] = owner[x] /\ owner[x] \in Obj
          \/ x = u /\ owner'[x] = cur
    BY <1>6 DEF IsOpen, TypeOK
  <2>4. \A o \in Str : refs'[o] = {}
    BY <1>0, <1>2, <1>5, <2>1 DEF Shape
  <2>5. \A o \in Udata : refs'[o] \subseteq Tab
    BY <1>0, <1>2, <1>5, <2>1 DEF Shape
  <2>6. \A o \in Upval \cup Tab \cup Thread : refs'[o] \subseteq Value
    BY <1>0, <1>2, <1>5, <2>1 DEF Shape
  <2>7. \A o \in Obj : mark'[o] = "free" => refs'[o] = {} /\ wrefs'[o] = {}
    BY <1>5, <1>6, <2>1, <2>2 DEF Shape
  <2>8. \A x \in Upval : IsOpen(x)' => mark'[x] # "free" /\ mark'[owner'[x]] # "free"
    BY <1>0, <1>2, <2>2, <2>3 DEF Shape
  <2> QED BY <1>6, <2>4, <2>5, <2>6, <2>7, <2>8 DEF Shape
<1>11. \A x, y \in Obj : y \in refs'[x] \cup wrefs'[x] =>
        \/ mark'[x] = mark[x] /\ y \in refs[x] \cup wrefs[x]
        \/ Safe(y)' /\ mark[x] # "black"
  <2>1. refs[f] = {} /\ wrefs[f] = {} /\ wrefs[u] = {}
    BY <1>2 DEF Shape
  <2> SUFFICES ASSUME NEW x \in Obj, NEW y \in Obj, y \in refs'[x] \cup wrefs'[x],
                      ~(mark'[x] = mark[x] /\ y \in refs[x] \cup wrefs[x])
               PROVE  Safe(y)' /\ mark[x] # "black"
    OBVIOUS
  <2>2. CASE x = u
    <3>1. CASE y \in refs[u]
      <4>1. m[u] # mark[u]
        BY <1>1, <1>2, <2>2, <3>1
      <4>2. mark[u] # "free"
        BY <3>1 DEF Shape
      <4>3. owner[u] = cur /\ IsOpen(u)
        BY <1>0, <4>1, <4>2 DEF IsOpen, Obj, Value
      <4>4. Safe(y) /\ mark[u] # "black"
        BY <1>8, <3>1, <4>3 DEF Closed, Colours
      <4> QED BY <1>7, <2>2, <4>4
    <3>2. CASE y \notin refs[u]
      <4>1. Safe(y)
        BY <1>0, <1>2, <1>5, <1>6, <2>1, <2>2, <3>2
      <4>2. mark[u] # "black"
        BY <1>0, <1>2, <1>5, <1>6, <2>1, <2>2, <3>2
      <4> QED BY <1>7, <2>2, <4>1, <4>2
    <3> QED BY <3>1, <3>2
  <2>3. CASE x = f
    BY <1>0, <1>2, <1>5, <1>6, <1>8, <2>1, <2>3
  <2>4. CASE x # u /\ x # f
    BY <1>1, <1>5, <1>6, <1>8, <2>4
  <2> QED BY <2>2, <2>3, <2>4
<1>12. \A x \in Upval :
         \/ owner'[x] = owner[x]
         \/ /\ owner'[x] \in Thread /\ mark'[x] = currentwhite
            /\ \A y \in refs'[x] : Safe(y)'
  <2> SUFFICES ASSUME NEW x \in Upval, owner'[x] # owner[x]
               PROVE  /\ owner'[x] \in Thread /\ mark'[x] = currentwhite
                      /\ \A y \in refs'[x] : Safe(y)'
    OBVIOUS
  <2>1. x = u /\ owner'[x] = cur /\ mark[u] = "free" /\ m[u] = currentwhite
    BY <1>6
  <2>2. refs[u] = {} /\ refs'[u] \subseteq Obj
    BY <1>2, <2>1 DEF Shape, TypeOK
  <2>3. \A y \in refs'[u] : Safe(y)
    BY <1>0, <1>2, <1>5, <2>2
  <2> QED BY <1>0, <1>1, <1>2, <1>7, <2>1, <2>2, <2>3
<1>13. \A x \in Obj :
         \/ mark'[x] = mark[x]
         \/ mark'[x] = currentwhite /\ mark[x] = "free"
         \/ mark'[x] = currentwhite /\ mark[x] = otherwhite /\ x \in Str \cup Upval
  <2>1. m[u] # mark[u] /\ mark[u] # "free" => mark[u] = otherwhite
    <3>1. ASSUME m[u] # mark[u], mark[u] # "free", mark[u] # otherwhite PROVE FALSE
      BY <1>1, <1>2, <1>7, <3>1 DEF Safe
    <3> QED BY <3>1
  <2> QED BY <1>1, <1>2, <2>1
<1> QED BY <1>0, <1>6, <1>9, <1>10, <1>11, <1>12, <1>13, Grow

LEMMA ClosureInv ==
  ASSUME IInv, TypeOK', NEW f \in Func, NEW u \in Upval,
         \/ ClosureFound(f, u) \/ ClosureInherit(f, u)
         \/ \E v \in Value : ClosureOpen(f, u, v)
  PROVE  Inv'
<1> USE KindsInObj, WhitesDiffer DEF IInv, Inv
<1>0. /\ currentwhite \in Whites /\ cur \in Thread
      /\ mark \in [Obj -> Whites \cup {"gray", "black", "free"}]
      /\ refs \in [Obj -> SUBSET Obj]
      /\ owner \in [Upval -> Thread \cup {NoThread}]
  BY DEF TypeOK
<1>1. CASE ClosureFound(f, u)
  <2> DEFINE m == [mark EXCEPT ![u] = Resurrected(u)]
  <2>1. Closure(f, u, m, refs, owner) /\ owner[u] = cur
    BY <1>1 DEF ClosureFound
  <2>2. /\ m \in [Obj -> Whites \cup {"gray", "black", "free"}]
        /\ \A x \in Obj \ {u} : m[x] = mark[x]
        /\ m[u] = Resurrected(u)
    BY <1>0 DEF Resurrected
  <2>3. IsOpen(u)
    BY <1>0, <2>1, MainAssumption DEF IsOpen
  <2>4. m[u] # "free" /\ m[u] # otherwhite
    BY <1>0, <2>2, <2>3 DEF Resurrected, isdead, Shape
  <2>5. m[u] # mark[u] => m[u] = currentwhite /\ mark[u] = otherwhite
    BY <2>2 DEF Resurrected, isdead
  <2> HIDE DEF m
  <2> QED BY <1>0, <2>1, <2>2, <2>4, <2>5, ClosureStep
<1>2. CASE ClosureInherit(f, u)
  <2>1. Closure(f, u, mark, refs, owner) /\ Safe(u)
    BY <1>2, HeldSafe DEF ClosureInherit
  <2> QED BY <1>0, <2>1, ClosureStep DEF Safe
<1>3. ASSUME NEW v \in Value, ClosureOpen(f, u, v)
      PROVE  Inv'
  <2> DEFINE m == [mark EXCEPT ![u] = currentwhite]
             r == [refs EXCEPT ![u] = {v}]
             w == [owner EXCEPT ![u] = cur]
  <2>1. Closure(f, u, m, r, w) /\ mark[u] = "free" /\ v \in Held
    BY <1>3 DEF ClosureOpen, Held
  <2>2. /\ m \in [Obj -> Whites \cup {"gray", "black", "free"}]
        /\ \A x \in Obj \ {u} : m[x] = mark[x]
        /\ m[u] = currentwhite
    BY <1>0
  <2>3. /\ r \in [Obj -> SUBSET Obj]
        /\ \A x, y \in Obj : y \in r[x] => y \in refs[x] \/ (x = u /\ y = v)
    BY <1>0
  <2>4. /\ w \in [Upval -> Thread \cup {NoThread}]
        /\ \A x \in Upval : w[x] = owner[x] \/ (x = u /\ w[u] = cur)
    BY <1>0
  <2>5. v \in Value /\ Safe(v) /\ m[u] # "free" /\ m[u] # otherwhite
    BY <1>0, <2>1, <2>2, HeldSafe
  <2> HIDE DEF m, r, w
  <2> QED BY <1>0, <2>1, <2>2, <2>3, <2>4, <2>5, ClosureStep
<1> QED BY <1>1, <1>2, <1>3

(***************************************************************************)
(* Marking.                                                                *)
(***************************************************************************)

\* One marking call leaves nothing white that the call blackened.
LEMMA MarkedClosed ==
  ASSUME TypeOK, Shape, NEW S \in SUBSET Obj
  PROVE  /\ White(S) \subseteq Marked(S)
         /\ \A o \in Marked(S) : o \in Obj /\ iswhite(o)
         /\ \A o \in Marked(S) \cap (Udata \cup Upval) :
              White(refs[o]) \subseteq Marked(S)
<1> USE KindsInObj, KindsAssumption
<1> DEFINE direct == White(S)
           value  == direct \cup White(UNION {refs[u] : u \in direct \cap Upval})
           tabs   == White(UNION {refs[d] : d \in value \cap Udata})
<1>1. Marked(S) = value \cup tabs
  BY DEF Marked
<1>2. \A o \in direct : o \in Obj /\ iswhite(o)
  BY DEF White
<1>3. \A o \in value \ direct : o \in Value /\ iswhite(o)
  BY DEF White, Shape
<1>4. \A o \in tabs : o \in Tab /\ iswhite(o)
  BY DEF White, Shape
<1>5. ASSUME NEW o \in Marked(S) \cap Upval, NEW r \in White(refs[o])
      PROVE  r \in Marked(S)
  <2>1. o \in direct
    BY <1>1, <1>3, <1>4 DEF Value
  <2> QED BY <1>1, <2>1 DEF White
<1>6. ASSUME NEW o \in Marked(S) \cap Udata, NEW r \in White(refs[o])
      PROVE  r \in Marked(S)
  <2>1. o \in value
    BY <1>1, <1>4
  <2> QED BY <1>1, <2>1 DEF White
<1> QED BY <1>1, <1>2, <1>3, <1>4, <1>5, <1>6

\* The colours after a marking call in the mark phase, or at its start.
LEMMA MarkStep ==
  ASSUME TypeOK, Shape, Colours, NoneDead, BlackClean, NEW S \in SUBSET Obj
  PROVE  LET m == MarkColour(Marked(S)) IN
         /\ \A o \in Obj : IF o \in Marked(S)
                           THEN iswhite(o) /\ m[o] = Tint(o) /\ Safe(o)
                           ELSE m[o] = mark[o]
         /\ \A o \in S : m[o] \notin Whites
         /\ \A o \in Obj : mark[o] \notin Whites => m[o] = mark[o]
         /\ \A o \in Obj : m[o] # otherwhite
         /\ \A o, r \in Obj :
              m[o] = "black" /\ r \in refs[o] \cup wrefs[o] => m[r] \notin Whites
         /\ \A o \in Obj : m[o] \in {"free", otherwhite} <=> ~Safe(o)
         /\ \A o \in Udata : m[o] # "gray"
         /\ \A o \in Thread \cup Str : m[o] # "black"
         /\ \A u \in Upval : m[u] # (IF IsOpen(u) THEN "black" ELSE "gray")
<1> USE KindsInObj, KindsAssumption, WhitesDiffer
<1> DEFINE M == Marked(S)
           m == MarkColour(M)
<1>0. currentwhite \in Whites /\ \A o \in Obj : Tint(o) \in {"gray", "black"}
  BY DEF TypeOK, Tint
<1>1. \A o \in Obj : m[o] = IF o \in M THEN Tint(o) ELSE mark[o]
  BY DEF MarkColour
<1>2. /\ White(S) \subseteq M
      /\ \A o \in M : o \in Obj /\ iswhite(o)
      /\ \A o \in M \cap (Udata \cup Upval) : White(refs[o]) \subseteq M
  BY MarkedClosed
<1>3. \A o \in M : Safe(o)
  BY <1>0, <1>2 DEF Safe, iswhite, NoneDead
<1> HIDE DEF M, m
<1>4. \A o \in S : m[o] \notin Whites
  BY <1>0, <1>1, <1>2 DEF White, iswhite
<1>5. \A o \in Obj : mark[o] \notin Whites => m[o] = mark[o]
  BY <1>1, <1>2 DEF iswhite
<1>6. \A o \in Obj : m[o] # otherwhite
  BY <1>0, <1>1 DEF NoneDead
<1>7. ASSUME NEW o \in Obj, NEW r \in Obj, m[o] = "black",
             r \in refs[o] \cup wrefs[o]
      PROVE  m[r] \notin Whites
  <2>1. CASE o \in M
    <3>1. o \in Udata \cup Upval
      BY <1>1, <1>7, <2>1 DEF Tint
    <3>2. r \in refs[o]
      BY <1>7, <3>1 DEF Shape
    <3>3. iswhite(r) => r \in M
      BY <1>2, <2>1, <3>1, <3>2 DEF White
    <3> QED BY <1>0, <1>1, <3>3 DEF iswhite
  <2>2. CASE o \notin M
    BY <1>0, <1>1, <1>7, <2>2 DEF BlackClean, iswhite
  <2> QED BY <2>1, <2>2
<1>8. \A o \in Obj : m[o] \in {"free", otherwhite} <=> ~Safe(o)
  BY <1>0, <1>1, <1>3 DEF Safe
<1>9. /\ \A o \in Udata : m[o] # "gray"
      /\ \A o \in Thread \cup Str : m[o] # "black"
      /\ \A u \in Upval : m[u] # (IF IsOpen(u) THEN "black" ELSE "gray")
  BY <1>1 DEF Colours, Tint
<1>10. \A o \in Obj : IF o \in M THEN iswhite(o) /\ m[o] = Tint(o) /\ Safe(o)
                      ELSE m[o] = mark[o]
  BY <1>1, <1>2, <1>3
<1> QED BY <1>4, <1>5, <1>6, <1>7, <1>8, <1>9, <1>10 DEF M, m

\* Closed survives when safety does not change and what appears is safe.
LEMMA ClosedKept ==
  ASSUME IInv, TypeOK',
         \A u \in Upval : owner'[u] = owner[u] \/ owner'[u] = NoThread,
         \A o \in Obj : Safe(o)' <=> Safe(o),
         \A o, r \in Obj : r \in refs'[o] \cup wrefs'[o] =>
           r \in refs[o] \cup wrefs[o] \/ Safe(r)
  PROVE  Closed'
<1> USE KindsInObj DEF IInv, Inv
<1>1. \A u \in Upval : IsOpen(u)' => IsOpen(u) /\ owner'[u] = owner[u]
  BY DEF IsOpen
<1>2. \A u \in Upval : IsOpen(u) => owner[u] \in Obj
  BY DEF IsOpen, TypeOK
<1>3. \A u \in Upval : wrefs[u] = {}
  BY KindsAssumption DEF Shape
<1>4. ASSUME NEW o \in Obj, NEW r \in Obj, Safe(o)', r \in refs'[o] \cup wrefs'[o]
      PROVE  Safe(r)'
  BY <1>4 DEF Closed
<1>5. ASSUME NEW u \in Upval, NEW r \in Obj, IsOpen(u)', Safe(owner[u])',
             r \in refs'[u]
      PROVE  Safe(r)'
  <2>1. u \in Obj /\ owner'[u] = owner[u] /\ owner[u] \in Obj /\ IsOpen(u)
    BY <1>1, <1>2, <1>5
  <2>2. Safe(owner[u])
    BY <1>5, <2>1
  <2>3. r \in refs[u] \/ Safe(r)
    BY <1>3, <1>5, <2>1
  <2> QED BY <2>1, <2>2, <2>3 DEF Closed
<1> QED BY <1>4, <1>5 DEF Closed

LEMMA StoreTabInv ==
  ASSUME IInv, TypeOK', NEW t \in Tab, NEW v \in Value, NEW any \in BOOLEAN,
         StoreTab(t, v, any)
  PROVE  Inv'
<1> USE KindsInObj, KindsAssumption, MainAssumption, WhitesDiffer DEF IInv, Inv
<1> DEFINE back == BarrierBack(t, v, any)
<1>0. currentwhite \in Whites /\ Main \in Obj /\ Fixed \subseteq Obj
      /\ cur \in Obj /\ regs \subseteq Obj /\ gcroot \subseteq Obj
  BY FixedAssumption DEF TypeOK
<1>1. /\ UNCHANGED <<gcstate, currentwhite, gray, weak, unswept, owner, gcroot,
                     cur, jit, regs>>
      /\ otherwhite' = otherwhite
      /\ grayagain' = IF Marking THEN grayagain \cup back ELSE grayagain
      /\ \A x \in Obj : mark'[x] = IF x \in back THEN "gray" ELSE mark[x]
  BY DEF StoreTab, run, otherwhite
<1>2. Safe(v) /\ Safe(t)
  BY HeldSafe DEF StoreTab
<1>3. \A x, y \in Obj : y \in refs'[x] \cup wrefs'[x] =>
        y \in refs[x] \cup wrefs[x] \/ (x = t /\ y = v)
  BY DEF StoreTab, TypeOK
<1>4. /\ back \subseteq {t}
      /\ t \in back => mark[t] = "black"
      /\ mark[t] = "black" /\ iswhite(v) => t \in back
  BY DEF BarrierBack
<1> HIDE DEF back
<1>5. \A x \in Obj : Safe(x)' <=> Safe(x)
  BY <1>0, <1>1, <1>4 DEF Safe
<1>6. Shape'
  <2>1. \A x \in Obj : refs'[x] \subseteq Obj /\ wrefs'[x] \subseteq Obj
    BY DEF TypeOK
  <2>2. \A x \in Obj : mark'[x] = "free" <=> mark[x] = "free"
    BY <1>1, <1>4
  <2>3. mark[t] # "free"
    BY <1>2 DEF Safe
  <2>4. \A u \in Upval : IsOpen(u) => owner[u] \in Obj
    BY DEF IsOpen, TypeOK
  <2>5. /\ \A x \in Obj \ Tab : refs'[x] = refs[x] /\ wrefs'[x] = wrefs[x]
        /\ \A x \in Tab \ {t} : refs'[x] = refs[x] /\ wrefs'[x] = wrefs[x]
    BY DEF StoreTab, TypeOK
  <2>6. refs'[t] \subseteq Value
    BY DEF StoreTab, TypeOK, Shape
  <2> QED BY <1>1, <2>1, <2>2, <2>3, <2>4, <2>5, <2>6 DEF Shape, IsOpen
<1>7. Colours'
  BY <1>1, <1>4 DEF Colours, IsOpen
<1>8. RootsSafe'
  BY <1>0, <1>1, <1>4, <1>5 DEF RootsSafe
<1>9. Closed'
  BY <1>1, <1>2, <1>3, <1>5, ClosedKept
<1>10. Marks'
  <2>1. \A x \in Obj : iswhite(x)' <=> iswhite(x)
    BY <1>0, <1>1, <1>4 DEF iswhite
  <2>2. ASSUME Marking, NEW x \in Obj, NEW y \in Obj, mark'[x] = "black",
               y \in refs'[x] \cup wrefs'[x]
        PROVE  ~iswhite(y)
    <3>1. mark[x] = "black" /\ x \notin back
      BY <1>1, <2>2
    <3>2. x = t /\ y = v => ~iswhite(y)
      BY <1>4, <3>1
    <3> QED BY <1>3, <2>2, <3>1, <3>2 DEF Marks, BlackClean
  <2> QED BY <1>0, <1>1, <2>1, <2>2 DEF Marks, Marking, NoneDead, BlackClean
<1>11. GrayListed'
  <2> SUFFICES ASSUME Marking PROVE GrayListed'
    BY <1>1 DEF GrayListed, Marking
  <2>1. t \in back => t \notin gray \cup grayagain \cup weak
    BY <1>4 DEF GrayListed, Traversable
  <2> QED BY <1>1, <1>4, <2>1 DEF GrayListed, Marking, Traversable
<1>12. Sweeps'
  BY <1>0, <1>1, <1>4 DEF Sweeps, Stale, IsOpen
<1>13. CleanPause'
  BY <1>0, <1>1, <1>4 DEF CleanPause, Allocated
<1> QED BY <1>6, <1>7, <1>8, <1>9, <1>10, <1>11, <1>12, <1>13

\* A store with a forward barrier, to a function, userdata or closed upvalue.
LEMMA BarrierStep ==
  ASSUME IInv, TypeOK', NEW o \in Func \cup Udata \cup Upval, NEW v \in Obj,
         v \in Value \/ o \in Func,
         Safe(o), Safe(v), o \in Udata => v \in Tab, o \in Upval => ~IsOpen(o),
         BarrierForward(o, v),
         \A x, y \in Obj : y \in refs'[x] => y \in refs[x] \/ (x = o /\ y = v),
         UNCHANGED <<gcstate, currentwhite, grayagain, weak, unswept, owner,
                     wrefs, gcroot, cur, jit, regs>>
  PROVE  Inv'
<1> USE KindsInObj, KindsAssumption, MainAssumption, WhitesDiffer DEF IInv, Inv
<1>0. /\ currentwhite \in Whites /\ Main \in Obj /\ Fixed \subseteq Obj
      /\ cur \in Obj /\ regs \subseteq Obj /\ gcroot \subseteq Obj
      /\ o \in Obj /\ v \in Obj /\ otherwhite' = otherwhite
      /\ \A x \in Obj : refs'[x] \subseteq Obj /\ wrefs'[x] \subseteq Obj
  BY FixedAssumption DEF TypeOK, otherwhite
<1> DEFINE M == Marked({v})
           forward == mark[o] = "black" /\ iswhite(v)
<1>1. CASE ~Marking
  <2>1. \A x \in Obj : mark'[x] = IF x = o /\ forward THEN currentwhite ELSE mark[x]
    BY <1>1 DEF BarrierForward, TypeOK
  <2>2. \A x \in Obj : Safe(x)' <=> Safe(x)
    BY <1>0, <2>1 DEF Safe
  <2>3. Shape'
    <3>1. \A x \in Obj : mark'[x] = "free" <=> mark[x] = "free"
      BY <1>0, <2>1
    <3>2. mark[o] # "free"
      BY DEF Safe
    <3>3. \A u \in Upval : IsOpen(u) => owner[u] \in Obj
      BY DEF IsOpen, TypeOK
    <3> QED BY <1>0, <3>1, <3>2, <3>3 DEF Shape, IsOpen
  <2>4. Colours'
    BY <1>0, <2>1 DEF Colours, IsOpen
  <2>5. RootsSafe'
    BY <1>0, <2>1, <2>2 DEF RootsSafe
  <2>6. Closed'
    BY <2>2, ClosedKept
  <2>7. Marks' /\ GrayListed'
    BY <1>1 DEF Marks, GrayListed, Marking
  <2>8. Sweeps'
    BY <1>0, <2>1 DEF Sweeps, Stale, IsOpen
  <2>9. CleanPause'
    BY <1>0, <2>1 DEF CleanPause, Allocated
  <2> QED BY <2>3, <2>4, <2>5, <2>6, <2>7, <2>8, <2>9
<1>2. CASE Marking
  <2>0. NoneDead /\ BlackClean /\ ~iswhite(Main)
    BY <1>2 DEF Marks
  <2> DEFINE m == MarkColour(M)
  <2>1. /\ \A x \in Obj : IF x \in M THEN iswhite(x) /\ m[x] = Tint(x) /\ Safe(x)
                          ELSE m[x] = mark[x]
        /\ m[v] \notin Whites
        /\ \A x \in Obj : mark[x] \notin Whites => m[x] = mark[x]
        /\ \A x \in Obj : m[x] # otherwhite
        /\ \A x, y \in Obj :
             m[x] = "black" /\ y \in refs[x] \cup wrefs[x] => m[y] \notin Whites
        /\ \A x \in Obj : m[x] \in {"free", otherwhite} <=> ~Safe(x)
        /\ \A x \in Udata : m[x] # "gray"
        /\ \A x \in Thread \cup Str : m[x] # "black"
        /\ \A u \in Upval : m[u] # (IF IsOpen(u) THEN "black" ELSE "gray")
    BY <1>0, <2>0, MarkStep
  <2>2. IF forward THEN mark' = m /\ gray' = gray \cup (M \cap Traversable)
                   ELSE mark' = mark /\ gray' = gray
    BY <1>2 DEF BarrierForward, OnGray
  <2> HIDE DEF m, M
  <2>3. \A x \in Obj : Safe(x)' <=> Safe(x)
    BY <1>0, <2>1, <2>2 DEF Safe
  <2>4. \A x \in Obj : mark'[x] = "free" <=> mark[x] = "free"
    BY <1>0, <2>0, <2>1, <2>2 DEF Safe, NoneDead
  <2>5. Shape'
    <3>1. mark[o] # "free"
      BY DEF Safe
    <3>2. \A u \in Upval : IsOpen(u) => owner[u] \in Obj
      BY DEF IsOpen, TypeOK
    <3> QED BY <1>0, <2>4, <3>1, <3>2 DEF Shape, IsOpen
  <2>6. Colours'
    BY <2>1, <2>2 DEF Colours, IsOpen
  <2>7. RootsSafe'
    BY <1>0, <2>3, <2>4 DEF RootsSafe
  <2>8. Closed'
    BY <2>3, ClosedKept
  <2>9. NoneDead' /\ ~iswhite(Main)'
    BY <1>0, <2>0, <2>1, <2>2 DEF NoneDead, iswhite
  <2>10. ASSUME NEW x \in Obj, NEW y \in Obj, mark'[x] = "black",
                y \in refs'[x] \cup wrefs'[x]
         PROVE  mark'[y] \notin Whites
    <3>1. CASE forward
      <4>1. mark' = m /\ (x = o /\ y = v => mark'[y] \notin Whites)
        BY <2>1, <2>2, <3>1
      <4> QED BY <2>1, <2>10, <4>1
    <3>2. CASE ~forward
      <4>1. mark' = mark
        BY <2>2, <3>2
      <4> QED BY <2>0, <2>10, <3>2, <4>1 DEF BlackClean, iswhite
    <3> QED BY <3>1, <3>2
  <2>11. Marks'
    BY <1>2, <2>9, <2>10 DEF Marks, BlackClean, iswhite
  <2>12. GrayListed'
    <3>1. ASSUME forward, NEW x \in Traversable
          PROVE  mark'[x] = "gray" <=> x \in M \/ mark[x] = "gray"
      <4>1. x \in Obj /\ Tint(x) = "gray"
        BY DEF Traversable, Tint
      <4>2. mark' = m
        BY <2>2, <3>1
      <4>3. CASE x \in M
        BY <2>1, <4>1, <4>2, <4>3
      <4>4. CASE x \notin M
        BY <2>1, <4>1, <4>2, <4>4
      <4> QED BY <4>3, <4>4
    <3>2. \A x \in M \cap Obj : mark[x] # "gray"
      BY <1>0, <2>1 DEF iswhite
    <3>3. gray \cup grayagain \cup weak \subseteq Traversable
      BY DEF TypeOK, Traversable
    <3>4. \A x \in M \cap Traversable : x \notin gray \cup grayagain \cup weak
      BY <1>2, <3>2 DEF GrayListed, Traversable
    <3> QED BY <1>2, <2>2, <3>1, <3>3, <3>4 DEF GrayListed, Marking
  <2>13. Sweeps' /\ CleanPause'
    BY <1>2 DEF Sweeps, CleanPause, Marking
  <2> QED BY <2>5, <2>6, <2>7, <2>8, <2>11, <2>12, <2>13
<1> QED BY <1>1, <1>2
LEMMA StoreObjInv ==
  ASSUME IInv, TypeOK', NEW o \in Func \cup Udata, NEW v \in Value, StoreObj(o, v)
  PROVE  Inv'
<1> USE KindsInObj, KindsAssumption DEF IInv
<1>1. /\ Safe(o) /\ Safe(v) /\ (o \in Udata => v \in Tab)
      /\ BarrierForward(o, v)
  BY HeldSafe DEF StoreObj
<1>2. UNCHANGED <<gcstate, currentwhite, grayagain, weak, unswept, owner,
                  wrefs, gcroot, cur, jit, regs>>
  BY DEF StoreObj, run
<1>3. \A x, y \in Obj : y \in refs'[x] => y \in refs[x] \/ (x = o /\ y = v)
  BY DEF StoreObj, TypeOK
<1>4. o \notin Upval
  OBVIOUS
<1> QED BY <1>1, <1>2, <1>3, <1>4, BarrierStep

LEMMA UpvalueJoinInv ==
  ASSUME IInv, TypeOK', NEW f \in Func, NEW u \in Upval, NEW v \in Upval,
         UpvalueJoin(f, u, v)
  PROVE  Inv'
<1> USE KindsInObj, KindsAssumption DEF IInv
<1>1. Safe(f) /\ Safe(v) /\ BarrierForward(f, v)
  BY HeldSafe DEF UpvalueJoin
<1>2. UNCHANGED <<gcstate, currentwhite, grayagain, weak, unswept, owner,
                  wrefs, gcroot, cur, jit, regs>>
  BY DEF UpvalueJoin, run
<1>3. \A x, y \in Obj : y \in refs'[x] => y \in refs[x] \/ (x = f /\ y = v)
  BY DEF UpvalueJoin, TypeOK
<1> QED BY <1>1, <1>2, <1>3, BarrierStep

LEMMA StoreUpvalInv ==
  ASSUME IInv, TypeOK', NEW u \in Upval, NEW v \in Value, StoreUpval(u, v)
  PROVE  Inv'
<1> USE KindsInObj, KindsAssumption, MainAssumption DEF IInv, Inv
<1>1. UNCHANGED <<gcstate, currentwhite, grayagain, weak, unswept, owner,
                  wrefs, gcroot, cur, jit, regs>>
  BY DEF StoreUpval, run
<1>2. \A x, y \in Obj : y \in refs'[x] => y \in refs[x] \/ (x = u /\ y = v)
  BY DEF StoreUpval, TypeOK
<1>3. Safe(v)
  BY HeldSafe DEF StoreUpval
<1>4. CASE IsOpen(u)
  <2>1. mark' = mark /\ gray' = gray /\ mark[u] # "free" /\ otherwhite' = otherwhite
    BY <1>1, <1>4 DEF StoreUpval, Shape, otherwhite
  <2>2. RootsSafe'
    BY <1>1, <2>1 DEF RootsSafe, Safe
  <2> QED BY <1>1, <1>2, <1>3, <1>4, <2>1, <2>2, SameColours DEF HasSlots
<1>5. CASE ~IsOpen(u)
  <2>1. BarrierForward(u, v) /\ u \notin Udata
    BY <1>5 DEF StoreUpval
  <2>2. u \in UpvalsOf(Held)
    BY <1>5, MainAssumption DEF StoreUpval, OpenOf, IsOpen, TypeOK, Obj
  <2>3. Safe(u)
    BY <2>2, HeldSafe
  <2> QED BY <1>1, <1>2, <1>3, <1>5, <2>1, <2>3, BarrierStep
<1> QED BY <1>4, <1>5

LEMMA CloseUpvalInv ==
  ASSUME IInv, TypeOK', NEW u \in Upval, CloseUpval(u)
  PROVE  Inv'
<1> USE KindsInObj, KindsAssumption, MainAssumption, WhitesDiffer DEF IInv, Inv
<1>0. /\ currentwhite \in Whites /\ Main \in Obj /\ Fixed \subseteq Obj
      /\ u \notin Fixed /\ u \notin Traversable /\ u # Main
      /\ cur \in Obj /\ regs \subseteq Value /\ gcroot \subseteq Obj
      /\ otherwhite' = otherwhite /\ cur \in Thread
      /\ \A x \in Obj : refs'[x] \subseteq Obj /\ wrefs'[x] \subseteq Obj
  BY FixedAssumption DEF TypeOK, otherwhite, Traversable, CloseUpval
<1>1. /\ UNCHANGED <<gcstate, currentwhite, grayagain, weak, unswept, wrefs,
                     gcroot, cur, jit, regs>>
      /\ \A x \in Upval : owner'[x] = IF x = u THEN NoThread ELSE owner[x]
      /\ \A x \in Obj : refs'[x] = IF x = u /\ isdead(u) THEN {} ELSE refs[x]
  BY DEF CloseUpval, run, TypeOK
<1>2. /\ IsOpen(u) /\ mark[u] # "free" /\ mark[u] # "black"
      /\ \A x \in Upval : IsOpen(x)' <=> IsOpen(x) /\ x # u
  BY <1>1, MainAssumption DEF IsOpen, CloseUpval, TypeOK, Obj, Shape, Colours
<1>3. CASE ~(mark[u] = "gray" /\ Marking)
  <2>1. /\ gray' = gray
        /\ \A x \in Obj : mark'[x] = IF x = u
                                     THEN IF isdead(u) THEN "free" ELSE currentwhite
                                     ELSE mark[x]
    <3>1. CASE isdead(u)
      BY <3>1 DEF CloseUpval, TypeOK
    <3>2. CASE ~isdead(u)
      <4>1. ClosedColour(u) = currentwhite
        BY <1>0, <1>2, <3>2 DEF ClosedColour, isdead, TypeOK
      <4>2. gray' = gray /\ mark' = [mark EXCEPT ![u] = ClosedColour(u)]
        BY <1>3, <3>2 DEF CloseUpval
      <4> QED BY <3>2, <4>1, <4>2 DEF TypeOK
    <3> QED BY <3>1, <3>2
  <2>2. \A x \in Obj : Safe(x)' <=> Safe(x)
    BY <1>0, <1>2, <2>1 DEF Safe, isdead
  <2>3. Shape'
    <3>1. \A x \in Upval : IsOpen(x) => owner[x] \in Thread
      BY DEF IsOpen, TypeOK
    <3>2. \A x \in Thread : mark'[x] = mark[x]
      BY <2>1
    <3>3. \A x \in Obj : mark'[x] = "free" => refs'[x] = {} /\ wrefs'[x] = {}
      BY <1>0, <1>1, <2>1 DEF Shape
    <3> QED BY <1>0, <1>1, <1>2, <2>1, <3>1, <3>2, <3>3 DEF Shape, IsOpen
  <2>4. Colours'
    BY <1>0, <1>2, <2>1 DEF Colours
  <2>5. RootsSafe'
    BY <1>0, <1>1, <2>1, <2>2 DEF RootsSafe
  <2>6. Closed'
    BY <1>1, <2>2, ClosedKept
  <2>7. Marks'
    <3>1. Marking => ~isdead(u) /\ \A x \in Obj : mark'[x] = mark[x]
      BY <1>0, <1>2, <1>3, <2>1 DEF Marks, NoneDead, isdead, TypeOK
    <3> QED BY <1>0, <1>1, <3>1 DEF Marks, NoneDead, BlackClean, Marking, iswhite
  <2>8. GrayListed'
    BY <1>0, <1>1, <2>1 DEF GrayListed, Marking, Traversable
  <2>9. Sweeps'
    <3>1. \A x \in Obj : Stale(x)' => Stale(x) /\ x # u
      BY <1>1, <2>1 DEF Stale
    <3> QED BY <1>1, <1>2, <3>1 DEF Sweeps
  <2>10. CleanPause'
    BY <1>1, <2>1 DEF CleanPause, Allocated
  <2> QED BY <2>3, <2>4, <2>5, <2>6, <2>7, <2>8, <2>9, <2>10
<1>4. CASE mark[u] = "gray" /\ Marking
  <2> DEFINE M == Marked(refs[u])
             m == MarkColour(M)
  <2>0. NoneDead /\ BlackClean /\ ~iswhite(Main) /\ ~isdead(u)
        /\ refs[u] \in SUBSET Obj
    BY <1>0, <1>4 DEF Marks, isdead, TypeOK
  <2>1. /\ \A x \in Obj : IF x \in M THEN iswhite(x) /\ m[x] = Tint(x) /\ Safe(x)
                          ELSE m[x] = mark[x]
        /\ \A x \in refs[u] : m[x] \notin Whites
        /\ \A x \in Obj : mark[x] \notin Whites => m[x] = mark[x]
        /\ \A x \in Obj : m[x] # otherwhite
        /\ \A x, y \in Obj :
             m[x] = "black" /\ y \in refs[x] \cup wrefs[x] => m[y] \notin Whites
        /\ \A x \in Obj : m[x] \in {"free", otherwhite} <=> ~Safe(x)
        /\ \A x \in Udata : m[x] # "gray"
        /\ \A x \in Thread \cup Str : m[x] # "black"
        /\ \A w \in Upval : m[w] # (IF IsOpen(w) THEN "black" ELSE "gray")
    BY <1>0, <2>0, MarkStep
  <2>2. /\ gray' = gray \cup (M \cap Traversable)
        /\ mark' = [m EXCEPT ![u] = "black"]
    BY <1>4, <2>0 DEF CloseUpval, OnGray
  <2>3. \A x \in Obj : mark'[x] = IF x = u THEN "black" ELSE m[x]
    BY <2>2 DEF MarkColour
  <2> HIDE DEF m, M
  <2>4. \A x \in Obj : Safe(x)' <=> Safe(x)
    BY <1>0, <1>4, <2>1, <2>3 DEF Safe
  <2>5. \A x \in Obj : mark'[x] = "free" <=> mark[x] = "free"
    BY <1>0, <2>0, <2>1, <2>3, <1>4 DEF Safe, NoneDead
  <2>6. Shape'
    <3>1. \A x \in Upval : IsOpen(x) => owner[x] \in Obj
      BY DEF IsOpen, TypeOK
    <3> QED BY <1>0, <1>1, <1>2, <2>0, <2>5, <3>1 DEF Shape
  <2>7. Colours'
    BY <1>0, <1>2, <2>1, <2>3 DEF Colours
  <2>8. RootsSafe'
    BY <1>0, <1>1, <2>4, <2>5 DEF RootsSafe
  <2>9. Closed'
    BY <1>1, <2>4, ClosedKept
  <2>10. NoneDead' /\ ~iswhite(Main)'
    BY <1>0, <2>0, <2>1, <2>3 DEF NoneDead, iswhite
  <2>11. BlackClean'
    <3>1. wrefs[u] = {}
      BY DEF Shape
    <3>2. ASSUME NEW x \in Obj, NEW y \in Obj, mark'[x] = "black",
                 y \in refs[x] \cup wrefs[x]
          PROVE  m[y] \notin Whites
      BY <2>1, <2>3, <3>1, <3>2
    <3> QED BY <1>0, <1>1, <2>0, <2>3, <3>2 DEF BlackClean, iswhite
  <2>12. GrayListed'
    <3>1. \A x \in Traversable : mark'[x] = "gray" <=> x \in M \/ mark[x] = "gray"
      <4>1. \A x \in Traversable : x \in Obj /\ Tint(x) = "gray" /\ x # u
        BY <1>0 DEF Traversable, Tint
      <4> QED BY <1>0, <2>1, <2>3, <4>1
    <3>2. \A x \in M \cap Obj : mark[x] # "gray"
      BY <1>0, <2>1 DEF iswhite
    <3>3. gray \cup grayagain \cup weak \subseteq Traversable
      BY DEF TypeOK, Traversable
    <3>4. \A x \in M \cap Traversable : x \notin gray \cup grayagain \cup weak
      BY <1>4, <3>2 DEF GrayListed, Traversable
    <3> QED BY <1>1, <1>4, <2>2, <3>1, <3>3, <3>4 DEF GrayListed, Marking
  <2>13. Marks' /\ Sweeps' /\ CleanPause'
    BY <1>1, <1>4, <2>10, <2>11 DEF Marks, Sweeps, CleanPause, Marking
  <2> QED BY <2>6, <2>7, <2>8, <2>9, <2>12, <2>13
<1> QED BY <1>3, <1>4

(***************************************************************************)
(* The collector's own marking steps.                                      *)
(***************************************************************************)

LEMMA MarkStartInv ==
  ASSUME IInv, TypeOK', MarkStart
  PROVE  Inv'
<1> USE KindsInObj, KindsAssumption, MainAssumption, WhitesDiffer DEF IInv, Inv
<1>0. /\ currentwhite \in Whites /\ Main \in Obj /\ Fixed \subseteq Obj
      /\ cur \in Obj /\ regs \subseteq Obj /\ gcroot \subseteq Obj
      /\ {Main} \cup gcroot \in SUBSET Obj
  BY FixedAssumption DEF TypeOK
<1> DEFINE M == Marked({Main} \cup gcroot)
           m == MarkColour(M)
<1>1. /\ UNCHANGED <<currentwhite, refs, wrefs, owner, gcroot, unswept, cur,
                     jit, regs, otherwhite>>
      /\ gcstate = "pause" /\ gcstate' = "propagate" /\ mark' = m
      /\ gray' = M \cap Traversable /\ grayagain' = {} /\ weak' = {}
  BY DEF MarkStart, heap, run, OnGray, otherwhite
<1>2. \A o \in Obj : mark[o] \in {"free", currentwhite}
  BY <1>1 DEF CleanPause, Allocated
<1>3. NoneDead /\ BlackClean
  BY <1>0, <1>2 DEF NoneDead, BlackClean
<1>4. /\ \A x \in Obj : IF x \in M THEN iswhite(x) /\ m[x] = Tint(x) /\ Safe(x)
                        ELSE m[x] = mark[x]
      /\ \A x \in {Main} \cup gcroot : m[x] \notin Whites
      /\ \A x \in Obj : mark[x] \notin Whites => m[x] = mark[x]
      /\ \A x \in Obj : m[x] # otherwhite
      /\ \A x, y \in Obj :
           m[x] = "black" /\ y \in refs[x] \cup wrefs[x] => m[y] \notin Whites
      /\ \A x \in Obj : m[x] \in {"free", otherwhite} <=> ~Safe(x)
      /\ \A x \in Udata : m[x] # "gray"
      /\ \A x \in Thread \cup Str : m[x] # "black"
      /\ \A w \in Upval : m[w] # (IF IsOpen(w) THEN "black" ELSE "gray")
  BY <1>0, <1>3, MarkStep
<1> HIDE DEF m, M
<1>5. \A x \in Obj : Safe(x)' <=> Safe(x)
  BY <1>1, <1>4 DEF Safe
<1>6. \A x \in Obj : mark'[x] = "free" <=> mark[x] = "free"
  BY <1>0, <1>1, <1>3, <1>4 DEF Safe, NoneDead
<1>7. Shape'
  <2>1. \A x \in Upval : IsOpen(x) => owner[x] \in Obj
    BY DEF IsOpen, TypeOK
  <2> QED BY <1>1, <1>6, <2>1 DEF Shape, IsOpen
<1>8. Colours'
  BY <1>1, <1>4 DEF Colours, IsOpen
<1>9. RootsSafe'
  BY <1>0, <1>1, <1>5, <1>6 DEF RootsSafe
<1>10. Closed'
  BY <1>1, <1>5, ClosedKept
<1>11. Marks'
  <2>1. NoneDead' /\ ~iswhite(Main)'
    BY <1>1, <1>4 DEF NoneDead, iswhite
  <2>2. BlackClean'
    BY <1>1, <1>4 DEF BlackClean, iswhite
  <2> QED BY <2>1, <2>2 DEF Marks
<1>12. GrayListed'
  <2>1. \A x \in Traversable : x \in Obj /\ Tint(x) = "gray" /\ mark[x] # "gray"
    BY <1>0, <1>2 DEF Traversable, Tint
  <2>2. \A x \in Traversable : mark'[x] = "gray" <=> x \in M
    BY <1>1, <1>4, <2>1
  <2> QED BY <1>1, <2>2 DEF GrayListed
<1>13. Sweeps' /\ CleanPause'
  BY <1>1 DEF Sweeps, CleanPause
<1> QED BY <1>7, <1>8, <1>9, <1>10, <1>11, <1>12, <1>13

LEMMA PropagateDoneInv ==
  ASSUME IInv, TypeOK', PropagateDone
  PROVE  Inv'
<1> USE DEF IInv, Inv
<1>1. /\ UNCHANGED <<currentwhite, mark, refs, wrefs, owner, gcroot, gray,
                     grayagain, weak, cur, jit, regs, otherwhite>>
      /\ gcstate = "propagate" /\ gcstate' = "atomic"
  BY DEF PropagateDone, heap, lists, run, otherwhite
<1>2. \A x \in Obj : Safe(x)' <=> Safe(x)
  BY <1>1 DEF Safe
<1>3. Shape' /\ Colours' /\ RootsSafe'
  BY <1>1 DEF Shape, Colours, RootsSafe, IsOpen, Safe
<1>4. Closed'
  BY <1>1, <1>2, ClosedKept
<1>5. Marks' /\ GrayListed'
  BY <1>1 DEF Marks, NoneDead, BlackClean, iswhite, GrayListed, Marking
<1>6. Sweeps' /\ CleanPause'
  BY <1>1 DEF Sweeps, CleanPause
<1> QED BY <1>3, <1>4, <1>5, <1>6

LEMMA PropagateInv ==
  ASSUME IInv, TypeOK', NEW o \in Obj, Propagate(o)
  PROVE  Inv'
<1> USE KindsInObj, KindsAssumption, MainAssumption, WhitesDiffer DEF IInv, Inv
<1>0. /\ currentwhite \in Whites /\ Main \in Obj /\ Fixed \subseteq Obj
      /\ cur \in Obj /\ regs \subseteq Obj /\ gcroot \subseteq Obj
      /\ Strong(o) \in SUBSET Obj
  BY FixedAssumption DEF TypeOK, Strong, AllRefs, Slots, OpenOf
<1> DEFINE M == Marked(Strong(o))
           m == MarkColour(M)
<1>1. /\ UNCHANGED <<gcstate, currentwhite, refs, wrefs, owner, gcroot, unswept,
                     cur, jit, regs, otherwhite>>
      /\ gcstate = "propagate" /\ o \in gray
      /\ mark' = [m EXCEPT ![o] = IF o \in StaysGray THEN "gray" ELSE "black"]
      /\ gray' = (gray \ {o}) \cup (M \cap Traversable)
      /\ grayagain' = grayagain \cup ({o} \cap Thread)
      /\ weak' = weak \cup ({o} \cap weakmode)
  BY DEF Propagate, heap, run, OnGray, otherwhite
<1>2. /\ NoneDead /\ BlackClean /\ ~iswhite(Main)
      /\ o \in Traversable /\ mark[o] = "gray"
      /\ o \notin Udata /\ o \notin Upval /\ o \notin Str
  BY <1>0, <1>1 DEF Marks, Marking, GrayListed, TypeOK, Traversable
<1>3. /\ \A x \in Obj : IF x \in M THEN iswhite(x) /\ m[x] = Tint(x) /\ Safe(x)
                        ELSE m[x] = mark[x]
      /\ \A x \in Strong(o) : m[x] \notin Whites
      /\ \A x \in Obj : mark[x] \notin Whites => m[x] = mark[x]
      /\ \A x \in Obj : m[x] # otherwhite
      /\ \A x, y \in Obj :
           m[x] = "black" /\ y \in refs[x] \cup wrefs[x] => m[y] \notin Whites
      /\ \A x \in Obj : m[x] \in {"free", otherwhite} <=> ~Safe(x)
      /\ \A x \in Udata : m[x] # "gray"
      /\ \A x \in Thread \cup Str : m[x] # "black"
      /\ \A w \in Upval : m[w] # (IF IsOpen(w) THEN "black" ELSE "gray")
  BY <1>0, <1>2, MarkStep
<1>4. \A x \in Obj : mark'[x] = IF x # o THEN m[x]
                                ELSE IF o \in StaysGray THEN "gray" ELSE "black"
  BY <1>1 DEF MarkColour
<1> HIDE DEF m, M
<1>5. \A x \in Obj : Safe(x)' <=> Safe(x)
  BY <1>0, <1>1, <1>2, <1>3, <1>4 DEF Safe
<1>6. \A x \in Obj : mark'[x] = "free" <=> mark[x] = "free"
  BY <1>0, <1>2, <1>3, <1>4 DEF Safe, NoneDead
<1>7. Shape'
  <2>1. \A x \in Upval : IsOpen(x) => owner[x] \in Obj
    BY DEF IsOpen, TypeOK
  <2> QED BY <1>1, <1>6, <2>1 DEF Shape, IsOpen
<1>8. Colours'
  BY <1>1, <1>2, <1>3, <1>4 DEF Colours, IsOpen, StaysGray
<1>9. RootsSafe'
  BY <1>0, <1>1, <1>5, <1>6 DEF RootsSafe
<1>10. Closed'
  BY <1>1, <1>5, ClosedKept
<1>11. Marks'
  <2>1. NoneDead' /\ ~iswhite(Main)'
    BY <1>0, <1>1, <1>2, <1>3, <1>4 DEF NoneDead, iswhite
  <2>2. ASSUME NEW x \in Obj, NEW y \in Obj, mark'[x] = "black",
               y \in refs[x] \cup wrefs[x]
        PROVE  mark'[y] \notin Whites
    <3>1. m[y] \notin Whites
      <4>1. CASE x # o
        BY <1>3, <1>4, <2>2, <4>1
      <4>2. CASE x = o
        <5>1. o \notin StaysGray
          BY <1>4, <2>2, <4>2
        <5>2. y \in Strong(o)
          BY <2>2, <4>2, <5>1 DEF Strong, AllRefs, StaysGray
        <5> QED BY <1>3, <5>2
      <4> QED BY <4>1, <4>2
    <3> QED BY <1>0, <1>4, <3>1
  <2> QED BY <1>1, <2>1, <2>2 DEF Marks, BlackClean, iswhite
<1>12. GrayListed'
  <2>1. \A x \in Traversable : x \in Obj /\ Tint(x) = "gray"
    BY DEF Traversable, Tint
  <2>2. \A x \in Traversable :
          x # o => (mark'[x] = "gray" <=> x \in M \/ mark[x] = "gray")
    BY <1>3, <1>4, <2>1
  <2>3. \A x \in M \cap Obj : mark[x] # "gray"
    BY <1>0, <1>3 DEF iswhite
  <2>4. \A x \in Traversable :
          mark[x] = "gray" <=> x \in gray \cup grayagain \cup weak
    BY <1>1 DEF GrayListed, Marking
  <2>5. \A x \in M \cap Traversable : x \notin gray \cup grayagain \cup weak
    BY <2>1, <2>3, <2>4
  <2>6. /\ gray \cup grayagain \cup weak \subseteq Traversable
        /\ gray \cap grayagain = {} /\ gray \cap weak = {}
        /\ grayagain \cap weak = {} /\ weakmode \subseteq Tab
    BY <1>1 DEF TypeOK, Traversable, GrayListed, Marking
  <2>7. mark'[o] = "gray" <=> o \in Thread \cup weakmode
    BY <1>4 DEF StaysGray
  <2>8. o \notin M
    BY <1>2, <2>3
  <2>9. ASSUME NEW x \in Traversable
        PROVE  mark'[x] = "gray" <=> x \in gray' \cup grayagain' \cup weak'
    <3>1. CASE x = o
      BY <1>1, <2>6, <2>7, <2>8, <3>1
    <3>2. CASE x # o
      BY <1>1, <2>2, <2>4, <2>9, <3>2
    <3> QED BY <3>1, <3>2
  <2>10. /\ gray' \cap grayagain' = {} /\ gray' \cap weak' = {}
         /\ grayagain' \cap weak' = {}
    BY <1>1, <2>5, <2>6, <2>8
  <2> QED BY <2>9, <2>10 DEF GrayListed
<1>13. Sweeps' /\ CleanPause'
  BY <1>1 DEF Sweeps, CleanPause
<1> QED BY <1>7, <1>8, <1>9, <1>10, <1>11, <1>12, <1>13

\* The atomic phase: what is neither traversed nor marked is dead, and no safe
\* object refers to it.
LEMMA AtomicInv ==
  ASSUME IInv, TypeOK', Atomic
  PROVE  Inv'
<1> USE KindsInObj, KindsAssumption, MainAssumption, WhitesDiffer DEF IInv, Inv
<1>0. /\ currentwhite \in Whites /\ Main \in Obj /\ Fixed \subseteq Obj
      /\ cur \in Obj /\ gcroot \subseteq Obj /\ weakmode \subseteq Tab
      /\ \A x \in Obj : refs[x] \subseteq Obj /\ wrefs[x] \subseteq Obj
      /\ \A x \in Obj : mark[x] \in Whites \cup {"gray", "black", "free"}
  BY FixedAssumption DEF TypeOK
<1>1. PICK T \in SUBSET Obj :
        /\ IsTraversal(T)
        /\ mark' = [o \in Obj |-> IF o \in T THEN AtomicTint(o)
                                  ELSE IF o \in White(WeakStr(T)) THEN "gray"
                                  ELSE mark[o]]
        /\ wrefs' = ClearWeak(T)
  BY DEF Atomic
<1>2. /\ UNCHANGED <<refs, owner, gcroot, cur, jit, regs>>
      /\ gcstate = "atomic" /\ gcstate' = "sweepudata" /\ ~jit
      /\ unswept' = cand /\ currentwhite' = otherwhite
      /\ otherwhite' = currentwhite
  BY <1>0 DEF Atomic, run, FlipWhite, otherwhite, Whites
<1> DEFINE W == White(WeakStr(T))
<1>3. /\ Frontier \subseteq T
      /\ \A o \in T : White(Strong(o)) \subseteq T
  BY <1>1 DEF IsTraversal, Spreads
<1>4. \A x \in Obj : mark'[x] = IF x \in T THEN AtomicTint(x)
                                ELSE IF x \in W THEN "gray" ELSE mark[x]
  BY <1>1
<1>5. /\ \A x \in W : x \in Str
      /\ \A x \in Str : iswhite(x) /\ (\E t \in T \cap weakmode : x \in wrefs[t])
           => x \in W
  BY DEF White, WeakStr
<1>6. /\ \A x \in Obj : wrefs'[x] \subseteq wrefs[x]
      /\ \A x \in T \cap weakmode, r \in Obj :
           r \in wrefs'[x] => r \in Str \cup T \/ ~iswhite(r)
  BY <1>1 DEF ClearWeak
<1> HIDE DEF W
<1>7. NoneDead /\ BlackClean /\ ~iswhite(Main)
  BY <1>2 DEF Marks, Marking
<1>8. \A x \in Obj : AtomicTint(x) \in {"gray", "black"}
  BY DEF AtomicTint
<1>9. \A x \in Obj :
        Safe(x)' <=> x \in T \/ x \in W \/ mark[x] \in {"gray", "black"}
  BY <1>0, <1>2, <1>4, <1>7, <1>8 DEF Safe, NoneDead
<1>10. \A x \in Obj : mark[x] # "free" /\ ~iswhite(x) => Safe(x)'
  BY <1>0, <1>9 DEF iswhite
<1>11. \A x \in Obj : mark'[x] = "free" => mark[x] = "free"
  BY <1>4, <1>8
<1>12. \A x \in Obj : mark[x] = "gray" => x \in T \/ x \in Str
  <2>1. \A x \in Traversable : mark[x] = "gray" => x \in T
    BY <1>2, <1>3 DEF GrayListed, Marking, Frontier
  <2>2. \A x \in Upval : mark[x] = "gray" => x \in T
    BY <1>3 DEF Colours, Frontier
  <2> QED BY <2>1, <2>2 DEF Colours, Obj, Traversable
<1>13. Shape'
  <2>1. \A x \in Upval : IsOpen(x) => owner[x] \in Obj
    BY DEF IsOpen, TypeOK
  <2>2. \A x \in Obj : mark'[x] = "free" => refs'[x] = {} /\ wrefs'[x] = {}
    BY <1>2, <1>6, <1>11 DEF Shape
  <2> QED BY <1>2, <1>6, <1>11, <2>1, <2>2 DEF Shape, IsOpen
<1>14. Colours'
  <2>1. \A x \in Udata : mark'[x] # "gray"
    BY <1>0, <1>4, <1>5 DEF Colours, AtomicTint, StaysGray
  <2>2. \A x \in Thread \cup Str : mark'[x] # "black"
    BY <1>4 DEF Colours, AtomicTint, StaysGray
  <2>3. \A u \in Upval : mark'[u] # (IF IsOpen(u) THEN "black" ELSE "gray")
    BY <1>0, <1>4, <1>5 DEF Colours, AtomicTint, StaysGray
  <2> QED BY <1>2, <2>1, <2>2, <2>3 DEF Colours, IsOpen
<1>15. RootsSafe'
  <2>1. Safe(Main)'
    BY <1>0, <1>7, <1>10 DEF RootsSafe, Safe
  <2>2. \A x \in {cur} \cup gcroot : Safe(x)'
    <3>1. \A x \in {cur} \cup gcroot : iswhite(x) => x \in T
      BY <1>3 DEF Frontier, White
    <3>2. \A x \in {cur} \cup gcroot : mark[x] # "free" /\ x \in Obj
      BY <1>0 DEF RootsSafe, Safe
    <3> QED BY <1>9, <1>10, <3>1, <3>2
  <2>3. regs' = {} /\ jit' = jit
    BY <1>2 DEF RootsSafe
  <2> QED BY <1>0, <1>2, <1>11, <2>1, <2>2, <2>3 DEF RootsSafe
<1>16. \A o \in Obj : mark[o] # "free" => Safe(o)
  BY <1>0, <1>7 DEF Safe, NoneDead
<1>17. ASSUME NEW o \in Obj, NEW r \in Obj, Safe(o)', r \in refs[o] \cup wrefs'[o]
       PROVE  Safe(r)'
  <2>1. r \in refs[o] \cup wrefs[o]
    BY <1>6, <1>17
  <2>2. mark[o] # "free"
    BY <2>1 DEF Shape
  <2>3. Safe(o) /\ Safe(r) /\ mark[r] # "free"
    BY <1>16, <2>1, <2>2 DEF Closed, Safe
  <2>4. CASE o \in T
    <3>1. CASE r \in refs[o] \/ o \notin weakmode
      <4>1. r \in Strong(o)
        <5>1. o \in Thread => r \in refs[o]
          BY <2>1 DEF Shape
        <5> QED BY <2>1, <3>1, <5>1 DEF Strong, AllRefs, Slots
      <4>2. iswhite(r) => r \in T
        BY <1>3, <2>4, <4>1 DEF White
      <4> QED BY <1>9, <1>10, <2>3, <4>2
    <3>2. CASE r \in wrefs'[o] /\ o \in weakmode
      <4>1. r \in Str \cup T \/ ~iswhite(r)
        BY <1>6, <2>4, <3>2
      <4>2. r \in Str /\ iswhite(r) => r \in W
        BY <1>5, <1>6, <2>4, <3>2
      <4> QED BY <1>9, <1>10, <2>3, <4>1, <4>2
    <3> QED BY <1>17, <3>1, <3>2
  <2>5. CASE o \notin T
    <3>1. o \notin Str
      BY <2>1 DEF Shape
    <3>2. mark[o] = "black"
      BY <1>5, <1>9, <1>12, <1>17, <2>5, <3>1
    <3> QED BY <1>7, <1>10, <2>1, <2>3, <3>2 DEF BlackClean
  <2> QED BY <2>4, <2>5
<1>18. ASSUME NEW u \in Upval, NEW r \in Obj, IsOpen(u), Safe(owner[u])', r \in refs[u]
       PROVE  Safe(r)'
  <2> DEFINE th == owner[u]
  <2>1. th \in Thread /\ th \in Obj /\ mark[th] # "free"
    BY <1>18 DEF IsOpen, TypeOK, Shape
  <2>2. owner' = owner /\ Safe(th)'
    BY <1>2, <1>18
  <2>3. Safe(th) /\ Safe(r) /\ mark[r] # "free"
    BY <1>16, <1>18, <2>1 DEF Closed, Safe
  <2>4. r \in Strong(th)
    BY <1>0, <1>18, <2>1 DEF Strong, AllRefs, Slots, OpenOf
  <2>5. th \in T
    BY <1>2, <1>5, <1>9, <1>12, <2>1, <2>2 DEF Colours
  <2>6. iswhite(r) => r \in T
    BY <1>3, <2>4, <2>5 DEF White
  <2> QED BY <1>9, <1>10, <2>3, <2>6
<1>19. Closed'
  BY <1>2, <1>17, <1>18 DEF Closed, IsOpen
<1>20. Marks' /\ GrayListed' /\ Sweeps' /\ CleanPause'
  BY <1>2 DEF Marks, GrayListed, Marking, Sweeps, CleanPause, TypeOK
<1> QED BY <1>13, <1>14, <1>15, <1>19, <1>20

(***************************************************************************)
(* Sweeping: what is freed is not safe, and what is kept becomes white.    *)
(***************************************************************************)

LEMMA SweepStep ==
  ASSUME IInv, TypeOK', NEW S \in SUBSET Obj,
         mark' = SweepColour(S),
         UNCHANGED <<currentwhite, gcroot, cur, jit, regs>>,
         \A o, r \in Obj : r \in refs'[o] =>
           /\ o \notin DeadIn(S)
           /\ \/ r \in refs[o]
              \/ \E u \in Upval : owner[u] = o /\ o \in Thread /\ r \in refs[u],
         \A o, r \in Obj : r \in wrefs'[o] => o \notin DeadIn(S) /\ r \in wrefs[o],
         \A u \in Upval :
           \/ owner'[u] = owner[u] /\ u \notin DeadIn(S) /\ owner[u] \notin DeadIn(S)
           \/ owner'[u] = NoThread /\ (u \in S \/ owner[u] = NoThread)
  PROVE  /\ Shape' /\ Colours' /\ RootsSafe' /\ Closed'
         /\ \A o \in Obj : Stale(o)' => Stale(o) /\ o \notin S
<1> USE KindsInObj, KindsAssumption, MainAssumption, WhitesDiffer DEF IInv, Inv
<1>0. /\ currentwhite \in Whites /\ Main \in Obj /\ Fixed \subseteq Obj
      /\ cur \in Obj /\ gcroot \subseteq Obj /\ regs \subseteq Obj
      /\ Fixed \subseteq Str \cup {Main}
      /\ otherwhite' = otherwhite
      /\ \A x \in Obj : refs'[x] \subseteq Obj /\ wrefs'[x] \subseteq Obj
      /\ \A x \in Obj : refs[x] \subseteq Obj /\ wrefs[x] \subseteq Obj
  BY FixedAssumption DEF TypeOK, otherwhite
<1> DEFINE D == DeadIn(S)
<1>1. \A o \in Obj : mark'[o] = IF o \in D THEN "free"
                                ELSE IF o \in S THEN currentwhite ELSE mark[o]
  BY DEF SweepColour
<1>2. \A o \in D : o \in S /\ o \notin Fixed /\ mark[o] = otherwhite
  BY DEF DeadIn, isdead
<1>3. \A o \in S : o \notin D /\ o \notin Fixed => mark[o] # otherwhite
  BY DEF DeadIn, isdead
<1>4. /\ \A o, r \in Obj : r \in refs'[o] =>
           /\ o \notin D
           /\ r \in refs[o] \/ \E u \in Upval : owner[u] = o /\ o \in Thread /\ r \in refs[u]
      /\ \A o, r \in Obj : r \in wrefs'[o] => o \notin D /\ r \in wrefs[o]
  OBVIOUS
<1>5. \A u \in Upval :
        \/ owner'[u] = owner[u] /\ u \notin D /\ owner[u] \notin D
        \/ owner'[u] = NoThread /\ (u \in S \/ owner[u] = NoThread)
  OBVIOUS
<1> HIDE DEF D
<1>6. \A o \in Obj : Safe(o) => Safe(o)'
  BY <1>0, <1>1, <1>2 DEF Safe
<1>7. \A u \in Upval : IsOpen(u)' =>
        /\ IsOpen(u) /\ owner'[u] = owner[u] /\ u \notin D /\ owner[u] \notin D
        /\ owner[u] \in Thread
  BY <1>5 DEF IsOpen, TypeOK
<1>8. \A o \in Thread, u \in Upval : owner[u] = o => mark[o] # "free" /\ IsOpen(u)
  BY MainAssumption DEF IsOpen, Shape
<1>9. \A o \in Obj : Safe(o)' => Safe(o) \/ o \in Str \/ mark[o] = "free"
  BY <1>0, <1>1, <1>2, <1>3 DEF Safe, RootsSafe
<1>10. \A o \in Obj : mark'[o] = "free" => o \in D \/ mark[o] = "free"
  BY <1>0, <1>1
<1>11. Shape'
  <2>1. \A o, r \in Obj : o \notin Thread /\ r \in refs'[o] => r \in refs[o]
    BY <1>4
  <2>2. \A o \in Str : refs'[o] = {}
    BY <1>0, <2>1 DEF Shape
  <2>3. \A o \in Udata : refs'[o] \subseteq Tab
    BY <1>0, <2>1 DEF Shape
  <2>4. \A o \in Upval \cup Tab : refs'[o] \subseteq Value
    BY <1>0, <2>1 DEF Shape
  <2>5. \A o \in Thread : refs'[o] \subseteq Value
    BY <1>0, <1>4 DEF Shape
  <2>6. \A o \in Obj \ Tab : wrefs'[o] = {}
    BY <1>0, <1>4 DEF Shape
  <2>7. \A o \in Obj : mark'[o] = "free" => refs'[o] = {} /\ wrefs'[o] = {}
    BY <1>0, <1>4, <1>8, <1>10 DEF Shape
  <2>8. \A u \in Upval : IsOpen(u)' => mark'[u] # "free" /\ mark'[owner'[u]] # "free"
    BY <1>7, <1>10 DEF Shape
  <2> QED BY <2>2, <2>3, <2>4, <2>5, <2>6, <2>7, <2>8 DEF Shape
<1>12. Colours'
  <2>1. \A o \in Udata \cup Thread \cup Str :
          mark'[o] \in {"free", currentwhite, mark[o]}
    BY <1>1
  <2>2. \A u \in Upval : \/ mark'[u] \in {"free", currentwhite}
                         \/ mark'[u] = mark[u] /\ (IsOpen(u)' <=> IsOpen(u))
    BY <1>1, <1>5 DEF IsOpen
  <2> QED BY <1>0, <2>1, <2>2 DEF Colours
<1>13. RootsSafe'
  BY <1>0, <1>1, <1>2, <1>6 DEF RootsSafe
<1>14. ASSUME NEW o \in Obj, NEW r \in Obj, Safe(o)', r \in refs'[o] \cup wrefs'[o]
       PROVE  Safe(r)'
  <2>1. CASE r \in refs[o] \cup wrefs[o]
    <3>1. Safe(o)
      BY <1>9, <1>14, <2>1 DEF Shape
    <3> QED BY <1>6, <2>1, <3>1 DEF Closed
  <2>2. CASE \E u \in Upval : owner[u] = o /\ o \in Thread /\ r \in refs[u]
    <3>1. Safe(o)
      BY <1>8, <1>9, <1>14, <2>2
    <3> QED BY <1>6, <1>8, <2>2, <3>1 DEF Closed
  <2> QED BY <1>4, <1>14, <2>1, <2>2
<1>15. ASSUME NEW u \in Upval, NEW r \in Obj, IsOpen(u)', Safe(owner[u])',
              r \in refs'[u]
       PROVE  Safe(r)'
  <2>1. r \in refs[u] /\ IsOpen(u) /\ owner[u] \in Thread /\ owner'[u] = owner[u]
    BY <1>4, <1>7, <1>15
  <2>2. Safe(owner[u])'
    BY <1>15, <2>1
  <2>3. Safe(owner[u])
    BY <1>9, <2>1, <2>2 DEF Shape
  <2> QED BY <1>6, <2>1, <2>3 DEF Closed
<1>16. Closed'
  BY <1>14, <1>15 DEF Closed
<1>17. \A o \in Obj : Stale(o)' => Stale(o) /\ o \notin S
  BY <1>0, <1>1, <1>2 DEF Stale
<1> QED BY <1>11, <1>12, <1>13, <1>16, <1>17

LEMMA SweepUdataInv ==
  ASSUME IInv, TypeOK', SweepUdata
  PROVE  Inv'
<1> USE KindsInObj, KindsAssumption, MainAssumption DEF IInv, Inv
<1>1. PICK S \in SUBSET unswept :
        /\ mark' = SweepColour(S)
        /\ refs' = Cleared(refs, DeadIn(S))
        /\ \/ /\ gcstate' = "sweepstring"
              /\ unswept' = {s \in Str : Allocated(s)}
           \/ gcstate' = "sweepudata" /\ unswept' = unswept \ S
  BY DEF SweepUdata
<1>2. UNCHANGED <<currentwhite, wrefs, owner, gcroot, cur, jit, regs>>
  BY DEF SweepUdata, run
<1>3. /\ S \in SUBSET Udata /\ S \in SUBSET Obj /\ unswept \subseteq Udata
      /\ \A o \in DeadIn(S) : o \in Udata
  BY DEF SweepUdata, Sweeps, DeadIn
<1>4. \A o, r \in Obj : r \in refs'[o] => o \notin DeadIn(S) /\ r \in refs[o]
  BY <1>1 DEF Cleared
<1>5. \A o, r \in Obj : r \in wrefs'[o] => o \notin DeadIn(S) /\ r \in wrefs[o]
  BY <1>2, <1>3 DEF Shape
<1>6. \A u \in Upval : owner'[u] = owner[u] /\ u \notin DeadIn(S)
                         /\ owner[u] \notin DeadIn(S)
  BY <1>2, <1>3 DEF TypeOK, Obj
<1>7. /\ Shape' /\ Colours' /\ RootsSafe' /\ Closed'
      /\ \A o \in Obj : Stale(o)' => Stale(o) /\ o \notin S
  BY <1>1, <1>2, <1>3, <1>4, <1>5, <1>6, SweepStep
<1>8. Marks' /\ GrayListed' /\ CleanPause'
  BY <1>1 DEF Marks, GrayListed, CleanPause, Marking
<1>9. Sweeps'
  BY <1>1, <1>3, <1>7 DEF Sweeps, Stale, Allocated
<1> QED BY <1>7, <1>8, <1>9

LEMMA SweepStringInv ==
  ASSUME IInv, TypeOK', SweepString
  PROVE  Inv'
<1> USE KindsInObj, KindsAssumption, MainAssumption DEF IInv, Inv
<1>1. PICK S \in SUBSET unswept :
        /\ mark' = SweepColour(S)
        /\ \/ gcstate' = "sweep" /\ S = unswept /\ unswept' = RootList
           \/ gcstate' = "sweepstring" /\ unswept' = unswept \ S
  BY DEF SweepString
<1>2. UNCHANGED <<currentwhite, refs, wrefs, owner, gcroot, cur, jit, regs>>
  BY DEF SweepString, run, heap
<1>3. /\ S \in SUBSET Str /\ S \in SUBSET Obj
      /\ unswept \subseteq Str /\ \A s \in Str : Stale(s) => s \in unswept
      /\ \A o \in DeadIn(S) : o \in Str
  BY DEF SweepString, Sweeps, DeadIn
<1>4. \A o, r \in Obj : r \in refs'[o] => o \notin DeadIn(S) /\ r \in refs[o]
  BY <1>2, <1>3 DEF Shape
<1>5. \A o, r \in Obj : r \in wrefs'[o] => o \notin DeadIn(S) /\ r \in wrefs[o]
  BY <1>2, <1>3 DEF Shape
<1>6. \A u \in Upval : owner'[u] = owner[u] /\ u \notin DeadIn(S)
                         /\ owner[u] \notin DeadIn(S)
  BY <1>2, <1>3 DEF TypeOK, Obj
<1>7. /\ Shape' /\ Colours' /\ RootsSafe' /\ Closed'
      /\ \A o \in Obj : Stale(o)' => Stale(o) /\ o \notin S
  BY <1>1, <1>2, <1>3, <1>4, <1>5, <1>6, SweepStep
<1>8. Marks' /\ GrayListed' /\ CleanPause'
  BY <1>1 DEF Marks, GrayListed, CleanPause, Marking
<1>9. CASE gcstate' = "sweepstring" /\ unswept' = unswept \ S
  <2>1. \A s \in Str : Stale(s)' => s \in unswept'
    BY <1>3, <1>7, <1>9
  <2>2. Sweeps'
    BY <1>3, <1>9, <2>1 DEF Sweeps
  <2> QED BY <1>7, <1>8, <2>2
<1>10. CASE gcstate' = "sweep" /\ S = unswept /\ unswept' = RootList
  <2>1. \A s \in Str : ~Stale(s)'
    BY <1>3, <1>7, <1>10
  <2>2. \A o \in Value : Stale(o)' => o \in RootList
    BY <1>7, <2>1 DEF RootList, Stale, Allocated, Value
  <2>3. \A u \in Upval :
          Stale(u)' => IF IsOpen(u) THEN owner[u] \in RootList ELSE u \in RootList
    <3>1. ASSUME NEW u \in Upval, Stale(u)', IsOpen(u)
          PROVE  owner[u] \in RootList
      <4>1. owner[u] \in Thread /\ mark[owner[u]] # "free"
        BY <3>1 DEF IsOpen, TypeOK, Shape
      <4> QED BY <4>1 DEF RootList, Allocated, Value, Obj
    <3>2. \A u \in Upval : Stale(u)' /\ ~IsOpen(u) => u \in RootList
      BY <1>7 DEF RootList, Stale, Allocated
    <3> QED BY <3>1, <3>2
  <2>4. \A u \in Upval : IsOpen(u)' <=> IsOpen(u)
    BY <1>2 DEF IsOpen
  <2>5. \A u \in Upval :
          Stale(u)' => IF IsOpen(u)' THEN owner'[u] \in unswept' ELSE u \in unswept'
    BY <1>2, <1>10, <2>3, <2>4
  <2>6. Sweeps'
    BY <1>10, <2>1, <2>2, <2>5 DEF Sweeps
  <2> QED BY <1>7, <1>8, <2>6
<1> QED BY <1>1, <1>9, <1>10

LEMMA SweepRootInv ==
  ASSUME IInv, TypeOK', SweepRoot
  PROVE  Inv'
<1> USE KindsInObj, KindsAssumption, MainAssumption DEF IInv, Inv
<1> DEFINE swept(S) == S \cup OpenOf(S \cap Thread)
           dead(S)  == DeadIn(swept(S))
<1>1. PICK S \in SUBSET unswept :
        /\ mark' = SweepColour(swept(S))
        /\ refs' = Cleared(Unnamed(dead(S)), dead(S))
        /\ wrefs' = Cleared(wrefs, dead(S))
        /\ owner' = [u \in Upval |-> IF u \in dead(S) \/ owner[u] \in dead(S)
                                     THEN NoThread ELSE owner[u]]
        /\ unswept' = unswept \ S
        /\ \/ S = unswept /\ gcstate' = "pause"
           \/ gcstate' = "sweep"
  BY DEF SweepRoot
<1>2. UNCHANGED <<currentwhite, gcroot, cur, jit, regs>> /\ gcstate = "sweep"
  BY DEF SweepRoot, run
<1>3. /\ unswept \subseteq Obj /\ swept(S) \in SUBSET Obj
      /\ dead(S) \subseteq swept(S)
  BY DEF TypeOK, OpenOf, DeadIn
<1>4. \A u \in Upval : owner[u] # NoThread => owner[u] \in Thread
  BY DEF TypeOK
<1>5. \A u \in Upval : owner[u] \in S => u \in swept(S)
  BY <1>3, <1>4 DEF OpenOf
<1>6. \A x \in swept(S) : x \in S \/ x \in Upval
  BY DEF OpenOf
<1>7. \A u \in Upval : owner[u] \in dead(S) => u \in swept(S)
  <2> SUFFICES ASSUME NEW u \in Upval, owner[u] \in dead(S)
               PROVE  u \in swept(S)
    OBVIOUS
  <2>1. owner[u] \in Thread
    BY <1>3, <1>4
  <2>2. owner[u] \in S
    BY <1>3, <1>6, <2>1
  <2> QED BY <1>5, <2>2
<1>8. \A o, r \in Obj : r \in refs'[o] =>
        /\ o \notin dead(S)
        /\ \/ r \in refs[o]
           \/ \E u \in Upval : owner[u] = o /\ o \in Thread /\ r \in refs[u]
  <2> SUFFICES ASSUME NEW o \in Obj, NEW r \in Obj, r \in refs'[o]
               PROVE  /\ o \notin dead(S)
                      /\ \/ r \in refs[o]
                         \/ \E u \in Upval : owner[u] = o /\ o \in Thread /\ r \in refs[u]
    OBVIOUS
  <2>1. o \notin dead(S) /\ r \in Unnamed(dead(S))[o]
    BY <1>1 DEF Cleared
  <2>2. r \in refs[o] \/ \E u \in OpenOf({o}) : r \in refs[u]
    BY <2>1 DEF Unnamed
  <2>3. \A u \in OpenOf({o}) : u \in Upval /\ owner[u] = o /\ o \in Thread
    BY <1>4 DEF OpenOf
  <2> QED BY <2>1, <2>2, <2>3
<1>9. \A o, r \in Obj : r \in wrefs'[o] => o \notin dead(S) /\ r \in wrefs[o]
  BY <1>1 DEF Cleared
<1>10. \A u \in Upval :
         \/ owner'[u] = owner[u] /\ u \notin dead(S) /\ owner[u] \notin dead(S)
         \/ owner'[u] = NoThread /\ u \in swept(S)
  BY <1>1, <1>3, <1>7
<1> HIDE DEF swept
<1>11. /\ Shape' /\ Colours' /\ RootsSafe' /\ Closed'
       /\ \A o \in Obj : Stale(o)' => Stale(o) /\ o \notin swept(S)
  BY <1>1, <1>2, <1>3, <1>8, <1>9, <1>10, SweepStep
<1>12. Marks' /\ GrayListed'
  BY <1>1 DEF Marks, GrayListed, Marking
<1>13. S \subseteq swept(S)
  BY DEF swept
<1>14. \A o \in Value : Stale(o)' => o \in unswept \ S
  BY <1>2, <1>11, <1>13 DEF Sweeps, Value
<1>15. ASSUME NEW u \in Upval, Stale(u)'
       PROVE  /\ IsOpen(u)' <=> IsOpen(u)
              /\ IF IsOpen(u) THEN owner'[u] = owner[u] /\ owner[u] \in unswept \ S
                              ELSE u \in unswept \ S
  <2>1. Stale(u) /\ u \notin swept(S)
    BY <1>11, <1>15
  <2>2. owner'[u] = owner[u]
    BY <1>10, <2>1
  <2> QED BY <1>2, <1>5, <1>13, <2>1, <2>2 DEF Sweeps, IsOpen
<1>16. \A s \in Str : ~Stale(s)'
  BY <1>2, <1>11 DEF Sweeps
<1>17. CASE gcstate' = "sweep"
  <2>1. \A u \in Upval :
          Stale(u)' => IF IsOpen(u)' THEN owner'[u] \in unswept' ELSE u \in unswept'
    BY <1>1, <1>15
  <2>2. Sweeps' /\ CleanPause'
    BY <1>1, <1>14, <1>16, <1>17, <2>1 DEF Sweeps, CleanPause
  <2> QED BY <1>11, <1>12, <2>2
<1>18. CASE S = unswept /\ gcstate' = "pause"
  <2>1. \A o \in Obj : ~Stale(o)'
    BY <1>14, <1>15, <1>18 DEF Value
  <2>2. Sweeps' /\ CleanPause'
    BY <1>18, <2>1 DEF Sweeps, CleanPause, Stale, Allocated
  <2> QED BY <1>11, <1>12, <2>2
<1> QED BY <1>1, <1>17, <1>18

LEMMA FullGCInv ==
  ASSUME IInv, TypeOK', FullGC
  PROVE  Inv'
<1> USE KindsInObj DEF IInv, Inv
<1>1. UNCHANGED <<currentwhite, mark, refs, wrefs, owner, gcroot, cur, jit,
                  regs, otherwhite>>
  BY DEF FullGC, heap, run, otherwhite
<1>2. \A x \in Obj : Safe(x)' <=> Safe(x)
  BY <1>1 DEF Safe
<1>3. Shape' /\ Colours' /\ RootsSafe'
  BY <1>1 DEF Shape, Colours, RootsSafe, IsOpen, Safe
<1>4. Closed'
  BY <1>1, <1>2, ClosedKept
<1>5. \/ gcstate' = "sweepstring" /\ unswept' = {s \in Str : Allocated(s)}
      \/ UNCHANGED <<gcstate, unswept, gray, grayagain, weak>> /\ ~Marking
         /\ gcstate # "pause"
  BY DEF FullGC, lists, Marking
<1>6. Marks' /\ GrayListed' /\ CleanPause'
  BY <1>5 DEF Marks, GrayListed, CleanPause, Marking
<1>7. Sweeps'
  BY <1>1, <1>5 DEF Sweeps, Stale, Allocated, IsOpen
<1> QED BY <1>3, <1>4, <1>6, <1>7

(***************************************************************************)
(* The theorems.                                                           *)
(***************************************************************************)

LEMMA InvStep == IInv /\ TypeOK' /\ [Next]_vars => Inv'
<1> SUFFICES ASSUME IInv, TypeOK', [Next]_vars PROVE Inv'
  OBVIOUS
<1> USE DEF Next
<1>1. CASE Collector
  BY <1>1, MarkStartInv, PropagateDoneInv, PropagateInv, AtomicInv,
     SweepUdataInv, SweepStringInv, SweepRootInv DEF Collector
<1>2. CASE FullGC
  BY <1>2, FullGCInv
<1>3. CASE Mutator
  <2>1. CASE \E o \in Value : New(o) \/ Drop(o)
    BY <2>1, NewInv, DropInv
  <2>2. CASE \E o \in Obj, r \in Value : Load(o, r)
    BY <2>2, LoadInv
  <2>3. CASE \E o, r \in Obj : Unlink(o, r)
    BY <2>3, UnlinkInv
  <2>4. CASE \E f \in Func, u \in Upval :
               \/ ClosureFound(f, u) \/ ClosureInherit(f, u)
               \/ \E v \in Value : ClosureOpen(f, u, v)
    BY <2>4, ClosureInv
  <2>5. CASE \E t \in Tab, v \in Value, any \in BOOLEAN : StoreTab(t, v, any)
    BY <2>5, StoreTabInv
  <2>6. CASE \E o \in Func \cup Udata, v \in Value : StoreObj(o, v)
    BY <2>6, StoreObjInv
  <2>7. CASE \E f \in Func, u, v \in Upval : UpvalueJoin(f, u, v)
    BY <2>7, UpvalueJoinInv
  <2>8. CASE \E u \in Upval, v \in Value : StoreUpval(u, v)
    BY <2>8, StoreUpvalInv
  <2>9. CASE \E th \in Thread, v \in Value : StoreThread(th, v)
    BY <2>9, StoreThreadInv
  <2>10. CASE \E t \in Tab : SetMode(t) \/ SetRoot(t)
    BY <2>10, SetModeInv, SetRootInv
  <2>11. CASE \E s \in Str : Intern(s)
    BY <2>11, InternInv
  <2>12. CASE \E u \in Upval : CloseUpval(u)
    BY <2>12, CloseUpvalInv
  <2>13. CASE (\E co \in Thread : Resume(co)) \/ Yield \/ EnterTrace \/ ExitTrace
    BY <2>13, RunInv
  <2> QED BY <1>3, <2>1, <2>2, <2>3, <2>4, <2>5, <2>6, <2>7, <2>8, <2>9, <2>10,
             <2>11, <2>12, <2>13 DEF Mutator
<1>4. CASE UNCHANGED vars
  <2>1. UNCHANGED <<gcstate, currentwhite, mark, refs, wrefs, weakmode, owner,
                    gcroot, gray, grayagain, weak, unswept, cur, jit, regs, otherwhite>>
    BY <1>4 DEF vars, heap, lists, run, otherwhite
  <2>2. RootsSafe'
    BY <2>1 DEF IInv, Inv, RootsSafe, Safe
  <2> QED BY <2>1, <2>2, SameColours
<1> QED BY <1>1, <1>2, <1>3, <1>4

\* The inductive invariant holds of every population of objects.
THEOREM Invariance == Spec => []IInv
<1>1. Init => IInv
  BY InitInv, TypeCorrect, InitType DEF IInv
<1>2. TypeOK /\ TypeOK' /\ Inv /\ [Next]_vars => Inv'
  BY InvStep DEF IInv
<1> QED BY <1>1, <1>2, TypeCorrect, PTL DEF Spec, IInv

\* The safe objects are a closed set that holds the roots, so nothing that the
\* program can reach is ever freed.
THEOREM NothingDangles == Spec => []NoDangling
<1>1. IInv => NoDangling
  <2> SUFFICES ASSUME IInv PROVE NoDangling
    OBVIOUS
  <2> USE KindsInObj, MainAssumption DEF IInv, Inv
  <2> DEFINE C == {o \in Obj : Safe(o)}
  <2>1. Roots \subseteq C
    BY DEF Roots, RootsSafe, TypeOK
  <2>2. ASSUME NEW o \in C, NEW r \in AllRefs(o)
        PROVE  r \in C
    <3>1. o \in Obj /\ Safe(o) /\ refs[o] \cup wrefs[o] \subseteq Obj
      BY DEF TypeOK
    <3>2. CASE r \in refs[o] \cup wrefs[o]
      BY <3>1, <3>2 DEF Closed
    <3>3. CASE r \notin refs[o] \cup wrefs[o]
      <4>1. PICK u \in OpenOf({o}) : r \in refs[u]
        BY <3>3 DEF AllRefs, Slots
      <4>2. u \in Upval /\ owner[u] = o /\ IsOpen(u) /\ r \in Obj
        BY <3>1, <4>1 DEF OpenOf, IsOpen, TypeOK
      <4> QED BY <3>1, <4>1, <4>2 DEF Closed
    <3> QED BY <3>2, <3>3
  <2>3. \A o \in C : Allocated(o)
    BY DEF Safe, Allocated
  <2>4. C \in SUBSET Obj
    OBVIOUS
  <2> HIDE DEF C
  <2> QED BY <2>1, <2>2, <2>3, <2>4 DEF NoDangling, IsClosed
<1> QED BY <1>1, Invariance, PTL

\* The write barriers keep the marking invariant.
THEOREM MarkingIsTriColour == Spec => []TriColour
<1>1. IInv => TriColour
  <2> SUFFICES ASSUME IInv, Marking, NEW o \in Obj, mark[o] = "black"
               PROVE  White(AllRefs(o)) = {}
    BY DEF TriColour
  <2>1. o \notin Thread
    BY DEF IInv, Inv, Colours
  <2>2. AllRefs(o) = refs[o] \cup wrefs[o]
    BY <2>1 DEF AllRefs
  <2>3. AllRefs(o) \subseteq Obj
    BY <2>2, KindsInObj DEF IInv, TypeOK
  <2> QED BY <2>2, <2>3 DEF IInv, Inv, Marks, BlackClean, White
<1> QED BY <1>1, Invariance, PTL

\* The three lists hold exactly the gray objects that need traversal.
THEOREM GrayIsListed == Spec => []GrayListed
  BY Invariance, PTL DEF IInv, Inv

\* Every cycle ends with all objects current-white.
THEOREM PauseIsClean == Spec => []CleanPause
  BY Invariance, PTL DEF IInv, Inv

\* Only the atomic phase leads to the userdata sweep.
LEMMA AtomicOnly ==
  ASSUME Next, gcstate = "atomic", gcstate' = "sweepudata"
  PROVE  Atomic
<1>1. CASE Collector
  BY <1>1 DEF Collector, MarkStart, PropagateDone, Propagate, SweepUdata,
     SweepString, SweepRoot
<1>2. ~FullGC
  BY DEF FullGC
<1>3. CASE Mutator
  BY <1>3 DEF Mutator, New, Drop, Load, Unlink, ClosureFound, ClosureInherit,
     ClosureOpen, Closure, StoreTab, StoreObj, UpvalueJoin, StoreUpval, StoreThread, SetMode,
     SetRoot, Intern, CloseUpval, Resume, Yield, EnterTrace, ExitTrace
<1> QED BY <1>1, <1>2, <1>3 DEF Next

\* A cleared weak entry is no string and not strongly reachable: what was
\* traversed or already marked is closed under strong references.
LEMMA ClearingStep ==
  ASSUME IInv, Atomic, NEW t \in Tab, NEW r \in wrefs[t] \ wrefs'[t]
  PROVE  r \notin Str /\ ~StronglyReachable(r)
<1> USE KindsInObj, KindsAssumption, MainAssumption, WhitesDiffer DEF IInv, Inv
<1>0. /\ currentwhite \in Whites /\ Main \in Obj /\ cur \in Obj
      /\ gcroot \subseteq Obj /\ gcstate = "atomic"
      /\ \A x \in Obj : refs[x] \subseteq Obj /\ wrefs[x] \subseteq Obj
      /\ \A x \in Obj : mark[x] \in Whites \cup {"gray", "black", "free"}
  BY DEF TypeOK, Atomic
<1>1. PICK T \in SUBSET Obj : IsTraversal(T) /\ wrefs' = ClearWeak(T)
  BY DEF Atomic
<1>2. t \in Obj /\ r \in Obj
  BY <1>0
<1>3. r \notin Str /\ r \notin T /\ iswhite(r)
  BY <1>1, <1>2 DEF ClearWeak
<1>4. /\ Frontier \subseteq T
      /\ \A o \in T : White(Strong(o)) \subseteq T
  BY <1>1 DEF IsTraversal, Spreads
<1>5. BlackClean /\ ~iswhite(Main)
  BY <1>0 DEF Marks, Marking
<1> DEFINE C == T \cup {o \in Obj : ~iswhite(o)}
<1>6. {Main, cur} \cup gcroot \subseteq C
  BY <1>0, <1>4, <1>5 DEF Frontier, White
<1>7. ASSUME NEW x \in C, NEW y \in Strong(x)
      PROVE  y \in C
  <2>1. x \in Obj /\ y \in Obj
    BY <1>0, <1>7 DEF Strong, AllRefs, Slots, OpenOf
  <2>2. CASE x \in T
    BY <1>4, <2>1, <2>2 DEF White
  <2>3. CASE x \notin T /\ mark[x] = "black"
    <3>1. y \in refs[x] \cup wrefs[x]
      BY <2>1, <2>3 DEF Strong, AllRefs, Colours
    <3> QED BY <1>5, <2>1, <2>3, <3>1 DEF BlackClean
  <2>4. CASE x \notin T /\ mark[x] = "gray"
    <3>1. x \notin Traversable
      BY <1>0, <1>4, <2>4 DEF GrayListed, Marking, Frontier
    <3>2. x \notin Upval
      BY <1>4, <2>4 DEF Colours, Frontier
    <3>3. x \in Str
      BY <2>1, <2>4, <3>1, <3>2 DEF Colours, Obj, Traversable
    <3>4. refs[x] = {} /\ wrefs[x] = {} /\ x \notin Thread
      BY <3>3 DEF Shape
    <3> QED BY <3>4 DEF Strong, AllRefs
  <2>5. CASE mark[x] = "free"
    <3>1. refs[x] = {} /\ wrefs[x] = {}
      BY <2>1, <2>5 DEF Shape
    <3>2. OpenOf({x}) = {}
      BY <2>1, <2>5 DEF OpenOf, IsOpen, Shape
    <3> QED BY <3>1, <3>2 DEF Strong, AllRefs, Slots
  <2>6. x \in T \/ mark[x] \in {"black", "gray", "free"}
    BY <1>0, <2>1 DEF iswhite
  <2> QED BY <2>2, <2>3, <2>4, <2>5, <2>6
<1>8. r \notin C /\ C \in SUBSET Obj
  BY <1>3
<1> HIDE DEF C
<1> QED BY <1>3, <1>6, <1>7, <1>8 DEF StronglyReachable

\* The weak-table clearing of the atomic phase never drops an entry that is a
\* string or that is held without weak tables.
THEOREM WeakTablesCleared == Spec => WeakClearing
<1> DEFINE A == (gcstate = "atomic" /\ gcstate' = "sweepudata") =>
                  \A t \in Tab : \A r \in wrefs[t] \ wrefs'[t] :
                    r \notin Str /\ ~StronglyReachable(r)
<1>1. IInv /\ [Next]_vars => [A]_vars
  <2> SUFFICES ASSUME IInv, Next, gcstate = "atomic", gcstate' = "sweepudata",
                      NEW t \in Tab, NEW r \in wrefs[t] \ wrefs'[t]
               PROVE  r \notin Str /\ ~StronglyReachable(r)
    OBVIOUS
  <2>1. Atomic
    BY AtomicOnly
  <2> QED BY <2>1, ClearingStep
<1> HIDE DEF A
<1>2. Spec => [][A]_vars
  BY <1>1, Invariance, PTL DEF Spec
<1> QED BY <1>2 DEF WeakClearing, A

(***************************************************************************)
(* Full collections.  While the cycle of one is under way nothing but the   *)
(* collector acts, and nothing is kept without cause: what has been marked  *)
(* is strongly reachable, and after the atomic phase what the sweep will    *)
(* not free is reachable in what is left of the heap.                       *)
(***************************************************************************)

\* C holds what is strongly reachable; C holds what is reachable, and what is fixed.
HoldsStrong(C) == {Main, cur} \cup gcroot \subseteq C /\ \A x \in C : Strong(x) \subseteq C
HoldsReached(C) == Roots \cup Fixed \subseteq C /\ IsClosed(C)

\* What is marked is strongly reachable.
MarkedReached ==
  \A C \in SUBSET Obj : HoldsStrong(C) =>
    \A o \in Obj : mark[o] \in {"gray", "black"} => o \in C
\* What the sweep will not free is reachable, or fixed.
KeptReached ==
  \A C \in SUBSET Obj : HoldsReached(C) => \A o \in Obj : Safe(o) => o \in C
\* What the sweep has ahead of it is allocated, and no open upvalue.
NoneAhead ==
  \A o \in unswept : Allocated(o) /\ (o \in Upval => ~IsOpen(o))
\* The userdata of the candidate segment are allocated.
SegmentKept == \A o \in cand : Allocated(o)
\* The cycle of a full collection.
FullInv ==
  /\ full # "no" => ~jit
  /\ full = "cycle" => /\ gcstate # "pause"
                       /\ Marking => MarkedReached
                       /\ ~Marking => KeptReached /\ NoneAhead

\* A marking call marks what is strongly reachable from what it is called for.
LEMMA MarkedWithin ==
  ASSUME TypeOK, NEW C \in SUBSET Obj, \A x \in C : Strong(x) \subseteq C,
         NEW S \in SUBSET C
  PROVE  Marked(S) \subseteq C
<1> USE KindsInObj, KindsAssumption
<1> DEFINE direct == White(S)
           value  == direct \cup White(UNION {refs[u] : u \in direct \cap Upval})
<1>1. direct \subseteq C
  BY DEF White
<1>2. \A u \in C \cap (Upval \cup Udata) : refs[u] \subseteq C
  <2> SUFFICES ASSUME NEW u \in C, u \in Upval \cup Udata PROVE refs[u] \subseteq C
    OBVIOUS
  <2>1. u \notin Thread /\ u \notin Tab /\ u \notin weakmode
    BY DEF TypeOK, Value
  <2>2. Strong(u) = refs[u] \cup wrefs[u]
    BY <2>1 DEF Strong, AllRefs
  <2> QED BY <2>2
<1>3. value \subseteq C
  BY <1>1, <1>2 DEF White
<1>4. White(UNION {refs[d] : d \in value \cap Udata}) \subseteq C
  BY <1>2, <1>3 DEF White
<1> QED BY <1>3, <1>4 DEF Marked

\* The first marks of the cycle of a full collection.
LEMMA MarkStartFull ==
  ASSUME IInv, FullInv, MarkStart
  PROVE  FullInv'
<1> USE KindsInObj DEF IInv, Inv
<1>1. /\ UNCHANGED <<refs, wrefs, weakmode, owner, gcroot, cur, jit, currentwhite>>
      /\ gcstate = "pause" /\ gcstate' = "propagate" /\ full # "cycle"
      /\ full' # "no" => full # "no"
      /\ mark' = MarkColour(Marked({Main} \cup gcroot))
  BY DEF MarkStart, heap, run
<1>2. \A o \in Obj : mark[o] \notin {"gray", "black"}
  BY <1>1, WhitesDiffer DEF CleanPause, Allocated, TypeOK
<1>3. MarkedReached'
  <2> SUFFICES ASSUME NEW C \in SUBSET Obj, HoldsStrong(C)', NEW o \in Obj,
                      mark'[o] \in {"gray", "black"}
               PROVE  o \in C
    BY DEF MarkedReached
  <2>1. \A x \in C : Strong(x) \subseteq C
    BY <1>1 DEF HoldsStrong, Strong, AllRefs, Slots, OpenOf
  <2>2. {Main} \cup gcroot \in SUBSET C
    BY <1>1 DEF HoldsStrong
  <2>3. Marked({Main} \cup gcroot) \subseteq C
    BY <2>1, <2>2, MarkedWithin
  <2> QED BY <1>1, <1>2, <2>3 DEF MarkColour
<1> QED BY <1>1, <1>3 DEF FullInv, Marking

\* Traversing a marked object marks what is strongly reachable.
LEMMA PropagateFull ==
  ASSUME IInv, FullInv, NEW o \in Obj, Propagate(o)
  PROVE  FullInv'
<1> USE KindsInObj DEF IInv, Inv
<1>1. /\ UNCHANGED <<refs, wrefs, weakmode, owner, gcroot, cur, jit, full>>
      /\ gcstate = "propagate" /\ gcstate' = "propagate" /\ o \in gray
      /\ \A x \in Obj : mark'[x] = IF x = o THEN (IF o \in StaysGray THEN "gray" ELSE "black")
                                   ELSE MarkColour(Marked(Strong(o)))[x]
  BY DEF Propagate, heap, run, MarkColour
<1>2. mark[o] = "gray"
  BY <1>1 DEF GrayListed, Marking, TypeOK
<1>3. ASSUME MarkedReached
      PROVE  MarkedReached'
  <2> SUFFICES ASSUME NEW C \in SUBSET Obj, HoldsStrong(C)', NEW x \in Obj,
                      mark'[x] \in {"gray", "black"}
               PROVE  x \in C
    BY DEF MarkedReached
  <2>1. HoldsStrong(C)
    BY <1>1 DEF HoldsStrong, Strong, AllRefs, Slots, OpenOf
  <2>2. o \in C /\ (mark[x] \in {"gray", "black"} => x \in C)
    BY <1>2, <1>3, <2>1 DEF MarkedReached
  <2>3. Strong(o) \in SUBSET C /\ \A y \in C : Strong(y) \subseteq C
    BY <2>1, <2>2 DEF HoldsStrong
  <2>4. Marked(Strong(o)) \subseteq C
    BY <2>3, MarkedWithin
  <2> QED BY <1>1, <2>2, <2>4 DEF MarkColour
<1> QED BY <1>1, <1>3 DEF FullInv, Marking

\* What safe objects refer to is safe.
LEMMA SafeRefs ==
  ASSUME IInv, NEW o \in Obj, Safe(o), NEW r \in AllRefs(o)
  PROVE  r \in Obj /\ Safe(r)
<1> USE KindsInObj, MainAssumption DEF IInv, Inv
<1>1. refs[o] \cup wrefs[o] \subseteq Obj
  BY DEF TypeOK
<1>2. CASE r \in refs[o] \cup wrefs[o]
  BY <1>1, <1>2 DEF Closed
<1>3. CASE r \notin refs[o] \cup wrefs[o]
  <2>1. PICK u \in OpenOf({o}) : r \in refs[u]
    BY <1>3 DEF AllRefs, Slots
  <2>2. u \in Upval /\ owner[u] = o /\ IsOpen(u) /\ r \in Obj
    <3>1. u \in Upval /\ owner[u] = o /\ o \in Thread
      BY <1>3, <2>1 DEF OpenOf, AllRefs, Slots
    <3> QED BY <2>1, <3>1 DEF IsOpen, TypeOK
  <2> QED BY <2>1, <2>2 DEF Closed
<1> QED BY <1>2, <1>3

\* The end of the mark phase.
LEMMA PropagateDoneFull ==
  ASSUME FullInv, PropagateDone
  PROVE  FullInv'
<1>1. /\ UNCHANGED <<mark, refs, wrefs, weakmode, owner, gcroot, cur, jit, full>>
      /\ gcstate = "propagate" /\ gcstate' = "atomic"
  BY DEF PropagateDone, heap, run
<1>2. MarkedReached => MarkedReached'
  BY <1>1 DEF MarkedReached, HoldsStrong, Strong, AllRefs, Slots, OpenOf
<1> QED BY <1>1, <1>2 DEF FullInv, Marking

\* The atomic phase traverses what is strongly reachable, and clears no strong
\* reference: what it leaves unmarked is dead.
LEMMA AtomicFull ==
  ASSUME IInv, TypeOK', SegmentKept, FullInv, Atomic
  PROVE  FullInv'
<1> USE KindsInObj, WhitesDiffer DEF IInv, Inv
<1>1. PICK T \in SUBSET Obj :
        /\ IsTraversal(T)
        /\ mark' = [o \in Obj |-> IF o \in T THEN AtomicTint(o)
                                  ELSE IF o \in White(WeakStr(T)) THEN "gray"
                                  ELSE mark[o]]
        /\ wrefs' = ClearWeak(T)
  BY DEF Atomic
<1>2. /\ UNCHANGED <<refs, weakmode, owner, gcroot, cur, jit, regs, full>>
      /\ gcstate = "atomic" /\ gcstate' = "sweepudata" /\ currentwhite' = otherwhite
  BY DEF Atomic, run, FlipWhite
<1>3. ASSUME MarkedReached, NEW C \in SUBSET Obj, HoldsReached(C)', NEW o \in Obj, Safe(o)'
      PROVE  o \in C
  <2>1. \A x \in Obj : Strong(x) \subseteq AllRefs(x)'
    <3> SUFFICES ASSUME NEW x \in Obj PROVE Strong(x) \subseteq AllRefs(x)'
      OBVIOUS
    <3>1. Slots(x)' = Slots(x) /\ (x \notin T \cap weakmode => wrefs'[x] = wrefs[x])
      BY <1>1, <1>2 DEF Slots, OpenOf, ClearWeak
    <3>2. x \in weakmode => x \notin Thread
      BY KindsAssumption DEF TypeOK
    <3> QED BY <1>2, <3>1, <3>2 DEF Strong, AllRefs
  <2>2. {Main, cur} \cup gcroot \subseteq C /\ \A x \in C : AllRefs(x)' \subseteq C
    <3>1. (Roots \cup Fixed)' \subseteq C /\ IsClosed(C)'
      BY <1>3 DEF HoldsReached
    <3>2. {Main, cur} \cup gcroot \subseteq C
      BY <1>2, <3>1 DEF Roots
    <3> QED BY <3>1, <3>2 DEF IsClosed
  <2>3. \A x \in C : Strong(x) \subseteq C
    BY <2>1, <2>2
  <2>4. \A x \in Obj : mark[x] \in {"gray", "black"} => x \in C
    BY <1>3, <2>2, <2>3 DEF MarkedReached, HoldsStrong
  <2>5. T \subseteq C
    <3>1. gray \cup grayagain \cup weak \subseteq C
      BY <1>2, <2>4 DEF GrayListed, Marking, TypeOK, Traversable
    <3>2. {u \in Upval : IsOpen(u) /\ mark[u] = "gray"} \subseteq C
      BY <2>4
    <3>3. White({cur} \cup gcroot) \subseteq C
      BY <2>2 DEF White
    <3>4. Spreads(C)
      BY <2>3, <3>1, <3>2, <3>3 DEF Spreads, Frontier, White
    <3> QED BY <1>1, <3>4 DEF IsTraversal
  <2>6. WeakStr(T) \subseteq C
    <3> SUFFICES ASSUME NEW t \in T \cap weakmode, NEW s \in Str \cap wrefs[t] PROVE s \in C
      BY DEF WeakStr
    <3>1. s \in wrefs'[t] /\ t \in Tab /\ t \notin Thread
      BY <1>1, KindsAssumption DEF ClearWeak, TypeOK
    <3> QED BY <2>2, <2>5, <3>1 DEF AllRefs
  <2>7. mark[o] \in Whites => mark[o] = currentwhite
    BY <1>2 DEF Marks, NoneDead, Marking, otherwhite, Whites, TypeOK
  <2>8. otherwhite' = currentwhite /\ currentwhite \in Whites
    BY <1>2 DEF otherwhite, TypeOK, Whites
  <2>9. mark[o] # "free" => o \in T \/ o \in WeakStr(T) \/ mark[o] \in {"gray", "black"}
    <3> SUFFICES ASSUME o \notin T, o \notin WeakStr(T), mark[o] # "free",
                        mark[o] \notin {"gray", "black"}
                 PROVE  FALSE
      OBVIOUS
    <3>1. mark'[o] = mark[o] /\ mark[o] \in Whites
      BY <1>1 DEF White, TypeOK
    <3> QED BY <1>3, <2>7, <2>8, <3>1 DEF Safe
  <2>10. mark[o] = "free" => o \in T \/ o \in WeakStr(T)
    BY <1>1, <1>3 DEF Safe, White
  <2> QED BY <2>4, <2>5, <2>6, <2>9, <2>10
<1>4. MarkedReached => KeptReached'
  BY <1>3 DEF KeptReached
<1>5. NoneAhead'
  <2>1. unswept' = cand /\ cand \subseteq Udata /\ cand \subseteq Obj
    BY DEF Atomic, TypeOK
  <2>2. \A o \in cand : mark'[o] # "free" /\ o \notin Upval
    BY <1>1, <2>1, KindsAssumption DEF SegmentKept, Allocated, AtomicTint
  <2> QED BY <2>1, <2>2 DEF NoneAhead, Allocated
<1> QED BY <1>2, <1>4, <1>5 DEF FullInv, Marking

\* A sweep frees nothing that is reachable: what was reachable for good cause
\* before is so in what the sweep leaves of the heap.
LEMMA SweepFull ==
  ASSUME IInv, full = "cycle" => KeptReached, ~Marking, NEW S \in SUBSET Obj,
         \A o \in S : Allocated(o),
         mark' = SweepColour(S), UNCHANGED <<currentwhite, gcroot, cur, regs>>,
         \A o \in Obj : Safe(o) =>
           \A r \in AllRefs(o) : r \in AllRefs(o)'
  PROVE  full = "cycle" => KeptReached'
<1> USE KindsInObj, KindsAssumption, MainAssumption, WhitesDiffer DEF IInv, Inv
<1>0. /\ Fixed \subseteq Str \cup {Main} /\ Main \in Obj /\ Fixed \subseteq Obj
      /\ otherwhite' = otherwhite /\ currentwhite \in Whites
  BY FixedAssumption DEF otherwhite, TypeOK
<1> SUFFICES ASSUME full = "cycle", NEW C \in SUBSET Obj, HoldsReached(C)',
                    NEW o \in Obj, Safe(o)'
             PROVE  o \in C
  BY DEF KeptReached
<1>1. Roots \subseteq C /\ Fixed \subseteq C /\ \A x \in C : AllRefs(x)' \subseteq C
  <2>1. (Roots \cup Fixed)' \subseteq C /\ IsClosed(C)'
    BY DEF HoldsReached
  <2>2. Roots' = Roots
    BY DEF Roots
  <2> QED BY <2>1, <2>2 DEF IsClosed
<1> DEFINE B == {x \in C : Safe(x)} \cup Fixed
<1>2. Roots \cup Fixed \subseteq B
  BY <1>1 DEF Roots, RootsSafe
<1>3. ASSUME NEW x \in B, NEW r \in AllRefs(x)
      PROVE  r \in B
  <2>1. CASE Safe(x)
    <3>1. x \in Obj /\ x \in C
      BY <1>0, <1>1
    <3>2. r \in C
      BY <1>1, <1>3, <2>1, <3>1
    <3>3. Safe(r)
      BY <1>3, <2>1, <3>1, SafeRefs
    <3> QED BY <3>2, <3>3
  <2>2. CASE ~Safe(x)
    <3>1. x \in Str
      BY <1>0, <2>2 DEF RootsSafe
    <3>2. refs[x] = {} /\ wrefs[x] = {} /\ x \notin Thread
      BY <3>1 DEF Shape
    <3> QED BY <1>3, <3>2 DEF AllRefs
  <2> QED BY <2>1, <2>2
<1>4. B \in SUBSET Obj /\ HoldsReached(B)
  <2> HIDE DEF B
  <2>1. \A x \in B : AllRefs(x) \subseteq B
    BY <1>3
  <2>2. B \in SUBSET Obj
    BY <1>0 DEF B
  <2> QED BY <1>2, <2>1, <2>2 DEF HoldsReached, IsClosed
<1>5. \A x \in Obj : Safe(x) => x \in B
  BY <1>4 DEF KeptReached
<1>6. Safe(o) \/ o \in Fixed
  <2>1. mark'[o] = IF o \in DeadIn(S) THEN "free" ELSE IF o \in S THEN currentwhite ELSE mark[o]
    BY DEF SweepColour
  <2>2. mark'[o] # "free" /\ mark'[o] # otherwhite
    BY <1>0 DEF Safe
  <2> QED BY <2>1, <2>2 DEF Safe, DeadIn, isdead, Allocated
<1> QED BY <1>1, <1>5, <1>6

\* The sweep of the userdata segment and of the string table.
LEMMA SweepUdataFull ==
  ASSUME IInv, FullInv, SweepUdata
  PROVE  FullInv'
<1> USE KindsInObj, KindsAssumption DEF IInv, Inv
<1>1. PICK S \in SUBSET unswept :
        /\ mark' = SweepColour(S)
        /\ refs' = Cleared(refs, DeadIn(S))
        /\ \/ /\ gcstate' = "sweepstring"
              /\ unswept' = {s \in Str : Allocated(s)}
           \/ gcstate' = "sweepudata" /\ unswept' = unswept \ S
  BY DEF SweepUdata
<1>2. /\ UNCHANGED <<currentwhite, wrefs, weakmode, owner, gcroot, cur, jit, regs, full>>
      /\ ~Marking /\ ~Marking'
  BY <1>1 DEF SweepUdata, run, Marking
<1>3. S \in SUBSET Udata /\ S \in SUBSET Obj /\ unswept \subseteq Udata
  BY DEF SweepUdata, Sweeps
<1>4. ASSUME NEW o \in Obj, Safe(o), NEW r \in AllRefs(o)
      PROVE  r \in AllRefs(o)'
  <2>1. o \notin DeadIn(S) /\ \A u \in Upval : u \notin DeadIn(S)
    BY <1>3, <1>4 DEF DeadIn, isdead, Safe
  <2>2. refs'[o] = refs[o] /\ \A u \in Upval : refs'[u] = refs[u]
    BY <1>1, <2>1 DEF Cleared
  <2> QED BY <1>2, <1>4, <2>2 DEF AllRefs, Slots, OpenOf
<1>5. ASSUME full = "cycle"
      PROVE  KeptReached' /\ NoneAhead'
  <2>1. KeptReached /\ NoneAhead
    BY <1>2, <1>5 DEF FullInv
  <2>2. \A o \in S : Allocated(o)
    BY <2>1 DEF NoneAhead
  <2>3. KeptReached'
    BY <1>1, <1>2, <1>3, <1>4, <1>5, <2>1, <2>2, SweepFull
  <2>4. \A o \in unswept' : o \in Obj /\ o \notin S /\ Allocated(o) /\ o \notin Upval
    BY <1>1, <1>3, <2>1 DEF NoneAhead
  <2>5. \A o \in unswept' : mark'[o] = mark[o]
    BY <1>1, <2>4 DEF SweepColour, DeadIn
  <2> QED BY <2>3, <2>4, <2>5 DEF NoneAhead, Allocated
<1> QED BY <1>1, <1>2, <1>5 DEF FullInv

LEMMA SweepStringFull ==
  ASSUME IInv, FullInv, SweepString
  PROVE  FullInv'
<1> USE KindsInObj, KindsAssumption DEF IInv, Inv
<1>1. PICK S \in SUBSET unswept :
        /\ mark' = SweepColour(S)
        /\ \/ gcstate' = "sweep" /\ unswept' = RootList
           \/ gcstate' = "sweepstring" /\ unswept' = unswept \ S
  BY DEF SweepString
<1>2. /\ UNCHANGED <<currentwhite, refs, wrefs, weakmode, owner, gcroot, cur, jit, regs, full>>
      /\ ~Marking /\ ~Marking'
  BY <1>1 DEF SweepString, heap, run, Marking
<1>3. S \in SUBSET Str /\ S \in SUBSET Obj /\ unswept \subseteq Str
  BY DEF SweepString, Sweeps
<1>4. \A o \in Obj : Safe(o) => \A r \in AllRefs(o) : r \in AllRefs(o)'
  BY <1>2 DEF AllRefs, Slots, OpenOf
<1>5. ASSUME full = "cycle"
      PROVE  KeptReached' /\ NoneAhead'
  <2>1. KeptReached /\ NoneAhead
    BY <1>2, <1>5 DEF FullInv
  <2>2. \A o \in S : Allocated(o)
    BY <2>1 DEF NoneAhead
  <2>3. KeptReached'
    BY <1>1, <1>2, <1>3, <1>4, <1>5, <2>1, <2>2, SweepFull
  <2>4. \A o \in unswept' : o \in Obj /\ o \notin S /\ mark[o] # "free"
    BY <1>1, <1>3, <2>1 DEF NoneAhead, RootList, Value, Allocated
  <2>5. \A o \in unswept' : o \in Upval => owner[o] = NoThread
    BY <1>1, <1>3, <2>1 DEF NoneAhead, RootList, Value, IsOpen
  <2>6. \A o \in unswept' : mark'[o] = mark[o]
    BY <1>1, <2>4 DEF SweepColour, DeadIn
  <2> QED BY <1>2, <2>3, <2>4, <2>5, <2>6 DEF NoneAhead, Allocated, IsOpen
<1> QED BY <1>1, <1>2, <1>5 DEF FullInv

\* The sweep of the root list.  A dead open upvalue leaves its value in the
\* stack slot it named, so a thread that stays keeps what it refers to.
LEMMA SweepRootFull ==
  ASSUME IInv, FullInv, SweepRoot
  PROVE  FullInv'
<1> USE KindsInObj, KindsAssumption, MainAssumption DEF IInv, Inv
<1> DEFINE swept(S) == S \cup OpenOf(S \cap Thread)
           dead(S)  == DeadIn(swept(S))
<1>1. PICK S \in SUBSET unswept :
        /\ mark' = SweepColour(swept(S))
        /\ refs' = Cleared(Unnamed(dead(S)), dead(S))
        /\ wrefs' = Cleared(wrefs, dead(S))
        /\ owner' = [u \in Upval |-> IF u \in dead(S) \/ owner[u] \in dead(S)
                                     THEN NoThread ELSE owner[u]]
        /\ unswept' = unswept \ S
        /\ \/ gcstate' = "pause" /\ full' # "cycle"
           \/ gcstate' = "sweep" /\ full' = full
        /\ full' # "no" => full # "no"
  BY DEF SweepRoot
<1>2. /\ UNCHANGED <<currentwhite, gcroot, cur, jit, regs>>
      /\ gcstate = "sweep" /\ ~Marking
  BY DEF SweepRoot, run, Marking
<1>3. /\ unswept \subseteq Obj /\ S \in SUBSET Obj /\ swept(S) \in SUBSET Obj
      /\ \A o \in dead(S) : mark[o] = otherwhite
      /\ \A o \in swept(S) : o \in S \/ (o \in Upval /\ IsOpen(o))
  BY DEF TypeOK, OpenOf, DeadIn, isdead, IsOpen
<1>4. ASSUME NEW o \in Obj, Safe(o), NEW r \in AllRefs(o)
      PROVE  r \in AllRefs(o)'
  <2>1. o \notin dead(S)
    BY <1>3, <1>4 DEF Safe
  <2>2. /\ refs'[o] = refs[o] \cup UNION {refs[u] : u \in OpenOf({o}) \cap dead(S)}
        /\ wrefs'[o] = wrefs[o]
    BY <1>1, <2>1 DEF Cleared, Unnamed
  <2>3. CASE r \in refs[o] \cup wrefs[o]
    BY <1>4, <2>2, <2>3 DEF AllRefs, Slots, Shape
  <2>4. CASE r \notin refs[o] \cup wrefs[o]
    <3>1. o \in Thread /\ \E u \in OpenOf({o}) : r \in refs[u]
      BY <1>4, <2>4 DEF AllRefs, Slots
    <3>2. PICK u \in OpenOf({o}) : r \in refs[u]
      BY <3>1
    <3>3. CASE u \in dead(S)
      <4>1. r \in refs'[o]
        BY <2>2, <3>2, <3>3
      <4> QED BY <3>1, <4>1 DEF AllRefs, Slots
    <3>4. CASE u \notin dead(S)
      <4>1. u \in Upval /\ owner[u] = o
        BY <3>2 DEF OpenOf
      <4>2. owner'[u] = o
        BY <1>1, <2>1, <3>4, <4>1
      <4>3. r \in refs'[u] /\ u \in OpenOf({o})'
        <5>1. r \in Unnamed(dead(S))[u]
          BY <3>2, <4>1 DEF Unnamed
        <5> QED BY <1>1, <3>4, <4>1, <4>2, <5>1 DEF Cleared, OpenOf
      <4> QED BY <3>1, <4>3 DEF AllRefs, Slots
    <3> QED BY <3>3, <3>4
  <2> QED BY <2>3, <2>4
<1> HIDE DEF swept
<1>5. ASSUME full = "cycle"
      PROVE  KeptReached' /\ NoneAhead'
  <2>1. KeptReached /\ NoneAhead
    BY <1>2, <1>5 DEF FullInv
  <2>2. \A o \in swept(S) : Allocated(o)
    BY <1>3, <2>1 DEF NoneAhead, Allocated, Shape
  <2>3. full = "cycle" => KeptReached'
    <3>1. full = "cycle" => KeptReached
      BY <2>1
    <3>2. mark' = SweepColour(swept(S)) /\ UNCHANGED <<currentwhite, gcroot, cur, regs>>
      BY <1>1, <1>2
    <3>3. \A o \in Obj : Safe(o) => \A r \in AllRefs(o) : r \in AllRefs(o)'
      BY <1>4
    <3> HIDE DEF IInv, Inv
    <3> QED BY <1>2, <1>3, <2>2, <3>1, <3>2, <3>3, SweepFull
  <2>4. \A o \in unswept' : o \in Obj /\ o \notin swept(S) /\ Allocated(o)
    BY <1>1, <1>3, <2>1 DEF NoneAhead
  <2>5. \A o \in unswept' : mark'[o] = mark[o]
    BY <1>1, <2>4 DEF SweepColour, DeadIn
  <2>6. \A o \in unswept' : o \in Upval => owner'[o] = NoThread
    BY <1>1, <2>1 DEF NoneAhead, IsOpen
  <2> QED BY <1>5, <2>3, <2>4, <2>5, <2>6 DEF NoneAhead, Allocated, IsOpen
<1> QED BY <1>1, <1>2, <1>5 DEF FullInv, Marking

\* Nothing but the sweep frees a userdata, and it takes what it sweeps off the
\* candidate segment.
LEMMA SegmentStep ==
  ASSUME IInv, SegmentKept, [Next]_vars
  PROVE  SegmentKept'
<1> USE KindsInObj, KindsAssumption, WhitesDiffer DEF IInv, Inv, SegmentKept, Allocated
<1>0. /\ cand \subseteq Udata /\ cand \subseteq Obj /\ currentwhite \in Whites
      /\ \A o \in Obj : o \in DOMAIN mark
  BY DEF TypeOK
<1> SUFFICES ASSUME NEW o \in cand', mark'[o] = "free" PROVE FALSE
  OBVIOUS
<1>1. CASE Collector
  <2>1. CASE MarkStart
    BY <1>0, <2>1 DEF MarkStart, MarkColour, Tint
  <2>2. CASE PropagateDone
    BY <1>0, <2>2 DEF PropagateDone
  <2>3. CASE Atomic
    BY <1>0, <2>3 DEF Atomic, AtomicTint
  <2>4. CASE \E x \in Obj : Propagate(x)
    BY <1>0, <2>4 DEF Propagate, MarkColour, Tint
  <2>5. CASE SweepUdata
    BY <1>0, <2>5 DEF SweepUdata, SweepColour, DeadIn
  <2>6. CASE SweepString
    <3>1. PICK S \in SUBSET unswept : mark' = SweepColour(S)
      BY <2>6 DEF SweepString
    <3>2. S \subseteq Str /\ o \in cand
      BY <2>6 DEF SweepString, Sweeps
    <3> QED BY <1>0, <3>1, <3>2 DEF SweepColour, DeadIn
  <2>7. CASE SweepRoot
    <3>1. PICK S \in SUBSET Obj : mark' = SweepColour(S) /\ cand' = cand \ DeadIn(S)
      <4>1. PICK S \in SUBSET unswept :
              /\ mark' = SweepColour(S \cup OpenOf(S \cap Thread))
              /\ cand' = cand \ DeadIn(S \cup OpenOf(S \cap Thread))
        BY <2>7 DEF SweepRoot
      <4>2. S \cup OpenOf(S \cap Thread) \in SUBSET Obj
        BY DEF TypeOK, OpenOf
      <4> QED BY <4>1, <4>2
    <3> QED BY <1>0, <3>1 DEF SweepColour
  <2> QED BY <1>1, <2>1, <2>2, <2>3, <2>4, <2>5, <2>6, <2>7 DEF Collector
<1>2. CASE FullGC \/ UNCHANGED vars
  BY <1>0, <1>2 DEF FullGC, vars
<1>3. CASE Mutator
  <2>1. CASE \E x \in Value : New(x)
    BY <1>0, <2>1 DEF New
  <2>2. CASE \E f \in Func, u \in Upval :
               \/ ClosureFound(f, u) \/ ClosureInherit(f, u)
               \/ \E v \in Value : ClosureOpen(f, u, v)
    <3>1. PICK f \in Func, u \in Upval :
            /\ cand' = cand
            /\ \E m \in {mark, [mark EXCEPT ![u] = currentwhite],
                        [mark EXCEPT ![u] = Resurrected(u)]} :
                 mark' = [m EXCEPT ![f] = currentwhite]
      BY <2>2 DEF ClosureFound, ClosureInherit, ClosureOpen, Closure
    <3>2. o \in cand /\ o # u /\ o # f
      BY <1>0, <3>1
    <3> QED BY <1>0, <3>1, <3>2
  <2>3. CASE \E t \in Tab, v \in Value, any \in BOOLEAN : StoreTab(t, v, any)
    BY <1>0, <2>3 DEF StoreTab
  <2>4. CASE \E x, v \in Obj : BarrierForward(x, v) /\ cand' = cand
    BY <1>0, <2>4 DEF BarrierForward, MarkColour, Tint
  <2>5. CASE \E u \in Upval : CloseUpval(u)
    <3>1. PICK u \in Upval : CloseUpval(u)
      BY <2>5
    <3>2. o \in cand /\ o # u /\ mark[o] # "free"
      BY <1>0, <3>1 DEF CloseUpval
    <3>3. mark'[o] = mark[o] \/ mark'[o] = MarkColour(Marked(refs[u]))[o]
      BY <1>0, <3>1, <3>2 DEF CloseUpval, MarkColour
    <3> QED BY <1>0, <3>2, <3>3 DEF MarkColour, Tint
  <2>6. CASE \E s \in Str : Intern(s)
    BY <1>0, <2>6 DEF Intern, Resurrected
  <2>7. CASE UNCHANGED <<mark, cand>>
    BY <1>0, <2>7
  <2>8. \/ \E x \in Value : New(x)
        \/ \E f \in Func, u \in Upval :
             \/ ClosureFound(f, u) \/ ClosureInherit(f, u)
             \/ \E v \in Value : ClosureOpen(f, u, v)
        \/ \E t \in Tab, v \in Value, any \in BOOLEAN : StoreTab(t, v, any)
        \/ \E x, v \in Obj : BarrierForward(x, v) /\ cand' = cand
        \/ \E u \in Upval : CloseUpval(u)
        \/ \E s \in Str : Intern(s)
        \/ UNCHANGED <<mark, cand>>
    BY <1>3 DEF Mutator, Drop, Load, Unlink, StoreObj, StoreUpval, UpvalueJoin,
       StoreThread, SetMode, SetRoot, Resume, Yield, EnterTrace, ExitTrace
  <2> QED BY <2>1, <2>2, <2>3, <2>4, <2>5, <2>6, <2>7, <2>8
<1> QED BY <1>1, <1>2, <1>3 DEF Next

\* The mutator is not running while a full collection is.
LEMMA MutatorFull ==
  ASSUME FullInv, Mutator
  PROVE  full = "no" /\ full' = "no"
<1>1. CASE ExitTrace
  BY <1>1 DEF FullInv, ExitTrace
<1>2. CASE ~ExitTrace
  BY <1>2 DEF Mutator, New, Drop, Load, Unlink, ClosureFound, ClosureInherit,
     ClosureOpen, Closure, StoreTab, StoreObj, UpvalueJoin, StoreUpval,
     StoreThread, SetMode, SetRoot, Intern, CloseUpval, Resume, Yield,
     EnterTrace, run
<1> QED BY <1>1, <1>2

LEMMA FullStep ==
  ASSUME IInv, TypeOK', SegmentKept, FullInv, [Next]_vars
  PROVE  FullInv'
<1>1. CASE Collector
  BY <1>1, MarkStartFull, PropagateDoneFull, PropagateFull, AtomicFull,
     SweepUdataFull, SweepStringFull, SweepRootFull DEF Collector
<1>2. CASE FullGC
  BY <1>2 DEF FullGC, FullInv, run
<1>3. CASE Mutator
  BY <1>3, MutatorFull DEF FullInv
<1>4. CASE UNCHANGED vars
  BY <1>4 DEF FullInv, vars, heap, run, lists, Marking, MarkedReached, KeptReached,
     NoneAhead, HoldsStrong, HoldsReached, IsClosed, Roots, Strong, AllRefs,
     Slots, OpenOf, Safe, otherwhite, Allocated, IsOpen
<1> QED BY <1>1, <1>2, <1>3, <1>4 DEF Next

\* What the last step of a full collection finds unreachable is free after it:
\* it is not safe, and what is neither safe nor free lies ahead of the sweep.
LEMMA FullEnd ==
  ASSUME IInv, FullInv, Next, full = "cycle", full' = "no",
         NEW o \in Obj, Unreachable(o)
  PROVE  mark'[o] = "free"
<1> USE KindsInObj, KindsAssumption, WhitesDiffer DEF IInv, Inv
<1>1. SweepRoot
  <2>1. ~FullGC /\ ~Mutator
    BY MutatorFull DEF FullGC
  <2> QED BY <2>1 DEF Next, Collector, MarkStart, PropagateDone, Propagate,
          Atomic, SweepUdata, SweepString
<1> DEFINE swept(S) == S \cup OpenOf(S \cap Thread)
<1>2. /\ mark' = SweepColour(swept(unswept)) /\ gcstate = "sweep"
      /\ unswept \subseteq Obj /\ currentwhite \in Whites
  BY <1>1 DEF SweepRoot, TypeOK
<1>3. KeptReached /\ NoneAhead
  BY <1>2 DEF FullInv, Marking
<1>4. ~Safe(o) /\ o \notin Fixed
  <2>1. PICK C \in SUBSET Obj : Roots \cup Fixed \subseteq C /\ IsClosed(C) /\ o \notin C
    BY DEF Unreachable
  <2> QED BY <1>3, <2>1 DEF KeptReached, HoldsReached
<1>5. CASE mark[o] = "free"
  <2>1. \A u \in OpenOf(unswept \cap Thread) : mark[u] # "free"
    BY MainAssumption DEF OpenOf, IsOpen, Shape
  <2>2. \A x \in unswept : mark[x] # "free"
    BY <1>3 DEF NoneAhead, Allocated
  <2>3. o \notin swept(unswept)
    BY <1>5, <2>1, <2>2
  <2> QED BY <1>2, <1>5, <2>3 DEF SweepColour, DeadIn
<1>6. CASE mark[o] = otherwhite
  <2>1. Stale(o)
    BY <1>2, <1>6 DEF Stale
  <2>2. o \in swept(unswept)
    <3>1. CASE o \in Value
      BY <1>2, <2>1, <3>1 DEF Sweeps
    <3>2. CASE o \in Upval
      BY <1>2, <2>1, <3>2 DEF Sweeps, IsOpen, OpenOf, TypeOK
    <3> QED BY <3>1, <3>2 DEF Value
  <2> QED BY <1>2, <1>4, <1>6, <2>2 DEF SweepColour, DeadIn, isdead
<1> QED BY <1>4, <1>5, <1>6 DEF Safe

\* A full collection frees all that is unreachable when it ends, and so all
\* that was unreachable when its cycle began: nobody else runs in between.
THEOREM FullGCFreesGarbage == Spec => FullGCFrees
<1> DEFINE A == (full = "cycle" /\ full' = "no") =>
                  \A o \in Obj : Unreachable(o) => mark'[o] = "free"
           I == SegmentKept /\ FullInv
<1>1. Init => I
  BY DEF Init, SegmentKept, FullInv
<1>2. IInv /\ TypeOK' /\ I /\ [Next]_vars => I'
  BY SegmentStep, FullStep
<1>3. IInv /\ I /\ [Next]_vars => [A]_vars
  BY FullEnd
<1> HIDE DEF A, I
<1>4. IInv => TypeOK
  BY DEF IInv
<1>5. Spec => [][A]_vars
  BY <1>1, <1>2, <1>3, <1>4, Invariance, PTL DEF Spec
<1> QED BY <1>5 DEF FullGCFrees, A

================================================================================
