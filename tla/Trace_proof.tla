------------------------------ MODULE Trace_proof ------------------------------
(***************************************************************************)
(* Proofs of the properties of Trace, for any prototypes, bytecode sites,  *)
(* trace objects and number of trace numbers.                              *)
(*                                                                         *)
(* The inductive invariant is IInv.  None of the properties is inductive   *)
(* alone: that the bytecode leads to live traces needs the chains, which   *)
(* need the numbers; that a number is not freed under a trace that names   *)
(* it needs what the collector has marked while chains were cut and traces *)
(* were finished; and a recording changes the heap for a moment, so the    *)
(* heap that is Sound is the one with the pending patch made (Made).       *)
(*                                                                         *)
(* ~ PendingAborts is assumed: between the error that aborts a recording   *)
(* and the next instruction, which gives up its number and makes its patch,*)
(* no trace exits and no mode is set.  Otherwise the properties do not     *)
(* hold: a flush then takes away the trace that the patch brings back.     *)
(***************************************************************************)
EXTENDS Trace_lemmas
--------------------------------------------------------------------------------
(* The invariant. *)

\* The heap with the patch that is pending made.
Made == Repatch(Heap)

\* What TypeOK says of all but the heap.
Typed ==
  /\ nojit \subseteq Protos /\ severed \in BOOLEAN
  /\ state \in {"IDLE", "RECORD", "ABORTED", "CRASHED"}
  /\ rec \in [start : Sites \cup {NULL},
              root : 0..MAXTRACE, parent : 0..MAXTRACE, exitno : 0..MAXTRACE]
  /\ patch \in [pc : Sites \cup {NULL}, ins : 0..MAXTRACE, bcskip : 0..1]
  /\ run \in Ids \cup {NULL} /\ frames \subseteq Ids
  /\ gcstate \in {"pause", "propagate", "sweep"}
  /\ color \in [Ids -> {"white", "gray", "black"}]
  /\ black \subseteq Protos /\ unswept \subseteq Ids

\* The recording: it has its number, its patch, and what it starts from.
RecInv ==
  /\ state = "IDLE" => patch = NoPatch /\ rec = NoRec
  /\ state = "IDLE" <=> curno = 0
  /\ run # NULL => state = "IDLE"
  /\ patch.pc # NULL => bc[patch.pc] = Plain /\ patch.ins \in Numbers
  /\ state # "IDLE" => Origin(Made, rec)

Colours ==
  /\ gcstate = "pause" => \A t \in Ids : color[t] = "white"
  /\ gcstate = "sweep" =>
       \A t \in Ids : color[t] = "white" \/ (color[t] = "black" /\ t \in unswept)
  /\ \A t \in Ids : color[t] # "white" => obj[t] # NULL
  /\ \A t \in unswept : obj[t] # NULL

\* What may be run is kept, and not freed by the sweep under way.
Spared(V) ==
  frames \subseteq V /\ (gcstate = "sweep" => \A t \in V \cap unswept : color[t] = "black")
Held(V, K) == Spared(V) /\ (run # NULL => run \in K)
Safe(V, K) ==
  Sound(Made, V, K, gcstate = "propagate", color, black) /\ Held(V, K)
IInv ==
  Heap \in Heaps /\ Typed /\ RecInv /\ Colours /\ \E V, K : Safe(V, K)

\* Heaps with the same fields are the same.
LEMMA HeapsEqual ==
  ASSUME NEW x \in Heaps, NEW y \in Heaps,
         x.bc = y.bc, x.chain = y.chain, x.iloop = y.iloop, x.obj = y.obj,
         x.trace = y.trace, x.freetrace = y.freetrace, x.curno = y.curno
  PROVE  x = y
BY DEF Heaps

\* Becomes gives the variables a heap's values.
LEMMA BecomesHeap ==
  ASSUME NEW g \in Heaps, Becomes(g)
  PROVE  Heap' = g
BY DEF Heaps, Becomes, Heap

\* TypeOK, for the heap and for the rest.
LEMMA TypeOKIs == TypeOK <=> Heap \in Heaps /\ Typed
BY DEF TypeOK, Typed, Heap, Heaps

\* The fields of the heap are variables.
LEMMA HeapIs ==
  /\ Heap.bc = bc /\ Heap.chain = chain /\ Heap.iloop = iloop /\ Heap.obj = obj
  /\ Heap.trace = trace /\ Heap.freetrace = freetrace /\ Heap.curno = curno
BY DEF Heap

\* The fields of a heap with the pending patch made.
LEMMA RepatchIs ==
  ASSUME NEW h \in Heaps, Typed, patch.pc # NULL => patch.ins \in Numbers
  PROVE  /\ Repatch(h) \in Heaps
         /\ \A s \in Sites :
              Repatch(h).bc[s] = IF s = patch.pc THEN patch.ins ELSE h.bc[s]
         /\ Repatch(h).chain = h.chain /\ Repatch(h).iloop = h.iloop
         /\ Repatch(h).obj = h.obj /\ Repatch(h).trace = h.trace
         /\ Repatch(h).freetrace = h.freetrace /\ Repatch(h).curno = h.curno
<1>1. patch.pc \in Sites \cup {NULL} /\ h.bc \in [Sites -> Numbers \cup {Plain, Barred}]
  BY HeapFields DEF Typed
<1>2. CASE patch.pc = NULL
  BY <1>2, Constants DEF Repatch
<1>3. CASE patch.pc # NULL
  <2>. DEFINE b == [h.bc EXCEPT ![patch.pc] = patch.ins]
              g == [h EXCEPT !.bc = b]
  <2>1. b \in [Sites -> Numbers \cup {Plain, Barred}]
        /\ \A s \in Sites : b[s] = IF s = patch.pc THEN patch.ins ELSE h.bc[s]
    BY <1>1, <1>3
  <2>2. Repatch(h) = g
    BY <1>3 DEF Repatch, Heaps
  <2>. HIDE DEF b
  <2>3. /\ g \in Heaps /\ g.bc = b /\ g.chain = h.chain /\ g.iloop = h.iloop
        /\ g.obj = h.obj /\ g.trace = h.trace
        /\ g.freetrace = h.freetrace /\ g.curno = h.curno
    BY <2>1 DEF Heaps
  <2>. HIDE DEF g
  <2>. QED
    BY <2>1, <2>2, <2>3
<1>. QED
  BY <1>2, <1>3

\* The fields of the current heap with the pending patch made.
LEMMA MadeIs ==
  ASSUME Heap \in Heaps, Typed, patch.pc # NULL => patch.ins \in Numbers
  PROVE  /\ Made \in Heaps
         /\ \A s \in Sites : Made.bc[s] = IF s = patch.pc THEN patch.ins ELSE bc[s]
         /\ Made.chain = chain /\ Made.iloop = iloop /\ Made.obj = obj
         /\ Made.trace = trace /\ Made.freetrace = freetrace /\ Made.curno = curno
BY RepatchIs, HeapIs DEF Made

\* A recording that has come to nothing.
LEMMA IgnoredStep ==
  ASSUME Heap \in Heaps, Typed, Colours,
         NEW V, NEW K, NEW g,
         Sound(g, V, K, gcstate = "propagate", color, black), g.curno = 0,
         \A u \in Ids : g.obj[u] = NULL <=> obj[u] = NULL,
         Spared(V), Ignored(g), nojit' \subseteq Protos, severed' \in BOOLEAN, run' = NULL,
         frames' \subseteq frames, UNCHANGED gc
  PROVE  IInv'
<1>1. g \in Heaps
  BY DEF Sound, HeapInv
<1>2. Heap' = g /\ state' = "IDLE" /\ rec' = NoRec /\ patch' = NoPatch
  BY <1>1, BecomesHeap DEF Ignored
<1>3. Made' = g
  BY <1>2 DEF Made, Repatch, NoPatch
<1>4. Typed'
  <2>1. NoRec \in [start : Sites \cup {NULL}, root : 0..MAXTRACE,
                   parent : 0..MAXTRACE, exitno : 0..MAXTRACE]
    BY Constants DEF NoRec
  <2>2. NoPatch \in [pc : Sites \cup {NULL}, ins : 0..MAXTRACE, bcskip : 0..1]
    BY Constants DEF NoPatch
  <2>. QED
    BY <1>2, <2>1, <2>2 DEF Typed, gc
<1>5. RecInv'
  <2>1. curno' = 0
    BY <1>2 DEF Heap
  <2>. QED
    BY <1>2, <2>1 DEF RecInv, NoPatch
<1>6. Colours'
  <2>1. obj' = g.obj
    BY <1>2 DEF Heap
  <2>. QED
    BY <2>1 DEF Colours, gc, Typed
<1>7. Safe(V, K)'
  BY <1>3 DEF Safe, Held, Spared, gc
<1>. QED
  BY <1>1, <1>2, <1>4, <1>5, <1>6, <1>7 DEF IInv
--------------------------------------------------------------------------------
(* Starting a recording. *)

Recordings ==
  [start : Sites \cup {NULL}, root : 0..MAXTRACE, parent : 0..MAXTRACE,
   exitno : 0..MAXTRACE]
\* What trace_start is called for.
Startable(h, r) ==
  \/ /\ r.start \in Sites /\ r.parent = 0 /\ r.root = 0
     /\ IF KindOf[r.start] = "CALL"
        THEN /\ r.exitno \in Numbers /\ h.trace[r.exitno] \in Ids
             /\ h.obj[h.trace[r.exitno]].link = 0
        ELSE /\ r.exitno = 0
             /\ \/ h.bc[r.start] = Plain
                \/ KindOf[r.start] = "ITERN" /\ h.bc[r.start] \in Numbers
  \/ FromExit(h, r)

\* What a recording starts from is there when it has taken its number.
LEMMA FromBegun ==
  ASSUME NEW h \in Heaps, NEW g, NEW r, Startable(h, r), ~ AlreadyCompiled(h, r),
         g.obj = h.obj, g.bc = h.bc,
         \A m \in Numbers : h.trace[m] \in Ids => g.trace[m] = h.trace[m]
  PROVE  FromSite(g, r) \/ FromExit(g, r)
<1>1. CASE FromExit(h, r)
  <2>1. /\ r.start = NULL /\ r.parent \in Numbers /\ r.root \in Numbers /\ r.exitno = 0
        /\ h.trace[r.root] \in Ids /\ h.trace[r.parent] \in Ids
        /\ h.obj[h.trace[r.root]].root = 0
        /\ IF h.obj[h.trace[r.parent]].root = 0 THEN r.parent = r.root
           ELSE h.obj[h.trace[r.parent]].root = r.root
    BY <1>1 DEF FromExit
  <2>2. g.trace[r.root] = h.trace[r.root] /\ g.trace[r.parent] = h.trace[r.parent]
    BY <2>1
  <2>. QED
    BY <2>1, <2>2 DEF FromExit
<1>2. CASE ~ FromExit(h, r)
  <2>1. /\ r.start \in Sites /\ r.parent = 0 /\ r.root = 0 /\ r.start # NULL
        /\ IF KindOf[r.start] = "CALL"
           THEN /\ r.exitno \in Numbers /\ h.trace[r.exitno] \in Ids
                /\ h.obj[h.trace[r.exitno]].link = 0
           ELSE /\ r.exitno = 0
                /\ h.bc[r.start] = Plain \/ h.bc[r.start] \in Numbers
    BY <1>2, Constants DEF Startable
  <2>2. h.bc[r.start] \notin Numbers
    BY <2>1 DEF AlreadyCompiled
  <2>. QED
    BY <2>1, <2>2 DEF FromSite
<1>. QED
  BY <1>1, <1>2

\* The heap and the patch that trace_start leaves.
Begins(h, n, s) ==
  /\ Becomes([h EXCEPT
        !.trace[n] = CUR, !.curno = n, !.freetrace = n + 1,
        !.bc = [q \in Sites |-> IF q = s THEN Plain ELSE h.bc[q]]])
  /\ patch' = IF s = NULL THEN NoPatch ELSE [pc |-> s, ins |-> h.bc[s], bcskip |-> 1]

\* With the pending patch made, lj_trace_exit has changed nothing.
LEMMA BegunMade ==
  ASSUME NEW h \in Heaps, NEW n, NEW g \in Heaps, g = Begun(h, n),
         NEW s \in {NULL} \cup {q \in Sites : h.bc[q] \in Numbers},
         Begins(h, n, s)
  PROVE  /\ Heap' \in Heaps /\ Made' = g /\ obj' = g.obj /\ curno' = g.curno
         /\ patch' \in [pc : Sites \cup {NULL}, ins : 0..MAXTRACE, bcskip : 0..1]
         /\ patch'.pc # NULL => bc'[patch'.pc] = Plain /\ patch'.ins \in Numbers
<1>. DEFINE b == [q \in Sites |-> IF q = s THEN Plain ELSE h.bc[q]]
            x == [g EXCEPT !.bc = b]
<1>1. h.bc \in [Sites -> Numbers \cup {Plain, Barred}] /\ g.bc = h.bc
  BY HeapFields DEF Begun, Heaps
<1>2. b \in [Sites -> Numbers \cup {Plain, Barred}]
  BY <1>1
<1>3. x = [h EXCEPT !.trace[n] = CUR, !.curno = n, !.freetrace = n + 1, !.bc = b]
  BY DEF Begun, Heaps
<1>4. Becomes(x) /\ patch' = IF s = NULL THEN NoPatch
                              ELSE [pc |-> s, ins |-> h.bc[s], bcskip |-> 1]
  BY <1>3 DEF Begins
<1>5. \A q \in Sites : b[q] = IF q = s THEN Plain ELSE h.bc[q]
  OBVIOUS
<1>. HIDE DEF b
<1>6. /\ x \in Heaps /\ x.bc = b /\ x.chain = g.chain /\ x.iloop = g.iloop
      /\ x.obj = g.obj /\ x.trace = g.trace /\ x.freetrace = g.freetrace
      /\ x.curno = g.curno
  BY <1>2 DEF Heaps
<1>. HIDE DEF x
<1>7. Heap' = x
  BY <1>4, <1>6, BecomesHeap
<1>8. obj' = g.obj /\ curno' = g.curno /\ bc' = b
  BY <1>6, <1>7 DEF Heap
<1>9. CASE s = NULL
  <2>1. x.bc = g.bc
    <3>1. \A q \in Sites : b[q] = h.bc[q]
      BY <1>5, <1>9, Constants
    <3>. QED
      BY <3>1, <1>1, <1>2, <1>6
  <2>2. x = g
    BY <2>1, <1>6, HeapsEqual
  <2>3. patch' = NoPatch
    BY <1>4, <1>9
  <2>4. Made' = g
    BY <2>2, <2>3, <1>7 DEF Made, Repatch, NoPatch
  <2>5. NoPatch \in [pc : Sites \cup {NULL}, ins : 0..MAXTRACE, bcskip : 0..1]
    BY Constants DEF NoPatch
  <2>. QED
    BY <1>6, <1>7, <1>8, <2>3, <2>4, <2>5 DEF NoPatch
<1>10. CASE s # NULL
  <2>1. s \in Sites /\ h.bc[s] \in Numbers /\ h.bc[s] \in 0..MAXTRACE
        /\ patch' = [pc |-> s, ins |-> h.bc[s], bcskip |-> 1]
    BY <1>4, <1>10, Constants
  <2>2. patch'.pc = s /\ patch'.ins = h.bc[s]
    BY <2>1
  <2>3. patch' \in [pc : Sites \cup {NULL}, ins : 0..MAXTRACE, bcskip : 0..1]
    <3>1. 1 \in 0..1
      OBVIOUS
    <3>. QED
      BY <2>1, <3>1
  <2>4. Made' = [x EXCEPT !.bc[s] = h.bc[s]]
    BY <1>7, <1>10, <2>2 DEF Made, Repatch
  <2>5. [b EXCEPT ![s] = h.bc[s]] = g.bc
    BY <1>1, <1>2, <1>5, <2>1
  <2>6. Made' = [x EXCEPT !.bc = g.bc]
    BY <1>6, <2>4, <2>5 DEF Heaps
  <2>7. [x EXCEPT !.bc = g.bc] = g
    BY <1>6 DEF Heaps
  <2>8. bc'[s] = Plain
    BY <1>5, <1>8, <2>1
  <2>. QED
    BY <1>6, <1>7, <1>8, <2>1, <2>2, <2>3, <2>6, <2>7, <2>8
<1>. QED
  BY <1>9, <1>10

\* trace_start, from whatever the earlier calls of its action leave.
LEMMA StartStep ==
  ASSUME Heap \in Heaps, Typed, Colours,
         NEW V, NEW K, NEW h,
         Sound(h, V, K, gcstate = "propagate", color, black), h.curno = 0,
         \A u \in Ids : h.obj[u] = NULL <=> obj[u] = NULL,
         Spared(V), NEW p \in Protos, NEW r \in Recordings, Startable(h, r),
         NEW s \in {NULL} \cup {q \in Sites : h.bc[q] \in Numbers},
         trace_start(h, p, r, s), UNCHANGED <<modes, gc>>, run' = NULL,
         frames' \subseteq frames
  PROVE  IInv'
<1>1. /\ h \in Heaps /\ black \in SUBSET Protos /\ nojit' \subseteq Protos
      /\ severed' \in BOOLEAN /\ UNCHANGED gc
  BY DEF Sound, HeapInv, Typed, modes
<1>2. CASE p \in nojit
  <2>1. PICK g : /\ Ignored(g)
                 /\ \/ g = h
                    \/ /\ r.parent = 0 /\ r.exitno = 0 /\ KindOf[r.start] # "ITERN"
                       /\ g = Despecialize(h, r.start)
    BY <1>2 DEF trace_start
  <2>2. Sound(g, V, K, gcstate = "propagate", color, black) /\ g.obj = h.obj /\ g.curno = 0
    <3>1. CASE g = h
      BY <3>1
    <3>2. CASE /\ r.parent = 0 /\ r.exitno = 0 /\ KindOf[r.start] # "ITERN"
               /\ g = Despecialize(h, r.start)
      <4>1. r.start \in Sites /\ h.bc[r.start] = Plain
        BY <3>2, Constants DEF Startable, FromExit
      <4>. QED
        BY <3>2, <4>1, <1>1, BarSound
    <3>. QED
      BY <2>1, <3>1, <3>2
  <2>. QED
    BY <1>1, <2>1, <2>2, IgnoredStep
<1>3. CASE p \notin nojit /\ AlreadyCompiled(h, r)
  <2>1. Ignored(h)
    BY <1>3 DEF trace_start
  <2>. QED
    BY <1>1, <2>1, IgnoredStep
<1>4. CASE p \notin nojit /\ ~ AlreadyCompiled(h, r) /\ trace_findfree(h) = 0
  <2>. DEFINE g == lj_trace_flushall(h)
  <2>1. Ignored(g)
    BY <1>4 DEF trace_start
  <2>. HIDE DEF g
  <2>2. /\ Sound(g, V, {}, gcstate = "propagate", color, black) /\ g.curno = 0
        /\ \A u \in Ids : g.obj[u] = NULL <=> h.obj[u] = NULL
    BY <1>1, FlushAllSound DEF g
  <2>. QED
    BY <1>1, <2>1, <2>2, IgnoredStep
<1>5. CASE p \notin nojit /\ ~ AlreadyCompiled(h, r) /\ trace_findfree(h) # 0
  <2>. DEFINE n == trace_findfree(h)
              g == Begun(h, n)
  <2>1. Begins(h, n, s) /\ state' = "RECORD" /\ rec' = r
    BY <1>5 DEF trace_start, Begins
  <2>2. n # 0
    BY <1>5
  <2>. HIDE DEF n
  <2>3. n = trace_findfree(h)
    BY DEF n
  <2>4. g = Begun(h, n)
    OBVIOUS
  <2>. HIDE DEF g
  <2>5. /\ Sound(g, V, K, gcstate = "propagate", color, black)
        /\ g.obj = h.obj /\ g.curno = n /\ g.bc = h.bc
        /\ \A m \in Numbers : h.trace[m] \in Ids => g.trace[m] = h.trace[m]
    BY <1>1, <2>2, <2>3, <2>4, BegunSound
  <2>6. g \in Heaps
    BY <2>5 DEF Sound, HeapInv
  <2>7. /\ Heap' \in Heaps /\ Made' = g /\ obj' = g.obj /\ curno' = g.curno
        /\ patch' \in [pc : Sites \cup {NULL}, ins : 0..MAXTRACE, bcskip : 0..1]
        /\ patch'.pc # NULL => bc'[patch'.pc] = Plain /\ patch'.ins \in Numbers
    BY <1>1, <2>1, <2>4, <2>6, BegunMade
  <2>8. Origin(Made', r)
    <3>1. FromSite(Made', r) \/ FromExit(Made', r)
      BY <1>1, <1>5, <2>5, <2>7, FromBegun
    <3>. QED
      BY <3>1, Constants DEF Origin, FromSite, FromExit
  <2>9. Typed'
    BY <1>1, <2>1, <2>7 DEF Typed, gc, Recordings
  <2>10. RecInv'
    <3>1. (state # "IDLE" => Origin(Made, rec))'
      BY <2>1, <2>8
    <3>. QED
      BY <2>1, <2>2, <2>5, <2>7, <3>1 DEF RecInv
  <2>11. Colours'
    BY <2>5, <2>7 DEF Colours, gc, Typed
  <2>12. Safe(V, K)'
    BY <2>5, <2>7 DEF Safe, Held, Spared, gc
  <2>. QED
    BY <2>7, <2>9, <2>10, <2>11, <2>12 DEF IInv
<1>. QED
  BY <1>2, <1>3, <1>4, <1>5
--------------------------------------------------------------------------------
(* Hot loops, functions and exits. *)

\* No patch is pending when nothing is recorded.
LEMMA IdleMade ==
  ASSUME RecInv, state = "IDLE"
  PROVE  Made = Heap /\ Heap.curno = 0 /\ patch = NoPatch
BY DEF RecInv, Made, Repatch, NoPatch, Heap

\* What holds of the state that an action is taken in.
LEMMA Facts ==
  ASSUME IInv
  PROVE  /\ Heap \in Heaps /\ Typed /\ RecInv /\ Colours
         /\ Made \in Heaps /\ Made.obj = obj /\ Made.trace = trace
         /\ Made.chain = chain /\ Made.curno = curno /\ Made.freetrace = freetrace
         /\ Made.iloop = iloop
         /\ \A s \in Sites : Made.bc[s] = IF s = patch.pc THEN patch.ins ELSE bc[s]
         /\ black \in SUBSET Protos /\ color \in [Ids -> {"white", "gray", "black"}]
         /\ rec \in Recordings
<1>1. Heap \in Heaps /\ Typed /\ RecInv /\ Colours
  BY DEF IInv
<1>2. patch.pc # NULL => patch.ins \in Numbers
  BY <1>1 DEF RecInv
<1>3. black \in SUBSET Protos /\ color \in [Ids -> {"white", "gray", "black"}]
      /\ rec \in Recordings
  BY <1>1 DEF Typed, Recordings
<1>. QED
  BY <1>1, <1>2, <1>3, MadeIs

\* The invariant is kept when a loop or a function becomes hot.
LEMMA HotStep ==
  ASSUME IInv, NEW s \in Sites, Hot(s)
  PROVE  IInv'
<1>. DEFINE r == [NoRec EXCEPT !.start = s]
<1>1. Heap \in Heaps /\ Typed /\ RecInv /\ Colours
  BY Facts
<1>2. PICK V, K : Safe(V, K)
  BY DEF IInv
<1>3. /\ state = "IDLE" /\ KindOf[s] \in {"LOOP", "ITERN", "FUNCF"}
      /\ bc[s] = Plain \/ (KindOf[s] = "ITERN" /\ bc[s] \in Numbers)
      /\ trace_start(Heap, ProtoOf[s], r, NULL)
      /\ run' = NULL /\ frames' = frames /\ UNCHANGED <<modes, gc>>
  BY DEF Hot, Start
<1>4. Made = Heap /\ Heap.curno = 0
  BY <1>1, <1>3, IdleMade
<1>5. r \in Recordings /\ r.start = s /\ r.parent = 0 /\ r.root = 0 /\ r.exitno = 0
  BY Constants DEF NoRec, Recordings
<1>. HIDE DEF r
<1>6. Startable(Heap, r)
  BY <1>3, <1>5, HeapIs DEF Startable
<1>7. ProtoOf[s] \in Protos
  BY Constants
<1>8. Sound(Heap, V, K, gcstate = "propagate", color, black) /\ Spared(V)
  BY <1>2, <1>4 DEF Safe, Held
<1>9. \A u \in Ids : Heap.obj[u] = NULL <=> obj[u] = NULL
  BY HeapIs
<1>. QED
  BY <1>1, <1>3, <1>4, <1>5, <1>6, <1>7, <1>8, <1>9, StartStep

\* A trace that may be run has its number, and so has its root.
LEMMA RunningIs ==
  ASSUME NEW h, NEW V, NEW K, NEW mk, NEW cs, NEW bl, Sound(h, V, K, mk, cs, bl),
         NEW t \in K
  PROVE  /\ t \in Ids /\ t \in V /\ h.obj[t] # NULL /\ h.obj[t] \in GCtrace
         /\ h.obj[t].traceno \in Numbers /\ h.trace[h.obj[t].traceno] = t
         /\ h.obj[t].root # 0 =>
              /\ h.obj[t].root \in Numbers /\ h.trace[h.obj[t].root] \in K
              /\ h.trace[h.obj[t].root] \in Ids
              /\ h.obj[h.trace[h.obj[t].root]].root = 0
<1>1. h \in Heaps /\ Registered(h) /\ Kept(h, V, K) /\ InTree(h, K)
  BY DEF Sound, HeapInv
<1>2. t \in Ids /\ t \in V /\ h.obj[t] # NULL /\ K \subseteq Ids
  BY <1>1 DEF Kept
<1>3. h.obj[t] \in GCtrace
  BY <1>1, <1>2, HeapFields
<1>4. h.obj[t].traceno \in 0..MAXTRACE /\ h.obj[t].traceno # 0 /\ h.obj[t].root \in 0..MAXTRACE
  BY <1>1, <1>3, TraceFields DEF InTree
<1>5. h.obj[t].traceno \in Numbers
  BY <1>4, Constants
<1>6. h.trace[h.obj[t].traceno] = t
  BY <1>1, <1>2, <1>5 DEF Registered
<1>7. h.obj[t].root # 0 => /\ h.trace[h.obj[t].root] \in K
                           /\ h.obj[h.trace[h.obj[t].root]].root = 0
  BY <1>1 DEF InTree, Home
<1>8. h.obj[t].root # 0 => h.obj[t].root \in Numbers
  BY <1>4, Constants
<1>. QED
  BY <1>2, <1>3, <1>5, <1>6, <1>7, <1>8

\* The invariant is kept when an exit becomes hot.
LEMMA ExitHotStep ==
  ASSUME ~ PendingAborts, IInv, NEW p \in Protos, ExitHot(p)
  PROVE  IInv'
<1>. DEFINE n == obj[run].traceno
            rt == IF obj[run].root = 0 THEN n ELSE obj[run].root
            r == [start |-> NULL, parent |-> n, exitno |-> 0, root |-> rt]
<1>1. Heap \in Heaps /\ Typed /\ RecInv /\ Colours
  BY Facts
<1>2. PICK V, K : Safe(V, K)
  BY DEF IInv
<1>3. run # NULL /\ state = "IDLE" /\ run \in K
  BY <1>1, <1>2 DEF ExitHot, RecInv, Safe, Held
<1>4. PICK s \in {NULL} \cup {q \in Sites : KindOf[q] \in {"RET", "ITERN"}
                                             /\ bc[q] \in Numbers} :
        Start(p, r, s)
  BY DEF ExitHot
<1>5. /\ trace_start(Heap, p, r, s) /\ run' = NULL
      /\ frames' = frames /\ UNCHANGED <<modes, gc>>
  BY <1>4 DEF Start, ExitHot
<1>6. Made = Heap /\ Heap.curno = 0
  BY <1>1, <1>3, IdleMade
<1>7. Sound(Heap, V, K, gcstate = "propagate", color, black) /\ Spared(V)
  BY <1>2, <1>6 DEF Safe, Held
<1>8. /\ n \in Numbers /\ trace[n] = run /\ run \in Ids
      /\ obj[run].root # 0 =>
           /\ obj[run].root \in Numbers /\ trace[obj[run].root] \in Ids
           /\ obj[trace[obj[run].root]].root = 0
  BY <1>3, <1>7, HeapIs, RunningIs
<1>. HIDE DEF n
<1>9. /\ rt \in Numbers /\ trace[rt] \in Ids /\ obj[trace[rt]].root = 0
      /\ IF obj[run].root = 0 THEN n = rt ELSE obj[run].root = rt
  BY <1>8
<1>. HIDE DEF rt
<1>10. /\ r.start = NULL /\ r.parent = n /\ r.exitno = 0 /\ r.root = rt
       /\ r \in Recordings
  <2>1. n \in 0..MAXTRACE /\ rt \in 0..MAXTRACE /\ 0 \in 0..MAXTRACE
    BY <1>8, <1>9, Constants
  <2>. QED
    BY <2>1 DEF Recordings
<1>. HIDE DEF r
<1>11. Startable(Heap, r)
  BY <1>8, <1>9, <1>10, HeapIs DEF Startable, FromExit
<1>12. s \in {NULL} \cup {q \in Sites : Heap.bc[q] \in Numbers}
  BY HeapIs
<1>13. \A u \in Ids : Heap.obj[u] = NULL <=> obj[u] = NULL
  BY HeapIs
<1>. QED
  BY <1>1, <1>5, <1>6, <1>7, <1>10, <1>11, <1>12, <1>13, StartStep
--------------------------------------------------------------------------------
(* Running traces. *)

\* A step that leaves the heap and the recording alone.
LEMMA StillMade ==
  ASSUME UNCHANGED <<heap, recording>>
  PROVE  Made' = Made /\ Heap' = Heap
BY DEF Made, Repatch, Heap, heap, recording

\* Steps that leave the heap and the recording alone.
LEMMA StillStep ==
  ASSUME IInv, UNCHANGED <<heap, recording>>, Typed', Colours',
         run' # NULL => state = "IDLE", NEW V, NEW K, Safe(V, K)'
  PROVE  IInv'
<1>1. Made' = Made /\ Heap' = Heap
  BY StillMade
<1>2. Heap \in Heaps /\ RecInv
  BY DEF IInv
<1>3. bc' = bc /\ curno' = curno /\ state' = state /\ rec' = rec /\ patch' = patch
  BY DEF heap, recording
<1>4. RecInv'
  BY <1>1, <1>2, <1>3 DEF RecInv
<1>. QED
  BY <1>1, <1>2, <1>4 DEF IInv

\* Steps that only choose what is run.
LEMMA RunStep ==
  ASSUME IInv, UNCHANGED <<heap, modes, recording, gc>>,
         NEW V, NEW K, Safe(V, K), frames' \subseteq V,
         run' # NULL => state = "IDLE" /\ run' \in K
  PROVE  IInv'
<1>1. Typed /\ Colours /\ Kept(Made, V, K)
  BY DEF IInv, Safe, Sound
<1>2. V \subseteq Ids /\ K \subseteq Ids
  BY <1>1 DEF Kept
<1>3. Typed'
  BY <1>1, <1>2 DEF Typed, modes, recording, gc
<1>4. Colours'
  BY <1>1 DEF Colours, heap, gc
<1>5. Made' = Made
  BY StillMade
<1>6. Safe(V, K)'
  BY <1>5 DEF Safe, Held, Spared, gc
<1>. QED
  BY <1>3, <1>4, <1>6, StillStep

\* The invariant is kept when the interpreter enters a trace.
LEMMA EnterStep ==
  ASSUME IInv, NEW s \in Sites, Enter(s)
  PROVE  IInv'
<1>1. PICK V, K : Safe(V, K)
  BY DEF IInv
<1>2. Made = Heap
  BY IdleMade DEF IInv, Enter
<1>3. Sound(Heap, V, K, gcstate = "propagate", color, black) /\ frames \subseteq V
  BY <1>1, <1>2 DEF Safe, Held, Spared
<1>4. HeapInv(Heap) /\ Kept(Heap, V, K) /\ Heap \in Heaps /\ Registered(Heap) /\ Rooted(Heap)
  BY <1>3 DEF Sound, HeapInv
<1>5. ProtoOf[s] \in Protos
  BY Constants
<1>6. PICK L : IsChain(Heap, ProtoOf[s], L) /\ Led(Heap, ProtoOf[s], L)
  BY <1>4, <1>5 DEF HeapInv, Chained
<1>7. bc[s] \in Range(L)
  BY <1>4, <1>6, LedTo, HeapIs DEF Enter
<1>8. trace[bc[s]] \in K
  BY <1>4, <1>5, <1>6, <1>7, ChainKept, HeapIs
<1>9. UNCHANGED <<heap, modes, recording, gc>> /\ run' = trace[bc[s]] /\ frames' = frames
  BY DEF Enter, Run
<1>10. state = "IDLE"
  BY DEF Enter
<1>. QED
  BY <1>1, <1>3, <1>8, <1>9, <1>10, RunStep

\* The invariant is kept when a running trace jumps, stitches or exits.
LEMMA RunningStep ==
  ASSUME IInv, Jump \/ Stitch \/ ExitCold
  PROVE  IInv'
<1>1. PICK V, K : Safe(V, K)
  BY DEF IInv
<1>2. /\ run # NULL /\ UNCHANGED <<heap, modes, recording, gc>>
  BY DEF Jump, Stitch, ExitCold, Run
<1>3. state = "IDLE" /\ run \in K /\ frames \subseteq V
  BY <1>1, <1>2 DEF IInv, RecInv, Safe, Held, Spared
<1>4. Sound(Made, V, K, gcstate = "propagate", color, black) /\ Made.obj = obj
  BY <1>1, Facts DEF Safe
<1>5. K \subseteq V /\ \A u \in obj[run].jumps : u \in K
  BY <1>3, <1>4 DEF Sound, Kept, InTree
<1>6. CASE Jump
  BY <1>1, <1>2, <1>3, <1>5, <1>6, RunStep DEF Jump, Run
<1>7. CASE Stitch
  <2>1. run' = NULL /\ frames' \subseteq V
    BY <1>3, <1>5, <1>7 DEF Stitch, Run
  <2>. QED
    BY <1>1, <1>2, <2>1, RunStep
<1>8. CASE ExitCold
  <2>1. run' = NULL /\ frames' \subseteq V
    BY <1>3, <1>8 DEF ExitCold, Run
  <2>. QED
    BY <1>1, <1>2, <2>1, RunStep
<1>. QED
  BY <1>6, <1>7, <1>8

Calling(s, n) == [NoRec EXCEPT !.start = s, !.exitno = n]

\* The recording that starts after a stitched call.
LEMMA CallRecording ==
  ASSUME NEW s \in Sites, NEW n \in 0..MAXTRACE, NEW r, r = Calling(s, n)
  PROVE  /\ r \in Recordings /\ r.start = s /\ r.exitno = n
         /\ r.parent = 0 /\ r.root = 0
<1>. DEFINE x == [NoRec EXCEPT !.start = s]
<1>1. 0 \in 0..MAXTRACE
  BY Constants
<1>2. x \in Recordings /\ x.start = s /\ x.parent = 0 /\ x.root = 0
  BY <1>1 DEF NoRec, Recordings
<1>3. r = [x EXCEPT !.exitno = n]
  BY DEF Calling
<1>. HIDE DEF x
<1>. QED
  BY <1>2, <1>3 DEF Recordings

\* The invariant is kept when a stitched call returns.
LEMMA ReturnStep ==
  ASSUME ~ PendingAborts, IInv, NEW t \in Ids, Return(t)
  PROVE  IInv'
<1>1. PICK V, K : Safe(V, K)
  BY DEF IInv
<1>2. Heap \in Heaps /\ Typed /\ RecInv /\ Colours
  BY Facts
<1>3. run = NULL /\ t \in frames /\ state = "IDLE" /\ frames' \in {frames, frames \ {t}}
  BY DEF Return
<1>4. Made = Heap /\ Heap.curno = 0
  BY <1>2, <1>3, IdleMade
<1>5. Sound(Heap, V, K, gcstate = "propagate", color, black) /\ Spared(V) /\ Held(V, K)
  BY <1>1, <1>4 DEF Safe, Held
<1>6. HeapInv(Heap) /\ Kept(Heap, V, K) /\ Registered(Heap) /\ Rooted(Heap)
  BY <1>5 DEF Sound, HeapInv
<1>7. t \in V /\ frames \subseteq V /\ frames' \subseteq V /\ V \subseteq Ids
  BY <1>3, <1>5, <1>6 DEF Spared, Kept
<1>8. obj[t] # NULL /\ obj[t] \in GCtrace
  BY <1>2, <1>6, <1>7, HeapFields, HeapIs DEF Kept
<1>9. obj[t].traceno \in 0..MAXTRACE /\ obj[t].link \in 0..MAXTRACE
  BY <1>8, TraceFields
<1>10. CASE obj[t].link = obj[t].traceno
  <2>1. Run(NULL)
    BY <1>10 DEF Return
  <2>2. run' = NULL /\ UNCHANGED <<heap, modes, recording, gc>>
    BY <2>1 DEF Run
  <2>. QED
    BY <1>1, <1>7, <2>2, RunStep
<1>11. CASE obj[t].link # obj[t].traceno /\ obj[t].link # 0
  <2>1. Run(trace[obj[t].link])
    BY <1>11 DEF Return
  <2>2. run' = trace[obj[t].link] /\ UNCHANGED <<heap, modes, recording, gc>>
    BY <2>1 DEF Run
  <2>3. obj[t].traceno # 0
    BY <1>6, <1>7, <1>8, <1>11, HeapIs DEF Rooted
  <2>4. trace[obj[t].link] \in V /\ obj[trace[obj[t].link]].root = 0
    BY <1>6, <1>7, <1>11, <2>3, HeapIs DEF Kept
  <2>5. obj[t].link \in Numbers
    BY <1>9, <1>11, Constants
  <2>6. obj[trace[obj[t].link]].traceno # 0
    BY <1>6, <1>7, <2>4, <2>5, HeapIs, Constants DEF Registered
  <2>7. trace[obj[t].link] \in K
    BY <1>6, <2>4, <2>6, HeapIs DEF Kept
  <2>. QED
    BY <1>1, <1>3, <1>7, <2>2, <2>7, RunStep
<1>12. CASE obj[t].link # obj[t].traceno /\ obj[t].link = 0
  <2>1. PICK s \in Sites :
          /\ KindOf[s] = "CALL"
          /\ Start(ProtoOf[s], Calling(s, obj[t].traceno), NULL)
    BY <1>3, <1>12 DEF Return, Calling
  <2>. DEFINE r == Calling(s, obj[t].traceno)
  <2>2. /\ trace_start(Heap, ProtoOf[s], r, NULL) /\ run' = NULL
        /\ UNCHANGED <<modes, gc>> /\ frames' \subseteq frames
    BY <1>3, <2>1 DEF Start
  <2>3. obj[t].traceno \in Numbers
    BY <1>9, <1>12, Constants
  <2>4. /\ r \in Recordings /\ r.start = s /\ r.exitno = obj[t].traceno
        /\ r.parent = 0 /\ r.root = 0
    BY <1>9, CallRecording
  <2>. HIDE DEF r
  <2>5. trace[obj[t].traceno] = t
    BY <1>6, <1>8, <2>3, HeapIs DEF Registered
  <2>6. Startable(Heap, r)
    BY <1>12, <2>1, <2>3, <2>4, <2>5, HeapIs DEF Startable
  <2>7. ProtoOf[s] \in Protos /\ \A u \in Ids : Heap.obj[u] = NULL <=> obj[u] = NULL
    BY Constants, HeapIs
  <2>. QED
    BY <1>2, <1>4, <1>5, <1>7, <2>2, <2>4, <2>6, <2>7, StartStep
<1>. QED
  BY <1>10, <1>11, <1>12
--------------------------------------------------------------------------------
(* Ending a recording. *)

\* The instruction that a recording may link to leads to a trace that is kept.
LEMMA PendedIs ==
  ASSUME IInv, NEW s \in Sites, Pended(Heap).bc[s] \in Numbers
  PROVE  Made.bc[s] = Pended(Heap).bc[s]
<1>1. \A q \in Sites : Made.bc[q] = IF q = patch.pc THEN patch.ins ELSE bc[q]
  BY Facts
<1>2. patch.pc # NULL => bc[patch.pc] = Plain
  BY DEF IInv, RecInv
<1>3. CASE patch.bcskip = 0
  BY <1>3 DEF Pended, Made
<1>4. CASE patch.bcskip # 0
  <2>1. bc[s] \in Numbers /\ Pended(Heap).bc[s] = bc[s]
    BY <1>4, HeapIs DEF Pended
  <2>2. s # patch.pc
    BY <2>1, <1>2, Constants
  <2>. QED
    BY <1>1, <2>1, <2>2
<1>. QED
  BY <1>3, <1>4

\* What an instruction leads to is kept, and is a root trace.
LEMMA LedKept ==
  ASSUME NEW h, NEW V, NEW K, NEW mk, NEW cs, NEW bl, Sound(h, V, K, mk, cs, bl),
         NEW s \in Sites, h.bc[s] \in Numbers
  PROVE  /\ h.trace[h.bc[s]] \in K /\ h.trace[h.bc[s]] \in V
         /\ h.trace[h.bc[s]] \in Ids
         /\ h.obj[h.trace[h.bc[s]]] # NULL /\ h.obj[h.trace[h.bc[s]]].root = 0
<1>1. HeapInv(h) /\ Kept(h, V, K) /\ h \in Heaps /\ Registered(h) /\ Rooted(h)
  BY DEF Sound, HeapInv
<1>2. ProtoOf[s] \in Protos
  BY Constants
<1>3. PICK L : IsChain(h, ProtoOf[s], L) /\ Led(h, ProtoOf[s], L)
  BY <1>1, <1>2 DEF HeapInv, Chained
<1>4. h.bc[s] \in Range(L)
  BY <1>1, <1>3, LedTo
<1>. QED
  BY <1>1, <1>2, <1>3, <1>4, ChainKept, ChainTrace

\* What a recording may link to is kept.
LEMMA LinksAre ==
  ASSUME IInv, NEW V, NEW K, Safe(V, K), NEW l \in Links(Pended(Heap))
  PROVE  \/ Linked(Made, K, l[1], l[2])
         \/ rec.start = NULL /\ l[1] = "ROOT" /\ l[2] = rec.root
<1>1. Sound(Made, V, K, gcstate = "propagate", color, black) /\ Made.curno = curno
  BY Facts DEF Safe
<1>2. CASE l \in {<<"RETURN", 0>>, <<"STITCH", 0>>}
  BY <1>2 DEF Linked
<1>3. CASE l = <<"LOOP", curno>>
  BY <1>1, <1>3 DEF Linked
<1>4. CASE \E s \in Sites : Pended(Heap).bc[s] \in Numbers
                            /\ l = <<"ROOT", Pended(Heap).bc[s]>>
  <2>1. PICK s \in Sites : Pended(Heap).bc[s] \in Numbers
                           /\ l = <<"ROOT", Pended(Heap).bc[s]>>
    BY <1>4
  <2>2. Made.bc[s] = Pended(Heap).bc[s]
    BY <2>1, PendedIs
  <2>3. Made.trace[Made.bc[s]] \in K /\ Made.obj[Made.trace[Made.bc[s]]].root = 0
    BY <1>1, <2>1, <2>2, LedKept
  <2>. QED
    BY <2>1, <2>2, <2>3 DEF Linked
<1>5. CASE rec.start = NULL /\ l = <<"ROOT", rec.root>>
  BY <1>5
<1>. QED
  BY <1>2, <1>3, <1>4, <1>5 DEF Links, Linkable

\* The invariant is kept when a recording ends with a trace.
LEMMA StopStep ==
  ASSUME IInv, NEW t \in Ids, RecordStop(t)
  PROVE  IInv'
<1>1. /\ Heap \in Heaps /\ Typed /\ RecInv /\ Colours /\ Made \in Heaps
      /\ Made.obj = obj /\ Made.trace = trace /\ Made.curno = curno
      /\ black \in SUBSET Protos /\ color \in [Ids -> {"white", "gray", "black"}]
  BY Facts
<1>2. PICK V, K : Safe(V, K)
  BY DEF IInv
<1>3. /\ state = "RECORD" /\ obj[t] = NULL
      /\ ~ Lost(Heap, {rec.parent, rec.root, rec.exitno})
      /\ color' = [color EXCEPT ![t] = SavedColour(gcstate)]
      /\ state' = "IDLE" /\ rec' = NoRec /\ patch' = NoPatch
      /\ UNCHANGED <<modes, run, frames, gcstate, black, unswept>>
  BY DEF RecordStop
<1>4. PICK l \in Links(Pended(Heap)) : Becomes(trace_stop(Made, t, l[1], l[2]))
  BY DEF RecordStop, EndForced, Made
<1>5. \/ Linked(Made, K, l[1], l[2])
      \/ rec.start = NULL /\ l[1] = "ROOT" /\ l[2] = rec.root
  BY <1>2, LinksAre
<1>. DEFINE g == trace_stop(Made, t, l[1], l[2])
            mk == gcstate = "propagate"
<1>6. Sound(Made, V, K, mk, color, black) /\ Spared(V)
  BY <1>2 DEF Safe, Held
<1>7. Fresh(Made, t) /\ (FromExit(Made, rec) \/ FromSite(Made, rec)) /\ run = NULL
  <2>1. ~ Lost(Made, {rec.parent, rec.root, rec.exitno})
    BY <1>1, <1>3, HeapIs DEF Lost
  <2>2. FromExit(Made, rec) \/ FromSite(Made, rec)
    BY <1>1, <1>3, <2>1 DEF RecInv, Origin
  <2>. QED
    BY <1>1, <1>3, <2>2 DEF Fresh, RecInv
<1>8. Becomes(g)
  BY <1>4
<1>9. Ended(Made, g, V, K, t, mk, color, black)
  BY <1>1, <1>5, <1>6, <1>7, StopSound
<1>. HIDE DEF g
<1>10. /\ g.curno = 0 /\ g.obj[t] # NULL
       /\ \A u \in Ids : u # t => (g.obj[u] = NULL <=> obj[u] = NULL)
  BY <1>1, <1>9 DEF Ended
<1>11. PICK W, J : /\ V \subseteq W /\ W \subseteq V \cup {t} /\ K \subseteq J
                   /\ Sound(g, W, J, mk, [color EXCEPT ![t] = "gray"], black)
  BY <1>9 DEF Ended, MoreSound
<1>12. g \in Heaps
  BY <1>11 DEF Sound, HeapInv
<1>13. Heap' = g /\ Made' = g
  <2>1. Heap' = g
    BY <1>8, <1>12, BecomesHeap
  <2>. QED
    BY <2>1, <1>3 DEF Made, Repatch, NoPatch
<1>14. obj' = g.obj /\ curno' = 0
  BY <1>10, <1>13 DEF Heap
<1>15. \A u \in Ids : color'[u] = IF u = t THEN SavedColour(gcstate) ELSE color[u]
  BY <1>1, <1>3
<1>16. Typed'
  <2>1. NoRec \in [start : Sites \cup {NULL}, root : 0..MAXTRACE,
                   parent : 0..MAXTRACE, exitno : 0..MAXTRACE]
    BY Constants DEF NoRec
  <2>2. NoPatch \in [pc : Sites \cup {NULL}, ins : 0..MAXTRACE, bcskip : 0..1]
    BY Constants DEF NoPatch
  <2>3. color' \in [Ids -> {"white", "gray", "black"}]
    BY <1>1, <1>3 DEF SavedColour
  <2>. QED
    BY <1>1, <1>3, <2>1, <2>2, <2>3 DEF Typed, modes
<1>17. RecInv'
  BY <1>3, <1>7, <1>14 DEF RecInv, NoPatch
<1>18. Colours'
  <2>1. t \notin unswept
    BY <1>1, <1>3 DEF Colours
  <2>2. gcstate' # "propagate" => \A u \in Ids : u = t => color'[u] = "white"
    BY <1>3, <1>15 DEF SavedColour
  <2>. QED
    BY <1>1, <1>3, <1>10, <1>14, <1>15, <2>1, <2>2 DEF Colours, Typed
<1>19. Sound(g, W, J, mk, color', black)
  <2>1. mk => color' = [color EXCEPT ![t] = "gray"]
    BY <1>3 DEF SavedColour
  <2>. QED
    BY <1>11, <2>1 DEF Sound
<1>20. Spared(W)'
  <2>1. t \notin unswept
    BY <1>1, <1>3 DEF Colours
  <2>2. unswept \subseteq Ids
    BY <1>1 DEF Typed
  <2>. QED
    BY <1>3, <1>6, <1>11, <1>15, <2>1, <2>2 DEF Spared
<1>21. Safe(W, J)'
  BY <1>3, <1>7, <1>13, <1>19, <1>20 DEF Safe, Held
<1>. QED
  BY <1>12, <1>13, <1>16, <1>17, <1>18, <1>21 DEF IInv

\* A recording that is aborted, by whatever comes before and after.
LEMMA AbortStep ==
  ASSUME IInv, state # "IDLE", NEW V, NEW K, Safe(V, K),
         NEW x, Sound(x, V, K, gcstate = "propagate", color, black),
         \A u \in Ids : x.obj[u] = NULL <=> obj[u] = NULL,
         Origin(x, rec),
         NEW g \in trace_abort(x), Ignored(g) \/ Ignored(lj_trace_flushall(g)),
         UNCHANGED <<nojit, run, frames, gc>>, severed' \in BOOLEAN
  PROVE  IInv'
<1>1. /\ Heap \in Heaps /\ Typed /\ RecInv /\ Colours /\ black \in SUBSET Protos
      /\ Spared(V)
  BY Facts DEF Safe, Held
<1>2. run' = NULL /\ nojit' \subseteq Protos /\ frames' \subseteq frames /\ UNCHANGED gc
  BY <1>1 DEF RecInv, Typed
<1>3. Aborted(x, g, V, K, gcstate = "propagate", color, black)
  BY <1>1, AbortSound
<1>4. /\ Sound(g, V, K, gcstate = "propagate", color, black) /\ g.curno = 0
      /\ \A u \in Ids : g.obj[u] = NULL <=> obj[u] = NULL
  BY <1>3 DEF Aborted
<1>5. CASE Ignored(g)
  BY <1>1, <1>2, <1>4, <1>5, IgnoredStep
<1>6. CASE Ignored(lj_trace_flushall(g))
  <2>. DEFINE k == lj_trace_flushall(g)
  <2>1. Ignored(k)
    BY <1>6
  <2>. HIDE DEF k
  <2>2. /\ Sound(k, V, {}, gcstate = "propagate", color, black) /\ k.curno = 0
        /\ \A u \in Ids : k.obj[u] = NULL <=> g.obj[u] = NULL
    BY <1>1, <1>4, FlushAllSound DEF k
  <2>. QED
    BY <1>1, <1>2, <1>4, <2>1, <2>2, IgnoredStep
<1>. QED
  BY <1>5, <1>6
--------------------------------------------------------------------------------
(* Failing, retrying and patching. *)

\* The invariant is kept when a recording fails.
LEMMA ErrorStep ==
  ASSUME IInv, RecordError \/ AbortFinish
  PROVE  IInv'
<1>1. PICK V, K : Safe(V, K)
  BY DEF IInv
<1>2. state # "IDLE" /\ UNCHANGED <<nojit, run, frames, gc>> /\ severed' \in BOOLEAN
  BY DEF RecordError, AbortFinish, modes, IInv, Typed
<1>3. PICK g \in trace_abort(Made) : Ignored(g) \/ Ignored(lj_trace_flushall(g))
  BY DEF RecordError, AbortFinish, Made
<1>4. Origin(Made, rec)
  BY <1>2 DEF IInv, RecInv
<1>5. Sound(Made, V, K, gcstate = "propagate", color, black)
  BY <1>1 DEF Safe
<1>6. \A u \in Ids : Made.obj[u] = NULL <=> obj[u] = NULL
  BY Facts
<1>. QED
  BY <1>1, <1>2, <1>3, <1>4, <1>5, <1>6, AbortStep

\* The invariant is kept when a recording is begun anew at a return.
LEMMA DownrecStep ==
  ASSUME IInv, NEW s \in Sites, RecordDownrec(s)
  PROVE  IInv'
<1>. DEFINE r == [NoRec EXCEPT !.start = s]
<1>1. /\ Heap \in Heaps /\ Typed /\ RecInv /\ Colours /\ black \in SUBSET Protos
      /\ Made.obj = obj
      /\ \A q \in Sites : Made.bc[q] = IF q = patch.pc THEN patch.ins ELSE bc[q]
  BY Facts
<1>2. PICK V, K : Safe(V, K)
  BY DEF IInv
<1>3. /\ state = "RECORD" /\ rec.start # NULL
      /\ KindOf[rec.start] \in {"CALL", "RET"} /\ KindOf[s] = "RET"
      /\ bc[s] = Plain /\ patch.pc # s /\ UNCHANGED <<modes, run, frames, gc>>
  BY DEF RecordDownrec
<1>4. PICK h \in trace_abort(Made) : trace_start(h, ProtoOf[s], r, NULL)
  BY DEF RecordDownrec, Made
<1>5. Origin(Made, rec)
  BY <1>1, <1>3 DEF RecInv
<1>6. Sound(Made, V, K, gcstate = "propagate", color, black) /\ Spared(V)
  BY <1>2 DEF Safe, Held
<1>7. Aborted(Made, h, V, K, gcstate = "propagate", color, black) /\ h.bc = Made.bc
  BY <1>1, <1>3, <1>5, <1>6, AbortSound
<1>8. /\ Sound(h, V, K, gcstate = "propagate", color, black) /\ h.curno = 0
      /\ \A u \in Ids : h.obj[u] = NULL <=> obj[u] = NULL
  BY <1>1, <1>7 DEF Aborted
<1>9. r \in Recordings /\ r.start = s /\ r.parent = 0 /\ r.root = 0 /\ r.exitno = 0
  BY Constants DEF NoRec, Recordings
<1>. HIDE DEF r
<1>10. Startable(h, r)
  BY <1>1, <1>3, <1>7, <1>9 DEF Startable
<1>11. run' = NULL /\ frames' \subseteq frames /\ UNCHANGED <<modes, gc>>
  BY <1>1, <1>3 DEF RecInv
<1>12. ProtoOf[s] \in Protos
  BY Constants
<1>. QED
  BY <1>1, <1>4, <1>6, <1>8, <1>9, <1>10, <1>11, <1>12, StartStep

\* A step of the recorder that makes a patch, or makes one pending.
LEMMA PatchStep ==
  ASSUME IInv, state # "IDLE", NEW g \in Heaps, Heap' = g, Made' = Made,
         g.obj = obj, g.curno = curno,
         patch' \in [pc : Sites \cup {NULL}, ins : 0..MAXTRACE, bcskip : 0..1],
         patch'.pc # NULL => bc'[patch'.pc] = Plain /\ patch'.ins \in Numbers,
         UNCHANGED <<modes, state, rec, run, frames, gc>>
  PROVE  IInv'
<1>1. Typed /\ RecInv /\ Colours
  BY DEF IInv
<1>2. obj' = obj /\ curno' = curno
  BY DEF Heap
<1>3. Typed'
  BY <1>1 DEF Typed, modes, gc
<1>4. RecInv'
  BY <1>1, <1>2 DEF RecInv
<1>5. Colours'
  BY <1>1, <1>2 DEF Colours, gc
<1>6. PICK V, K : Safe(V, K)
  BY DEF IInv
<1>7. Safe(V, K)'
  BY <1>6 DEF Safe, Held, Spared, gc
<1>. QED
  BY <1>3, <1>4, <1>5, <1>7 DEF IInv

\* The invariant is kept when an instruction makes the pending patch.
LEMMA InsStep ==
  ASSUME IInv, RecordIns
  PROVE  IInv'
<1>1. /\ Heap \in Heaps /\ Typed /\ RecInv /\ Made \in Heaps /\ Made.obj = obj
      /\ Made.curno = curno
  BY Facts
<1>2. /\ state = "RECORD" /\ Becomes(Pended(Heap)) /\ patch' = PendedPatch
      /\ UNCHANGED <<modes, state, rec, run, frames, gc>>
  BY DEF RecordIns
<1>3. patch \in [pc : Sites \cup {NULL}, ins : 0..MAXTRACE, bcskip : 0..1]
  BY <1>1 DEF Typed
<1>4. CASE patch.bcskip = 0
  <2>1. Becomes(Made) /\ patch' = NoPatch
    BY <1>2, <1>4 DEF Pended, PendedPatch, Made
  <2>2. Heap' = Made
    BY <1>1, <2>1, BecomesHeap
  <2>3. Made' = Made
    BY <2>1, <2>2 DEF Made, Repatch, NoPatch
  <2>4. NoPatch \in [pc : Sites \cup {NULL}, ins : 0..MAXTRACE, bcskip : 0..1]
        /\ NoPatch.pc = NULL
    BY Constants DEF NoPatch
  <2>. QED
    BY <1>1, <1>2, <2>1, <2>2, <2>3, <2>4, PatchStep
<1>5. CASE patch.bcskip # 0
  <2>1. Becomes(Heap) /\ patch' = [patch EXCEPT !.bcskip = 0]
    BY <1>2, <1>5 DEF Pended, PendedPatch
  <2>2. Heap' = Heap
    BY <1>1, <2>1, BecomesHeap
  <2>3. /\ patch' \in [pc : Sites \cup {NULL}, ins : 0..MAXTRACE, bcskip : 0..1]
        /\ patch'.pc = patch.pc /\ patch'.ins = patch.ins
    <3>1. 0 \in 0..1
      OBVIOUS
    <3>. QED
      BY <1>3, <2>1, <3>1
  <2>4. Made' = Made
    BY <2>2, <2>3 DEF Made, Repatch
  <2>5. bc' = bc
    BY <2>2 DEF Heap
  <2>6. Heap.obj = obj /\ Heap.curno = curno
    BY HeapIs
  <2>7. patch'.pc # NULL => bc'[patch'.pc] = Plain /\ patch'.ins \in Numbers
    BY <1>1, <2>3, <2>5 DEF RecInv
  <2>. QED
    BY <1>1, <1>2, <2>2, <2>3, <2>4, <2>6, <2>7, PatchStep
<1>. QED
  BY <1>4, <1>5

\* What a recording starts from is left alone by a flush.
LEMMA SameFrom ==
  ASSUME NEW h, HeapInv(h), NEW g, Same(h, g), Origin(h, rec)
  PROVE  Origin(g, rec)
<1>1. h \in Heaps /\ g.trace = h.trace
  BY DEF HeapInv, Same
<1>. SUFFICES ASSUME FromExit(h, rec) \/ FromSite(h, rec)
              PROVE  FromExit(g, rec) \/ FromSite(g, rec)
  BY <1>1 DEF Origin, Lost
<1>2. ASSUME NEW n \in Numbers, h.trace[n] \in Ids
      PROVE  /\ g.obj[h.trace[n]].root = h.obj[h.trace[n]].root
             /\ g.obj[h.trace[n]].link = h.obj[h.trace[n]].link
  <2>1. h.obj[h.trace[n]] # NULL
    BY <1>2 DEF HeapInv, Registered
  <2>. QED
    BY <1>1, <1>2, <2>1, SameFields
<1>3. CASE FromExit(h, rec)
  <2>1. /\ rec.start = NULL /\ rec.parent \in Numbers /\ rec.root \in Numbers
        /\ rec.exitno = 0
        /\ h.trace[rec.root] \in Ids /\ h.trace[rec.parent] \in Ids
        /\ h.obj[h.trace[rec.root]].root = 0
        /\ IF h.obj[h.trace[rec.parent]].root = 0 THEN rec.parent = rec.root
           ELSE h.obj[h.trace[rec.parent]].root = rec.root
    BY <1>3 DEF FromExit
  <2>2. /\ g.obj[h.trace[rec.root]].root = h.obj[h.trace[rec.root]].root
        /\ g.obj[h.trace[rec.parent]].root = h.obj[h.trace[rec.parent]].root
    BY <1>2, <2>1
  <2>. QED
    BY <1>1, <2>1, <2>2 DEF FromExit
<1>4. CASE FromSite(h, rec)
  <2>1. rec.start \in Sites /\ rec.parent = 0 /\ rec.root = 0
        /\ IF KindOf[rec.start] = "CALL"
           THEN /\ rec.exitno \in Numbers /\ h.trace[rec.exitno] \in Ids
                /\ h.obj[h.trace[rec.exitno]].link = 0
           ELSE rec.exitno = 0 /\ h.bc[rec.start] = Plain
    BY <1>4 DEF FromSite
  <2>2. g.bc[rec.start] = h.bc[rec.start] \/ g.bc[rec.start] = Plain
    BY <2>1 DEF Same
  <2>. QED
    BY <1>1, <1>2, <2>1, <2>2 DEF FromSite
<1>. QED
  BY <1>3, <1>4
--------------------------------------------------------------------------------
(* Functions, errors and modes. *)

\* The invariant is kept when a recording meets a compiled function.
LEMMA FuncJITStep ==
  ASSUME IInv, NEW s \in Sites, RecordFuncJIT(s)
  PROVE  IInv'
<1>1. /\ Heap \in Heaps /\ Typed /\ RecInv /\ Made \in Heaps /\ Made.obj = obj
      /\ Made.curno = curno
      /\ black \in SUBSET Protos /\ color \in [Ids -> {"white", "gray", "black"}]
  BY Facts
<1>2. /\ state = "RECORD" /\ UNCHANGED <<nojit, run, frames, gc>>
      /\ s \in Linkable(Made)
      /\ \/ /\ Becomes([Made EXCEPT !.bc[s] = Plain])
            /\ patch' = [pc |-> s, ins |-> Made.bc[s], bcskip |-> 0]
            /\ UNCHANGED <<state, rec, severed>>
         \/ /\ \E g \in trace_abort(lj_trace_flush(Made, Made.bc[s])) : Ignored(g)
            /\ severed' = (severed \/ Severs(lj_trace_flush(Made, Made.bc[s])))
  BY DEF RecordFuncJIT, Made
<1>3. Made.bc[s] \in Numbers
  BY <1>2 DEF Linkable
<1>4. PICK V, K : Safe(V, K)
  BY DEF IInv
<1>5. Sound(Made, V, K, gcstate = "propagate", color, black)
  BY <1>4 DEF Safe
<1>6. CASE /\ Becomes([Made EXCEPT !.bc[s] = Plain])
           /\ patch' = [pc |-> s, ins |-> Made.bc[s], bcskip |-> 0]
           /\ UNCHANGED <<state, rec, severed>>
  <2>. DEFINE b == [Made.bc EXCEPT ![s] = Plain]
              g == [Made EXCEPT !.bc = b]
  <2>1. Becomes(g)
    BY <1>1, <1>6 DEF Heaps
  <2>2. /\ b \in [Sites -> Numbers \cup {Plain, Barred}] /\ b[s] = Plain
        /\ [b EXCEPT ![s] = Made.bc[s]] = Made.bc
    BY <1>1, HeapFields
  <2>. HIDE DEF b
  <2>3. /\ g \in Heaps /\ g.bc = b /\ g.obj = obj /\ g.curno = curno
    BY <1>1, <2>2 DEF Heaps
  <2>4. [g EXCEPT !.bc = Made.bc] = Made
    BY <1>1 DEF Heaps
  <2>. HIDE DEF g
  <2>5. Heap' = g
    BY <2>1, <2>3, BecomesHeap
  <2>6. patch'.pc = s /\ patch'.ins = Made.bc[s] /\ s # NULL
    BY <1>6, Constants
  <2>7. Made' = [g EXCEPT !.bc[s] = Made.bc[s]]
    <3>1. Made' = IF patch'.pc = NULL THEN Heap'
                  ELSE [Heap' EXCEPT !.bc[patch'.pc] = patch'.ins]
      BY DEF Made, Repatch
    <3>. QED
      BY <2>5, <2>6, <3>1
  <2>8. [g EXCEPT !.bc[s] = Made.bc[s]] = [g EXCEPT !.bc = Made.bc]
    BY <2>2, <2>3 DEF Heaps
  <2>9. Made' = Made
    BY <2>4, <2>7, <2>8
  <2>10. bc'[s] = Plain
    BY <2>2, <2>3, <2>5 DEF Heap
  <2>11. patch' \in [pc : Sites \cup {NULL}, ins : 0..MAXTRACE, bcskip : 0..1]
    <3>1. 0 \in 0..1 /\ Made.bc[s] \in 0..MAXTRACE
      BY <1>3, Constants
    <3>. QED
      BY <1>6, <3>1
  <2>. QED
    BY <1>2, <1>3, <1>6, <2>3, <2>5, <2>6, <2>9, <2>10, <2>11, PatchStep DEF modes
<1>7. CASE /\ \E g \in trace_abort(lj_trace_flush(Made, Made.bc[s])) : Ignored(g)
           /\ severed' = (severed \/ Severs(lj_trace_flush(Made, Made.bc[s])))
  <2>. DEFINE x == lj_trace_flush(Made, Made.bc[s])
              mk == gcstate = "propagate"
  <2>1. PICK g \in trace_abort(x) : Ignored(g) /\ severed' \in BOOLEAN
    BY <1>7
  <2>2. mk \in BOOLEAN
    OBVIOUS
  <2>3. HeapInv(Made) /\ Kept(Made, V, K) /\ InTree(Made, K) /\ (mk => Marks(Made, color, black))
    BY <1>5 DEF Sound
  <2>. HIDE DEF mk
  <2>4. FlushKeeps(Made, x, V, K, mk, color, black)
    BY <1>1, <1>3, <2>2, <2>3, FlushTraceKeeps
  <2>. HIDE DEF x
  <2>5. Sound(x, V, K, mk, color, black) /\ Same(Made, x)
    BY <1>1, <1>5, <2>2, <2>4, FlushSound DEF mk
  <2>6. \A u \in Ids : x.obj[u] = NULL <=> obj[u] = NULL
    BY <1>1, <2>5 DEF Same
  <2>7. Origin(Made, rec)
    BY <1>1, <1>2 DEF RecInv
  <2>8. Origin(x, rec)
    BY <2>3, <2>5, <2>7, SameFrom
  <2>. QED
    BY <1>2, <1>4, <2>1, <2>5, <2>6, <2>8, AbortStep DEF mk
<1>. QED
  BY <1>2, <1>6, <1>7

\* The invariant is kept when an error is thrown.
LEMMA ThrowStep ==
  ASSUME IInv, Throw
  PROVE  IInv'
<1>1. /\ state' = IF state = "RECORD" THEN "ABORTED" ELSE state
      /\ run' = NULL /\ frames' \subseteq frames
      /\ UNCHANGED <<heap, modes, rec, patch, gc>>
  BY DEF Throw
<1>2. Heap \in Heaps /\ Typed /\ RecInv /\ Colours
  BY DEF IInv
<1>3. Heap' = Heap /\ Made' = Made /\ bc' = bc /\ curno' = curno /\ obj' = obj
  BY <1>1 DEF Made, Repatch, Heap, heap
<1>4. Typed'
  BY <1>1, <1>2 DEF Typed, modes, gc
<1>5. RecInv'
  BY <1>1, <1>2, <1>3 DEF RecInv
<1>6. Colours'
  BY <1>1, <1>2, <1>3 DEF Colours, gc
<1>7. PICK V, K : Safe(V, K)
  BY DEF IInv
<1>8. Safe(V, K)'
  BY <1>1, <1>3, <1>7 DEF Safe, Held, Spared, gc
<1>. QED
  BY <1>2, <1>3, <1>4, <1>5, <1>6, <1>8 DEF IInv

\* The invariant is kept when the compiler crashes.
LEMMA CrashStep ==
  ASSUME IInv, Crash
  PROVE  IInv'
<1>1. /\ state # "IDLE" /\ state' = "CRASHED"
      /\ UNCHANGED <<heap, modes, rec, patch, run, frames, gc>>
  BY DEF Crash
<1>2. Heap \in Heaps /\ Typed /\ RecInv /\ Colours
  BY DEF IInv
<1>3. Heap' = Heap /\ Made' = Made /\ bc' = bc /\ curno' = curno /\ obj' = obj
  BY <1>1 DEF Made, Repatch, Heap, heap
<1>4. Typed'
  BY <1>1, <1>2 DEF Typed, modes, gc
<1>5. RecInv'
  BY <1>1, <1>2, <1>3 DEF RecInv
<1>6. Colours'
  BY <1>1, <1>2, <1>3 DEF Colours, gc
<1>7. PICK V, K : Safe(V, K)
  BY DEF IInv
<1>8. Safe(V, K)'
  BY <1>1, <1>3, <1>7 DEF Safe, Held, Spared, gc
<1>. QED
  BY <1>2, <1>3, <1>4, <1>5, <1>6, <1>8 DEF IInv

\* Steps of luaJIT_setmode.
LEMMA SetModeStep ==
  ASSUME ~ PendingAborts, IInv, NEW V, NEW K, NEW J, Safe(V, K),
         NEW g, Sound(g, V, J, gcstate = "propagate", color, black),
         g.curno = 0, \A u \in Ids : g.obj[u] = NULL <=> obj[u] = NULL,
         SetMode(g), nojit' \subseteq Protos
  PROVE  IInv'
<1>1. Heap \in Heaps /\ Typed /\ RecInv /\ Colours /\ Spared(V)
  BY DEF IInv, Safe, Held
<1>2. /\ run = NULL /\ state = "IDLE" /\ Becomes(g) /\ severed' \in BOOLEAN
      /\ UNCHANGED <<recording, run, frames, gc>>
  BY DEF SetMode, Quiet
<1>3. Ignored(g)
  BY <1>1, <1>2 DEF Ignored, RecInv, recording
<1>. QED
  BY <1>1, <1>2, <1>3, IgnoredStep

\* The invariant is kept when traces are flushed or prototypes switched.
LEMMA ControlStep ==
  ASSUME ~ PendingAborts, IInv, Control
  PROVE  IInv'
<1>. DEFINE mk == gcstate = "propagate"
<1>1. /\ Heap \in Heaps /\ Typed /\ RecInv /\ Heap.obj = obj
      /\ black \in SUBSET Protos /\ color \in [Ids -> {"white", "gray", "black"}]
      /\ nojit \subseteq Protos
  BY Facts, HeapIs DEF Typed
<1>2. PICK V, K : Safe(V, K)
  BY DEF IInv
<1>3. Quiet
  BY DEF Control, FlushEngine, FlushTrace, ProtoOn, ProtoOff, SetMode
<1>4. Made = Heap /\ Heap.curno = 0
  BY <1>1, <1>3, IdleMade DEF Quiet
<1>5. Sound(Heap, V, K, mk, color, black)
  BY <1>2, <1>4 DEF Safe
<1>6. HeapInv(Heap) /\ Kept(Heap, V, K) /\ InTree(Heap, K)
      /\ (mk => Marks(Heap, color, black))
  BY <1>5 DEF Sound
<1>7. mk \in BOOLEAN
  OBVIOUS
<1>. HIDE DEF mk
<1>8. ASSUME NEW g, FlushKeeps(Heap, g, V, K, mk, color, black), SetMode(g),
             nojit' \subseteq Protos
      PROVE  IInv'
  <2>1. Sound(g, V, K, mk, color, black) /\ Same(Heap, g)
    BY <1>1, <1>5, <1>7, <1>8, FlushSound
  <2>2. g.curno = 0 /\ \A u \in Ids : g.obj[u] = NULL <=> obj[u] = NULL
    BY <1>1, <1>4, <2>1 DEF Same
  <2>. QED
    BY <1>2, <1>8, <2>1, <2>2, SetModeStep DEF mk
<1>9. CASE FlushEngine
  <2>. DEFINE g == lj_trace_flushall(Heap)
  <2>1. SetMode(g) /\ nojit' \subseteq Protos
    BY <1>1, <1>9 DEF FlushEngine
  <2>. HIDE DEF g
  <2>2. /\ Sound(g, V, {}, mk, color, black) /\ g.curno = 0
        /\ \A u \in Ids : g.obj[u] = NULL <=> Heap.obj[u] = NULL
    BY <1>1, <1>5, FlushAllSound DEF g
  <2>. QED
    BY <1>1, <1>2, <2>1, <2>2, SetModeStep DEF mk
<1>10. ASSUME NEW n \in Numbers, FlushTrace(n)
       PROVE  IInv'
  <2>1. SetMode(lj_trace_flush(Heap, n)) /\ nojit' \subseteq Protos
    BY <1>1, <1>10 DEF FlushTrace
  <2>2. FlushKeeps(Heap, lj_trace_flush(Heap, n), V, K, mk, color, black)
    BY <1>1, <1>6, <1>7, FlushTraceKeeps
  <2>. QED
    BY <1>8, <2>1, <2>2
<1>11. ASSUME NEW p \in Protos, ProtoOff(p)
       PROVE  IInv'
  <2>1. SetMode(lj_trace_flushproto(Heap, p)) /\ nojit' \subseteq Protos
    BY <1>1, <1>11 DEF ProtoOff
  <2>2. FlushKeeps(Heap, lj_trace_flushproto(Heap, p), V, K, mk, color, black)
    BY <1>1, <1>6, <1>7, FlushProtoKeeps
  <2>. QED
    BY <1>8, <2>1, <2>2
<1>12. ASSUME NEW p \in Protos, ProtoOn(p)
       PROVE  IInv'
  <2>. DEFINE g == lj_trace_reenableproto(Heap, p)
  <2>1. SetMode(g) /\ nojit' \subseteq Protos
    BY <1>1, <1>12 DEF ProtoOn
  <2>. HIDE DEF g
  <2>2. Sound(g, V, K, mk, color, black) /\ g.obj = Heap.obj /\ g.curno = Heap.curno
    BY <1>1, <1>5, ReenableSound DEF g
  <2>. QED
    BY <1>1, <1>2, <1>4, <2>1, <2>2, SetModeStep DEF mk
<1>. QED
  BY <1>9, <1>10, <1>11, <1>12 DEF Control
--------------------------------------------------------------------------------
(* The collector: marking. *)

\* A step of the collector that leaves the heap alone.
LEMMA CollectStep ==
  ASSUME IInv, UNCHANGED heap, GCOnly, gcstate' \in {"pause", "propagate", "sweep"},
         color' \in [Ids -> {"white", "gray", "black"}],
         black' \subseteq Protos, unswept' \subseteq Ids, Colours',
         NEW V, NEW K, Sound(Made, V, K, gcstate' = "propagate", color', black'),
         frames \subseteq V, run # NULL => run \in K,
         gcstate' = "sweep" => \A t \in V \cap unswept' : color'[t] = "black"
  PROVE  IInv'
<1>1. /\ nojit' = nojit /\ severed' = severed
      /\ state' = state /\ rec' = rec /\ patch' = patch
      /\ run' = run /\ frames' = frames /\ UNCHANGED recording
  BY DEF GCOnly, modes, recording
<1>2. Typed /\ RecInv
  BY DEF IInv
<1>3. Typed'
  BY <1>1, <1>2 DEF Typed
<1>4. Made' = Made
  BY <1>1, StillMade
<1>5. Safe(V, K)'
  BY <1>1, <1>4 DEF Safe, Held, Spared
<1>6. run' # NULL => state = "IDLE"
  BY <1>1, <1>2 DEF RecInv
<1>. QED
  BY <1>1, <1>3, <1>5, <1>6, StillStep

\* A number names an allocated trace.
LEMMA Allocated ==
  ASSUME IInv, NEW n \in 0..MAXTRACE, NEW u \in Ids, Names(Made, n, u)
  PROVE  obj[u] # NULL
<1>1. PICK V, K : Safe(V, K)
  BY DEF IInv
<1>2. Registered(Made) /\ Made.obj = obj
  BY <1>1, Facts DEF Safe, Sound, HeapInv
<1>3. n \in Numbers
  BY Constants DEF Names
<1>. QED
  BY <1>2, <1>3 DEF Names, Registered

\* The types of the numbers that a trace names.
LEMMA Fields ==
  ASSUME IInv, NEW t \in Ids, obj[t] # NULL
  PROVE  /\ obj[t].traceno \in 0..MAXTRACE /\ obj[t].link \in 0..MAXTRACE
         /\ obj[t].nextroot \in 0..MAXTRACE /\ obj[t].nextside \in 0..MAXTRACE
<1>1. obj[t] \in GCtrace
  BY HeapFields, HeapIs DEF IInv
<1>. QED
  BY <1>1, TraceFields

\* The traces that numbers name.
LEMMA NumberedIs ==
  ASSUME IInv, NEW ns, NEW u \in Ids
  PROVE  u \in Numbered(Heap, ns) <=> \E n \in ns : Names(Made, n, u)
<1>1. Made.trace = trace /\ Heap.trace = trace
  BY Facts, HeapIs
<1>. QED
  BY <1>1 DEF Numbered, Names

\* What the collector follows from a trace is what the trace names.
LEMMA RefsAre ==
  ASSUME IInv, NEW t \in Ids, NEW u \in Ids
  PROVE  u \in Refs(Heap, t) <=> Has(Made, t) /\ Names3(Made, t, u)
<1>1. Made.obj = obj /\ Heap.obj = obj
  BY Facts, HeapIs
<1>2. \A ns : u \in Numbered(Heap, ns) <=> \E n \in ns : Names(Made, n, u)
  BY NumberedIs
<1>. QED
  BY <1>1, <1>2 DEF Refs, Numberless, Has, Names3

\* The invariant is kept when the collector starts marking.
LEMMA StartCycleStep ==
  ASSUME IInv, StartCycle
  PROVE  IInv'
<1>1. PICK V, K : Safe(V, K)
  BY DEF IInv
<1>2. Heap \in Heaps /\ Typed /\ RecInv /\ Colours
  BY DEF IInv
<1>3. /\ gcstate = "pause" /\ gcstate' = "propagate" /\ black' = {}
      /\ UNCHANGED heap /\ color' = color /\ unswept' = unswept /\ GCOnly
  BY DEF StartCycle
<1>4. \A t \in Ids : color[t] = "white"
  BY <1>2, <1>3 DEF Colours
<1>5. Marks(Made, color, {})
  BY <1>4 DEF Marks
<1>6. Sound(Made, V, K, gcstate' = "propagate", color', black')
  BY <1>1, <1>3, <1>5 DEF Safe, Sound
<1>7. Colours'
  BY <1>2, <1>3 DEF Colours, heap
<1>8. frames \subseteq V /\ (run # NULL => run \in K)
  BY <1>1 DEF Safe, Held, Spared
<1>. QED
  BY <1>2, <1>3, <1>6, <1>7, <1>8, CollectStep DEF Typed, GCOnly

\* The invariant is kept when a prototype is marked.
LEMMA MarkProtoStep ==
  ASSUME IInv, NEW p \in Protos, MarkProto(p)
  PROVE  IInv'
<1>1. PICK V, K : Safe(V, K)
  BY DEF IInv
<1>2. Heap \in Heaps /\ Typed /\ RecInv /\ Colours /\ Made.chain = chain
      /\ chain \in [Protos -> 0..MAXTRACE]
  BY Facts, HeapFields, HeapIs
<1>3. /\ gcstate = "propagate" /\ gcstate' = gcstate /\ black' = black \cup {p}
      /\ color' = gc_marktrace(Numbered(Heap, {chain[p]}))
      /\ UNCHANGED heap /\ unswept' = unswept /\ GCOnly
  BY DEF MarkProto
<1>4. \A u \in Ids : u \in Numbered(Heap, {chain[p]}) <=> Names(Made, chain[p], u)
  BY NumberedIs
<1>5. /\ color' \in [Ids -> {"white", "gray", "black"}]
      /\ \A u \in Ids : color'[u] = IF Names(Made, chain[p], u) /\ color[u] = "white"
                                    THEN "gray" ELSE color[u]
  BY <1>2, <1>3, <1>4 DEF gc_marktrace, Typed
<1>6. Darker(Made, color, black, color', black')
  BY <1>2, <1>3, <1>5 DEF Darker
<1>7. Sound(Made, V, K, gcstate = "propagate", color', black')
  BY <1>1, <1>5, <1>6, DarkerSound DEF Safe
<1>8. Colours'
  <2>1. \A u \in Ids : Names(Made, chain[p], u) => obj[u] # NULL
    BY <1>2, Allocated
  <2>. QED
    BY <1>2, <1>3, <1>5, <2>1 DEF Colours, heap
<1>9. frames \subseteq V /\ (run # NULL => run \in K)
  BY <1>1 DEF Safe, Held, Spared
<1>. QED
  BY <1>2, <1>3, <1>5, <1>7, <1>8, <1>9, CollectStep DEF Typed, GCOnly

\* The invariant is kept when a trace is marked.
LEMMA MarkTraceStep ==
  ASSUME IInv, NEW t \in Ids, MarkTrace(t)
  PROVE  IInv'
<1>1. PICK V, K : Safe(V, K)
  BY DEF IInv
<1>2. Heap \in Heaps /\ Typed /\ RecInv /\ Colours /\ Made.obj = obj
  BY Facts
<1>3. /\ gcstate = "propagate" /\ gcstate' = gcstate /\ black' = black
      /\ color' = [gc_marktrace(Refs(Heap, t)) EXCEPT ![t] = "black"]
      /\ UNCHANGED heap /\ unswept' = unswept /\ GCOnly /\ color[t] = "gray"
  BY DEF MarkTrace
<1>4. \A u \in Ids : u \in Refs(Heap, t) <=> Has(Made, t) /\ Names3(Made, t, u)
  BY RefsAre
<1>5. /\ color' \in [Ids -> {"white", "gray", "black"}]
      /\ \A u \in Ids : color'[u] = IF u = t THEN "black"
                                    ELSE IF u \in Refs(Heap, t) /\ color[u] = "white"
                                    THEN "gray" ELSE color[u]
  BY <1>2, <1>3 DEF gc_marktrace, Typed
<1>6. Darker(Made, color, black, color', black')
  BY <1>3, <1>4, <1>5 DEF Darker
<1>7. Sound(Made, V, K, gcstate = "propagate", color', black')
  BY <1>1, <1>5, <1>6, DarkerSound DEF Safe
<1>8. Colours'
  <2>1. obj[t] # NULL
    BY <1>2, <1>3 DEF Colours
  <2>2. ASSUME NEW u \in Refs(Heap, t), u \in Ids PROVE obj[u] # NULL
    <3>1. PICK n \in {obj[t].link, obj[t].nextside, obj[t].nextroot} : Names(Made, n, u)
      BY <1>2, <1>4, <2>2 DEF Names3
    <3>2. n \in 0..MAXTRACE
      BY <2>1, Fields
    <3>. QED
      BY <2>2, <3>1, <3>2, Allocated
  <2>. QED
    BY <1>2, <1>3, <1>5, <2>1, <2>2 DEF Colours, heap
<1>9. frames \subseteq V /\ (run # NULL => run \in K)
  BY <1>1 DEF Safe, Held, Spared
<1>. QED
  BY <1>2, <1>3, <1>5, <1>7, <1>8, <1>9, CollectStep DEF Typed, GCOnly
--------------------------------------------------------------------------------
(* The collector: the atomic phase. *)

\* All that the atomic phase has left white may be freed.
LEMMA VisitedIs ==
  ASSUME IInv, NEW V, NEW K, Safe(V, K), gcstate = "propagate",
         NEW B, B = {t \in Ids : t \in Visited \/ color[t] = "black"}
  PROVE  frames \subseteq B /\ NameClosed(Made, V, B)
<1>1. /\ Typed /\ Made.obj = obj /\ Made.chain = chain
      /\ color \in [Ids -> {"white", "gray", "black"}]
  BY Facts
<1>2. frames \subseteq Ids
  BY <1>1 DEF Typed
<1>3. Sound(Made, V, K, TRUE, color, black)
  BY DEF Safe
<1>4. Marks(Made, color, black) /\ V \subseteq Ids
  BY <1>3 DEF Sound, Kept
<1>5. Unvisited \subseteq Visited
  <2>1. Unvisited \subseteq Ids
    BY <1>2 DEF Unvisited, Numbered
  <2>. QED
    BY <2>1 DEF Visited
<1>6. Visited \subseteq Ids /\ Visited \in SUBSET Ids
  BY DEF Visited
<1>7. ASSUME NEW t \in Visited, color[t] # "black", NEW u \in Ids, u \in Refs(Heap, t)
      PROVE  u \in Visited
  <2>1. \A ts \in SUBSET Ids : Unvisited \subseteq ts /\ Closed(ts) => u \in ts
    BY <1>7 DEF Visited, Closed
  <2>. QED
    BY <2>1 DEF Visited
<1>8. \A t \in Ids : color[t] = "gray" => t \in Visited
  BY <1>5 DEF Unvisited
<1>9. frames \subseteq B
  BY <1>2, <1>5 DEF Unvisited
<1>10. Shadow(Made, color, Visited)
  <2>. SUFFICES ASSUME NEW t \in Ids, Off(Made, t), t \in Visited, color[t] # "black",
                       Made.obj[t].traceno # 0,
                       NEW u \in Ids, Names(Made, Made.obj[t].nextroot, u)
                PROVE  u \in Visited
    BY <1>8 DEF Shadow
  <2>1. Has(Made, t) /\ Names3(Made, t, u)
    BY DEF Off, Has, Names3
  <2>2. u \in Refs(Heap, t)
    BY <2>1, RefsAre
  <2>. QED
    BY <2>2, <1>7
<1>11. \A u \in Ids : Found(color, Visited, u) => u \in B
  BY <1>1, <1>8 DEF Found
<1>12. ASSUME NEW t \in V \cap B, Has(Made, t), NEW u \in Ids, Names3(Made, t, u)
       PROVE  u \in B
  <2>1. CASE color[t] = "black"
    <3>1. CASE Names(Made, Made.obj[t].link, u) \/ Names(Made, Made.obj[t].nextside, u)
      <4>1. color[u] # "white"
        BY <1>4, <1>12, <2>1, <3>1 DEF Marks
      <4>. QED
        BY <4>1, <1>11 DEF Found
    <3>2. CASE Names(Made, Made.obj[t].nextroot, u)
      <4>1. Found(color, Visited, u)
        BY <1>4, <1>6, <1>10, <1>12, <2>1, <3>2 DEF Marks
      <4>. QED
        BY <4>1, <1>11
    <3>. QED
      BY <1>12, <3>1, <3>2 DEF Names3
  <2>2. CASE color[t] # "black"
    <3>1. t \in Visited /\ u \in Refs(Heap, t)
      BY <1>12, <2>2, RefsAre
    <3>. QED
      BY <3>1, <2>2, <1>7
  <2>. QED
    BY <2>1, <2>2
<1>13. ASSUME NEW p \in Protos, NEW u \in Ids, Names(Made, Made.chain[p], u)
       PROVE  u \in B
  <2>1. CASE p \in black
    <3>1. Found(color, Visited, u)
      BY <1>4, <1>6, <1>10, <1>13, <2>1 DEF Marks
    <3>. QED
      BY <3>1, <1>11
  <2>2. CASE p \notin black
    <3>1. u \in Numbered(Heap, {chain[q] : q \in Protos \ black})
      BY <1>1, <1>13, <2>2, NumberedIs
    <3>. QED
      BY <3>1, <1>5 DEF Unvisited
  <2>. QED
    BY <2>1, <2>2
<1>. QED
  BY <1>9, <1>12, <1>13 DEF NameClosed

\* The invariant is kept by the atomic phase.
LEMMA AtomicStep ==
  ASSUME IInv, Atomic
  PROVE  IInv'
<1>1. PICK V, K : Safe(V, K)
  BY DEF IInv
<1>2. Typed /\ RecInv /\ Colours /\ Made.obj = obj
      /\ color \in [Ids -> {"white", "gray", "black"}]
  BY Facts
<1>3. /\ gcstate = "propagate" /\ run = NULL /\ gcstate' = "sweep" /\ black' = Protos
      /\ color' = [t \in Ids |-> IF t \in Visited THEN "black" ELSE color[t]]
      /\ unswept' = {t \in Ids : obj[t] # NULL} /\ UNCHANGED heap /\ GCOnly
  BY DEF Atomic
<1>. DEFINE B == {t \in Ids : t \in Visited \/ color[t] = "black"}
<1>4. frames \subseteq B /\ NameClosed(Made, V, B)
  BY <1>1, <1>3, VisitedIs
<1>5. /\ color' \in [Ids -> {"white", "gray", "black"}]
      /\ \A t \in Ids : color'[t] = IF t \in Visited THEN "black" ELSE color[t]
  BY <1>2, <1>3
<1>6. Sound(Made, V, K, FALSE, color, black) /\ frames \subseteq V
  BY <1>1 DEF Safe, Held, Spared, Sound
<1>7. \A t \in B : color'[t] = "black"
  BY <1>5
<1>8. \A t \in Ids : t \in Visited => t \in unswept'
  <2>. SUFFICES ASSUME NEW t \in Ids, t \in Visited PROVE obj[t] # NULL
    BY <1>3
  <2>. DEFINE ts == {u \in Ids : obj[u] # NULL}
  <2>1. Unvisited \subseteq ts
    <3>1. \A u \in frames : u \in Ids /\ obj[u] # NULL
      BY <1>2, <1>6 DEF Typed, Sound, Kept
    <3>2. \A u \in Ids : color[u] = "gray" => obj[u] # NULL
      BY <1>2 DEF Colours
    <3>3. ASSUME NEW u \in Numbered(Heap, {chain[p] : p \in Protos \ black}), u \in Ids
          PROVE  obj[u] # NULL
      <4>1. PICK p \in Protos : Names(Made, chain[p], u)
        BY <3>3, NumberedIs
      <4>2. chain[p] \in 0..MAXTRACE
        BY HeapFields, HeapIs DEF IInv
      <4>. QED
        BY <3>3, <4>1, <4>2, Allocated
    <3>4. Numbered(Heap, {chain[p] : p \in Protos \ black}) \subseteq Ids
      BY DEF Numbered
    <3>. QED
      BY <3>1, <3>2, <3>3, <3>4 DEF Unvisited
  <2>2. Closed(ts)
    <3>. SUFFICES ASSUME NEW u \in ts, NEW v \in Refs(Heap, u) PROVE v \in ts
      BY DEF Closed
    <3>1. v \in Ids
      BY HeapIs DEF Refs, Numbered
    <3>2. PICK n \in {obj[u].link, obj[u].nextside, obj[u].nextroot} : Names(Made, n, v)
      BY <1>2, <3>1, RefsAre DEF Names3
    <3>3. n \in 0..MAXTRACE
      BY Fields
    <3>. QED
      BY <3>1, <3>2, <3>3, Allocated
  <2>3. t \in ts
    BY <2>1, <2>2 DEF Visited
  <2>. QED
    BY <2>3
<1>9. Colours'
  <2>1. ASSUME NEW t \in Ids
        PROVE  /\ color'[t] = "white" \/ (color'[t] = "black" /\ t \in unswept')
               /\ color'[t] # "white" => obj[t] # NULL
    <3>1. CASE t \in Visited
      BY <1>3, <1>5, <1>8, <3>1
    <3>2. CASE t \notin Visited
      <4>1. color'[t] = color[t]
        BY <1>5, <3>2
      <4>2. color[t] # "gray"
        <5>1. color[t] = "gray" => \A ts \in SUBSET Ids : Unvisited \subseteq ts => t \in ts
          BY DEF Unvisited
        <5>. QED
          BY <3>2, <5>1 DEF Visited
      <4>3. color[t] # "white" => obj[t] # NULL
        BY <1>2 DEF Colours
      <4>. QED
        BY <1>2, <1>3, <4>1, <4>2, <4>3
    <3>. QED
      BY <3>1, <3>2
  <2>. QED
    BY <1>3, <2>1 DEF Colours, heap
<1>. HIDE DEF B
<1>10. Sound(Made, V \cap B, Homely(Made, K, B), FALSE, color', black')
  BY <1>4, <1>6, NarrowSound
<1>11. Sound(Made, V \cap B, Homely(Made, K, B), gcstate' = "propagate", color', black')
  BY <1>3, <1>10 DEF Sound
<1>12. frames \subseteq V \cap B
  BY <1>4, <1>6
<1>13. unswept' \subseteq Ids /\ gcstate' \in {"pause", "propagate", "sweep"}
       /\ black' \subseteq Protos
  BY <1>3
<1>. QED
  BY <1>3, <1>5, <1>7, <1>9, <1>11, <1>12, <1>13, CollectStep

\* The invariant is kept when a cycle ends or is abandoned.
LEMMA CycleEndsStep ==
  ASSUME IInv, AbandonMarking \/ EndCycle
  PROVE  IInv'
<1>1. PICK V, K : Safe(V, K)
  BY DEF IInv
<1>2. Typed /\ Colours
  BY DEF IInv
<1>3. /\ gcstate' = "pause" /\ black' = {} /\ UNCHANGED heap /\ unswept' = unswept
      /\ GCOnly
  BY DEF AbandonMarking, EndCycle
<1>4. color' \in [Ids -> {"white", "gray", "black"}] /\ \A t \in Ids : color'[t] = "white"
  <2>1. CASE AbandonMarking
    BY <2>1 DEF AbandonMarking
  <2>2. CASE EndCycle
    BY <1>2, <2>2 DEF EndCycle, Colours, Typed
  <2>. QED
    BY <2>1, <2>2
<1>5. Colours'
  BY <1>2, <1>3, <1>4 DEF Colours, heap
<1>6. Sound(Made, V, K, gcstate' = "propagate", color', black')
  BY <1>1, <1>3 DEF Safe, Sound
<1>7. frames \subseteq V /\ (run # NULL => run \in K)
  BY <1>1 DEF Safe, Held, Spared
<1>. QED
  BY <1>2, <1>3, <1>4, <1>5, <1>6, <1>7, CollectStep DEF Typed
--------------------------------------------------------------------------------
(* The collector: sweeping. *)

\* A trace may be freed while a recording goes on that does not start from it.
LEMMA FreedFrom ==
  ASSUME NEW h, NEW V, NEW K, NEW cs, NEW bl, NEW t \in Ids, NEW g,
         Freed(h, g, V, K, t, cs, bl), Origin(h, rec),
         \A n \in {rec.parent, rec.exitno, rec.root} : n \in 0..MAXTRACE
  PROVE  Origin(g, rec)
<1>. DEFINE ns == {rec.parent, rec.root, rec.exitno}
<1>1. SUFFICES ASSUME ~ Lost(g, ns) PROVE FromExit(g, rec) \/ FromSite(g, rec)
  BY DEF Origin
<1>2. g.bc = h.bc
  BY DEF Freed
<1>3. ASSUME NEW n \in Numbers, h.trace[n] # t, h.trace[n] \in Ids
      PROVE  g.trace[n] = h.trace[n] /\ g.obj[h.trace[n]] = h.obj[h.trace[n]]
  BY <1>3 DEF Freed
<1>4. \A n \in ns \ {0} : h.trace[n] # t
  BY <1>1, Constants DEF Freed, Lost
<1>5. FromExit(h, rec) \/ FromSite(h, rec)
  BY <1>1, Constants DEF Freed, Lost, Origin
<1>6. CASE FromExit(h, rec)
  <2>1. /\ rec.start = NULL /\ rec.parent \in Numbers /\ rec.root \in Numbers
        /\ rec.exitno = 0
        /\ h.trace[rec.root] \in Ids /\ h.trace[rec.parent] \in Ids
        /\ h.obj[h.trace[rec.root]].root = 0
        /\ IF h.obj[h.trace[rec.parent]].root = 0 THEN rec.parent = rec.root
           ELSE h.obj[h.trace[rec.parent]].root = rec.root
    BY <1>6 DEF FromExit
  <2>2. h.trace[rec.root] # t /\ h.trace[rec.parent] # t
    BY <1>4, <2>1, Constants
  <2>3. /\ g.trace[rec.root] = h.trace[rec.root]
        /\ g.obj[h.trace[rec.root]] = h.obj[h.trace[rec.root]]
        /\ g.trace[rec.parent] = h.trace[rec.parent]
        /\ g.obj[h.trace[rec.parent]] = h.obj[h.trace[rec.parent]]
    BY <1>3, <2>1, <2>2
  <2>. QED
    BY <2>1, <2>3 DEF FromExit
<1>7. CASE FromSite(h, rec)
  <2>1. rec.start \in Sites /\ rec.parent = 0 /\ rec.root = 0
        /\ IF KindOf[rec.start] = "CALL"
           THEN /\ rec.exitno \in Numbers /\ h.trace[rec.exitno] \in Ids
                /\ h.obj[h.trace[rec.exitno]].link = 0
           ELSE rec.exitno = 0 /\ h.bc[rec.start] = Plain
    BY <1>7 DEF FromSite
  <2>2. CASE KindOf[rec.start] = "CALL"
    <3>1. h.trace[rec.exitno] # t
      BY <1>4, <2>1, <2>2, Constants
    <3>2. /\ g.trace[rec.exitno] = h.trace[rec.exitno]
          /\ g.obj[h.trace[rec.exitno]] = h.obj[h.trace[rec.exitno]]
      BY <1>3, <2>1, <2>2, <3>1
    <3>. QED
      BY <2>1, <2>2, <3>2 DEF FromSite
  <2>3. CASE KindOf[rec.start] # "CALL"
    BY <1>2, <2>1, <2>3 DEF FromSite
  <2>. QED
    BY <2>2, <2>3
<1>. QED
  BY <1>6, <1>7, <1>5

\* Freeing a trace and making the patch may come in either order.
LEMMA FreeRepatched ==
  ASSUME NEW h \in Heaps, Registered(h), Typed, patch.pc # NULL => patch.ins \in Numbers,
         NEW t \in Ids, h.obj[t] # NULL, Registered(Repatch(h))
  PROVE  /\ lj_trace_free(h, t) \in Heaps
         /\ Repatch(lj_trace_free(h, t)) = lj_trace_free(Repatch(h), t)
<1>. DEFINE x == lj_trace_free(h, t)
            k == Repatch(h)
            y == lj_trace_free(k, t)
            n == h.obj[t].traceno
<1>1. /\ x \in Heaps /\ x.bc = h.bc /\ x.chain = h.chain /\ x.iloop = h.iloop
      /\ x.curno = h.curno /\ x.obj[t] = NULL
      /\ \A u \in Ids : u # t => x.obj[u] = h.obj[u]
      /\ \A m \in Numbers : x.trace[m] = IF m = n THEN NULL ELSE h.trace[m]
      /\ x.freetrace = IF n # 0 /\ n < h.freetrace THEN n ELSE h.freetrace
  BY FreeFields
<1>2. /\ k \in Heaps /\ k.chain = h.chain /\ k.iloop = h.iloop /\ k.obj = h.obj
      /\ k.trace = h.trace /\ k.freetrace = h.freetrace /\ k.curno = h.curno
      /\ \A s \in Sites : k.bc[s] = IF s = patch.pc THEN patch.ins ELSE h.bc[s]
  BY RepatchIs
<1>. HIDE DEF x, k
<1>3. /\ y \in Heaps /\ y.bc = k.bc /\ y.chain = k.chain /\ y.iloop = k.iloop
      /\ y.curno = k.curno /\ y.obj[t] = NULL
      /\ \A u \in Ids : u # t => y.obj[u] = k.obj[u]
      /\ \A m \in Numbers : y.trace[m] = IF m = n THEN NULL ELSE k.trace[m]
      /\ y.freetrace = IF n # 0 /\ n < k.freetrace THEN n ELSE k.freetrace
  <2>1. Registered(k) /\ k.obj[t] # NULL /\ k.obj[t].traceno = n
    BY <1>2 DEF k
  <2>. HIDE DEF n
  <2>. QED
    BY <1>2, <2>1, FreeFields
<1>. HIDE DEF y, n
<1>. DEFINE z == Repatch(x)
<1>4. /\ z \in Heaps /\ z.chain = x.chain /\ z.iloop = x.iloop /\ z.obj = x.obj
      /\ z.trace = x.trace /\ z.freetrace = x.freetrace /\ z.curno = x.curno
      /\ \A s \in Sites : z.bc[s] = IF s = patch.pc THEN patch.ins ELSE x.bc[s]
  BY <1>1, RepatchIs
<1>. HIDE DEF z
<1>5. z.bc = y.bc
  <2>1. z.bc \in [Sites -> Numbers \cup {Plain, Barred}]
        /\ y.bc \in [Sites -> Numbers \cup {Plain, Barred}]
    BY <1>3, <1>4, HeapFields
  <2>2. \A s \in Sites : z.bc[s] = y.bc[s]
    BY <1>1, <1>2, <1>3, <1>4
  <2>. QED
    BY <2>1, <2>2
<1>6. z.obj = y.obj
  <2>1. z.obj \in [Ids -> GCtrace \cup {NULL}] /\ y.obj \in [Ids -> GCtrace \cup {NULL}]
    BY <1>3, <1>4, HeapFields
  <2>2. \A u \in Ids : z.obj[u] = y.obj[u]
    BY <1>1, <1>2, <1>3, <1>4
  <2>. QED
    BY <2>1, <2>2
<1>7. z.trace = y.trace
  <2>1. z.trace \in [Numbers -> Ids \cup {NULL, CUR}]
        /\ y.trace \in [Numbers -> Ids \cup {NULL, CUR}]
    BY <1>3, <1>4, HeapFields
  <2>2. \A m \in Numbers : z.trace[m] = y.trace[m]
    BY <1>1, <1>2, <1>3, <1>4
  <2>. QED
    BY <2>1, <2>2
<1>8. /\ z.chain = y.chain /\ z.iloop = y.iloop /\ z.curno = y.curno
      /\ z.freetrace = y.freetrace
  BY <1>1, <1>2, <1>3, <1>4
<1>9. z = y
  BY <1>3, <1>4, <1>5, <1>6, <1>7, <1>8, HeapsEqual
<1>. QED
  BY <1>1, <1>9 DEF x, y, z, k

\* The invariant is kept when a trace is swept.
LEMMA SweepStep ==
  ASSUME IInv, NEW t \in Ids, Sweep(t)
  PROVE  IInv'
<1>1. PICK V, K : Safe(V, K)
  BY DEF IInv
<1>2. /\ Heap \in Heaps /\ Typed /\ RecInv /\ Colours /\ Made \in Heaps
      /\ Made.obj = obj /\ Made.trace = trace /\ Made.curno = curno
      /\ color \in [Ids -> {"white", "gray", "black"}]
  BY Facts
<1>3. /\ gcstate = "sweep" /\ t \in unswept /\ unswept' = unswept \ {t}
      /\ color' = [color EXCEPT ![t] = "white"]
      /\ gcstate' = gcstate /\ black' = black /\ GCOnly
  BY DEF Sweep
<1>4. /\ color' \in [Ids -> {"white", "gray", "black"}]
      /\ \A u \in Ids : color'[u] = IF u = t THEN "white" ELSE color[u]
  BY <1>2, <1>3
<1>5. /\ Sound(Made, V, K, FALSE, color, black) /\ frames \subseteq V
      /\ \A u \in V \cap unswept : color[u] = "black"
      /\ (run # NULL => run \in K)
  BY <1>1, <1>3 DEF Safe, Held, Spared, Sound
<1>6. \A u \in V \cap unswept' : color'[u] = "black"
  BY <1>2, <1>3, <1>4, <1>5 DEF Typed
<1>7. \A u \in unswept' : u # t /\ u \in Ids /\ u \in unswept
  BY <1>2, <1>3 DEF Typed
<1>8. CASE color[t] = "black" /\ UNCHANGED heap
  <2>1. Sound(Made, V, K, gcstate' = "propagate", color', black')
    BY <1>3, <1>5 DEF Sound
  <2>2. Colours'
    BY <1>2, <1>3, <1>4, <1>7, <1>8 DEF Colours, heap
  <2>3. black' \subseteq Protos /\ unswept' \subseteq Ids /\ gcstate' = "sweep"
    BY <1>2, <1>3 DEF Typed
  <2>. QED
    BY <1>3, <1>4, <1>5, <1>6, <1>8, <2>1, <2>2, <2>3, CollectStep
<1>9. CASE color[t] = "white" /\ Becomes(lj_trace_free(Heap, t))
  <2>. DEFINE x == lj_trace_free(Heap, t)
              y == lj_trace_free(Made, t)
  <2>1. obj[t] # NULL /\ t \notin V
    BY <1>2, <1>3, <1>5, <1>9 DEF Colours
  <2>2. Registered(Made) /\ Registered(Heap)
    <3>1. Registered(Made)
      BY <1>5 DEF Sound, HeapInv
    <3>. QED
      BY <1>2, <3>1, HeapIs DEF Registered
  <2>3. patch.pc # NULL => patch.ins \in Numbers
    BY <1>2 DEF RecInv
  <2>4. x \in Heaps /\ Repatch(x) = y
    BY <1>2, <2>1, <2>2, <2>3, HeapIs, FreeRepatched DEF Made
  <2>5. Freed(Made, y, V, K, t, color, black)
    BY <1>2, <1>5, <2>1, FreeSound
  <2>6. Becomes(x)
    BY <1>9
  <2>. HIDE DEF x, y
  <2>7. Heap' = x
    BY <2>4, <2>6, BecomesHeap
  <2>8. /\ nojit' = nojit /\ severed' = severed
        /\ state' = state /\ rec' = rec /\ patch' = patch
        /\ run' = run /\ frames' = frames
    BY <1>3 DEF GCOnly, modes, recording
  <2>9. Made' = y
    <3>1. Made' = IF patch'.pc = NULL THEN Heap'
                  ELSE [Heap' EXCEPT !.bc[patch'.pc] = patch'.ins]
      BY DEF Made, Repatch
    <3>2. y = IF patch.pc = NULL THEN x ELSE [x EXCEPT !.bc[patch.pc] = patch.ins]
      BY <2>4 DEF Repatch
    <3>. QED
      BY <2>7, <2>8, <3>1, <3>2
  <2>10. /\ Sound(y, V, K, FALSE, color, black) /\ y.curno = curno /\ y.obj[t] = NULL
         /\ \A u \in Ids : u # t => y.obj[u] = obj[u]
    BY <1>2, <2>5 DEF Freed
  <2>11. /\ x.obj = y.obj /\ x.curno = y.curno /\ x.bc = bc
    <3>1. Repatch(x).obj = x.obj /\ Repatch(x).curno = x.curno
      BY <1>2, <2>3, <2>4, RepatchIs
    <3>2. x.bc = bc
      BY <1>2, <2>1, <2>2, HeapIs, FreeFields DEF x
    <3>. QED
      BY <2>4, <3>1, <3>2
  <2>12. obj' = y.obj /\ curno' = curno /\ bc' = bc
    BY <2>7, <2>10, <2>11 DEF Heap
  <2>13. Typed'
    BY <1>2, <1>3, <1>4, <2>8 DEF Typed
  <2>14. RecInv'
    <3>1. \A n \in {rec.parent, rec.exitno, rec.root} : n \in 0..MAXTRACE
      BY <1>2 DEF Typed
    <3>2. state # "IDLE" => Origin(y, rec)
      BY <1>2, <2>5, <3>1, FreedFrom DEF RecInv
    <3>. QED
      BY <1>2, <2>8, <2>9, <2>12, <3>2 DEF RecInv
  <2>15. Colours'
    BY <1>2, <1>3, <1>4, <1>7, <2>10, <2>12 DEF Colours
  <2>16. Sound(y, V, K, gcstate' = "propagate", color', black')
    BY <1>3, <2>10 DEF Sound
  <2>17. Safe(V, K)'
    BY <1>3, <1>5, <1>6, <2>8, <2>9, <2>16 DEF Safe, Held, Spared
  <2>. QED
    BY <2>4, <2>7, <2>13, <2>14, <2>15, <2>17 DEF IInv
<1>. QED
  BY <1>8, <1>9 DEF Sweep
--------------------------------------------------------------------------------
(* The theorems. *)

\* The invariant holds at first.
LEMMA Starts == Init => IInv
<1>. SUFFICES ASSUME Init PROVE IInv
  OBVIOUS
<1>1. /\ bc = [s \in Sites |-> Plain]
      /\ chain = [p \in Protos |-> 0] /\ iloop = {} /\ nojit = {}
      /\ obj = [t \in Ids |-> NULL]
      /\ trace = [n \in Numbers |-> NULL] /\ freetrace = 0 /\ curno = 0
      /\ state = "IDLE" /\ rec = NoRec /\ patch = NoPatch
      /\ run = NULL /\ frames = {} /\ severed = FALSE
      /\ gcstate = "pause" /\ black = {} /\ unswept = {}
      /\ color = [t \in Ids |-> "white"]
  BY DEF Init
<1>2. 0 \in 0..MAXTRACE /\ 0 \in 0..MAXTRACE + 1 /\ MAXTRACE \in Nat
  BY Constants
<1>3. /\ Heap.bc = bc /\ Heap.chain = chain /\ Heap.iloop = iloop /\ Heap.obj = obj
      /\ Heap.trace = trace /\ Heap.freetrace = freetrace /\ Heap.curno = curno
  BY HeapIs
<1>4. Heap \in Heaps
  <2>1. /\ bc \in [Sites -> Numbers \cup {Plain, Barred}]
        /\ chain \in [Protos -> 0..MAXTRACE] /\ iloop \in SUBSET Protos
        /\ obj \in [Ids -> GCtrace \cup {NULL}]
        /\ trace \in [Numbers -> Ids \cup {NULL, CUR}]
        /\ freetrace \in 0..MAXTRACE + 1 /\ curno \in 0..MAXTRACE
    BY <1>1, <1>2
  <2>. QED
    BY <2>1 DEF Heap, Heaps
<1>5. Typed
  <2>1. NoRec \in [start : Sites \cup {NULL}, root : 0..MAXTRACE,
                   parent : 0..MAXTRACE, exitno : 0..MAXTRACE]
    BY <1>2 DEF NoRec
  <2>2. NoPatch \in [pc : Sites \cup {NULL}, ins : 0..MAXTRACE, bcskip : 0..1]
    BY <1>2 DEF NoPatch
  <2>. QED
    BY <1>1, <2>1, <2>2 DEF Typed
<1>6. RecInv
  BY <1>1 DEF RecInv, NoPatch
<1>7. Colours
  BY <1>1 DEF Colours
<1>8. Made = Heap
  BY <1>6, <1>1, IdleMade
<1>9. Registered(Heap) /\ Rooted(Heap) /\ Barring(Heap) /\ Counted(Heap)
  <2>1. Registered(Heap)
    BY <1>1, <1>3, Constants DEF Registered
  <2>2. Rooted(Heap)
    BY <1>1, <1>3 DEF Rooted
  <2>3. Barring(Heap)
    BY <1>1, <1>3, Constants DEF Barring
  <2>4. Counted(Heap)
    <3>1. 1..Heap.freetrace - 1 = {}
      BY <1>1, <1>3
    <3>. QED
      BY <1>1, <1>3, <3>1 DEF Counted
  <2>. QED
    BY <2>1, <2>2, <2>3, <2>4
<1>10. ASSUME NEW p \in Protos PROVE \E L : IsChain(Heap, p, L) /\ Led(Heap, p, L)
  <2>. DEFINE L == <<>>
  <2>1. L \in Seq(Numbers) /\ DOMAIN L = {} /\ Range(L) = {} /\ IsInjective(L)
    BY DEF Range, IsInjective
  <2>2. IsChain(Heap, p, L)
    BY <1>1, <1>3, <2>1 DEF IsChain
  <2>3. Led(Heap, p, L)
    BY <1>1, <1>3, <2>1, Constants DEF Led
  <2>. QED
    BY <2>2, <2>3
<1>11. HeapInv(Heap)
  BY <1>4, <1>9, <1>10 DEF HeapInv, Chained
<1>12. Kept(Heap, {}, {}) /\ InTree(Heap, {})
  BY <1>1, <1>3 DEF Kept, InTree
<1>13. Safe({}, {})
  BY <1>1, <1>8, <1>9, <1>11, <1>12 DEF Safe, Sound, Held, Spared
<1>. QED
  BY <1>4, <1>5, <1>6, <1>7, <1>13 DEF IInv

\* The invariant is kept by steps that change nothing.
LEMMA Stutters ==
  ASSUME IInv, UNCHANGED vars
  PROVE  IInv'
<1>1. Made' = Made /\ Heap' = Heap
  BY DEF vars, heap, recording, Made, Repatch, Heap
<1>2. PICK V, K : Safe(V, K)
  BY DEF IInv
<1>3. Safe(V, K)'
  BY <1>1, <1>2 DEF vars, gc, Safe, Held, Spared
<1>4. Typed' /\ Colours'
  BY DEF vars, heap, modes, recording, gc, IInv, Typed, Colours
<1>5. RecInv'
  BY <1>1 DEF vars, heap, recording, IInv, RecInv
<1>. QED
  BY <1>1, <1>3, <1>4, <1>5 DEF IInv

\* The inductive invariant of the specification: heap, recording, colours, and what
\* may be run is kept, as the code of src/lj_trace.c and src/lj_gc.c leaves them
\* between any two of its steps, if no abort is pending while other code runs.
LEMMA Invariance ==
  ASSUME ~ PendingAborts
  PROVE  Spec => []IInv
<1>1. Init => IInv
  BY Starts
<1>2. IInv /\ [Next]_vars => IInv'
  <2>. SUFFICES ASSUME IInv, [Next]_vars PROVE IInv'
    OBVIOUS
  <2>1. CASE Record
    BY <2>1, InsStep, ErrorStep, ThrowStep, CrashStep, HotStep, FuncJITStep, DownrecStep,
       StopStep DEF Record
  <2>2. CASE Execute
    BY <2>2, RunningStep, EnterStep, ExitHotStep, ReturnStep DEF Execute
  <2>3. CASE Control
    BY <2>3, ControlStep
  <2>4. CASE Collect
    BY <2>4, StartCycleStep, CycleEndsStep, AtomicStep, MarkProtoStep, MarkTraceStep,
       SweepStep DEF Collect
  <2>5. CASE UNCHANGED vars
    BY <2>5, Stutters
  <2>. QED
    BY <2>1, <2>2, <2>3, <2>4, <2>5 DEF Next
<1>. QED
  BY <1>1, <1>2, PTL DEF Spec

\* The invariant says that numbers are exact.
LEMMA NumbersHold == IInv => NumbersExact
<1>. SUFFICES ASSUME IInv PROVE NumbersExact
  OBVIOUS
<1>1. PICK V, K : Safe(V, K)
  BY DEF IInv
<1>2. /\ RecInv /\ Made.obj = obj /\ Made.trace = trace /\ Made.curno = curno
      /\ Made.freetrace = freetrace
  BY Facts
<1>3. Registered(Made) /\ Counted(Made)
  BY <1>1 DEF Safe, Sound, HeapInv
<1>4. \A n \in Numbers, t \in Ids : trace[n] = t <=> obj[t] # NULL /\ obj[t].traceno = n
  BY <1>2, <1>3 DEF Registered
<1>5. \A n \in Numbers : trace[n] = CUR <=> curno = n
  BY <1>2, <1>3, Constants DEF Registered, Counted
<1>6. /\ curno # 0 => state # "IDLE"
      /\ \A n \in 1..freetrace - 1 : trace[n] # NULL
  BY <1>2, <1>3 DEF RecInv, Counted
<1>. QED
  BY <1>4, <1>5, <1>6 DEF NumbersExact

\* The operand of an instruction is the one it has with the pending patch made.
LEMMA OperandIs ==
  ASSUME IInv, NEW s \in Sites
  PROVE  Operand(s) = {Made.bc[s]} \cap Numbers
<1>1. Made.bc[s] = IF s = patch.pc THEN patch.ins ELSE bc[s]
  BY Facts
<1>. QED
  BY <1>1 DEF Operand

\* The invariant says that the bytecode is exact.
LEMMA BytecodeHolds == IInv => BytecodeExact
<1>. SUFFICES ASSUME IInv PROVE BytecodeExact
  OBVIOUS
<1>1. PICK V, K : Safe(V, K)
  BY DEF IInv
<1>2. /\ Heap \in Heaps /\ RecInv /\ Made \in Heaps /\ Made.obj = obj
      /\ Made.trace = trace /\ Made.chain = chain /\ Made.iloop = iloop
      /\ \A s \in Sites : Made.bc[s] = IF s = patch.pc THEN patch.ins ELSE bc[s]
  BY Facts
<1>3. /\ HeapInv(Made) /\ Registered(Made) /\ Rooted(Made) /\ Chained(Made)
      /\ Barring(Made)
  BY <1>1 DEF Safe, Sound, HeapInv
<1>4. ASSUME NEW s \in Sites
      PROVE  Operand(s) = {n \in OnChain(Heap, ProtoOf[s]) :
                             trace[n] \in Ids /\ obj[trace[n]].start = s}
  <2>1. PICK L : IsChain(Made, ProtoOf[s], L) /\ Led(Made, ProtoOf[s], L)
    BY <1>3, Constants DEF Chained
  <2>2. IsChain(Heap, ProtoOf[s], L)
    BY <1>2, <2>1, HeapIs, SameChains
  <2>3. OnChain(Heap, ProtoOf[s]) = Range(L)
    BY <2>2, ChainIs
  <2>4. {Made.bc[s]} \cap Numbers = {n \in Range(L) : obj[trace[n]].start = s}
    BY <1>2, <2>1 DEF Led
  <2>5. \A n \in Range(L) : trace[n] \in Ids
    BY <1>2, <1>3, <2>1, ChainTrace
  <2>. QED
    BY <2>3, <2>4, <2>5, OperandIs
<1>5. \A s \in Sites : bc[s] = Barred /\ KindOf[s] # "ITERN" => ProtoOf[s] \in iloop
  <2>. SUFFICES ASSUME NEW s \in Sites, bc[s] = Barred, KindOf[s] # "ITERN"
                PROVE  ProtoOf[s] \in iloop
    OBVIOUS
  <2>1. s # patch.pc
    BY <1>2, Constants DEF RecInv
  <2>. QED
    BY <1>2, <1>3, <2>1 DEF Barring
<1>6. state = "IDLE" => patch = NoPatch
  BY <1>2 DEF RecInv
<1>. QED
  BY <1>4, <1>5, <1>6 DEF BytecodeExact

\* The invariant says that what may be run is live.
LEMMA TracesHold == IInv => TracesLive
<1>. SUFFICES ASSUME IInv PROVE TracesLive
  OBVIOUS
<1>1. PICK V, K : Safe(V, K)
  BY DEF IInv
<1>2. /\ Made \in Heaps /\ Made.obj = obj /\ Made.trace = trace
  BY Facts
<1>3. Sound(Made, V, K, gcstate = "propagate", color, black) /\ frames \subseteq V
      /\ (run # NULL => run \in K)
  BY <1>1 DEF Safe, Held, Spared
<1>4. Registered(Made) /\ Rooted(Made) /\ Kept(Made, V, K) /\ InTree(Made, K)
  BY <1>3 DEF Sound, HeapInv
<1>5. K \subseteq V /\ V \subseteq Ids /\ \A t \in V : obj[t] # NULL
  BY <1>2, <1>4 DEF Kept
<1>6. ASSUME NEW n \in Entered \ {0}
      PROVE  trace[n] \in K
  <2>1. CASE \E s \in Sites : n \in Operand(s)
    <3>1. PICK s \in Sites : n = Made.bc[s] /\ Made.bc[s] \in Numbers
      BY <2>1, OperandIs
    <3>. QED
      BY <1>2, <1>3, <3>1, LedKept
  <2>2. CASE \E t \in frames : obj[t] # NULL /\ obj[t].link # obj[t].traceno
                                 /\ n = obj[t].link
    <3>1. PICK t \in frames : obj[t] # NULL /\ obj[t].link # obj[t].traceno
                                /\ n = obj[t].link
      BY <2>2
    <3>2. t \in V /\ t \in Ids /\ obj[t].link # 0
      BY <1>3, <1>5, <1>6, <3>1
    <3>3. obj[t].traceno # 0
      BY <1>2, <1>4, <3>1, <3>2 DEF Rooted
    <3>4. trace[n] \in V /\ obj[trace[n]].root = 0
      BY <1>2, <1>4, <3>1, <3>2, <3>3 DEF Kept
    <3>5. n \in Numbers
      BY <3>1, <3>2, Fields, Constants
    <3>6. obj[trace[n]].traceno # 0
      BY <1>2, <1>4, <1>5, <3>4, <3>5, Constants DEF Registered
    <3>. QED
      BY <1>2, <1>4, <3>4, <3>6 DEF Kept
  <2>. DEFINE linking == {t \in frames : obj[t] # NULL /\ obj[t].link # obj[t].traceno}
  <2>3. n \in (UNION {Operand(s) : s \in Sites}) \/ n \in {obj[t].link : t \in linking}
    BY <1>6 DEF Entered
  <2>4. n \in UNION {Operand(s) : s \in Sites} => \E s \in Sites : n \in Operand(s)
    OBVIOUS
  <2>5. n \in {obj[t].link : t \in linking} => \E t \in linking : n = obj[t].link
    OBVIOUS
  <2>6. \A t \in linking : t \in frames /\ obj[t] # NULL /\ obj[t].link # obj[t].traceno
    OBVIOUS
  <2>. HIDE DEF linking
  <2>. QED
    BY <2>1, <2>2, <2>3, <2>4, <2>5, <2>6
<1>7. Runnable \subseteq K
  <2>. DEFINE S == ({trace[n] : n \in Entered \ {0}} \cup {run}) \ {NULL}
  <2>1. S \cap Ids \subseteq K
    BY <1>3, <1>6
  <2>2. \A u \in K : obj[u] # NULL => obj[u].jumps \subseteq K
    BY <1>2, <1>4 DEF InTree
  <2>3. K \in SUBSET Ids
    BY <1>5
  <2>4. \A t \in Runnable : \A ts \in SUBSET Ids :
          S \cap Ids \subseteq ts /\ (\A u \in ts : obj[u] # NULL => obj[u].jumps \subseteq ts)
            => t \in ts
    BY DEF Runnable
  <2>. HIDE DEF S
  <2>. QED
    BY <2>1, <2>2, <2>3, <2>4
<1>8. ASSUME NEW t \in Runnable
      PROVE  obj[t] # NULL /\ obj[t].traceno # 0 /\ trace[obj[t].traceno] = t
  <2>1. t \in K
    BY <1>7
  <2>. QED
    BY <1>2, <1>3, <2>1, RunningIs, Constants
<1>9. ASSUME NEW t \in Runnable \cup frames, obj[t].traceno # 0,
             NEW n \in {obj[t].link, obj[t].nextroot, obj[t].nextside} \ {0}
      PROVE  trace[n] \in Ids
  <2>1. t \in V
    BY <1>3, <1>5, <1>7
  <2>2. trace[n] \in V
    BY <1>2, <1>4, <1>9, <2>1 DEF Kept
  <2>. QED
    BY <1>5, <2>2
<1>10. \A t \in frames : obj[t] # NULL
  BY <1>3, <1>5
<1>11. \A n \in Entered \ {0} : trace[n] \in Ids
  BY <1>5, <1>6
<1>. QED
  BY <1>8, <1>9, <1>10, <1>11 DEF TracesLive

\* Every variable has its type, after any steps of the trace compiler's life cycle.
THEOREM TypeCorrect ==
  ASSUME ~ PendingAborts
  PROVE  Spec => []TypeOK
<1>1. IInv => TypeOK
  BY TypeOKIs DEF IInv
<1>. QED
  BY <1>1, Invariance, PTL

\* Trace numbers are exact: J->trace, traceno and freetrace agree through stops,
\* aborts, flushes and frees, for any number of traces.
THEOREM NumbersAreExact ==
  ASSUME ~ PendingAborts
  PROVE  Spec => []NumbersExact
BY NumbersHold, Invariance, PTL

\* The bytecode leads to exactly the traces on the chains of its prototypes, whatever
\* trace_stop, trace_unpatch, trace_flushroot, trace_pendpatch, blacklist_pc and
\* lj_trace_reenableproto did, and in whatever order.
THEOREM BytecodeIsExact ==
  ASSUME ~ PendingAborts
  PROVE  Spec => []BytecodeExact
BY BytecodeHolds, Invariance, PTL

\* No trace that can be run, or that the collector follows a number to, is freed or
\* loses its number first: gc_marktrace, gc_traverse_trace, lj_trace_free and the
\* barrier of trace_save, however marking, sweeping, recording and flushing mix, until
\* the compiler crashes on a trace that its recording started from and that is gone.
THEOREM TracesStayLive ==
  ASSUME ~ PendingAborts
  PROVE  Spec => []TracesLive
BY TracesHold, Invariance, PTL

\* A trace runs only while nothing is recorded (the assertion in trace_hotside), if
\* no abort is pending while other code runs.
THEOREM RunsOnlyIdle ==
  ASSUME ~ PendingAborts
  PROVE  Spec => []RunsIdle
<1>1. IInv => RunsIdle
  BY DEF IInv, RecInv, RunsIdle
<1>. QED
  BY <1>1, Invariance, PTL
================================================================================
