-------------------------------- MODULE Trace ---------------------------------
(***************************************************************************)
(* The life of compiled traces, src/lj_trace.c: recording starts at a hot  *)
(* loop or function, at a hot exit of a trace or after a call that a trace *)
(* was stitched at; it ends with a trace that the bytecode, an exit or the *)
(* previous trace leads to, or is aborted.  Traces are flushed by number,  *)
(* by prototype and all together, and collected by src/lj_gc.c, which      *)
(* finds them through their numbers.                                       *)
(*                                                                         *)
(* A site is a bytecode instruction at which a trace may start.  What is   *)
(* recorded, optimised and assembled is left out: any of the ways to end a *)
(* recording may come at any of its instructions.  Hooks, hot counts, and  *)
(* whether the compiler is on only keep recordings from starting, and are  *)
(* left open.                                                              *)
(***************************************************************************)
EXTENDS Integers, FiniteSets

CONSTANTS
  Protos, Sites,
  ProtoOf,    \* of a site: its prototype
  KindOf,     \* of a site: LOOP (and FORL, ITERL), ITERN, FUNCF, RET or CALL
  Ids,        \* trace objects
  MAXTRACE,   \* J->param[JIT_P_maxtrace]
  MaxFrames,  \* bound: the traces with a stitched call on the stack
  PendingAborts, \* whether anything comes between the error that aborts a
                 \* recording and the next interpreted instruction
  NULL, CUR   \* no trace; the trace that is being recorded, J->cur

Numbers == 1..MAXTRACE
Plain == 0
Barred == -1
Bad == -2     \* not an instruction the code is meant to make

GCtrace ==
  [traceno : 0..MAXTRACE,
   start : Sites \cup {NULL},  \* startpc; NULL (startins is JMP): a side trace
   root : 0..MAXTRACE, link : 0..MAXTRACE,
   nextroot : 0..MAXTRACE, nextside : 0..MAXTRACE,
   linktype : {"LOOP", "ROOT", "RETURN", "STITCH"},
   jumps : SUBSET Ids]         \* where its machine code jumps to

ASSUME TraceAssumption ==
  /\ MAXTRACE \in Nat \ {0} /\ MaxFrames \in Nat /\ PendingAborts \in BOOLEAN
  /\ ProtoOf \in [Sites -> Protos]
  /\ KindOf \in [Sites -> {"LOOP", "ITERN", "FUNCF", "RET", "CALL"}]
  /\ NULL \notin Ids \cup Sites \cup GCtrace /\ CUR \notin Ids \cup {NULL}

VARIABLES
  bc,        \* of each site: Plain, Barred (ILOOP), or the number in its JLOOP
  chain, iloop, nojit,    \* prototypes: pt->trace; PROTO_ILOOP, PROTO_NOJIT set
  obj,       \* of each id: the trace, or NULL
  trace, freetrace,       \* J->trace, J->freetrace
  curno,     \* J->cur.traceno
  state,     \* J->state; ABORTED: LJ_TRACE_ACTIVE was cleared; CRASHED: the
             \* compiler has written to a trace that is gone
  rec,       \* of the recording: J->cur.startpc, J->cur.root, parent, exitno
  patch,     \* J->patchpc, J->patchins, J->bcskip
  run,       \* the trace that is being executed, or NULL
  frames,    \* the traces in the stitched frames on the stack
  severed,   \* history: a flush has cut off a trace with a stitched call
  gcstate, black, color, unswept  \* the collector: prototypes and traces marked

heap == <<bc, chain, iloop, obj, trace, freetrace, curno>>
modes == <<nojit, severed>>
recording == <<state, rec, patch>>
gc == <<gcstate, black, color, unswept>>
vars == <<heap, modes, recording, run, frames, gc>>

\* The traces and what leads to them as one value, for calls made in sequence.
Heap == [bc |-> bc, chain |-> chain, iloop |-> iloop, obj |-> obj,
         trace |-> trace, freetrace |-> freetrace, curno |-> curno]
Becomes(h) ==
  /\ bc' = h.bc /\ chain' = h.chain /\ iloop' = h.iloop /\ obj' = h.obj
  /\ trace' = h.trace /\ freetrace' = h.freetrace /\ curno' = h.curno

NoRec == [start |-> NULL, root |-> 0, parent |-> 0, exitno |-> 0]
NoPatch == [pc |-> NULL, ins |-> 0, bcskip |-> 0]
--------------------------------------------------------------------------------
(* Trace numbers. *)
From(h) == IF h.freetrace = 0 THEN 1 ELSE h.freetrace
\* The number trace_findfree returns, 0 if there is none.
trace_findfree(h) ==
  LET free == {n \in From(h)..MAXTRACE : h.trace[n] = NULL} IN
  IF free = {} THEN 0 ELSE CHOOSE n \in free : \A m \in free : n <= m

\* Defective: a number that is given back is not looked at again.
ReleaseForgotten(h, n) == [h EXCEPT !.trace[n] = NULL]
Release(h, n) ==
  [h EXCEPT !.trace[n] = NULL,
            !.freetrace = IF n < @ THEN n ELSE @]

lj_trace_free(h, t) ==
  [(IF h.obj[t].traceno = 0 THEN h ELSE Release(h, h.obj[t].traceno))
     EXCEPT !.obj[t] = NULL]
--------------------------------------------------------------------------------
(* Flushing. *)

\* The i-th number on the chain of prototype p, 0 behind its end.
Chain(h, p) ==
  LET at[i \in Numbers] ==
        IF i = 1 THEN h.chain[p]
        ELSE IF at[i - 1] = 0 THEN 0
        ELSE IF h.trace[at[i - 1]] \notin Ids THEN 0
        ELSE h.obj[h.trace[at[i - 1]]].nextroot IN at
OnChain(h, p) == {Chain(h, p)[i] : i \in Numbers} \ {0}

trace_unpatch(h, t) ==
  IF h.bc[h.obj[t].start] \in Numbers
  THEN [h EXCEPT !.bc[h.obj[t].start] = Plain] ELSE h

\* Unlink root trace t from its chain, if it is still there.
Unlink(h, t) ==
  LET T == h.obj[t] IN
  LET p == ProtoOf[T.start] IN
  IF h.chain[p] = T.traceno THEN [h EXCEPT !.chain[p] = T.nextroot]
  ELSE [h EXCEPT !.obj = [u \in Ids |->
          IF h.obj[u] # NULL /\ h.obj[u].traceno \in OnChain(h, p)
               /\ h.obj[u].nextroot = T.traceno
          THEN [h.obj[u] EXCEPT !.nextroot = T.nextroot] ELSE h.obj[u]]]
trace_flushroot(h, t) ==
  IF h.obj[t].traceno \in OnChain(h, ProtoOf[h.obj[t].start])
  THEN trace_unpatch(Unlink(h, t), t) ELSE h

lj_trace_flush(h, n) ==
  LET t == h.trace[n] IN
  IF t \in Ids /\ h.obj[t].root = 0 THEN trace_flushroot(h, t) ELSE h

lj_trace_flushproto(h, p) ==
  LET f[i \in 0..MAXTRACE] ==
        IF i = 0 THEN h
        ELSE IF f[i - 1].chain[p] = 0 THEN f[i - 1]
        ELSE trace_flushroot(f[i - 1], f[i - 1].trace[f[i - 1].chain[p]]) IN
  f[MAXTRACE]

\* Number n of lj_trace_flushall.
FlushNumber(h, n) ==
  LET t == h.trace[n] IN
  IF t \in Ids
  THEN [lj_trace_flush(h, n) EXCEPT !.obj[t].traceno = 0, !.obj[t].link = 0,
                                    !.trace[n] = NULL]
  ELSE [h EXCEPT !.trace[n] = NULL]

lj_trace_flushall(h) ==
  LET f[n \in 1..MAXTRACE + 1] ==
        IF n > MAXTRACE THEN h ELSE FlushNumber(f[n + 1], n) IN
  [f[1] EXCEPT !.curno = 0, !.freetrace = 0]

lj_trace_reenableproto(h, p) ==
  IF p \notin h.iloop THEN h
  ELSE [h EXCEPT
          !.iloop = @ \ {p},
          !.bc = [s \in Sites |-> IF ProtoOf[s] = p /\ KindOf[s] # "ITERN"
                                    /\ h.bc[s] = Barred THEN Plain ELSE h.bc[s]]]
--------------------------------------------------------------------------------
(* References: the numbers a trace has, and what they lead to from the chains. *)
Numbered(h, ns) == {h.trace[n] : n \in ns \ {0}} \cap Ids
Numberless(h, t) == h.obj[t] = NULL \/ h.obj[t].traceno = 0
Refs(h, t) ==
  IF Numberless(h, t) THEN {}
  ELSE Numbered(h, {h.obj[t].link, h.obj[t].nextroot, h.obj[t].nextside})

Anchors(h, ts) ==
  /\ Numbered(h, {h.chain[p] : p \in Protos}) \subseteq ts
  /\ \A t \in ts : Refs(h, t) \subseteq ts
Anchored(h) == {t \in Ids : \A ts \in SUBSET Ids : Anchors(h, ts) => t \in ts}
\* A stitched frame keeps its trace until it returns, and nothing else does.
Severs(h) == \E t \in frames : ~ Numberless(h, t) /\ t \notin Anchored(h)
--------------------------------------------------------------------------------
(* Starting, stopping and aborting a recording. *)

\* The I form of the instruction at s; of ITERN it is the plain ITERC.
Despecialize(h, s) ==
  [h EXCEPT !.bc[s] = IF @ = Plain THEN Barred ELSE Bad,
            !.iloop = IF KindOf[s] = "ITERN" THEN @ ELSE @ \cup {ProtoOf[s]}]

Ignored(h) ==
  Becomes(h) /\ state' = "IDLE" /\ rec' = NoRec /\ patch' = NoPatch

\* Defective: that a site has been compiled already is not looked at.
StartBlindly(h, r) == FALSE
AlreadyCompiled(h, r) ==
  r.parent = 0 /\ r.start # NULL /\ h.bc[r.start] \in Numbers

\* Start recording r in prototype p.  If the exit it starts from goes back to a
\* RET or ITERN that has been compiled, patched, then lj_trace_exit puts the
\* original instruction back for a moment.
trace_start(h, p, r, patched) ==
  LET n == trace_findfree(h) IN
  IF p \in nojit
  THEN Ignored(IF r.parent = 0 /\ r.exitno = 0 /\ KindOf[r.start] # "ITERN"
               THEN Despecialize(h, r.start) ELSE h)
  ELSE IF AlreadyCompiled(h, r) THEN Ignored(h)
  ELSE IF n = 0 THEN Ignored(lj_trace_flushall(h))
  ELSE /\ Becomes([h EXCEPT
            !.trace[n] = CUR, !.curno = n, !.freetrace = n + 1,
            !.bc = [s \in Sites |-> IF s = patched THEN Plain ELSE h.bc[s]]])
       /\ state' = "RECORD" /\ rec' = r
       /\ patch' = IF patched = NULL THEN NoPatch
                   ELSE [pc |-> patched, ins |-> h.bc[patched], bcskip |-> 1]

\* trace_pendpatch, as of a heap and of the patch that is pending.
Repatch(h) ==
  IF patch.pc = NULL THEN h ELSE [h EXCEPT !.bc[patch.pc] = patch.ins]
Pended(h) == IF patch.bcskip = 0 THEN Repatch(h) ELSE h
PendedPatch == IF patch.bcskip = 0 THEN NoPatch ELSE [patch EXCEPT !.bcskip = 0]

\* The numbers a recording keeps are no references, and the collector may free
\* what they name: traceref is NULL then.
Lost(h, ns) == \E n \in ns \ {0} : h.trace[n] = NULL

\* Where trace_stop hooks the finished trace t up.
NewTrace(h, t, lt, lnk, next, side, jumps) ==
  [h EXCEPT !.obj[t] = [traceno |-> h.curno, start |-> rec.start,
                        root |-> rec.root, link |-> lnk, linktype |-> lt,
                        nextroot |-> next, nextside |-> side,
                        jumps |-> jumps],
            !.trace[h.curno] = t, !.curno = 0]
Targets(h, t, lt, lnk) ==
  IF lt = "LOOP" THEN {t} ELSE IF lt = "ROOT" THEN {h.trace[lnk]} ELSE {}

StopRoot(h, t, lt, lnk) ==
  LET p == ProtoOf[rec.start] IN
  [NewTrace(h, t, lt, lnk, h.chain[p], 0, Targets(h, t, lt, lnk))
     EXCEPT !.bc[rec.start] = h.curno, !.chain[p] = h.curno]
StopSide(h, t, lt, lnk) ==
  LET parent == h.trace[rec.parent]
      root == h.trace[rec.root]
      r == NewTrace(h, t, lt, lnk, 0, h.obj[root].nextside,
                    Targets(h, t, lt, lnk)) IN
  [r EXCEPT !.obj[parent].jumps = @ \cup {t}, !.obj[root].nextside = h.curno]
StopStitch(h, t, lt, lnk) ==
  [NewTrace(h, t, lt, lnk, 0, 0, Targets(h, t, lt, lnk))
     EXCEPT !.obj[h.trace[rec.exitno]].link = h.curno]
trace_stop(h, t, lt, lnk) ==
  IF rec.start = NULL THEN StopSide(h, t, lt, lnk)
  ELSE IF KindOf[rec.start] = "CALL" THEN StopStitch(h, t, lt, lnk)
  ELSE StopRoot(h, t, lt, lnk)

\* The start of an aborted recording is penalised, and in the end blacklisted.
Penalties(h) ==
  IF rec.parent # 0 \/ KindOf[rec.start] = "RET" THEN {h}
  ELSE IF rec.exitno = 0 THEN {h, Despecialize(h, rec.start)}
  ELSE IF Lost(h, {rec.exitno}) THEN {}
  ELSE {[h EXCEPT !.obj[h.trace[rec.exitno]].link = rec.exitno]}
Dropped(h) ==
  IF h.curno = 0 THEN h ELSE [Release(h, h.curno) EXCEPT !.curno = 0]
\* The heaps that trace_abort may leave; none if it crashes.
trace_abort(h) == {Dropped(g) : g \in Penalties(h)}
--------------------------------------------------------------------------------
Init ==
  /\ bc = [s \in Sites |-> Plain]
  /\ chain = [p \in Protos |-> 0] /\ iloop = {} /\ nojit = {}
  /\ obj = [t \in Ids |-> NULL]
  /\ trace = [n \in Numbers |-> NULL] /\ freetrace = 0 /\ curno = 0
  /\ state = "IDLE" /\ rec = NoRec /\ patch = NoPatch
  /\ run = NULL /\ frames = {} /\ severed = FALSE
  /\ gcstate = "pause" /\ black = {} /\ unswept = {}
  /\ color = [t \in Ids |-> "white"]

(* Recording. *)
Start(p, r, patched) ==
  /\ trace_start(Heap, p, r, patched)
  /\ run' = NULL
  /\ UNCHANGED <<modes, gc>>

\* lj_trace_hot.  An ITERN is dispatched to even where it has been compiled.
Hot(s) ==
  /\ state = "IDLE" /\ run = NULL
  /\ KindOf[s] \in {"LOOP", "ITERN", "FUNCF"}
  /\ bc[s] = Plain \/ (KindOf[s] = "ITERN" /\ bc[s] \in Numbers)
  /\ Start(ProtoOf[s], [NoRec EXCEPT !.start = s], NULL)
  /\ UNCHANGED frames

\* The sites where an instruction is about to be recorded that has a trace.
Linkable(h) ==
  {s \in Sites : /\ h.bc[s] \in Numbers
                 /\ KindOf[s] \in {"LOOP", "FUNCF"}
                      \/ rec.parent # 0 \/ rec.exitno # 0}
Links(h) ==
  {<<"RETURN", 0>>, <<"STITCH", 0>>}
    \cup (IF rec.start # NULL /\ KindOf[rec.start] = "CALL" THEN {}
          ELSE {<<"LOOP", curno>>})
    \cup (IF rec.start = NULL THEN {<<"ROOT", rec.root>>} ELSE {})
    \cup {<<"ROOT", h.bc[s]>> : s \in
            {s \in Linkable(h) : KindOf[s] = "FUNCF" =>
               h.obj[h.trace[h.bc[s]]].linktype # "RETURN"}}

\* trace_state, LJ_TRACE_RECORD: an instruction that changes nothing here.
RecordIns ==
  /\ state = "RECORD" /\ patch # NoPatch
  /\ Becomes(Pended(Heap)) /\ patch' = PendedPatch
  /\ UNCHANGED <<modes, state, rec, run, frames, gc>>

\* LJ_TRACE_END and LJ_TRACE_ASM.  The patch that is pending is made first, even
\* if it was to wait for an instruction (which EndUnforced, defective, heeds).
EndUnforced(h) == Pended(h)
EndForced(h) == Repatch(h)
\* lj_gc_barriertrace: a trace saved while marking is marked (SavedWhite, which
\* is defective, leaves it white).
SavedWhite(g) == "white"
SavedColour(g) == IF g = "propagate" THEN "gray" ELSE "white"
RecordStop(t) ==
  /\ state = "RECORD" /\ obj[t] = NULL
  /\ ~ Lost(Heap, {rec.parent, rec.root, rec.exitno})
  /\ \E l \in Links(Pended(Heap)) :
       Becomes(trace_stop(EndForced(Heap), t, l[1], l[2]))
  /\ color' = [color EXCEPT ![t] = SavedColour(gcstate)]
  /\ state' = "IDLE" /\ rec' = NoRec /\ patch' = NoPatch
  /\ UNCHANGED <<modes, run, frames, gcstate, black, unswept>>

\* rec_func_jit: the function s has a trace that returns to the interpreter.
\* It is unpatched to record the function itself, or flushed for good.
RecordFuncJIT(s) ==
  /\ state = "RECORD" /\ patch.bcskip = 0
  /\ LET h == Repatch(Heap) IN
     /\ KindOf[s] = "FUNCF" /\ s \in Linkable(h)
     /\ h.obj[h.trace[h.bc[s]]].linktype = "RETURN"
     /\ \/ /\ Becomes([h EXCEPT !.bc[s] = Plain])
           /\ patch' = [pc |-> s, ins |-> h.bc[s], bcskip |-> 0]
           /\ UNCHANGED <<state, rec, severed>>
        \/ LET f == lj_trace_flush(h, h.bc[s]) IN
           /\ \E g \in trace_abort(f) : Ignored(g)
           /\ severed' = (severed \/ Severs(f))
  /\ UNCHANGED <<nojit, run, frames, gc>>

\* LJ_TRACE_ERR: the recorder or the assembler gives up.  If there is no memory
\* for machine code, all traces go (and the compiler, when it has none at all).
RecordError ==
  /\ state = "RECORD"
  /\ \E h \in trace_abort(Repatch(Heap)) :
       Ignored(h) \/ Ignored(lj_trace_flushall(h))
  /\ UNCHANGED <<modes, run, frames, gc>>

\* LJ_TRERR_DOWNREC: trace_downrec records anew, from the return at s.
RecordDownrec(s) ==
  /\ state = "RECORD" /\ rec.start # NULL
  /\ KindOf[rec.start] \in {"CALL", "RET"}
  /\ KindOf[s] = "RET" /\ bc[s] = Plain /\ patch.pc # s
  /\ ProtoOf[s] \notin nojit
  /\ \E h \in trace_abort(Repatch(Heap)) :
       trace_start(h, ProtoOf[s], [NoRec EXCEPT !.start = s], NULL)
  /\ UNCHANGED <<modes, run, frames, gc>>

\* An error is thrown: recording is aborted, the stack unwound so far as the
\* error is not caught.
Throw ==
  /\ state # "CRASHED"
  /\ state' = IF state = "RECORD" THEN "ABORTED" ELSE state
  /\ run' = NULL /\ frames' \in SUBSET frames
  /\ UNCHANGED <<heap, modes, rec, patch, gc>>

\* trace_state at the next instruction, finding the recording aborted.
AbortFinish ==
  /\ state = "ABORTED" /\ run = NULL
  /\ \E h \in trace_abort(Repatch(Heap)) : Ignored(h)
  /\ UNCHANGED <<modes, run, frames, gc>>

\* trace_stop links the new trace to the parent, the root or the trace that
\* called, and trace_abort to the latter: they write through NULL if it is gone.
Crash ==
  /\ \/ state = "RECORD" /\ Lost(Heap, {rec.parent, rec.root, rec.exitno})
     \/ state = "ABORTED" /\ run = NULL /\ Lost(Heap, {rec.exitno})
  /\ state' = "CRASHED"
  /\ UNCHANGED <<heap, modes, rec, patch, run, frames, gc>>
--------------------------------------------------------------------------------
(* Running traces. *)
Run(t) ==
  /\ run' = t
  /\ UNCHANGED <<heap, modes, recording, gc>>

\* JLOOP, JFUNCF, ... in the interpreter.
Enter(s) ==
  /\ state = "IDLE" /\ run = NULL /\ bc[s] \in Numbers
  /\ Run(trace[bc[s]]) /\ UNCHANGED frames

Jump ==
  /\ run # NULL
  /\ \E t \in obj[run].jumps \ {run} : Run(t)
  /\ UNCHANGED frames

\* The trace ends with a call that is not compiled, under a frame that names it.
Stitch ==
  /\ run # NULL /\ obj[run].linktype = "STITCH"
  /\ Cardinality(frames \cup {run}) <= MaxFrames
  /\ frames' = frames \cup {run} /\ Run(NULL)

ExitCold ==
  run # NULL /\ Run(NULL) /\ UNCHANGED frames

\* trace_hotside: an exit, to prototype p, becomes hot.
ExitHot(p) ==
  /\ run # NULL
  /\ state # "IDLE" => PendingAborts
  /\ LET n == obj[run].traceno
         T == obj[run] IN
     \E patched \in {NULL} \cup {s \in Sites : KindOf[s] \in {"RET", "ITERN"}
                                               /\ bc[s] \in Numbers} :
       Start(p, [start |-> NULL, parent |-> n, exitno |-> 0,
                 root |-> IF T.root = 0 THEN n ELSE T.root], patched)
  /\ UNCHANGED frames

\* cont_stitch: the call returns into the frame of trace t.  There may be
\* another frame of that trace below.
Return(t) ==
  /\ run = NULL /\ t \in frames
  /\ state = "IDLE" \/ (state = "ABORTED" /\ PendingAborts)
  /\ frames' \in {frames, frames \ {t}}
  /\ LET T == obj[t] IN
     IF T.link = T.traceno THEN Run(NULL)
     ELSE IF T.link # 0 THEN Run(trace[T.link])
     ELSE IF state # "IDLE" THEN Run(NULL)
     ELSE \E s \in Sites :
            /\ KindOf[s] = "CALL"
            /\ Start(ProtoOf[s], [NoRec EXCEPT !.start = s,
                                               !.exitno = T.traceno], NULL)
--------------------------------------------------------------------------------
(* luaJIT_setmode, called by C code. *)

\* Defective: a recording goes on, its abort is left out.
QuietUnaborted == run = NULL /\ state # "CRASHED"
Quiet ==
  run = NULL /\ (state = "IDLE" \/ (state = "ABORTED" /\ PendingAborts))
SetMode(h) ==
  /\ Quiet /\ Becomes(h) /\ severed' = (severed \/ Severs(h))
  /\ UNCHANGED <<recording, run, frames, gc>>

FlushEngine == SetMode(lj_trace_flushall(Heap)) /\ UNCHANGED nojit
FlushTrace(n) == SetMode(lj_trace_flush(Heap, n)) /\ UNCHANGED nojit
ProtoOn(p) ==
  /\ SetMode(lj_trace_reenableproto(Heap, p))
  /\ nojit' = nojit \ {p}
ProtoOff(p) ==
  /\ SetMode(lj_trace_flushproto(Heap, p))
  /\ nojit' \in {nojit, nojit \cup {p}}
--------------------------------------------------------------------------------
(* Collecting traces. *)
GCOnly ==
  state # "CRASHED" /\ UNCHANGED <<modes, recording, run, frames>>

gc_marktrace(ts) ==
  [t \in Ids |-> IF t \in ts /\ color[t] = "white" THEN "gray" ELSE color[t]]

StartCycle ==
  /\ gcstate = "pause" /\ gcstate' = "propagate" /\ black' = {}
  /\ UNCHANGED <<heap, color, unswept>> /\ GCOnly
MarkProto(p) ==
  /\ gcstate = "propagate" /\ p \notin black /\ black' = black \cup {p}
  /\ color' = gc_marktrace(Numbered(Heap, {chain[p]}))
  /\ UNCHANGED <<heap, gcstate, unswept>> /\ GCOnly
MarkTrace(t) ==
  /\ gcstate = "propagate" /\ color[t] = "gray"
  /\ color' = [gc_marktrace(Refs(Heap, t)) EXCEPT ![t] = "black"]
  /\ UNCHANGED <<heap, gcstate, black, unswept>> /\ GCOnly

\* atomic: the stacks are marked now, and all that is gray is traversed.
Unvisited ==
  {t \in Ids : color[t] = "gray"} \cup frames
    \cup Numbered(Heap, {chain[p] : p \in Protos \ black})
Closed(ts) == \A t \in ts : color[t] # "black" => Refs(Heap, t) \subseteq ts
Visited == {t \in Ids : \A ts \in SUBSET Ids :
                          Unvisited \subseteq ts /\ Closed(ts) => t \in ts}
Atomic ==
  /\ gcstate = "propagate" /\ run = NULL
  /\ gcstate' = "sweep" /\ black' = Protos
  /\ color' = [t \in Ids |-> IF t \in Visited THEN "black" ELSE color[t]]
  /\ unswept' = {t \in Ids : obj[t] # NULL}
  /\ UNCHANGED heap /\ GCOnly

Sweep(t) ==
  /\ gcstate = "sweep" /\ t \in unswept /\ unswept' = unswept \ {t}
  /\ \/ color[t] = "black" /\ UNCHANGED heap
     \/ color[t] = "white" /\ Becomes(lj_trace_free(Heap, t))
  /\ color' = [color EXCEPT ![t] = "white"]
  /\ UNCHANGED <<gcstate, black>> /\ GCOnly
\* lj_gc_fullgc, called while marking, makes everything white again, and then
\* runs a cycle.
AbandonMarking ==
  /\ gcstate = "propagate" /\ run = NULL /\ state # "RECORD"
  /\ gcstate' = "pause" /\ black' = {} /\ color' = [t \in Ids |-> "white"]
  /\ UNCHANGED <<heap, unswept>> /\ GCOnly
EndCycle ==
  /\ gcstate = "sweep" /\ unswept = {} /\ gcstate' = "pause" /\ black' = {}
  /\ UNCHANGED <<heap, color, unswept>> /\ GCOnly

Record ==
  \/ RecordIns \/ RecordError \/ Throw \/ AbortFinish \/ Crash
  \/ \E s \in Sites : Hot(s) \/ RecordFuncJIT(s) \/ RecordDownrec(s)
  \/ \E t \in Ids : RecordStop(t)
Execute ==
  \/ Jump \/ Stitch \/ ExitCold
  \/ \E s \in Sites : Enter(s)
  \/ \E p \in Protos : ExitHot(p)
  \/ \E t \in Ids : Return(t)
Control ==
  \/ FlushEngine
  \/ \E n \in Numbers : FlushTrace(n)
  \/ \E p \in Protos : ProtoOn(p) \/ ProtoOff(p)
Collect ==
  \/ StartCycle \/ AbandonMarking \/ Atomic \/ EndCycle
  \/ \E p \in Protos : MarkProto(p)
  \/ \E t \in Ids : MarkTrace(t) \/ Sweep(t)
Next == Record \/ Execute \/ Control \/ Collect
Spec == Init /\ [][Next]_vars
--------------------------------------------------------------------------------
(* Properties. *)

\* Every variable has its type.
TypeOK ==
  /\ bc \in [Sites -> Numbers \cup {Plain, Barred}]
  /\ chain \in [Protos -> 0..MAXTRACE]
  /\ iloop \subseteq Protos /\ nojit \subseteq Protos
  /\ obj \in [Ids -> GCtrace \cup {NULL}]
  /\ trace \in [Numbers -> Ids \cup {NULL, CUR}]
  /\ freetrace \in 0..MAXTRACE + 1 /\ curno \in 0..MAXTRACE
  /\ state \in {"IDLE", "RECORD", "ABORTED", "CRASHED"}
  /\ rec \in [start : Sites \cup {NULL},
              root : 0..MAXTRACE, parent : 0..MAXTRACE, exitno : 0..MAXTRACE]
  /\ patch \in [pc : Sites \cup {NULL}, ins : 0..MAXTRACE, bcskip : 0..1]
  /\ run \in Ids \cup {NULL} /\ frames \subseteq Ids /\ severed \in BOOLEAN
  /\ gcstate \in {"pause", "propagate", "sweep"}
  /\ color \in [Ids -> {"white", "gray", "black"}]
  /\ black \subseteq Protos /\ unswept \subseteq Ids

\* A trace number belongs to one trace or to the recording, from when it is
\* taken until it is given back, and the search for a free one misses none:
\* J->trace, traceno and freetrace through stops, aborts, flushes and frees.
NumbersExact ==
  /\ \A n \in Numbers, t \in Ids :
       trace[n] = t <=> obj[t] # NULL /\ obj[t].traceno = n
  /\ \A n \in Numbers : trace[n] = CUR <=> curno = n
  /\ curno # 0 => state # "IDLE"
  /\ \A n \in 1..freetrace - 1 : trace[n] # NULL

\* An instruction leads to a trace exactly if the trace is on the chain of its
\* prototype and starts there, whatever is flushed, blacklisted, switched off
\* or unpatched for a moment (that patch counts as made); no chain has two
\* traces of one start, and an instruction that is barred is barred by a
\* prototype that knows: trace_stop, trace_unpatch, trace_flushroot,
\* trace_pendpatch, blacklist_pc and lj_trace_reenableproto.
Operand(s) ==
  LET b == IF patch.pc = s THEN patch.ins ELSE bc[s] IN
  {b} \cap Numbers
BytecodeExact ==
  /\ \A s \in Sites :
       Operand(s) = {n \in OnChain(Heap, ProtoOf[s]) :
                       trace[n] \in Ids /\ obj[trace[n]].start = s}
  /\ \A s \in Sites :
       bc[s] = Barred /\ KindOf[s] # "ITERN" => ProtoOf[s] \in iloop
  /\ state = "IDLE" => patch = NoPatch

\* Whatever can be run is there, in its own number's place: what the bytecode,
\* a stitched frame or the processor leads to, and all that machine code jumps
\* to from there.  And the collector finds a trace, never the recording, behind
\* each number it follows (the assertion in gc_marktrace).
Entered ==
  (UNION {Operand(s) : s \in Sites})
    \cup {obj[t].link : t \in {t \in frames : obj[t] # NULL
                                 /\ obj[t].link # obj[t].traceno}}
Runnable ==
  LET S == ({trace[n] : n \in Entered \ {0}} \cup {run}) \ {NULL} IN
  {t \in Ids : \A ts \in SUBSET Ids :
     /\ S \cap Ids \subseteq ts
     /\ \A u \in ts : obj[u] # NULL => obj[u].jumps \subseteq ts
     => t \in ts}
TracesLive ==
  /\ \A n \in Entered \ {0} : trace[n] \in Ids
  /\ \A t \in Runnable :
       obj[t] # NULL /\ obj[t].traceno # 0 /\ trace[obj[t].traceno] = t
  /\ \A t \in frames : obj[t] # NULL
  /\ \A t \in Runnable \cup frames :
       LET T == obj[t] IN
       T.traceno # 0 => \A n \in {T.link, T.nextroot, T.nextside} \ {0} :
                          trace[n] \in Ids

\* The traces that a recording starts from last as long as the recording, which
\* no reference ensures: the collector frees one only if it was flushed, by
\* number, with its prototype or by the recorder, while its stitched call ran.
RecordingKept ==
  ~ severed => ~ Lost(Heap, {rec.parent, rec.root, rec.exitno})

\* A trace runs, and has a hot exit, only when nothing is being recorded: the
\* assertion in trace_hotside, "hot side exit while recording".
RunsIdle == run # NULL => state = "IDLE"
================================================================================
