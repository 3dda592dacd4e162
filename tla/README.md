# TLA+ models and proofs of Rubic0n's runtime

Rubic0n is a fork of OpenResty's LuaJIT. Its most intricate state is the
garbage-collected heap: an incremental tri-colour collector whose steps
interleave with an interpreter, compiled traces, a C API and finalizers, and
into which the fork has built a userdata finalization scheme of its own
(discovery of finalizers during the sweep, direct calls of C finalizers, and a
finalizer after which the object is freed at once). Below it lies a paged
allocator that is the fork's own too; above it tables, the string table (with
the fork's second, dense hash for chains that grow too long) and the compiled
traces, which patch the bytecode they start from. This directory models that
state in TLA+, checks it with TLC and proves, with TLAPS, the main safety
properties of the collector, of finalization, of the paged allocator and of the
string table. Paths below are relative to the repository.

## 1. The system

| Part | Source | State it keeps | Operations | Status |
|---|---|---|---|---|
| Collector | `src/lj_gc.c`, `src/lj_gc.h` | `gc.state`, current white, root list, gray/grayagain/weak lists, sweep cursors, `mmudata`, threshold/estimate/debt | `lj_gc_step`, `lj_gc_fullgc`, mark, propagate, atomic, three sweeps | `GC` |
| Barriers | `src/lj_gc.c`, `src/lj_gc.h` | colour bits of the objects | `lj_gc_barrierback`, `_barrierf`, `_barrieruv`, `_closeuv` | `GC` |
| Closures, upvalues | `src/lj_func.c` | open upvalue list of each thread, closed values | `lj_func_newL_gc`, `func_finduv`, `lj_func_closeuv` | `GC` |
| Finalization | `src/lj_gc.c`, `src/lj_udata.c` | candidate segment behind the main thread, `sweepudata` cursor, `mmudata` queue, `LJ_GC_FINALIZED` | scan, queue, finalize (generic, direct, direct and free), `lj_gc_separateudata` | `Finalizer` |
| States, threads | `src/lj_state.c` | stacks, `cur_L`, open upvalues | `lua_newstate`, `lua_close`, `lj_state_new/_free`, stack growth | partly, in both |
| C API | `src/lj_api.c` | none of its own | stack, table, upvalue, metatable, coroutine calls | partly, in `GC` |
| Strings | `src/lj_str.c`, `gc_sweepstr` | string table, flagged chains, hash seeds | `lj_str_new`, resize, rehash of a chain, sweep of a chain | `StrTab`; resurrection also in `GC` |
| Paged allocator | `src/lj_alloc_page.c` | pages, their bump index, free list and busy count, nonfull list of each class | `lj_page_alloc_f`, create, destroy | `PageAlloc`, `PageClass` |
| Backend allocator | `src/lj_alloc.c` | bins, segments | malloc, free, realloc | as a set of chunks, in `PageAlloc` |
| Tables | `src/lj_tab.c` | array and hash part, free pointer | get, set, newkey, rehash, next, len | `Tab`, `Table` |
| Traces | `src/lj_trace.c`, `luaJIT_setmode`, `src/vm_*.dasc` | trace numbers, patched bytecode, recorder state, penalties | start, record, stop, abort, flush, exit, stitch | `Trace`; `jit_base` also in `GC` |
| Recorder, IR, optimizer, assembler | `src/lj_record.c`, `src/lj_opt_*.c`, `src/lj_asm*.h` | IR of the trace in work | translation | not modelled |
| Interpreter, dispatch | `src/vm_*.dasc`, `src/lj_dispatch.c` | dispatch table, hook mask | bytecodes, hooks | partly: entering and leaving traces, in `Trace` |
| Parser, bytecode reader/writer | `src/lj_parse.c`, `src/lj_lex.c`, `src/lj_bcread.c` | none between calls | translation | not modelled |
| FFI | `src/lj_c*.c` | C types, callback slots, cdata finalizer table | parse, convert, call, callback | planned in part |
| Profiler | `src/lj_profile.c` | timer, hook mask, sample counts | signal, hook, start, stop | not modelled |
| Libraries | `src/lib_*.c`, `src/lib_ext` | none of interest | - | not modelled |

**How they interact.** Everything runs on one OS thread. What interleaves is
the *mutator* (bytecode, traces, library and API calls) and the *collector*,
which gets a step at each `lj_gc_check` when `gc.total` has reached
`gc.threshold`. Between two collector steps the mutator may do anything to a
half-marked or half-swept heap; the barriers, the second traversal in `atomic`
and the two resurrections (`lj_str_new`, `func_finduv`) are what keeps that
sound. Finalizers are mutator code run by the collector in `GCSfinalize`, and
may themselves call `collectgarbage()`. Compiled traces keep references in
registers and are visible to the collector only through `g->jit_base`. All
objects are allocated, moved and freed through one `lua_Alloc` function,
`lj_page_alloc_f`, which gets the old size of a block from the caller and takes
pages and large blocks from the backend.

A trace is reached by its number: from an instruction of the bytecode (`JLOOP`
and its kin), from the `link` of another trace through a stitched frame on the
stack, from the collector through `link`, `nextroot` and `nextside`, and by
machine code that was patched to jump to it. Flushing takes numbers away while
traces run, are recorded or lie on the stack. The string table is swept one
chain per collector step while strings are added, moved and found again; a
table keeps the keys of nodes whose values are gone, and the collector may
free such a key and let another string live at its address.

**What is hard.** Stores and loads between two mark steps; a coroutine switch
between mark and atomic; upvalues opened, shared, closed or freed in each
phase; a `__mode` that comes and goes; interned strings and open upvalues
found dead by the cycle and used again before they are swept; sweep cursors
that are pointers *into* objects other code moves; finalizers that resurrect,
collect, throw before they start, or are overtaken by `lua_close`; a full
collection that interrupts a cycle at any point; termination of a cycle while
the mutator works against it; in the allocator, pages that change lists with
every first or last block, blocks that are reallocated in place and freed by
their size, and a backend that may refuse any request; in the string table,
chains that change their hash and their length under the sweep; in tables,
chains that run through each other, with keys that change under them; in the
trace compiler, an error that aborts a recording long before the recording is
taken down, bytecode that is patched for the length of one instruction, and
flushes between any two of these. `PROJECT.json` lists each of these with its line
and the properties that watch over it.

**What makes each part correct.**

* Collector: nothing reachable is freed, weakly reachable objects included
  (a weak entry is a path the program may still take); black never refers to
  white while marking; a gray object is on exactly one list; a cycle leaves one
  colour only; a full collection frees all garbage; cycles end.
* Finalization: a queued userdata keeps what its finalizer needs; a finalizer
  runs at most once, before the userdata is freed, in reverse order of
  creation, and eventually; cursors stay in the list they sweep.
* Allocator: blocks handed out do not overlap, keep their contents and take
  them along when they move; a page is on
  the list of its class just while it has a block to give, and is returned when
  its last block is.
* Tables: get sees the last set; traversal visits each key once; the length is
  a border.
* Strings: one object per content, through resizes and rehashes; the sweep
  frees the dead strings and no other.
* Traces: a number belongs to one trace; an instruction is patched just while
  its trace is on the chain of its prototype; whatever can be run is there.

## 2. Modules

| Module | What it is |
|---|---|
| `GC` | collector, barriers and mutator |
| `MCGC` + `MCGC_heap.cfg`, `MCGC_threads.cfg`, `MCGC_closures.cfg`, `MCGC_leaf.cfg` | four populations of small heaps |
| `GC_proof` | its inductive invariant, type correctness, the safety properties |
| `Finalizer` | userdata finalization and `lua_close` |
| `MCFinalizer` + three configurations | three or two userdata, a direct and a generic finalizer |
| `Finalizer_proof` | its inductive invariant and all its safety properties |
| `ListLemmas` | induction and loops, lists without repetitions; used by the proofs of `Finalizer`, `PageAlloc`, `Tab` and `Trace` |
| `Allocator` | what a `lua_Alloc` function promises, the abstract specification |
| `PageClass` | size classes and page layout |
| `PageAlloc` | the paged allocator, shown to implement `Allocator` |
| `MCPageAlloc` + `MCPageAlloc_run.cfg` | three chunks, pages of two and three blocks |
| `PageAlloc_proof` | size classes fit, blocks are disjoint; its inductive invariant, its invariants, the refinement of `Allocator` |
| `Table` | what a table promises, the abstract specification |
| `Tab` | Lua tables, shown to implement `Table` |
| `MCTab` + `MCTab_run.cfg` | two string addresses, three integers |
| `Tab_proof` | its inductive invariant, its invariants, traversal, the refinement of `Table` |
| `StrTab` | the string table and its sweep |
| `StrTab_proof` | its inductive invariant and three properties |
| `MCStrTab` + `MCStrTab_run.cfg` | five contents, two to sixteen chains |
| `Trace` | the life of compiled traces |
| `MCTrace` + two configurations | four sites, two or three trace numbers |
| `Trace_lemmas` | what flushing, finishing, aborting and freeing traces preserves |
| `Trace_proof` | its inductive invariant and all its invariants |

### 2.1 `GC`

State and code: `gcstate` and `currentwhite` are `g->gc.state` and
`g->gc.currentwhite`; `mark[o]` holds the colour bits (`white0`, `white1`,
`gray`, `black`) or `free`; `gray`, `grayagain`, `weak` are the three lists
that share the `gclist` field; `refs` and `wrefs` are strong and weak outgoing
references, with a thread's `refs` being its stack; `owner[u]` is the thread
in whose stack an open upvalue points; `cand` is the userdata segment behind
the main thread; `unswept` is what lies ahead of the sweep cursor;
`cur`, `jit`, `regs` are `g->cur_L`, `g->jit_base # NULL` and the references
only machine registers hold; `full` follows `lj_gc_fullgc`.

Each case of `gc_onestep` is an action: `MarkStart`, `Propagate`,
`PropagateDone`, `Atomic`, `SweepUdata`, `SweepString`, `SweepRoot`. `Atomic`
is one step, as in the code, and traverses the least set of objects closed
under marking from what the code starts with. `FullGC` stops the mutator until
its two halves are done. The mutator's actions are the ways in which the API,
the bytecodes and the runtime touch references: `New`, `Closure*`, `Load`,
`Drop`, `StoreTab`, `StoreObj`, `UpvalueJoin`, `StoreUpval`, `StoreThread`, `Unlink`,
`SetMode`, `SetRoot`, `Intern`, `CloseUpval`, `Resume`, `Yield`, `EnterTrace`,
`ExitTrace`. A store includes its barrier; a store for which the code calls
none has none.

Abstractions: lists are sets, so any order of propagation and sweeping is
covered; sizes and the threshold are left out, so a collector step may come at
any moment (what the byte accounting does is planned as `GCPacing`); a table is
a set of references, where the code has keys and values; the registry, the
main thread's environment and the VM thread are represented by the main
thread's stack and `gcroot`. Prototypes and cdata as objects
and the stack shrinking of `gc_traverse_thread` are left out.

### 2.2 `Finalizer`

The segment of candidates is a sequence, newest first, as `lj_udata_new`
chains it. `cursor` and `rcursor` are the two pointers `g->gc.sweepudata` and
`g->gc.sweep`, each represented by the userdata whose `nextgc` field it is:
that is how it can become stale. `queue` is `mmudata`. `frames` is the control
stack of finalizers and full collections in progress. Marking is one step here
(`Atomic`), justified by what is proved of `GC`. `Scan` is the body of
`gc_sweepudata`'s loop; `Finalize` is `gc_finalize` with its three ways to
call `__gc`; `ThrowGC` and `ThrowDirect` are `lj_state_checkstack` throwing
before the call, after resp. before the userdata has left the queue; `Close`, `CloseFinalize`,
`CloseRound` are `lua_close`. `Enqueued` is the loop of `lj_gc_separateudata`:
the candidates with a `__gc` (`WithGC`), in the order of the segment. `GCSWEEPUDATAMAX` and `GCFINALIZECOST` do not
appear: a step handles one userdata, the finest interleaving there is.

The documented restrictions of the fork are built in: a finalizer refers to
its argument only, a direct finalizer does not touch Lua, and `__gc` is not
added to a metatable later (it may be removed).

`LateFullGC` and `CloseCollect` widen what programs do: full collections while
userdata are queued or being queued, and finalizers that collect during
`lua_close`. With either the code breaks a promise of its comments, see 4.
A sweep whose cursor points into a userdata that has been moved to another list
walks that list: it frees or queues what it finds there, a userdata twice
perhaps, and on the circular queue it need not end. The model does not follow
it. It notes which sweep it was (`stale`) and ends (`Stray`, the phase
`"astray"`); so nothing is claimed of what comes after, and the theorems are
about programs in which it does not happen.

### 2.3 `PageAlloc` over `PageClass`, and `Allocator`

The backend is a set of chunks; each is free, a page or a large block (`use`).
`class`, `bump_index`, `free_list`, `busy_count` are the fields of a page's
header, the free list being the chain that runs through the free blocks;
`nonfull_pages[k]` is the doubly linked list of class `k`, its head first;
`allpages` is the set of chunks in use as a page. A *place* is a block of a
page of some class, or a whole chunk, and two places of a chunk overlap unless
they are different blocks of one page layout. `size` is the logical size which
the caller passes back as `osize` (the README demands it), `data` tells whether
the block at a place still has what the program wrote to it.

`Malloc`, `Free`, `ReallocInPlace` and `ReallocMove` are the branches of
`lj_page_alloc_f`. They compose operators with the names of the code's
functions (`page_alloc_small`, `page_new`, `page_free_small`, `page_release`,
...) that map the allocator as one record (`St`) to the allocator after the
call, so the order inside a call is the code's: a moving reallocation obtains
the new block first, while the old one still occupies its page. `Release`
chooses the allocator by the old size, as the code does, not by where the block
is. What is written over (a new page's header, the link in a freed block, a
chunk the backend has back) loses its data. A call to which
the backend refuses memory has no action: that it returns `NULL` before
anything has changed is read off the code (lj_alloc_page.c:366), not checked,
since a step that changes nothing is allowed in every specification here. The prefix that leads from a block to its
page is its place; `lj_page_alloc_setprng` hands a pointer on.

`Allocator` knows places, sizes and contents only: `Malloc` and `Realloc` may
choose any place that overlaps no block. `PageAlloc!IsAllocator` is its
specification under the mapping that takes `open` and `size` as they are and
the data of those places that hold a block.

### 2.4 `Tab` and `Table`

`t` is the `GCtab` with its parts under the names of its fields; a node is a
record of `key`, `val` and `next`. `Put` is `lj_tab_set` (or one of its kin)
with the store that follows, and makes room first, with a rehash, if
`lj_tab_newkey` finds none (`HasRoom`); `newkey` is the rest of it with its
three ways to place a key: in a free main position, in a free node after it evicted the
colliding key (`Evict`, with the two loops that rechain what the eviction and a
reused key address have put on the wrong chain, `Rechain`, `RechainAll`), or in
a free node behind its main position. `rehashtab` counts and resizes; `resize`
moves both parts. In the code `lj_tab_newkey` and the rehash call each other; the
model does not, because neither a resize nor the retry after a rehash finds the
table full again, which is proved (`Rehashed`, `Resized` in `Tab_proof`).
Loops are functions of the number of rounds that have been made (`Chain`,
`RechainAll`, `Bisect`, the `move` of `resize`). `keyindex` and `slot` are the two halves of `lj_tab_next`,
`len` and `len_hint` the two lengths.

A key of `Strs` is an address. Its string's hash `sid` changes when the
collector frees the string and another one is allocated there (`Recycle`),
which may happen as soon as no value is stored under it; the node keeps the
address. This is what the rechaining of pseudo-resurrected keys in
`lj_tab_newkey` is for. Values are the keys themselves, so that a value found
under a wrong key is noticed.

`Tab!IsTable` is the specification `Table` under the mapping that takes the map
from `Get`. The history variable `op`, which both have, names the operation: the
keys it assigns to and the value it assigns. A `Table` step with `op' = <<{k}, v>>`
must set `k` to `v` and leave every other key, `<<Keys, NULL>>` (`lj_tab_clear`)
must leave nothing, and `<<{}, NULL>>` (`lj_tab_reasize`, `Recycle`, the
traversal) must change nothing. An assignment that stores nothing, or a resize
that loses or brings up a single key, is thus a step of no `Table`.

Left out: keys other than strings and integers (they hash like strings that are
not reused), the negative metamethod cache, colocated arrays, `lj_tab_dup`, and
allocations that fail: `lj_tab_resize` grows the array part first, and if the
new hash part cannot be allocated then, integers stay in the hash behind array
slots that are nil. A traversal is given up when a field is added, as Lua
demands of programs.

### 2.5 `StrTab`

`mask`, `num`, `second` are fields of `g->str`; `flagged` is the set of chains
whose anchor has its lowest bit set (a chain too long for the primary, sparse
hash: its strings are on the chains of their dense hashes); `str` gives for each
content the object with its hash, the hash it is (`hashalg`), the chain it is
linked on and its colour. `New` is `lj_str_new` with lookup, resurrection,
`lj_str_rehash_chain`, allocation and growth; `Atomic`, `StartSweep`,
`SweepStr`, `EndSweep` are the collector as far as strings are concerned, with
the shrinking at the end. Both hashes are arbitrary functions of the seed and
the content (`HashAssumption` says only that they are numbers), and the lengths
of strings do not matter. That `lj_str_resize` does nothing while strings are
swept, and that `lj_str_rehash_chain` sweeps the strings it moves, are what
`SweepExact` depends on.

### 2.6 `Trace`

A *site* is an instruction at which a trace may start; its kind tells how the
code treats it: loops, `ITERN` (which is replaced as a whole), functions,
returns (where only exits and down-recursion start traces) and calls (behind
which a stitched trace starts). `bc[s]` is what stands there: the plain
instruction, its barred `I` form, or the trace number of its `J` form.
`chain[p]` is `pt->trace`; `obj`, `trace`, `freetrace` are the traces, `J->trace`
and `J->freetrace`; `curno` is `J->cur.traceno`; `state`, `rec`, `patch` are the
recording and the instruction that has its original form for a moment; `run` is
the trace being executed, `frames` the traces named by stitched frames on the
stack. The state `"ABORTED"` is what `lj_trace_abort` leaves: it clears one bit
of `J->state`, and `trace_state` takes the recording down when it next gets to
run (`AbortFinish`).

A heap is passed through operators with the names of the C functions, as in
`PageAlloc`, so that `lj_trace_flushall` from the end of `trace_abort` or inside
`trace_start` is part of the step that calls it. Hot counts, hooks and
`JIT_F_ON` only keep recordings from starting and are left open; any outcome of
recording, optimizing and assembling may come at any instruction.

A recording keeps its `parent`, `root` and `exitno` as numbers, which the
collector does not follow. As a rule bytecode leads to these traces, which
therefore stay. But a stitched trace that is flushed while its call runs, by its
number, with its prototype (`luaJIT_setmode`) or by the recorder
(`src/lj_record.c:1914`), is then held by nothing: once the call has returned
into its frame and a recording has started there, the collector may free it.
`trace_stop` (`src/lj_trace.c:558`) and `trace_abort`
(`:621`) then write to `traceref(J, J->exitno)`, which is `NULL`. This is a
defect of the code. No document, comment or assertion speaks of the case, so
there is no run that refutes one; the model has it as the action `Crash`, after
which nothing happens, and as the antecedent of `RecordingKept`: *unless such a
flush has occurred, a recording never loses the traces it starts from*. The
history variable `severed` says whether one has, that is, whether a flush left a
trace with a stitched frame unreachable from the chains (`Severs`). Without the
antecedent TLC finds the crash in ten steps: a stitched call is entered, its
trace flushed, the call returns, a cycle runs. `TracesLive` holds up to a crash.

Assumed:

* Hooks and event handlers that flush while something is recorded are left out,
  and so is growing `J->trace`: it has its full size from the start.
* In `trace_run` nothing comes between the error that aborts a recording and
  the next instruction that is interpreted (`PendingAborts`); `trace_stitch`
  shows what happens when something does, see 4. The proofs assume the same.

Not in it: machine code areas and their protection, `lj_snap_restore`, the
allocation of `curfinal`, prototypes that die (a trace marks the prototype it
starts in, so the prototype lives as long as the trace is marked).

### 2.7 Variants

Next to some operators stands a second one with nearly the same name
(`FrontierNoSecondChance` beside `Frontier`, `NoBarrierBack` beside
`BarrierBack`, ...). These are deliberate defects, one for each property,
which nothing uses: put in the place of the operator they make that property
fail in that run. `PROJECT.json` lists the pairs. They show that the bounds
below are large enough for the property to be able to fail.

## 3. Runs

| Run | Population | States | Shows |
|---|---|---|---|
| `gc_heap` | 2 symmetric tables, main thread, 4 references | 1.9 M | `NoDangling`, `TriColour`, `GrayListed`, `CleanPause`, `WeakClearing`, `FullGCFrees` |
| `gc_threads` | closure, upvalue, coroutine, main thread, JIT, 4 references | 0.8 M | `TypeOK`, `NoDangling`, `TriColour`, `CleanPause` |
| `gc_closures` | 2 symmetric closures, 2 symmetric upvalues, main thread, 4 references | 1.7 M | `NoDangling`, `FullGCFrees` |
| `gc_leaf` | table, userdata, string, main thread, JIT, 2 references | 0.4 M | `NoDangling`, liveness: `CycleEnds`, `GarbageFreed` |
| `page_run` | 3 symmetric chunks, requests of 576, 1024, 1025 bytes | 90 k | `SlotsAccounted`, `NonfullExact`, `RoutedBySize`, `IsAllocator` |
| `fin_run` | 3 userdata, one of them created in the last close round, 2 metatables, 2 callables, 2 close rounds | 0.5 M | all of `Finalizer`'s properties |
| `fin_fullgc` | 2 userdata, `LateFullGC` | - | violation of `QueuedPreserved` |
| `fin_close` | 2 userdata, `CloseCollect` | - | violation of `RootSweepValid` |
| `tab_run` | 2 symmetric string addresses with 2 hashes, integers 1 to 3 | 0.4 M | `LenIsBorder`, `IsTable`, `TraversalExact` |
| `str_run` | 5 contents, 2 seeds, 2 to 16 chains | 0.2 M | `TypeOK`, `Findable`, `SweepExact` |
| `trace_run` | a function, an `ITERN`, a call and a return of one prototype, 2 traces | 2.1 M | `NumbersExact`, `BytecodeExact`, `TracesLive`, `RecordingKept` |
| `trace_stitch` | a function, a call, 3 numbers, `PendingAborts` | - | violation of `RunsIdle` |

Bounds: `MaxRefs` bounds the references in heap and registers; `SweepMax` is
`GCSWEEPMAX`, 1 instead of 40, so that sweeps are interrupted everywhere. Two
tables suffice for a black-to-white reference, a table on two lists and a weak
entry whose object is reached on another path; a table stored in itself and a
table between the root and another cover chains. `gc_threads` has the smallest
population in which an upvalue is open in a suspended coroutine, reached
through a closure that another thread holds, and closed by the death of its
thread; `gc_closures` the smallest in which an upvalue is inherited from one
closure by the next and outlives one of them, or exchanged for another one
(`lua_upvaluejoin`; with the JIT, 3.2 M states, it was checked too). The safety
properties of `GC` are proved without bounds (section 5), so its runs serve to
find mistakes in the model and for the properties that are not proved. In
`Finalizer`, two userdata give the order of finalization, a cursor in either
of them and a finalizer nested in a full collection inside a finalizer. A third
one is created by a finalizer of the last close round (`Late`, which keeps the
other times out), so that `lua_close` gives up with a candidate left:
`FinalizedBeforeFree` and `FinalizedEventually` except that case, and only that.
`MaxRounds` is 2 instead of 10; `Clearable` and `WeakUdata` keep symmetric
cases out. In `page_run` the pages are shrunk until one of the class of 576 has
three blocks and one of the class of 1024 two, the fewest with which a page is
neither full nor empty and a free list has an order; 1024 and 1025 are the two
sides of the limit between the allocators, and three chunks let two pages of a
class be on its list while a block moves to another class. `SMALL_PAGE` is not
used by these classes, `LARGE_PAGE` and `DATA_OFFSET` keep the formula of the
code. `gc_heap` and `gc_leaf` have no deadlock; `Finalizer` stops after
`lua_close` and `Trace` after a crash (2.6), so their configurations do not check
for deadlock.

In `tab_run` the hash part reaches eight nodes and the array part five slots;
two strings and three integers give chains of three that run through each
other, every kind of eviction, and an integer that moves between the parts both
ways. `MAX_ASIZE` is the largest size that `lj_tab_reasize` is called with; one
of the two sizes in `HBITS` has no hash part. States that differ in `op` alone
are taken for one (`VIEW`): no operation reads it and each sets it, so they have the
same successors, and TLC checks every step it generates. A random simulation with six
string addresses (13 M states) found no violation either. In `str_run` the
hashes collide on purpose: with `LJ_STR_MAXCOLL` 1 three strings on a chain are
too many; there are contents that collide in one hash, in both and in neither,
under one of the seeds each, and chains that a dense hash leads to a swept and
to an unswept part of the table. In `trace_run` two numbers are enough for a
chain of two, a side trace, a stitched trace, a number that is reused while its
former trace is alive, and for running out of numbers; `MaxFrames` bounds the
stitched frames. The same with two prototypes (3.2 M states) was checked too, and
random simulation with five sites, two prototypes, four traces, three numbers
and two frames (14 M states).

Fairness. `GC!FairSpec`: the collector is driven by allocation
(`lj_gc_check`), hence weak fairness of `Collector`; a program that stops
allocating collects nothing, and nothing is claimed for it. A trace is left at
some time (weak fairness of `ExitTrace`): compiled loops contain GC checks, and
`lj_gc_step_jit` makes a trace exit in `GCSatomic`. That exit runs a collector
step itself (`src/lj_trace.c:950-952`) with `jit_base` reset, which is why
`Atomic`, enabled again and again between traces, is strongly fair; weak
fairness would allow traces to starve it. Mutator actions have no fairness.
`Tab`, `StrTab` and `Trace` promise nothing that has to happen: they have safety
properties only, and no fairness.
`Finalizer!FairSpec`: collector steps are weakly fair outside finalizers
(inside, the threshold is `LJ_MAX_MEM`), a finalizer returns, and `lua_close`
runs to its end.

## 4. Where code and comments disagree

1. **A full collection while finalizers are pending** (`fin_fullgc`).
   `lj_gc_fullgc` ends a sweep in progress and starts a cycle whether or not
   `mmudata` is empty (`src/lj_gc.c:1069`). That cycle does not mark the
   queue, so the metatable and the callable that `gc_sweepudata` kept for a
   queued userdata are freed before its finalizer is resolved, against the
   comment at `src/lj_gc.c:492-495`. (In stock LuaJIT, `atomic` marks
   `mmudata`.) Shortest case: a userdata whose metatable has no other reference
   dies, is queued by an incremental step, and the program calls
   `collectgarbage()`. When nothing of that kind happens `fin_run` shows
   `QueuedPreserved` to hold.
2. **`lua_close` in the middle of a sweep** (`fin_close`).
   The comment at `src/lj_gc.c:159-161` has it that `lj_gc_separateudata` runs
   when no sweep cursor is active, and in `atomic`. It is no longer called in
   `atomic`, and `lua_close` calls it in any phase. A finalizer of the closing
   rounds that calls `collectgarbage()` resumes the sweep from a cursor inside
   a userdata that has been moved. Without such a finalizer no cursor is used
   again (`CursorOnSegment` in `fin_run`).
3. **A trace runs while an aborted recording is pending** (`trace_stitch`).
   `trace_hotside` asserts (`src/lj_trace.c:814`) that nothing is being recorded
   at a hot exit. An error thrown while recording clears `LJ_TRACE_ACTIVE` and
   leaves the rest to the next interpreted instruction. If the error ends a
   coroutine that a stitched trace has resumed, `cont_stitch` comes first and
   jumps to the linked trace (`src/vm_x64.dasc:2410`), whose exit may be hot. A
   build with `LUA_USE_ASSERT` stops there, for instance for a loop around
   `coroutine.resume` of functions in which `assert(false)` is recorded. Without
   assertions the recording is overwritten: its number is never given back,
   `J->trace` keeps pointing at `J->cur`, and a pending patch of the bytecode
   stays undone. By the same delay, C code that goes on after it caught the
   error finds the recording half taken down; if it flushes all traces with
   `luaJIT_setmode`, the later `trace_abort` of a stitched recording looks up a
   trace that is gone (`src/lj_trace.c:621`), and the patch that is still
   pending is made with its number: with `PendingAborts`, `BytecodeExact` and
   `TracesLive` fail too (a hot exit, an error, a flush).

## 5. Proofs

All theorems are checked by TLAPS (SMT, Zenon, LS4), for every value of the
constants under the named assumptions of the module they are about.

* `GC`: the kinds of objects are disjoint (`KindsAssumption`), the main thread
  is a thread and no object is the non-thread (`MainAssumption`), only strings
  and the main thread can be fixed (`FixedAssumption`), `SweepMax > 0`
  (`BoundsAssumption`). No finiteness is assumed.
* `Finalizer`: userdata, metatables and callables are different things
  (`KindsAssumption`), `None` is none of them (`NoneAssumption`), each metatable
  names a callable (`GcOfAssumption`), there is at least one round
  (`RoundsAssumption`). No finiteness is assumed.
* `PageAlloc`: requests are positive (`SizesAssumption`), a page holds a
  block of its class (`PageAssumption`). Any set of chunks.
* `Trace`: `TraceAssumption` (at least one number, sites have a prototype and
  a kind, `NULL` and `CUR` are no traces), and `~ PendingAborts`. Any prototypes,
  sites, trace objects and number of numbers; no finiteness is assumed.
* `Tab`: any finite set of keys, of which integers are natural numbers and
  strings are none, any string IDs, sizes of `lj_tab_new` and of
  `lj_tab_reasize` in the natural numbers, and a nil that is neither a key nor a
  number (`KeysAssumption`).
* `StrTab`: any finite set of contents, any two hash functions into the natural
  numbers, any seeds and any sizes (`SizeAssumption`, `HashAssumption`).

What is proved:

* `PageAlloc_proof`, about `PageClass`: `SizeClassFits` (the four shifts of `page_size_class` pick,
  for every size, the smallest class of the table that holds it), `BlockInPage`,
  `BlocksDisjoint` and `PointerAligned` (the blocks of a page, for every class,
  page size and header size). These are what lets `PageAlloc` represent an
  address by a chunk and the number of a block. No assumptions.
* `StrTab_proof`: `Invariance` (`Spec => []IInv`) and from it `TypeCorrect`,
  `StringsAreUnique` (`Findable`) and `StringSweepIsExact` (`SweepExact`).
* `PageAlloc_proof`, about `PageAlloc`: `Invariance` (`Spec => []IInv`) and from it `Typing`,
  `EverySlotAccounted`, `NonfullListsExact`,
  `SizeTellsOrigin` and `Refinement` (`Spec => IsAllocator`).
* `Tab_proof`: `Invariance` (`Spec => []IInv`) and from it `TypeCorrect`,
  `LengthIsBorder` (`LenIsBorder`), `TraversalIsExact` (`TraversalExact`) and
  `Refinement` (`Spec => IsTable`).
* `GC_proof`: `TypeCorrect`, `Spec => []TypeOK`, then `Invariance`
  (`Spec => []IInv`) and from it `NothingDangles`, `MarkingIsTriColour`,
  `GrayIsListed`, `PauseIsClean`, `WeakTablesCleared`; with `FullInv` besides,
  `FullGCFreesGarbage` (`Spec => FullGCFrees`).
* `Trace_proof`, if no abort is pending while other code runs
  (`~ PendingAborts`): `Invariance` (`Spec => []IInv`) and from it `TypeCorrect`,
  `NumbersAreExact`, `BytecodeIsExact`, `TracesStayLive` and `RunsOnlyIdle`. The
  condition is needed: without it `RunsIdle`, `BytecodeExact` and `TracesLive`
  fail; section 4 has the reasons.
* `Finalizer_proof`, for the programs of `fin_run` (`Careful`: neither
  `LateFullGC` nor `CloseCollect`): `Invariance` (`Spec => []IInv`) and from it
  `TypeCorrect`, `CalledOnce` (`FinalizedOnce`), `NoneFreedUncalled`
  (`FinalizedBeforeFree`), `NothingDangles`, `QueuedArePreserved`, `NewestFirst`
  (`ReverseOfCreation`) and `CursorsStayValid` (`CursorOnSegment`). The
  restriction is no convenience: with `LateFullGC`, `NothingDangles`,
  `QueuedArePreserved` and `NewestFirst` fail; with `CloseCollect`,
  `NothingDangles`, `QueuedArePreserved` and `CursorsStayValid` do, and what the
  code does once a cursor is astray, calling a finalizer twice perhaps, is beyond
  the model. Section 4 has the reasons.

The argument for `GC`. `NoDangling` is not inductive: that a reachable object is
allocated says nothing of whether the sweep ahead will free it. `IInv`
strengthens it with the predicate `Safe(o)`: `o` is allocated and does not
carry the other white, which is what a sweep frees.

1. *`RootsSafe` and `Closed`.* The roots, the registers and what the base
   metatables name are safe, and what a safe object refers to, weakly too, is
   safe; so is what an open upvalue of a safe thread names. The closure of the
   roots is then allocated. The mutator only passes on references it got from
   safe objects, except where it finds an interned string or an open upvalue:
   these may be dead, and `lj_str_new` and `func_finduv` make them safe again
   by flipping their colour.
2. *`Shape`, `Colours`, `Marks`, `GrayListed`.* While marking nothing is dead
   (`NoneDead`), so `Closed` is about the allocated objects; `BlackClean` and
   `GrayListed` make every path from a root to a white object lead through
   something that `Atomic` still traverses. What it leaves white is therefore
   not reachable from what it marks or clears, and `Closed` survives the flip
   of the white, the one step that makes objects unsafe.
3. *`Sweeps`.* In each sweep phase, which objects may still carry an old
   colour: those ahead of the cursor, and those of the phases to come. At the
   end none is left, which is `CleanPause`, and which the next cycle needs for
   `NoneDead`.

`IInv` was checked with TLC on these populations before it was proved. The
proof has one lemma per action; marking and sweeping rest on lemmas about
`Marked`, `IsTraversal`, `Batch` and `SweepColour`.

That a full collection frees all garbage is the other direction: nothing is kept
without cause. `IInv` says nothing of it, and outside a full collection it does
not hold, since what dies while a cycle marks floats to the next one. `FullInv`
is about the cycle of a full collection, which the mutator does not interrupt:

1. While marking, what is gray or black is in every set that contains the roots
   and is closed under strong references (`MarkedReached`). It holds at the start
   because a cycle begins with everything white (`CleanPause`), which is why
   `lj_gc_fullgc` first sweeps a half-done cycle to its end, and it is kept
   because a marking call stays within such a set (`MarkedWithin`).
2. From the atomic phase on, what the sweep will not free is in every set that
   contains the roots and the fixed objects and is closed under references
   (`KeptReached`). `Atomic` gets it from the first part and from
   `ClearWeak`: strings apart, an entry that stays in a weak table was marked
   through other references, and a string that `gc_clearweak` marks is held by
   that table. A sweep step keeps it though it removes references: safe objects
   refer only to safe ones, and the value of a dead open upvalue stays in its
   stack slot. It also needs that a sweep gives no free object a colour
   (`NoneAhead`), hence that userdata leave the candidate segment when they are
   freed (`SegmentKept`).
3. When the last sweep step ends, what is unreachable is not safe, and what is
   neither safe nor free lies ahead of the cursor (`Sweeps`), so it is freed.

`SegmentKept` and `FullInv` were checked with TLC on the four populations of
`gc_heap`, `gc_closures`, `gc_threads` and `gc_leaf`.

The argument for `StrTab`. A lookup computes the primary hash, looks whether
that chain is flagged, and takes the dense hash if it is. It finds a string if
and only if the string has made the same choice: `Hashed`, *a string has its
secondary hash exactly if the chain of its primary hash is flagged*, and is
linked where its hash says. Rehashing a chain keeps this because a flagged
chain is never rehashed again, so that every string whose primary chain is
flagged now is on that chain and is moved; a resize because it recomputes both
flags and hashes from the primary hash. The strings that sit on a chain by
their secondary hash are rehashed to where they are. For `SweepExact`, `Exact`
says that a dead string is not behind the sweep cursor and `Kept` that what the
program holds is not dead; a rehash in the middle of a sweep may move strings
behind the cursor and keeps `Exact` only because it sweeps them first. There is
one lemma per function of the code (`ResizeGood`, `RehashGood`, `AllocGood`,
`FindOrAllocGood`, `NewGood`) and one per action.

The argument for `PageAlloc`. Its properties are nearly inductive together.
`IInv` states them about an allocator as a value, minus the pages an operation
has in hand (`Accounted(s, z, X)`, `Listed(s, X)`), because
`page_alloc_small` and `page_free_small` break and restore them within a call,
and because a moving reallocation allocates in the middle of one. There is one
lemma per function of the code. The refinement needs one part that no run
states: `Clean`, *memory in no block holds nothing of the program*. The
refinement mapping shows a block's contents as `data` while it is allocated, and
without `Clean` a fresh block could seem to hold what was written to it before.

The argument for `Finalizer`. Typing carries along what the lists and the control
stack are made of: all that Lua code can name has been created, what is queued
or being finalized has a metatable, and a metatable is set once. `CalledOnce`
rests on `Uncalled`: a candidate, a queued userdata and one not yet created has
not been called, and a call takes the userdata off the lists first. For
`NoneFreedUncalled`, `Scanned` says that *dead candidates lie ahead of the
cursor*: a userdata that is created in the middle of the scan shifts the places,
one that is unlinked too; the root sweep then finds no candidate to free. The
other four need to know what the sweep will do:

1. *`Present` and `Spared`.* What a queued userdata, a candidate, the program and
   a running finalizer need (metatable and callable included) is allocated, and
   none of it, dead candidates apart, is among the dead. `Atomic` establishes
   the second, `gc_preserve_now` keeps it when a dead candidate is queued, and a
   sweep frees only the dead.
2. *`Queued`.* No cycle is started while a userdata is queued, so `Atomic`, which
   does not mark the queue, has nothing to lose there. This is what fails with
   `LateFullGC`. `Nesting` keeps it through nested full collections: the first
   half of one is always on top of the stack and queues and calls nothing.
3. *`Deaths` and `Cursors`.* No dead object outlives the root sweep, and either
   cursor is on the segment in its phase. This is what fails with
   `CloseCollect`.
4. *`Ordered`.* Segment and queue are in the order of creation, newest first, and
   a candidate that is still to be queued is older than all that are queued.

`IInv` was checked with TLC on the population of `fin_run`.

The argument for `Trace`. None of its properties is inductive alone: that the
bytecode leads to live traces needs the chains, the chains need the numbers, and
that a number is not freed while a trace names it needs what the collector
marked while chains were cut and traces were finished. `Trace_lemmas` states what
holds of a heap as a value, `Sound`, and shows that each function of the code
keeps it; `Trace_proof` has one lemma per action.

1. *The pending patch counts as made* (`Made`). While a recording has an
   instruction unpatched, what holds is said of the heap with the patch made; no
   flush can take the trace of that instruction away meanwhile, except by
   `luaJIT_setmode` under a pending abort, which is why that is excluded.
2. *`Registered`, `Chained`, `Barring`, `Counted`.* Numbers and traces name each
   other; the chain of a prototype is a list without repetitions of root
   traces, and its instructions lead to just these; a number below `freetrace`
   is taken. Here is `NumbersExact` and `BytecodeExact`.
3. *`Kept(V)` and `InTree(K)`.* There is a set `V` of traces such that the heads of
   the chains are in `V`, and the numbers of a trace in `V` all name traces in
   `V`; and a subset `K`, those that may be run, each on the list of side traces of
   a root trace of `K`, from where machine code jumps within the tree or to the
   trace linked to. A finished trace joins `V` if something in `V` names it,
   `lj_trace_flushall` empties `K`, and the atomic phase narrows both to what is
   black. That stitched frames are in `V`, the running trace in `K`, and no trace
   of `V` is white under a sweep (`Held`) is `TracesLive`.
4. *`Marks`.* While marking, black traces and marked prototypes lead to no white
   trace, with one exception that made this the hardest part to find: a flush
   takes a trace off its chain but leaves its `nextroot`, so what followed it is
   marked only when the collector has gone through traces that are off the
   chains. `Marks` says that any set which contains the gray traces off the
   chains and what is so reached from them contains what is not marked yet.

`lj_trace_flushall`, `lj_trace_flushproto` and the walk along a chain are
recursive functions. The library's induction theorems are out of the provers'
reach, so each such function has a lemma that it stays in every set that one of
its rounds stays in, from a smallest counterexample among the natural numbers
(`SetInduction`). `IInv` was checked with TLC, its existential quantifiers
bounded, on the population of `trace_run`.

The argument for `Tab`. What the code's comments fear is a key that cannot be
found: an eviction moves a node in the middle of a chain while other chains run
through it, and a string that came to live at a dead string's address has its
key in a node on the wrong chain, so that a later store may put the same key, or
its colliding neighbours, somewhere else.

1. *Chains.* A chain is a function from nodes to nodes; a node is on the chain of
   another one if it is in each set that has that one and that no link leads out
   of (`Reaches`). `Linear`: no two nodes have the same successor and no set of
   nodes is a cycle. Four lemmas say what joining a chain, leaving one, moving
   behind another node and eviction do to `Reaches`. That a loop along a chain
   ends before the number of its rounds is used up follows by descent on the
   set of the nodes ahead (`Behind`).
2. *`Sound`.* `Linear`, live nodes have different keys, an unused node is on no
   chain (`Spare`), and `Found`: *the first node that bears a live node's key on
   the chain of the key's main position is that node*. `First` and not just
   `Reaches`, because a dead node may bear a live key; and nothing is said of
   the main positions of dead nodes, because `Recycle` changes them.
3. *`Semi`*, in the middle of an eviction: `Found` holds of the nodes that are not
   behind the one the loop has reached, and no live node behind it has its main
   position further along. `RechainAll` keeps it with every round and ends with `Sound`.
   `Rechain` may stop early, when no node on the chain has the vacated main
   position, because then all of them are found already.
4. *`TabOk` and `Contents`.* The hash part is sound, holds no key that the array
   part is for, and every node from `freetop` up is taken. Each operation is
   described by what it does to `Contents`, the set of keys with a value. A
   rehash keeps it and leaves room (`Rehashed`): the size that `bestasize`
   subtracts is what the array part will hold, so each insertion of `resize`
   finds a free node. This gives `TypeCorrect`, `Refinement` and, with the two
   searches as loops, `LengthIsBorder`.
5. *`Travels`.* A traversal stands at an index such that the keys it owes are those
   of the live slots from there on. Clearing a field leaves its dead key in the
   node, so that `keyindex` finds the place again (`Stands`); a new string cannot
   take the address of the key the traversal stands at, which the program holds.
   This gives `TraversalIsExact`.
6. *`Effect`.* What a step does to `Contents` and which `op` it records are stated
   together, one case per operation, so that `Refinement` maps an assignment to
   the assignment of that key and value and nothing else.

`IInv` was checked with TLC on the population of `tab_run`.

Only model-checked: the liveness properties `CycleEnds`, `GarbageFreed` and
`FinalizedEventually`, which are beyond the prover, and `RecordingKept`, which
needs more of the chains than the invariant of `Trace` says. Every other
invariant and every action property of a passing run, and each of the
refinements, is a theorem.

## 6. Not modelled

Nine tenths of the source are a compiler, its backends for seven architectures,
interpreters in DynASM assembly, a C type system with its calling conventions,
parsers, formatters and libraries. What makes these correct is that two programs
are equivalent or that text is translated correctly; there is no state of
several actors to enumerate, and tests reach them well. The models therefore
cover a small share of the lines and most of the state that lives from one call
to the next.

* Recorder, IR, optimizer, assembler, snapshots, interpreter: as above; `Trace`
  keeps their outcomes only.
* Parser, lexer, bytecode reader and writer, formatters, serialization,
  libraries: functions of their input.
* FFI: conversions and calls are ABI; callback slots and the finalizer table of
  cdata are state and would be worth a module.
* Backend allocator: its bins are out of reach of small instances; `PageAlloc`
  uses it as a set of chunks.
* Profiler: the signal handler changes the hook mask and the dispatch table
  while the interpreter reads them. What the interpreter finds is a data race,
  settled by compiler and machine, and no text of the repository promises
  anything of it, so there is nothing to check.
* Tables: an allocation that fails inside `lj_tab_resize` (2.4).
* Collector: byte accounting and step size, errors thrown by the body of a
  finalizer (caught by `lj_vm_pcall`, they change none of the modelled state).
  Memory exhaustion inside the collector is modelled only as the throwing
  `lj_state_checkstack`. Userdata that get a `__gc` after they were scanned,
  which the fork's README excludes.
* `lua_newstate` giving up in the middle of its allocations.

## 7. Plan

1. `GCPacing`: threshold, debt and step arithmetic of `lj_gc_step` and
   `lua_gc` in words of bounded width.
2. `GC`: prototypes as objects; cdata finalizers.
3. `Tab` with allocations that fail; callback slots of the FFI.
