# PlantLang: a verification of the native runtime

PlantLang is a self-hosted language. `src/plantc/*.plant` is its compiler (lexer,
parser, C generator), and every compiled program links against
`runtime/c/plant_runtime.c`, one C file that holds the memory heaps, the worker
pool, the async engine, the exception frames, the mission modes and the collections,
against `plant_math.c`, a computer algebra system, and against `plant_tensor.c`,
`plant_autograd.c` and `plant_ad2.c`, tensors with two engines of automatic
differentiation. The compiler is text processing which self-hosting already exercises.
The behaviour that is hard to test is in the runtime and in the control code the
generator emits around it, and that is what this directory specifies.

Paths below are relative to the repository; `rt` is `runtime/c/plant_runtime.c`,
`cg` is `src/plantc/codegen_c.plant`, CHANGELOG is `docs/CHANGELOG.md` and Language Tour is
`docs/Language Tour.md`; `pm`, `pt`, `pa` and `p2` are `plant_math.c`, `plant_tensor.c`,
`plant_autograd.c` and `plant_ad2.c` beside `rt`. Properties are TLA+ definitions, each with a
comment beside it; `PROJECT.json` gives the source lines of every definition.

1. Inventory · 2. Modules and plan · 3. Runs and bounds · 4. Fairness ·
5. Proofs · 6. Where the code and its documentation disagree · 7. Not modelled ·
8. Running it

## 1. Inventory

| Component | State | Operations | Hard behaviour | What makes it correct |
|---|---|---|---|---|
| **GlobalARCHeap** (PERSISTENT), rt 6760-7110 | object list, counts, incoming-edge counts, edge lists, leases, deferred queue | alloc, retain, release, link/unlink edge, lease, gc, lease evict | cycles; counts left stale by freed parents; leases that run out between calls; objects queued for a later free; a collection inside an allocation | what the program can reach is never freed; counts agree with holders and links; the queue never names freed memory; a collection leaves no garbage |
| **SAFE worker pool**, rt 7740-8490 | slots (pid, socket, state, ready), fork counter, injected stalls | call, acquire, drain READYs, grow, send, receive, time out, respawn, sweep, stall, starve | processes that die, stop or answer late; retries; failing fork and pipe; inherited descriptors | a call returns with its own result, or runs its body inline, where the body may crash the program or never end; bodies run a bounded number of times; only a failed pipe leaves a worker busy |
| **Async engine**, rt 4990-5650 | task table, round-robin queue, heap, mode and samples, contexts, awaited child, timers | register, push, pop, adjust mode, await, finish, cancel task, cancel context, drain | cancellation from inside a running body; records freed by several paths; two queues and switches between them | each live task is in one place; no wake-up is lost; no record is read after it is freed; the drain runs everything |
| **Weather frames**, rt 1029-1154, 7040-7450, and cg 6290-6361, 6790-6884, 7549-7561 | frame stack, dispatch target, exit lists, shelter marks, deferred frees | enter, leave, calm, throw, dispatch, register, purge, and generated GIVE, BREAK, CONTINUE | non-local jumps out of any depth; exits threaded at compile time; a frame torn down twice; storms thrown by handlers | a storm reaches the innermost matching block; CALM runs once; no closed frame stays on the stack; handles are freed once, and are freed |
| **Mission modes, SMART, simulated SAFE pool**, rt 1400-1560, 5800-5950, 6079-6660 | mode stack, active flags, capability masks, boundary copies, channel workers, vector pool | enter, exit, grant, capability test, boundary copy, dispatch of chunks, heartbeat, recovery, starvation | nested missions; exits a storm jumps over; a full stack; growth while a mission waits | a capability check answers by the grants of the innermost open mission; a boundary has the modes it separates; no worker stays busy between missions |
| **FAST heap**, rt 5950-6077, 6367-6370 | bump block, offset, escalated blocks | enter, alloc, grow, escalate, scope reset, shrink, storm | growth by realloc under live pointers; more escalations than slots | allocations stay intact until an entry or a reset rewinds the heap or `realloc` moves it; a return empties it, but for blocks that the full list missed |
| **Audit ring**, rt 5690-5800 | ring, chained hashes | append, evict, verify | a full ring loses the link its oldest event hangs on | an untouched ring verifies, a changed one does not |
| **Strings and slab**, rt 7440-7570, 900-1000 | free list, heap strings, rotating static slots | concatenate, format, free | one FREE for four kinds of storage | a variable reads the text it was given |
| **DistributedHeap**, rt 7575-7730 | ring of virtual points, node bytes, objects of the ARC heap | ring, placement, alloc, release, evict | two counts of one thing; eviction by lease under a cap | an object that is held and whose lease runs is live; placement needs no node that is not there |
| **Collections** (Set, MAP, pair MAP, Queue, Stack), rt 4490-4990 | open-addressed tables, ring, array | add, remove, has, put, get, push, pop | growth, rehashing, tombstones in a probe chain, a ring that wraps | they implement a set, a map, a queue and a stack |
| **Lists**, rt 1560-2100 | arrays | slices, order, grouping | negative and unset bounds | the laws of sequences |
| **Linear algebra**, rt 3880-4330 | matrices by row | products, elimination, determinant, inverse, solution, LU | a zero pivot, a singular matrix | inverse, solution and factors multiply back |
| **Tensors**, pt | shape, strides, data, reference count | arithmetic, activations, products, reductions, shapes, convolution, normalisation | broadcasting, padding, reduction along an axis | shapes and elements agree across operations |
| **Autograd, two engines**, pa and p2 | tape; frames of a second tape; gradient maps | record, GRAD, GRAD_HO, clear | the tape shares tensors with the program; a gradient is recorded while it is computed | a gradient is the derivative; no tensor is freed that a tape still names |
| **Computer algebra**, pm | expression trees | parse, print, simplify, differentiate, integrate, limit, series, solve | rewriting to a fixpoint; rules that call each other | every answer has the value of what was asked |
| **Lock table**, rt 7280-7350 | entries, keys by pointer | lock, wait, release | 65th lock, swap-removal | a released lock is the one that was taken |
| **JSON and text functions**, rt | none | text to text | - | regression tests |
| **Network, HTTP, TLS** | sockets, pending reads | sequential operations on blocking I/O | partial reads | mostly outside the program |
| **Lexer, parser, generator, driver** | strings | text to text | - | self-hosting convergence |
| **JavaScript prototypes, service, web REPL** | own heaps and pools | - | - | superseded by the native runtime |

How they interact:

- Generated code calls everything. `cg` emits a `setjmp` frame around each WEATHER
  body, threads exit lists into GIVE, BREAK and CONTINUE, calls `plant_safe_call` at
  a SAFE boundary, emits a step function per async action, and ends `main` with
  `plant_async_drain()`, unless `main` ends in an explicit GIVE.
- A weather frame's teardown also drains the ARC heap's deferred queue
  (`plant_weather_teardown`), and the ARC heap's eviction fills that queue.
- A SAFE body runs inline, in the parent, when no worker answers; its prologue
  then ticks the pool, so a sweep can run in the middle of a call.
- `plant_throw` is a `longjmp`: what lies between the throw and the frame (mission
  exits, lock releases, handlers) does not run unless an exit list names it.
- An allocation on a distributed node is an allocation of the ARC heap, and an eviction
  there a release; a FAST scope that closes writes to the audit ring.
- Every tensor operation calls the hooks of both tapes; GRAD_HO's backward pass consists
  of tensor operations, so it feeds both tapes too.
- All of it is one thread per process. Concurrency exists only between the pool's
  parent and its worker processes; elsewhere the difficulty is the order in which
  the program calls, and what a call does beneath another (callbacks into bodies,
  collections inside allocations, jumps out of handlers).

## 2. Modules and plan

### Written

**ArcHeap** (`MCMemory`, `Data_proofs`). The heap is one record `h`, and each C
function that rebuilds it is an operator from heaps to heaps: `Destroy`, `Drop`,
`Gc`, `Evict`, `Insert`, `AddEdge`, `RemoveEdge`. An action composes them in the order
the code does, so `Alloc` inserts, collects when the allocation counter comes round,
and evicts for whatever pressure is read. `hold` is history: the retains the program
has not given back. A client passes only objects it holds or can reach (`Usable`);
by `CacheHits` it may also look up an object that only a lease keeps, which is what a
persistent cache is for: one that is still in the heap proper (`"kept"`), or one that waits in
the deferred queue (`"queued"`). The clock is `now`. `Pressures` are the percentages
`plant_persist_pressure` may return, and the room left in the deferred queue decides
how many of the near-expiry objects are queued (`QueueChoices`). Mark is written as
the least set closed under links, not as the recursive walk.

**SafePool** (`MCSafePool`). The parent is one process with a program counter that
stands at each point where another process can interleave: acquire, drain, re-scan,
send, receive, sweep slot, inline body. Every forked worker is an actor: it boots and
says READY, reads a JOB, runs, answers, dies, or sees end of file. A fork makes a pid
and a socketpair together, so both have one name. A socket closes only when every
process that inherited the parent end is gone, because descriptors are not
close-on-exec (`PeerOpen`). `Faults` selects what may go wrong: a body that kills its
worker, a worker that dies idle, `fork`/`socketpair` failing, `pipe` failing. A body that
runs inline does so in the parent, and what kills a worker there kills the program
(`CrashInline`, `pc = "dead"`); it may also never end. `leaked` is history: the slots acquired
for an attempt whose pipe failed.

**AsyncEngine** (`MCAsyncEngine`). The engine is one record and each C function an
operator on it. `main` starts and cancels tasks, then drains, or ends in an explicit GIVE
and returns without the drain (`pc = "exit"`); a drained task runs one phase, which may start
and cancel, and ends by awaiting or returning. `MCAsyncEngine` runs one of two programs: `part =
"cancel"` cancels, `part = "modes"` (an INSTANCE with constants of its own) fills the ready queue. Generated code
passes no deadline, timeout or token and does not sleep, so the timer list is empty
and is left out. A context's priority is always 1, so a declared priority of LOW is
raised to NORMAL by `plant_async_register`; the model computes this minimum rather
than assuming it. When `plant_cancel_task` looks at a child its own teardown has
freed, what it finds is undefined; the model takes the outcome in which the record
still reads as dead, and records the read in `reread`.

**Weather** (`MCWeather`). `ctl` is the stack of open code regions (call, loop, body,
handler, CALM, a running exit list, the value of a GIVE), `fr` the frames. The runtime
operators are those of `rt`; the exits are those of `cg`, which decides at compile time
what a jump will run: a region carries that list in `lex`. Frames are numbered when
entered and never reused, so a pointer into a closed block is visible, and the first
use of one ends the behaviour with `end = "stale"`. `due` is history: the block the
storm ought to reach, computed when it is thrown from the blocks then running. `Uses`
says which of eight constructs the program contains: `nested`, `loop`, `calm`, `handler`,
`dispatch`, `give`, and a GIVE out of a block of an ASYNC action, which returns without the
exit list (`async`), and a registered handle under a lease, which `plant_lease_evict` may queue
while a frame's list still names it (`leased`). Each is a construct for which the code is known
to go wrong (section 6), and turning it off shows that the rest holds.

**SafeCall** is what SafePool promises: one call at a time, each returns the result of its
own body, which ran before, and at most three times in all. `SafePool!KeepsPromise` is the
refinement; a body that runs on in an abandoned worker is a `RunRemote` of the promise.

**Missions** (`MCMissions`) holds the mode stack, the three active flags with their masks,
the simulated SAFE pool with its channels and heartbeat, and the vector pool of SMART.
`open` is the truth that the code does not keep: the actions that are running. A FAST,
SAFE, SMART or PERSISTENT action enters and leaves by its prologue and epilogue; a storm
(`StormySpec`) jumps over the epilogues. **MissionGrants** is the promise: a stack of
grants; `GrantsFollowInnermost` is the refinement.

**FastHeap** over **AuditRing**, and **StringPool**, composed with ArcHeap by `MCMemory` (a
behaviour runs one of the three heaps). Offsets are bytes; an allocation the program holds says where
it was placed and in which incarnation of the block, so a move by `realloc` (`Moves`) shows. `kept`
is history: the allocations that no entry and no reset rewound; so is `unlisted`, the
escalated blocks that found the list of them full. The
hash of the ring is free of collisions: an event's link is the sequence hashed so far. A
string value says which of four allocators it came from, and FREE tells them apart as the
code does.

**DistHeap** EXTENDS ArcHeap: `g_dist_*` and the calls into the ARC heap are one action
each, so the accounting of both is in one state. `LinksLeased` says whether programs lease
objects that others link to: with it an eviction leaves a link to freed memory (section 6). **Collections** has the buffers of the five
containers slot by slot, with the hash as an arbitrary function; **Containers** is what they
promise, and `KeepsContainer` the refinement: the mapping `View` reads a table as the set of its
occupied slots, a ring as the sequence from head to tail. **Lists**, **LinAlg** and
**TensorLaws** (over **Tensors**) are pure: a state is a call, and the properties are laws
against a reference definition. `MCData` runs the parts side by side.

**Rationals** are the numbers of everything numeric: a double is an exact fraction, too
large to follow is NaN, and SIN, COS, EXP and LOG are stand-ins with the algebra of the real
functions (sums of angles, products of powers), so that an identity of the code is evaluated
exactly. **Expressions** has the trees, the tokens they print to and the parser;
**Simplifier** each pass of `plant_math_simplify` and their fixpoint; **Calculus**
derivatives, integrals, limits and series; **Polynomials** coefficients, roots, fractions,
factors and complex numbers; **Equations** differential equations, vector calculus and
Laplace transforms. **Duals** is the reference: a value carried with its derivative.
**Algebra** (`MCAlgebra`) holds the inputs and the properties. Its inputs include four kinds on which
the code is wrong; a property speaks of a kind only if `Wider` names it: quotients of quotients,
a quadratic with a negative leading coefficient, one that FACTOR takes for a square, and
the transforms SIN(t) and SINH(t) (section 6).

**Tensors** has every operation of pt on elements that carry their derivatives along the one
parameter of the instance; the code has the value only, and the derivative is what a gradient
is compared with. **Autograd** is the first engine: the tape, its references, the backward
rule of each operation. **HigherOrder** is the second: a backward rule is a list of tensor
operations, each recorded by both engines, with the gradient map's references. **Gradients**
(`MCGradients`) is a program on them: it computes, reduces, differentiates, clears and
drops in any order, and `known` says for which tensors an engine still has the computation.

Each module also holds *fault variants*: an operator or an action as a plausible slip
would have written it. No specification uses them. `PROJECT.json` pairs each property
with a variant that breaks it, which shows that the property can fail.

### Still planned

1. **LockTable**: small and sequential; its 65th entry matters.
2. **ArcHeap with Weather**: the shared deferred queue. `Weather!QueueEvicted` and
   `ArcHeap!Evict` are its two halves now. **Missions with Weather**: `StormySpec` stands for
   the storm that crosses missions.
3. EIGEN and SVD, statistics and quadrature need numbers that are not rational.

## 3. Runs and bounds

| Run | Configuration | Shows |
|---|---|---|
| `persistent_cache` | 2 objects, leases of 2 ms, collection every 2nd allocation | a collection takes an object whose lease runs (violation) |
| `pool_faults` | 2 slots, 1 worker at start, maximum 2, 2 calls, 1 sweep or stall, 8 forks; crash, fork, pipe | every call comes back or runs its body inline; only a failed pipe leaves a worker busy; the calls implement SafeCall |
| `pool_deaths` | the same without sweeps; idle death, fork | no slot without a quiet worker is handed out, and the calls still implement SafeCall |
| `async` | cancel: 4 tasks, 2 actions, 1 context besides the default, round-robin only; modes: 7 tasks, 2 priorities, threshold 1 | wake-ups, queues and the end of every task under every cancellation that spares the tasks awaiting the canceller; placement and heap order across mode switches, without cancellation |
| `async_exit` | 1 task | a `main` that ends in a GIVE leaves its task unrun (violation) |
| `weather` | 3 frames, depth 5, 2 storm types, shelters for one type or ANY, 1 handle, 1 storm object, exit list of 1 | delivery, propagation, no stale frame, handles freed once, a CALM body run once |
| `missions` | stack of 4, 4 actions open, pools of 1 to 2 and 1 to 3 workers, 3 ms | capability checks implement MissionGrants for the nestings that the flags tell apart; boundaries; no worker busy outside |
| `memory` | ARC: 3 objects, 2 edge cells, leases of 2 ms, pressures 0, 85, 90, queue of 1, collection every 2nd allocation, lookups of kept objects; FAST: block of 4 to 10 bytes, requests of 1 and 5, a list of 1 escalated block, nested actions, moves, ring of 3 events; strings: 2 slab blocks, 2 static slots, 5 strings | counts, edges, leases, queue and collections in every order of client calls; FAST allocations are intact until rewound or moved, and a return empties the heap; the ring verifies exactly when nothing was changed; texts are kept |
| `data` | ring of 2 nodes with 2 points each; 3 objects, nodes that hold 1 of them; tables from capacity 2, 3 values, any hash into 2 slots; lists to 3, matrices to 3 by 3, shapes to 3 dimensions of 3 | containers implement Containers; held objects with a lease live; laws of lists, matrices and tensors |
| `algebra` | 16483 calls: trees of depth 2 over 5 leaves and 5 functions, the integrals of the table and their sums, polynomials with coefficients -2 to 3, trinomials up to 9 | every answer of the algebra has the value of what was asked, at rational points |
| `gradients` | 12 programs of 2 operations, 2 reductions, 2 gradients, with clears and drops, on 2 parameters | gradients of both engines are derivatives, to the second order; references cover holders |
| `gradients_doc_shapes` | the same, products of any shapes | GRAD_HO answers what is not the derivative (violation) |

Why the bounds are enough to meet the hard cases:

- *Memory*, ArcHeap: a cycle needs two objects, a chain into it a third; a stale count needs a
  parent freed while the child lives. The collection interval of 2 makes it run inside
  allocations that follow any state. Pressures stand for the three bands (below 80,
  80-89, 90 and above). A queue of one is full at the second object. `MaxTime`
  lets a lease of 2 run, be near expiry (margin 1) and expire. `MaxHolds` and
  `MaxInEdges` bound counters. Objects and cells are symmetric: no property is temporal
  beyond a step, and no operator orders them. `CacheHits` {"kept"} lets a lookup revive
  an object that only its lease keeps; the queued one is section 6's.
- *SafePool*: one call forks at most four workers (two growths and two respawns), and the
  sweep of its inline prologue one per slot. `BeginCall` starts a call only while that
  many forks are left, so `MaxSpawn` never decides what can happen inside a call. Two calls are needed for a late
  answer to meet the next call; two slots for a sweep to touch another slot than the
  caller's.
- *AsyncEngine*: four tasks make a task, the child it awaits, a grandchild, and an
  unrelated one. The code's threshold is 64; the mode logic depends on the queue's
  length against the threshold only, so threshold 1 with seven tasks (`ModeTasks`) switches up
  and, by 7/10 of it, down again. A threshold of 64 keeps the mode of the other program fixed.
- *Weather*: three frames are two nested blocks and one that a handler's exit or a
  later statement meets; depth 5 lets a call and a loop stand between blocks. Two
  storm types let one shelter match and the other not; a storm of the type a block has no
  shelter for meets what a block without shelters would do. Runs of a CALM body are counted
  up to two (`Again`).
- *Missions*: four open actions nest every mode once. Two workers are one busy and one that
  the growth adds; three milliseconds pass a heartbeat and a response window of one.
- *Memory*, FAST: 4 to 10 bytes is a doubling and the rest up to the limit. A request of 5 misses a
  used block it would fit after one or two doublings, and escalates at the limit and before it; the
  second escalation finds the list full. A nested entry rewinds what its caller was given, and a growth
  moves it or not. A ring of three is full at the fourth event, and two scopes with growth and
  escalation log more. Two slab blocks run out at the third string, two static slots turn round.
- *Data*: a table of capacity 2 rehashes at the second value, and hashes into {0, 3} collide,
  wrap and leave tombstones on the path of another value. 3 by 3 is the first matrix whose
  elimination can meet a zero pivot after a step. Dimensions 1 to 3 tell a broadcast axis from
  a full one, and windows of 1 and 2 over 1 to 3 with stride and padding hang over each side.
- *Algebra*: each rule looks at one node and its children, and a collected sum at three terms;
  depth 2 with every operator on top of every small tree meets each pair of rules.
  Trinomials run to x^2+8x+9, beyond the smallest that FACTOR takes for a square.
  `MaxParts` and `MaxHopital` bound recursions that the code bounds by luck (section 6).
  A point at which a side is NaN is skipped; every tree has points where neither is.
- *Gradients*: a second operation reads what the first recorded, a second gradient reads what
  the first left on either tape. The second engine refuses third derivatives, so two passes
  are all it has. Kits split the operations so that each meets those whose rules it shares.

The deadlock test is off in every configuration, because each system may stop: clients
run out of bounded calls, `main` ends, the program returns, crashes or aborts, a call is one state.

One variation of a run is worth repeating by hand: `Weather.cfg` with Storms {"ZERO"}, Clauses
{{}, {"ZERO"}}, Handles {"h1", "h2"}, ExitMax 2, MaxFrames 2: `CalmOnce` and `NothingLeaks` with two
handles and an exit list of two. Section 6 lists those that violate something.

## 4. Fairness

- `SafePool!FairSpec`: weak fairness of the parent's steps in the runtime alone. The operating
  system runs it, and each wait in it has a deadline (`poll` with a timeout), so some such step is
  always enabled inside a call until the body runs. Bodies get no fairness, in workers or inline:
  they may crash, hang or be stopped. So `CallReturns` claims that a call comes back to its caller
  or starts its body inline (`pc` is `"idle"` or `"body"`), and nothing of the end of that body.
- `MCAsyncEngine!MCSpec`: in the program that cancels, weak fairness of the end of `main`, of the
  drain loop's turn, and of a body's return. The engine is a single-threaded loop, and a body that
  never returns would be a program that never ends. `main` may end without a drain, so `TasksEnd`
  speaks of the tasks that are live once it drains. Awaits and spawns are bounded by `MaxTasks`.
  The program of the modes has no fairness and no liveness property.

## 5. Proofs

A theorem below holds for every value of the constants that the module's `ASSUME` allows
(any number of objects, slots, calls, workers, bytes, blocks or events), and under the
hypothesis in its row where there is one. Each hypothesis is a limit the code has and section
6 shows a counterexample beyond it. Every invariant that a proof uses was first checked by TLC
on an instance. The modules with proofs are named after the module they are about
(`Memory_proofs` and `Data_proofs` after the run: the one is about FastHeap, AuditRing and
StringPool, the other about ArcHeap, DistHeap, Collections, Lists, Tensors and LinAlg); `ProofLemmas` holds the facts
about numbers, remainders, sequences and loops that several of them cite.

| Module | Theorem | States | If |
|---|---|---|---|
| `Data_proofs` | `TypeCorrect` | `[]TypeOK` | `NoRequeue` |
| | `CountsAccount` | `[]Accounting` | `NoRequeue` |
| | `UsableNeverFreed` | `[]UsableIsLive` | `NoRequeue` |
| | `QueueNeverDangles` | `[]QueueIsLive` | `NoRequeue` |
| | `GcLeavesNoGarbage` | `GcCollectsGarbage`, of steps | `NoRequeue` |
| | `HeldStaysLive` | DistHeap's `[]HeldUnexpiredIsLive` | `NoRequeue`, no object is leased that another links to |
| | `DistKeepsHeap` | DistHeap keeps `Accounting`, `UsableIsLive`, `QueueIsLive` | the same |
| | `ContainerKept` | `KeepsContainer`: Collections implements Containers | |
| | `ProbesEndKept` | `[]ProbesEnd` | |
| | `ListsAreSound` | Lists' `ListsSound`, of any call | no text is a NaN |
| | `OdometerVisits` | the loops over a tensor visit its elements in storage order | dimensions are positive, here and below |
| | `BroadcastReadsInside`, `AdditionCommutes` | a broadcast reads inside its operands and takes them in either order | |
| | `GroupsPartition` | the groups of a reduction take each element once | |
| | `SliceReadsPart`, `TransposeSwaps` | a slice and a transpose have the elements of the places they stand for | the ranges are accepted |
| | `ProductOfRowAndColumn` | a matrix product adds up rows times columns | |
| | `WindowsReadInside` | a convolution reads inside input, kernel and bias | the output has a position |
| | `PivotIsLargest` | the search loop ends at the first of the largest, and at a zero only in a zero column | the column is of numbers |
| | `TransposeTwice`, `TransposeOfProduct` | the laws of MAT_TRANSPOSE | rows and columns are at most LA_MAXD, the product is of numbers |
| `SafePool_proofs` | `ReadyWorkersAreQuiet` | `[]ReadyIdleIsQuiet` | |
| | `NoWorkerLeaks` | `[]NoneBusyBetweenCalls` | |
| | `PoolKeepsPromise` | `KeepsPromise`: SafePool implements SafeCall | |
| `Missions_proofs` | `BoundaryHolds` | `[]BoundaryKept` | no more actions are open than the stack has slots |
| | `WorkersAreQuiet` | `[]WorkersQuiet` | missions nest as the flags can tell |
| | `GrantsFollow` | `GrantsFollowInnermost`: Missions implements MissionGrants | the same |
| `Memory_proofs` | `IntactThroughout` | `[]IntactUntilRewind` | |
| | `EmptyAfterReturns` | `[]EmptyAfterReturn` | |
| | `AuditFindsTampering` | `[]AuditVerifies` | |
| | `TextStays` | `[]TextKept` | no two variables share a string, FREE is not given a static slot, no more decimals than static slots |
| | `FreesAreSound` | `[]FreesSound` | the first two of these |
| `Weather_proofs` | `StormsReachOpenBlocks` | `[]HeadIsOpen` | the program has none of the eight constructs of `Uses` |
| | `StormsAreDelivered` | `[]StormsDelivered` | the same |
| | `StormsArePassedOn` | `[]StormsPassedOn` | the same |
| | `HandlesAreFreedOnce` | `[]HandlesFreedOnce` | the same |
| `AsyncEngine_proofs` | `AwaitsAreMatched` | `[]AwaitMatched` | `Careful` (below) |
| | `ScheduledAreLive` | `[]ScheduledIsLive` | `Careful` |
| | `TasksArePlacedOnce` | `[]PlacedOnce` | `Careful` |
| | `PqStaysHeap` | `[]PqIsHeap` | `Careful` |
| | `DrainsComplete` | `[]DrainCompletes`, which no run checks | `Careful`, fewer tasks than the threshold |
| | `RecordsAreFreedOnce` | `[]FreedOnce` | the program cancels nothing |
| `Gradients_proofs` | `ReferencesCover` | Gradients' `[]RefsCoverHolders` | |

The first seven components also have `TypeCorrect` (`StrTypeCorrect` for StringPool), and a module
has `Invariance` (`CollInvariance` for Collections) where one invariant carries everything.

**ArcHeap.** `NoRequeue` says: either clients never revive an object that waits in the deferred
queue (`"queued" \notin CacheHits`; one that only its lease keeps they may), or the pressure is never
read in the band (80-89) in which evictions are deferred. Section 6 violates `QueueIsLive` in exactly
the remaining case; `memory` is an instance of the first disjunct, with all three bands. `IInv` is
`Sound(h, hold)` with the ranges of the counters. `Sound` says more than the properties do,
for three reasons:

- `UsableIsLive` is not inductive: freeing an object is safe only if no *counted* link
  leads to it. So the invariant carries the accounting (count = holds + incoming edges as
  counted) and that an object's followed links never exceed its incoming count. A count
  may be too high, since freeing a parent does not tell its children; it may never be
  too low.
- Queued objects keep their edge lists while what these point to may go. So the
  invariant asks that a link's target be live only for parents not queued, and counts
  only those links (`LiveIn`).
- A queue entry must have count zero and be flagged, which `NoRequeue` preserves: no
  client reaches a queued object, or none is ever queued.

From it each operator on heaps has one lemma (`DropSound`, `GcSound`, `EvictSound`,
`InsertSound`, `AddEdgeSound`, `RemoveEdgeKeepsInv`), and an action composes them.
`DestroyUnheld` is their common core: destroying a set that no followed link enters from
outside keeps the invariant, whatever holds its members lose. `GcClosed` shows that what the
sweep takes is such a set, by way of the fact that the roots are precisely the objects with
more references than incoming edges.

**DistHeap.** A node over its cap destroys objects that the program still holds, which
no action of ArcHeap does, so their lemma is `DestroyUnheld` at its full strength. That nothing
followed leads to them is `Unshared`: a leased object has no incoming edges. It is preserved
because programs lease only such objects and link to no leased one (`~LinksLeased`), and
because collections and evictions remove edges only.

**SafePool.** The properties speak of slots; the invariant speaks of sockets. `Wired` says that no two slots share a process and that an open socket is its slot's own;
`Channels` what each socket may carry: nothing but an unread READY, unless the parent waits for an
answer on it, and then the job of the call under way in exactly one place (on the way, run, or
answered: `InFlight`). A late answer is harmless because the slot it was for has been given
another socket (the respawn) before the next call, and READY is sent once and read once.
`Bounded` counts, for each call, the bodies that ran and those that still may, from a job sent to a
worker since abandoned: never more than the attempts made, and three in all. `PoolKeepsPromise`
maps every action to a step of SafeCall or to a stutter; a body that an abandoned worker runs on
is a `RunRemote`.

**Missions.** `Tracked` (the stack is the sequence of open mission actions) gives the
boundary. For the grants, the order in which missions may nest makes `open` a sequence with
at most one mission of a mode (`Ordered`), so a flag and its mask belong to one open
action; `Governors` is the list of those that govern, and every entry and exit of the code
pushes or pops the promise's stack, or neither.

**FastHeap and AuditRing.** No hypothesis: actions nest, growths move, requests and the list of escalated
blocks have any size. `Own` orders what nobody rewound (`kept`) below the cursor, as far as it lies
in the present incarnation of the block, and names the block of `malloc` behind each of the others. For the
return, `Listed` says that the blocks not freed are those of the list and those that found it
full (`malloced` is `esc` and part of `unlisted`), through entries, storms and resets.
In the ring, `Chained` says that each event's link is the hash of the one
before it, starting from the link the evicted event left, with the tampered events as the
only exceptions; `BrokenIsChanged` turns it into the answer of the verification.

**StringPool.** The free list is a chain in memory, so `Owned` states that a sequence exists that
lists it, without repetition and disjoint from the blocks that variables use; it is what
an order of pop and use gets wrong. `Decimals` says that the static slot of a variable has not been
turned over since.

**Weather.** The runtime knows frames, the generated code knows regions, and no property is
inductive over one of them alone, so the invariant says how the two correspond. `Shape` is about
the regions, level by level: the frames of open blocks grow outwards in; a handler, a CALM body
or an exit has only code of its own call, or calls, above it; an exit list names the one body of the
running call that is open, with its CALM body, exactly when there is one (`Threaded`), and a region
that runs such a list closes this body (`Closing`). `Chained` says that the head frame and every
`next` of a linked frame is the greatest linked frame below it, where the linked frames are
those of open bodies, except one whose exit has run, and of CALM bodies no storm waits in.
From these two a throw lands at the innermost open body (`Landing`). `Storming` says that a storm
in a CALM body is due at the greatest body that shelters its type (`Greatest`), and `Passed` that
one which left a closed block is due where another waits. `Kept` says which lists
own the live handles: each is on one list or in the queue, and only frames of open blocks have lists.
The hypothesis is `Uses = {}`, as in `Weather.cfg`: for each of the eight constructs section 6 has a
counterexample. The assumption that no handle is a storm object is the code's: the program
registers handles it allocated itself, and a factory storm is released by its own functions
(rt 7437).

**AsyncEngine.** `Careful` says of the program that it cancels nothing, or that it cancels none
of the tasks awaiting the canceller and spawns fewer tasks than the threshold of the mode switch
(64 in the code). These are the two programs of `async`; in the remaining cases section 6 has
counterexamples: a switch leaves a cancelled task in the queue that is not looked at, and a body
that cancels the task awaiting it is freed while it runs. The invariant `Good(e, r)` speaks of an
engine `e` and its running task `r`, because a cancellation goes through many engines in one step.
`Family` says that a live parent awaits its child, so a task has one child and the live tasks form
lines; without it a teardown could wake a parent for the wrong child. `Awaits` ties the status of a
task to that of the child it awaits; its last conjunct, that a task marked not to run awaits nothing,
is why such a task can finish without collecting. `Queues` with `InQueue(e) = Waiting(e, r)` says that
the ready tasks are the queued ones, each once, in whichever of the two queues they were pushed.
`CutIsGood` is the common core of the cancellations: taking out a set of tasks with all below it and
waking those that awaited it leaves the engine good. `Above`, the ancestors of the running task, is
what a CANCEL of a context carries from one task of its list to the next. For the heap, `UpOk` and
`DownOk` say that the order fails only at the position the loop is at, and there only on one side.
The heap is ordered at removal because `plant_pq_pop` alone removes: a cancelled task is never in it
while the mode has not switched.

The recursions of this module are loops over `0 .. n`. That a loop's function exists
(`LoopExists`) and keeps an invariant (`LoopKeeps`) is proved by induction over a set of numbers, so
the sifts, the teardown of a tree and the cancellation of a context are within reach.

**Collections.** No hypothesis: any values, any hash into the naturals, any first capacity. A table is
right when every value is in one slot and the way to it from its hash has no free slot (`Reaches`
in `Table`); a value's slot need not be the first its probe could use, because `set_add`
takes the first tombstone it meets. A lookup stops at the value or at a free slot, so both the
answer and the end of the loop hang on a free slot being left, and that on the counters: values and
tombstones together are fewer than slots (`SetOk`, `HashOk`). The thresholds of growth, seven tenths
with tombstones and three quarters without, keep it so from capacity 1 on. A rehash is a loop over the old slots,
whose invariant says that the new table holds the values of the slots passed, without tombstones
(`Filling`). For the pair list the first pair of a key counts (`Found`); a ring is read from its head
with remainders (`Seen`), and a growth, which happens only when it is full, moves the head to 0
(`QueueGrowsKeeps`).

**Lists.** The theorem is about any call (`in \in ListCalls`) with lists of any bounded length. Its
hypothesis `Texts \subseteq Word` admits every number and every other text; a NaN compares as equal to
all numbers, so with one the comparison of SORT is no order. UNIQUE, FLATTEN and the building of a map are
loops, each with what holds after `i` turns: the texts of the first `i` elements in the order of
their first occurrences (`Firsts`); the list up to the `i`-th cut (`CutIs`, which needs the rounded-up
quotient of CHUNK); one pair for each text so far, with the value of its last place (`Braided`). REMOVE is
counted with `Occ`, the occurrences in a sequence, which `Gradients_proofs` also counts
references with.

**Tensors.** A shape is any sequence of positive dimensions. The basis is `Size` of a concatenation
(`SizeConcat`), which makes the stride of a dimension the product of those after it (`After`). The offset is a
loop over the dimensions; `OffsetOfCoordinates` and `CoordinatesOfOffset` show that it and the odometer undo each
other. The first says that after `k` turns the sum is the element rounded down to a multiple of the
`k`-th stride, the second that what the turns after `k` add is below that stride (`OffsetRest`). From these
follow the theorems about loops that compute an index of their own: broadcasts, slices, windows, and the
flat arithmetic of matrices. `GroupsPartition` is the same argument for three mixed digits (`PlaceParts`,
`PlaceOf`). What is added up at these indices is the same expression on both sides and stays opaque, so
the sums in `TensorsAgree` (totals along axes, adjoints) remain with TLC.

**LinAlg.** An entry is an exact fraction or NaN, and a comparison multiplies across, so the order needed for
the pivot is `LessAfter`, true for positive denominators only; with a NaN in the column there
need be no first of the largest, which is why the theorem is about columns of numbers. `PivotRow` is the
loop of the code: from one row to the next it keeps the best one so far unless the next is larger. `FirstLargest`
after `r` rows is its invariant (`FirstIsLargest`, `BetterIsLargest`), and `SearchIsLargest` the induction
over the rows, for any function that satisfies the loop's equation; `SearchExists` shows that there is one.

**Gradients.** No hypothesis beyond `KitsAssumption`, that a call names a built-in and passes it a
list of tensors: any programs, shapes, parameters and numbers, any tapes and frames. The
arithmetic stays opaque; a tensor's value decides only whether an operation succeeds, and each proof
covers both outcomes. `RefsCoverHolders` compares a count with the sum over five kinds of holders, so the
invariant is about the difference: `Spare(e, i)` is what tensor `i` has beyond its occurrences in
the tape, the pseudo tensors and the frames, and `IInv` says that every name is of a tensor in
the heap and that each tensor's spare references are at least the program's (`Holds`). Each step then
has one balance. An operation takes no spare reference and gives one to its result, recorded on either
tape or on none, in success or error (`Grown`); letting tensors go takes one per name (`ReleasedIs`);
a clear gives each tensor back what the nodes it drops had (`ClearedIs`, `FramesReleasedIs`). The hard
case is GRAD_HO. Its backward pass is a loop over the frames and their nodes, and each turn is a rule of
up to a dozen operations on tensors it has just made, which both tapes record while the pass
runs. `Pass` is that loop's invariant: what is spare, less what the gradient map and the
temporaries of the rule own (`Owned`), is no less than before the pass, so neither the map's
replacements nor the releases at a rule's end take a reference that is not theirs. One lemma per rule
(`AddFits` to `MishFits`) shows that it names only tensors it was handed or has made
(`StepFits`), and `FollowedIs` that any such rule keeps `Pass`. MATMUL's hands on its two shares
only after it has made both, so each is owed a reference in between (`MatmulFollowed`). That MEAN's rule forgets its broadcast (section 6)
is no obstacle: the invariant bounds from below, and a leak leaves a reference too many.

**What stays with TLC.** Liveness (`CallReturns`, `TasksEnd`), `CalmOnce`, and what the numeric
modules compute: `LinearAlgebraSound`, `TensorsAgree`, `SimplifySound`,
`CalculusSound`, `SolutionsSound`, `GradientExact`. Each compares the values of recursive definitions over
trees, shapes or matrices (what of `LinearAlgebraSound` and `TensorsAgree` is about places and not about
values is proved, as above), and several of those are `RECURSIVE` operators, in whose modules the
provers have no arithmetic; the rest need an induction with an
operator as its parameter, which the installed provers cannot instantiate. `InductiveSet`
of `ProofLemmas`, an induction over a set of numbers, stands in for it where the recursion is
a loop: `Missions_proofs` uses it for the list of governors, `AsyncEngine_proofs`,
`Data_proofs` and `Gradients_proofs` for theirs.

## 6. Where the code and its documentation disagree

Three disagreements are runs of the project.

- `gradients_doc_shapes`: the rule of MUL in GRAD_HO takes two operands of one size for two of one shape
  (p2 398), so the gradient of a [2,1] times a [1,2] tensor is wrong without a word;
  `docs/ADV2_LIMITATIONS.md`:125-126 promises an explicit error. DIV does the same, and the second
  derivative of a quotient with a broadcast divisor is zero; `Gradients!Handled` leaves both out of `gradients`.
- `persistent_cache`: a collection takes every unmarked object, and one without references is never a
  root, so a live lease does not protect it (rt 6990); `tests/regression/persistent_cache.plant`:1-4: "an
  object whose refs hit zero stays in the GlobalARCHeap while its lease is live". `GcCollectsGarbage` of
  `memory` therefore demands of a collection only the garbage whose lease has run out.
- `async_exit`: a `main` that ends in an explicit GIVE returns before `plant_async_drain` (cg 8481), and
  what it spawned never runs; Language Tour 1352-1353: "so every worker completes before the program exits".

The others are counterexamples of the same modules: a property, and a configuration of this
directory with the constants changed that are given here. "Any" or no constants means the
configuration as it is, with the property instead of its own.

| Configuration, with | Property | Code | Text |
|---|---|---|---|
| `Memory.cfg`, CacheHits {"queued"} | `QueueIsLive`, `UsableIsLive` | `plant_arc_drop` frees an object that is still in `g_arc_deferred` (rt 6822); the next drain reads and frees it again | rt 7098-7099: "pending_frees (deferred deallocations queued for reclamation)" |
| the same | `QueueIsZeroRef` | a retain does not take an object out of the queue (rt 7071) | rt 7047-7049 "zero-ref leased objects ... are QUEUED for reclamation" |
| `Memory.cfg` | `LeasedCountIsActive` | expired leases are counted (rt 7103) | rt 7098 "leased_count (objects under an active lease)" |
| `PoolDeaths.cfg`, Faults {} | `StarvedAtMax` | growth is bounded by all forks so far, respawns included (rt 8131) | rt 8104-8106 "returns -1 when starved at max" |
| the same | `NoneAbandoned` | a worker that misses the deadline is replaced, never killed (rt 8481) | rt 6136-6138 "stalled workers past the response window are terminated and restarted" |
| `PoolFaults.cfg`, Faults {}, BigArgs TRUE | `ArgumentsIntact` | the retry sends a memfd whose offset the first worker moved to its end (rt 8462) | rt 7740-7741 "zero-copy transferred via memfd", 8424 "one retry" |
| `Async.cfg` | `FreedOnce` | `plant_cancel_task` frees the awaited child that its own teardown freed (rt 5422) | rt 5000-5001: task records are "freed exactly once at teardown" |
| `Async.cfg` | `DrainCompletes` | a mode switch leaves queued tasks in the queue no longer popped (rt 5258) | Language Tour 1352-1353 "so every worker completes before the program exits" |
| `Async.cfg`, Cancels {"step", "kin"} | `RunningIsLive` | a body that cancels the task awaiting it is itself torn down (rt 5417) | rt 5000-5001 |
| `Async.cfg`, Acts {"a"}, Ctxs {}, Cancels {"main"}, Threshold 2 | `QueuesLive` | a cancelled task is unlinked from the current mode's queue only (rt 5361) | rt 5000-5001 "freed exactly once at teardown" |
| the same, Threshold 1, Prios {0, 1}, MaxTasks 8 | `PqIsHeap` | the hole in the heap is filled with the last entry and not sifted (rt 5362) | rt 5073 "binary min-heap by (prio, deadline, id)" |
| `Weather.cfg`, Storms {"ZERO"}, Clauses {{}, {"ZERO"}, {"ANY"}}, Handles {}, Objects {}, MaxDepth 4, Uses {"nested"} | `HeadIsOpen` | an exit list runs outermost first, so `plant_calm` on the outer frame does not pop it, and popping the inner one makes it the head (cg 6826) | CHANGELOG 6840-6842: exits "pop the weathering frame via threaded exit lists, so no stale frame leaks to an enclosing scope" |
| the same, Uses {"loop"} | `StormsDelivered` | BREAK in a loop inside a block closes the block, and its body goes on (cg 7554) | CHANGELOG 6801-6805: exits "still run the finalizer before leaving the frame" |
| the same, Uses {"give"} | `StormsDelivered` | the value of a GIVE is evaluated after the block is closed (cg 6360) | CHANGELOG 6824-6828 "raises a typed storm from any statement position" |
| the same, Uses {"calm"} | `CalmOnce` | a THROW in a CALM body jumps to its own block (cg 6880) | CHANGELOG 6801-6805 "generated once with clean frame-pop exits to prevent re-entry" |
| the same, Handles {"h1"}, Uses {"handler"} | `NothingLeaks` | a THROW in a handler skips the purge, and the frame is not torn down again (rt 7222) | `plant_runtime.h`:121-126 "purged by plant_weather_shelter_leave immediately on handler exit" |
| the same, Uses {"async"} | `NothingLeaks`; `HeadIsOpen` also without handles | a GIVE in an ASYNC action returns from the step function without the exit list: its frame stays on the stack and what it registered is never freed (cg 6356-6358) | CHANGELOG 6840-6842 |
| the same, Uses {"leased"} | `FreedOnce` | a lease eviction queues a handle that a frame's list still names (rt 7066-7076); the teardown destroys it without unqueueing it (rt 7137-7141), and the drain destroys it again (rt 7162) | rt 7098-7099 |
| the same, Uses {"dispatch", "give"} | `HandlerTracked` | a dispatch inside a handler resets the target to none (rt 7211) | rt 1030-1034 "so handler temporaries are tracked and purged" |
| the same, Objects {"o"}, Uses {} | `StormsFinalized` | the release compares the payload's magic with the MAP, so it finds no wrapper (rt 7441) | rt 7349-7351 "dropping the count to zero so the ARC heap finalizes the object" |
| `Missions.cfg`, AnyNesting TRUE, MaxDepth 3 | `GrantsFollowInnermost` | a flag is one value: leaving an inner mission of a mode drops the outer one's grants, and an inner PERSISTENT is answered by an outer SAFE (rt 6645) | rt 5912-5913 "SAFE: zero permissions by default; grants come only from the MissionContext" |
| the same, StackMax 2 | `BoundaryKept` | pushes past the depth are dropped and their pops are not (rt 5822) | - |
| `Missions.cfg`, SPECIFICATION StormySpec | `BoundaryKept`, `WorkersQuiet`, `ChannelsFreed` | a storm skips the epilogues (rt 1153) | - |
| `Memory.cfg` | `LiveIntact` | an inner FAST action resets the outer one's allocations; a growth moves them (rt 5975) | - |
| `Memory.cfg` | `EscalatesAtLimit` | a request is tried after one doubling only (rt 5971-5987) | `docs/EVAPORATE.md`:109 "doubles up to the limit ...; beyond that, **escalation**" |
| `Memory.cfg` | `NoBlockLeaks`, `ReportCoversHeld`, `SizeAtLeastBase` | an escalated block past the list is never freed nor reported (rt 5999); a heap grown to a limit that is no doubling of its base shrinks below it | - |
| `Memory.cfg`, FreesStatic TRUE; Aliases TRUE or MaxDoubles 3; any | `FreesSound`; `TextKept`; `BalancedBytes` | FREE hands a static slot to `free`; two variables share one string, a static slot turns round; bytes are subtracted that were never added | - |
| `Data.cfg`, LinksLeased TRUE | `HeldUnexpiredIsLive`, `NoDanglingEdge` | a node over its cap destroys an object whose lease expired although another object links to it (rt 7642); through the link the program reaches freed memory, and an object placed there since | - |
| `Data.cfg` | `KernelsFit` | at stride 2, CONV2D accepts a kernel one larger than the padded input: C's division rounds towards zero (pt 1050-1053) | `docs/CONV2D_RECIPE.md`:76-77 "a kernel larger than the padded input is rejected" |
| `Data.cfg`; with AnyLists TRUE | `NodeBytes`; `TensorsAgree` | a new ring forgets the bytes of the objects on it (rt 7656); a ragged top-level row is accepted (pt 345) | pt 340 "Check raggedness at each level" |
| `Algebra.cfg`, Wider {"quotients"} | `SimplifySound` | `(y/x)/x` becomes `y` and `1/x/x` becomes 1 (pm 1375) | pm 1374 and CHANGELOG 3661: "Denominator cancellation: (a*c)/c → a" |
| `Algebra.cfg`, Wider {"squares"} | `SolutionsSound` | FACTOR("x^2+8*x+4") answers (x+2)^2 (pm 2508-2511) | - |
| `Algebra.cfg`, Wider {"negative"} | `SolutionsSound` | with a < 0 the complex roots of a quadratic are printed without their first digit (pm 2701-2706) | - |
| `Algebra.cfg`, Wider {"sines"} | `SolutionsSound` | the transforms of SIN(t) and SINH(t) are taken for 1/(s-a) and come back as EXP(t) | - |
| `Algebra.cfg` | `TableInverts` | the table of inverses never finds t^n (pm 5068) nor the cosine (pm 5120) | the comments there |
| `Gradients.cfg`, AnyLoss TRUE | `GradientExact` | a gradient is that of the last number recorded, whichever is asked for; after GRAD_HO the last is one of its own | - |

Met while modelling, and in no row: a `pipe` that fails leaves the worker it was acquired for busy for
good (rt 8435; the exception in `NoneBusyBetweenCalls`); after TAPE_CLEAR every GRAD_HO answers "ad2: not
initialized" (p2 176, where p2 622's comment expects `empty tape` and `plant_ad2.h`:39 "a fresh
frame 0"); the broadcast of MEAN's rule in GRAD_HO is never freed (`Unkept`); partial fractions drop
repeated roots and the polynomial part; INTEGRAL("x*x") is wrong and some products recurse without
end; the depth of L'Hopital's rule is always zero (pm 2803, 2907); "3+i" reads as 3; deriv_pow frees a
shared node twice for an exponent with a variable; `-x^2` parses as (-x)^2; SVD of a wide matrix
allocates for the wrong dimension (rt 4278); a vector of more than 4 entries (rt 3903, 3930), a right side
longer than its matrix (rt 4342) and a broadcast of more than 16 dimensions (pt 530) are copied past
the end of a fixed array, before or without a test of their length; the model answers `Overrun` for them.

The pool's comments and `docs/ROADMAP.md`:396 speak of heartbeat pings; the runtime has no
sender of one, and the sweep relies on `waitpid`. The model has the sweep.

## 7. Not modelled, and why

- *In modelled components.* ArcHeap: payload bytes and finalizers, `malloc` failure. SafePool: a SAFE call made inside a worker (a worker
  forks no pool of its own in the runs considered), reuse of pids by the system, the
  encoding of arguments and results. AsyncEngine: timers, deadlines, timeouts and tokens,
  which the generated code does not use; `plant_async_steal`; CANCEL of a handle whose record is already
  freed, which is undefined. Weather: the order in which one teardown frees its handles,
  telemetry, storms raised by the runtime itself inside a library call (a call that
  throws is a `Throw` in the model), and handles registered on two frames.
  Missions: the bands and counters SMART reports, the wire format of a channel. Strings:
  `plant_memory.c`, which only counts, and EVAPORATE. Linear algebra: EIGEN and SVD iterate
  in floating point. Tensors: random tensors, printing. Algebra: quadrature, statistics,
  geometry and the console's text commands; rounding, since every number is exact; trees
  that overflow `MaxPart` are NaN there. A second parameter of a gradient: GRAD is asked along
  one tensor, and the tape does not depend on which.
- *Components.* The rest of the inventory is `not_modelled` in `PROJECT.json`, with the
  reason there: text processing (compiler, JSON, text functions), socket I/O, the lock table
  (advisory counters under one thread), or prototypes that the native toolchain replaced.

## 8. Running it

    tlc -workers 2 -config Memory.cfg MCMemory
    tlapm Data_proofs.tla

The longest runs are `async` (460 thousand states, three and a quarter minutes on two workers with
coverage) and `weather` (1.4 million states, about three minutes); the others take two minutes or less.
