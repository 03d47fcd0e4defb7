------------------------------ MODULE SafePool ------------------------------
(***************************************************************************)
(* The SAFE worker pool of runtime/c/plant_runtime.c: plant_safe_call runs *)
(* an action in a worker process over a socketpair, times out, respawns    *)
(* the worker in place, retries once and then runs the body inline.        *)
(*                                                                         *)
(* The parent is one thread; every worker process is an actor of its own.  *)
(* Each fork makes one process and one socketpair, so processes and        *)
(* socketpairs share their names: Pid.                                     *)
(***************************************************************************)
EXTENDS Integers, FiniteSets, SequencesExt

CONSTANTS
    Slots,      \* number of g_rw slots in use, PLANT_RW_MAX in the code
    PoolCap,    \* g_pool_cap: workers spawned at the first call
    PoolMax,    \* g_pool_max
    BigArgs,    \* TRUE: arguments exceed the channel threshold, sent by memfd
    Faults,     \* what may go wrong: a subset of FaultKinds
    MaxCalls,   \* bound: SAFE calls
    MaxTicks,   \* bound: heartbeat sweeps and injected stalls between calls
    MaxSpawn    \* bound: forks

FaultKinds == {"crash",     \* the body kills its worker
               "idledeath", \* a worker dies while no job runs in it
               "fork",      \* fork or socketpair fails
               "pipe"}      \* pipe fails

ASSUME PoolAssumption ==
    /\ Slots \in Nat \ {0} /\ PoolCap \in 1 .. Slots /\ PoolMax \in PoolCap .. Slots
    /\ BigArgs \in BOOLEAN
    /\ Faults \subseteq FaultKinds
    /\ MaxCalls \in Nat /\ MaxTicks \in Nat
    /\ MaxSpawn \in Nat /\ PoolCap <= MaxSpawn

Slot == 1 .. Slots
Pid == 1 .. MaxSpawn
Call == 1 .. MaxCalls

VARIABLES
    rw,       \* g_rw: pid, sock, state, ready and job_name set, per slot
    spawns,   \* g_rw_count, never decremented; also the last pid
    pc,       \* where the parent is
    call,     \* calls made so far; the current one unless pc = "idle"
    attempt,  \* the loop counter of plant_safe_call
    wid,      \* the acquired slot; the slot being swept in a sweep
    back,     \* where a sweep returns to: "idle" or "body"
    proc,     \* life of each process: none, boot, wait, run, exited, reaped
    stopped,  \* processes stopped by SIGSTOP
    job,      \* the call whose body a process runs
    toWorker, \* jobs sent and not read, per socketpair
    toParent, \* messages sent to the parent and not read, per socketpair
    inherit,  \* parent ends a process inherited at its fork
    ticks,    \* sweeps and stalls so far
    memfd,    \* calls whose memfd arguments have been read
    runs,     \* history: executions of each call's body
    torn,     \* history: calls of which a body ran on partial arguments
    leaked,   \* history: slots acquired for an attempt whose pipe failed
    ret       \* history: the call whose result plant_safe_call last returned

parent == <<rw, spawns, pc, call, attempt, wid, back, ticks, leaked, ret>>
vars == <<rw, spawns, pc, call, attempt, wid, back, proc, stopped, job, toWorker,
          toParent, inherit, ticks, memfd, runs, torn, leaked, ret>>

Idle == 0
Busy == 1
Stalled == 2

\* A message to the parent: READY, or the call a RESULT or an ERROR answers.
Ready == 0

NoWorker == [pid |-> 0, sock |-> 0, state |-> Idle, ready |-> FALSE, named |-> FALSE]

\* The slot whose fork made process p.
Forked(w, p) == [w EXCEPT !.pid = p, !.sock = p]

----------------------------------------------------------------------------
(* Processes and sockets *)

Live(p) == proc[p] \in {"boot", "wait", "run"}

\* The parent end of p's socketpair is open in the parent while it lives, or in a
\* process forked while it was open: descriptors are not close-on-exec.
ParentEnds == IF pc = "dead" THEN {} ELSE {rw[i].sock : i \in Slot} \ {0}
PeerOpen(p) == p \in ParentEnds \/ \E q \in Pid : Live(q) /\ p \in inherit[q]

InUse(i) == rw[i].pid > 0
Free(i) == rw[i].pid = 0 /\ ~rw[i].ready /\ rw[i].sock = 0

Lowest(S) == CHOOSE i \in S : \A j \in S : i <= j

\* plant_rw_spawn(slot): close the old socket, reset the slot, fork. The reset
\* happens before the fork, which leaves the old pid in place when it fails.
\* fresh is the slot after a fork, less its process and socket, and life the
\* processes' state before the fork.
SpawnInto(i, fresh, life) ==
    \/ /\ spawns < MaxSpawn
       /\ spawns' = spawns + 1
       /\ rw' = [rw EXCEPT ![i] = Forked(fresh, spawns')]
       /\ proc' = [life EXCEPT ![spawns'] = "boot"]
       /\ inherit' = [inherit EXCEPT ![spawns'] = ParentEnds \ {rw[i].sock}]
    \/ /\ "fork" \in Faults
       /\ rw' = [rw EXCEPT ![i] = [NoWorker EXCEPT !.pid = rw[i].pid]]
       /\ proc' = life
       /\ UNCHANGED <<spawns, inherit>>

Acquired(w) == [w EXCEPT !.state = Busy, !.named = TRUE]

----------------------------------------------------------------------------
(* The parent *)

\* plant_rw_init: forks fill the slots in order, those that fail leave fewer.
Booted == IF "fork" \in Faults THEN 0 .. PoolCap ELSE {PoolCap}

Init ==
    /\ spawns \in Booted
    /\ rw = [i \in Slot |->
               IF i <= spawns THEN Forked(NoWorker, i) ELSE NoWorker]
    /\ pc = "idle" /\ call = 0 /\ attempt = 0 /\ wid = 0 /\ back = "idle"
    /\ proc = [p \in Pid |-> IF p <= spawns THEN "boot" ELSE "none"]
    /\ stopped = {}
    /\ job = [p \in Pid |-> 0]
    /\ toWorker = [p \in Pid |-> <<>>]
    /\ toParent = [p \in Pid |-> <<>>]
    /\ inherit = [p \in Pid |-> IF p <= spawns THEN 1 .. (p - 1) ELSE {}]
    /\ ticks = 0
    /\ memfd = {}
    /\ runs = [c \in Call |-> 0]
    /\ torn = {}
    /\ leaked = {}
    /\ ret = 0

\* Entry of plant_safe_call past the boundary check. The guard on spawns is
\* the fork bound: one call forks at most four workers, its sweep one per slot.
BeginCall ==
    /\ pc = "idle"
    /\ call < MaxCalls
    /\ spawns + 4 + Slots <= MaxSpawn
    /\ call' = call + 1
    /\ attempt' = 1
    /\ pc' = "acquire"
    /\ UNCHANGED <<rw, spawns, wid, back, proc, stopped, job, toWorker, toParent,
                   inherit, ticks, memfd, runs, torn, leaked, ret>>

ReadyIdle(f) == {i \in Slot : f[i].pid > 0 /\ f[i].ready /\ f[i].state = Idle}

\* plant_rw_acquire finds a ready idle worker at once.
AcquireReady ==
    /\ pc = "acquire"
    /\ ReadyIdle(rw) # {}
    /\ LET i == Lowest(ReadyIdle(rw))
       IN /\ rw' = [rw EXCEPT ![i] = Acquired(@)]
          /\ wid' = i
    /\ pc' = "send"
    /\ UNCHANGED <<spawns, call, attempt, back, proc, stopped, job, toWorker,
                   toParent, inherit, ticks, memfd, runs, torn, leaked, ret>>

\* plant_rw_drain_readies: it reads every slot's socket up to and including its
\* first message that is not READY, and returns when one was READY or after
\* 250 ms of none. S are the slots whose message arrived before it passed them.
Drained(q) ==
    LET k == SelectInSeq(q, LAMBDA msg : msg # Ready)
    IN IF k = 0 THEN <<>> ELSE SubSeq(q, k + 1, Len(q))

Waiting == {i \in Slot : rw[i].sock # 0 /\ toParent[rw[i].sock] # <<>>}

DrainReadies ==
    /\ pc = "acquire"
    /\ ReadyIdle(rw) = {}
    /\ \E S \in SUBSET Waiting :
          /\ rw' = [i \in Slot |->
                      IF i \in S /\ Head(toParent[rw[i].sock]) = Ready
                      THEN [rw[i] EXCEPT !.ready = TRUE] ELSE rw[i]]
          /\ toParent' = [p \in Pid |->
                            IF \E i \in S : rw[i].sock = p
                            THEN Drained(toParent[p]) ELSE toParent[p]]
    /\ pc' = "reacquire"
    /\ UNCHANGED <<spawns, call, attempt, wid, back, proc, stopped, job, toWorker,
                   inherit, ticks, memfd, runs, torn, leaked, ret>>

\* The second scan of plant_rw_acquire, then growth, then -1.
Reacquire ==
    /\ pc = "reacquire"
    /\ ReadyIdle(rw) # {}
    /\ LET i == Lowest(ReadyIdle(rw))
       IN rw' = [rw EXCEPT ![i] = Acquired(@)] /\ wid' = i
    /\ pc' = "send"
    /\ UNCHANGED <<spawns, call, attempt, back, proc, stopped, job, toWorker,
                   toParent, inherit, ticks, memfd, runs, torn, leaked, ret>>

MayGrow == spawns < PoolMax

Grow ==
    /\ pc = "reacquire"
    /\ ReadyIdle(rw) = {} /\ MayGrow
    /\ \E i \in Slot : Free(i)
    /\ wid' = Lowest({i \in Slot : Free(i)})
    /\ SpawnInto(wid', Acquired(NoWorker), proc)
    /\ pc' = IF spawns' > spawns THEN "send" ELSE "starved"
    /\ UNCHANGED <<call, attempt, back, stopped, job, toWorker, toParent, ticks,
                   memfd, runs, torn, leaked, ret>>

\* Fault variant: a starved call waits for a worker.
StarvedWaits ==
    /\ pc = "reacquire"
    /\ ReadyIdle(rw) = {}
    /\ ~MayGrow \/ ~\E i \in Slot : Free(i)
    /\ pc' = "acquire"
    /\ UNCHANGED <<rw, spawns, call, attempt, wid, back, proc, stopped, job, toWorker,
                   toParent, inherit, ticks, memfd, runs, torn, leaked, ret>>

Starved ==
    /\ pc = "reacquire"
    /\ ReadyIdle(rw) = {}
    /\ ~MayGrow \/ ~\E i \in Slot : Free(i)
    /\ pc' = "starved"
    /\ UNCHANGED <<rw, spawns, call, attempt, wid, back, proc, stopped, job, toWorker,
                   toParent, inherit, ticks, memfd, runs, torn, leaked, ret>>

\* A failed pipe() leaves the acquired worker busy.
PipeFails ==
    /\ pc = "send" /\ "pipe" \in Faults
    /\ leaked' = leaked \cup {wid}
    /\ pc' = "inline"
    /\ UNCHANGED <<rw, spawns, call, attempt, wid, back, proc, stopped, job, toWorker,
                   toParent, inherit, ticks, memfd, runs, torn, ret>>

\* sendmsg of the JOB. It fails when the worker is gone (a SEQPACKET socket
\* raises no SIGPIPE), and the parent waits for the deadline all the same.
Send ==
    /\ pc = "send"
    /\ LET p == rw[wid].sock
       IN toWorker' = IF Live(p) THEN [toWorker EXCEPT ![p] = Append(@, call)] ELSE toWorker
    /\ pc' = "recv"
    /\ UNCHANGED <<rw, spawns, call, attempt, wid, back, proc, stopped, job, toParent,
                   inherit, ticks, memfd, runs, torn, leaked, ret>>

\* plant_rw_recv_result reads one message.
RecvReady ==
    /\ pc = "recv"
    /\ LET p == rw[wid].sock
       IN /\ toParent[p] # <<>> /\ Head(toParent[p]) = Ready
          /\ toParent' = [toParent EXCEPT ![p] = Tail(@)]
    /\ rw' = [rw EXCEPT ![wid].ready = TRUE]
    /\ UNCHANGED <<spawns, pc, call, attempt, wid, back, proc, stopped, job, toWorker,
                   inherit, ticks, memfd, runs, torn, leaked, ret>>

\* Fault variant: the result is taken and the worker is not released.
ServedNotReleased(w) == w

Released(w) == [w EXCEPT !.state = Idle]

RecvResult ==
    /\ pc = "recv"
    /\ LET p == rw[wid].sock
       IN /\ toParent[p] # <<>> /\ Head(toParent[p]) # Ready
          /\ ret' = Head(toParent[p])
          /\ toParent' = [toParent EXCEPT ![p] = Tail(@)]
    /\ rw' = [rw EXCEPT ![wid] = Released(@)]
    /\ pc' = "idle"
    /\ UNCHANGED <<spawns, call, attempt, wid, back, proc, stopped, job, toWorker,
                   inherit, ticks, memfd, runs, torn, leaked>>

\* Fault variant: a timed-out worker is freed instead of replaced.
FreeInPlace(i, life) ==
    /\ rw' = [rw EXCEPT ![i].state = Idle]
    /\ proc' = life
    /\ UNCHANGED <<spawns, inherit>>

Respawn(i, life) == SpawnInto(i, NoWorker, life)

\* Fault variant: two retries.
TimeoutTwice ==
    /\ pc = "recv"
    /\ Respawn(wid, proc)
    /\ attempt' = attempt + 1
    /\ pc' = IF attempt <= 2 THEN "acquire" ELSE "inline"
    /\ UNCHANGED <<call, wid, back, stopped, job, toWorker, toParent, ticks, memfd,
                   runs, torn, leaked, ret>>

\* The deadline passes: respawn the worker in place and retry once. The old
\* process is not killed, since its slot is never in state Stalled here.
RecvTimeout ==
    /\ pc = "recv"
    /\ Respawn(wid, proc)
    /\ attempt' = attempt + 1
    /\ pc' = IF attempt < 2 THEN "acquire" ELSE "inline"
    /\ UNCHANGED <<call, wid, back, stopped, job, toWorker, toParent, ticks, memfd,
                   runs, torn, leaked, ret>>

\* The inline fallback: the callee's prologue ticks the pool, which sweeps,
\* and then the body runs in the parent.
Inline ==
    /\ pc \in {"starved", "inline"}
    /\ pc' = "sweep" /\ wid' = 1 /\ back' = "body"
    /\ UNCHANGED <<rw, spawns, call, attempt, proc, stopped, job, toWorker, toParent,
                   inherit, ticks, memfd, runs, torn, leaked, ret>>

\* The body runs in the parent. It returns, or kills the program as it would have
\* killed a worker, or never ends: no fairness is assumed of these two actions.
RunInline ==
    /\ pc = "body"
    /\ runs' = [runs EXCEPT ![call] = @ + 1]
    /\ ret' = call
    /\ pc' = "idle"
    /\ UNCHANGED <<rw, spawns, call, attempt, wid, back, proc, stopped, job, toWorker,
                   toParent, inherit, ticks, memfd, torn, leaked>>

CrashInline ==
    /\ pc = "body" /\ "crash" \in Faults
    /\ runs' = [runs EXCEPT ![call] = @ + 1]
    /\ pc' = "dead"
    /\ UNCHANGED <<rw, spawns, call, attempt, wid, back, proc, stopped, job, toWorker,
                   toParent, inherit, ticks, memfd, torn, leaked, ret>>

----------------------------------------------------------------------------
(* Heartbeat sweeps and injected stalls, between calls *)

\* plant_pool_tick.
Heartbeat ==
    /\ pc = "idle"
    /\ ticks < MaxTicks /\ spawns + Slots <= MaxSpawn
    /\ ticks' = ticks + 1
    /\ pc' = "sweep" /\ wid' = 1 /\ back' = "idle"
    /\ UNCHANGED <<rw, spawns, call, attempt, proc, stopped, job, toWorker, toParent,
                   inherit, memfd, runs, torn, leaked, ret>>

\* One slot of plant_rw_recover_sweep: a stopped worker is killed and reaped, a
\* dead one reaped, and either is respawned in place. waitpid may not report a
\* stop that was only just sent.
Dead(i) == InUse(i) /\ proc[rw[i].pid] = "exited"
Halted(i) == InUse(i) /\ Live(rw[i].pid) /\ rw[i].pid \in stopped

SweepSlot ==
    /\ pc = "sweep" /\ wid <= Slots
    /\ \/ /\ Dead(wid) \/ Halted(wid)
          /\ Respawn(wid, [proc EXCEPT ![rw[wid].pid] = "reaped"])
       \/ /\ ~Dead(wid)
          /\ UNCHANGED <<rw, spawns, proc, inherit>>
    /\ wid' = wid + 1
    /\ UNCHANGED <<pc, call, attempt, back, stopped, job, toWorker, toParent, ticks,
                   memfd, runs, torn, leaked, ret>>

SweepDone ==
    /\ pc = "sweep" /\ wid > Slots
    /\ pc' = back
    /\ wid' = 0
    /\ UNCHANGED <<rw, spawns, call, attempt, back, proc, stopped, job, toWorker,
                   toParent, inherit, ticks, memfd, runs, torn, leaked, ret>>

\* plant_safe_stall stops the first worker that carries the given action's name
\* (a name stays on its worker after the call), plant_safe_starve every worker.
StopSlots(S) ==
    /\ pc = "idle"
    /\ ticks < MaxTicks
    /\ ticks' = ticks + 1
    /\ rw' = [i \in Slot |-> IF i \in S THEN [rw[i] EXCEPT !.state = Stalled] ELSE rw[i]]
    /\ stopped' = stopped \cup {p \in {rw[i].pid : i \in S} : Live(p)}
    /\ UNCHANGED <<spawns, pc, call, attempt, wid, back, proc, job, toWorker, toParent,
                   inherit, memfd, runs, torn, leaked, ret>>

Stall == \E i \in Slot : InUse(i) /\ rw[i].named /\ StopSlots({i})

Starve == StopSlots({i \in Slot : InUse(i)})

----------------------------------------------------------------------------
(* Worker processes: plant_rw_worker_loop *)

\* A worker sends to its end of the socketpair and reads its next job. The
\* message is lost when every parent end is closed.
Reply(p, msg) ==
    /\ toParent' = IF PeerOpen(p) THEN [toParent EXCEPT ![p] = Append(@, msg)] ELSE toParent
    /\ proc' = [proc EXCEPT ![p] = "wait"]

Boot(p) ==
    /\ proc[p] = "boot" /\ p \notin stopped
    /\ Reply(p, Ready)
    /\ UNCHANGED <<parent, stopped, job, toWorker, inherit, memfd, runs, torn>>

\* The worker reads a JOB and runs its body. A memfd keeps one file offset for
\* all its readers, so the second worker to decode it reads nothing.
TakeJob(p) ==
    /\ proc[p] = "wait" /\ p \notin stopped /\ toWorker[p] # <<>>
    /\ LET c == Head(toWorker[p])
       IN /\ job' = [job EXCEPT ![p] = c]
          /\ runs' = [runs EXCEPT ![c] = @ + 1]
          /\ memfd' = IF BigArgs THEN memfd \cup {c} ELSE memfd
          /\ torn' = IF c \in memfd THEN torn \cup {c} ELSE torn
    /\ toWorker' = [toWorker EXCEPT ![p] = Tail(@)]
    /\ proc' = [proc EXCEPT ![p] = "run"]
    /\ UNCHANGED <<parent, stopped, toParent, inherit>>

Finish(p) ==
    /\ proc[p] = "run" /\ p \notin stopped
    /\ Reply(p, job[p])
    /\ job' = [job EXCEPT ![p] = 0]
    /\ UNCHANGED <<parent, stopped, toWorker, inherit, memfd, runs, torn>>

Dies(p) ==
    /\ \/ "crash" \in Faults /\ proc[p] = "run" /\ p \notin stopped
       \/ "idledeath" \in Faults /\ proc[p] \in {"boot", "wait"}
    /\ proc' = [proc EXCEPT ![p] = "exited"]
    /\ job' = [job EXCEPT ![p] = 0]
    /\ UNCHANGED <<parent, stopped, toWorker, toParent, inherit, memfd, runs, torn>>

\* The parent end is closed everywhere: recvmsg returns 0.
WorkerEof(p) ==
    /\ proc[p] = "wait" /\ p \notin stopped
    /\ toWorker[p] = <<>> /\ ~PeerOpen(p)
    /\ proc' = [proc EXCEPT ![p] = "exited"]
    /\ UNCHANGED <<parent, stopped, job, toWorker, toParent, inherit, memfd, runs, torn>>

\* The runtime's own steps, and the bodies that it runs in the parent.
Parent ==
    \/ BeginCall \/ AcquireReady \/ DrainReadies \/ Reacquire \/ Grow \/ Starved
    \/ PipeFails \/ Send \/ RecvReady \/ RecvResult \/ RecvTimeout
    \/ Inline \/ Heartbeat \/ SweepSlot \/ SweepDone

InlineBody == RunInline \/ CrashInline

Worker(p) == Boot(p) \/ TakeJob(p) \/ Finish(p) \/ Dies(p) \/ WorkerEof(p)

Next == Parent \/ InlineBody \/ Stall \/ Starve \/ \E p \in Pid : Worker(p)

Spec == Init /\ [][Next]_vars

\* The parent's thread keeps running while it is in the runtime. Bodies owe it
\* nothing, in workers or inline.
FairSpec == Spec /\ WF_vars(Parent)

----------------------------------------------------------------------------
(* Properties *)

\* Type invariant: the pool's slots, the processes behind them, the job in
\* flight and the caller's locals stay in their domains.
TypeOK ==
    /\ rw \in [Slot -> [pid : 0 .. MaxSpawn, sock : 0 .. MaxSpawn,
                        state : {Idle, Busy, Stalled}, ready : BOOLEAN, named : BOOLEAN]]
    /\ spawns \in 0 .. MaxSpawn
    /\ pc \in {"idle", "acquire", "reacquire", "starved", "send", "recv", "inline",
               "sweep", "body", "dead"}
    /\ call \in 0 .. MaxCalls /\ attempt \in 0 .. 3 /\ wid \in 0 .. (Slots + 1)
    /\ proc \in [Pid -> {"none", "boot", "wait", "run", "exited", "reaped"}]
    /\ \A p \in Pid : toParent[p] \in Seq(Call \cup {Ready})

\* plant_safe_call keeps the promise of SafeCall: its result is that of the call
\* it was made for, never the late answer of an earlier call or of a timed-out
\* attempt, and the body runs at most three times, in two workers and inline.
Promise == INSTANCE SafeCall WITH
    MaxRuns <- 3,
    calling <- pc # "idle" /\ ~(pc = "sweep" /\ back = "idle"),
    last <- call, ran <- runs, result <- ret

KeepsPromise == Promise!CallSpec

\* A worker that the next acquire may hand out is quiet: no job is waiting in
\* its socket, none is running in it and no result is waiting to be read.
ReadyIdleIsQuiet ==
    \A i \in ReadyIdle(rw) :
        LET p == rw[i].sock
        IN p # 0 /\ toWorker[p] = <<>> /\ toParent[p] = <<>> /\ job[p] = 0

\* Between calls a slot is busy only if pipe failed after it was acquired:
\* every other path out of a call, with its timeouts, retries and failed
\* respawns, releases or replaces the worker it took.
NoneBusyBetweenCalls ==
    pc = "idle" => \A i \in Slot : rw[i].state = Busy => i \in leaked

\* A worker past the response window is terminated: no live worker process is
\* without a slot.
NoneAbandoned == \A p \in Pid : Live(p) => \E i \in Slot : rw[i].pid = p

\* The pool falls back to inline execution only when it is at its maximum:
\* plant_rw_acquire "returns -1 when starved at max".
StarvedAtMax ==
    pc = "starved" => Cardinality({i \in Slot : InUse(i)}) = PoolMax

\* Every body of a call runs on the arguments the caller passed.
ArgumentsIntact == torn = {}

\* Whatever the workers do or fail to do, a call comes back to its caller, or
\* runs its body in the caller: it never waits for the pool for good.
CallReturns == (pc = "acquire") ~> (pc \in {"idle", "body"})
=============================================================================
