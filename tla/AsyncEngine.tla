---------------------------- MODULE AsyncEngine ----------------------------
(***************************************************************************)
(* The cooperative async engine of runtime/c/plant_runtime.c, driven as    *)
(* the generated code drives it: main spawns and cancels tasks and then    *)
(* drains; a drained task runs one phase of its body, which may spawn and  *)
(* cancel, and ends the phase by awaiting a child or by finishing.         *)
(*                                                                         *)
(* Generated code passes no deadline, timeout or token and never sleeps,   *)
(* so the timer list is empty and is left out.                             *)
(***************************************************************************)
EXTENDS Integers, FiniteSets, SequencesExt

CONSTANTS
    MaxTasks,   \* bound: tasks spawned
    Threshold,  \* g_threshold, ADAPTIVE_THRESHOLD
    Acts,       \* the async actions of the program: a task's step function
    Ctxs,       \* the contexts the program creates
    Prios,      \* priorities the actions declare: a subset of 0 .. 2
    Cancels     \* which cancellations the program makes: see MayCancel

ASSUME AsyncAssumption ==
    /\ MaxTasks \in Nat /\ Threshold \in Nat \ {0}
    /\ Prios \subseteq 0 .. 2
    /\ Cancels \subseteq {"main", "step", "kin"}

Tid == 1 .. MaxTasks
Default == "default"        \* g_dctx
CtxId == Ctxs \cup {Default}

\* The engine is one record:
\*   task    the task records: status, prio, parent, aw, ctx, act, fatal
\*   seq     g_task_seq, the last task id
\*   live    tasks registered and not freed (g_live is their number)
\*   list    the tasks of each context, latest first
\*   rr, pq  the round-robin queue and the heap array
\*   mode, samples    g_mode and g_mode_samples
\*   gone    the cancelled contexts
\*   reread  history: freed records that were read afterwards
VARIABLES eng, pc, running

vars == <<eng, pc, running>>

NoTask == [status |-> "ready", prio |-> 0, parent |-> 0, aw |-> 0, ctx |-> Default,
           act |-> "", fatal |-> FALSE]

----------------------------------------------------------------------------
(* Ready queue *)

Less(e, a, b) ==
    \/ e.task[a].prio < e.task[b].prio
    \/ e.task[a].prio = e.task[b].prio /\ a < b

Swap(h, i, j) == [h EXCEPT ![i] = h[j], ![j] = h[i]]

\* A sift is a loop over a heap h and a position i; it ends by turning idle.
TurnUp(e, s) ==
    IF s.i > 1 /\ Less(e, s.h[s.i], s.h[s.i \div 2])
    THEN [h |-> Swap(s.h, s.i, s.i \div 2), i |-> s.i \div 2] ELSE s

SiftUp(e, heap, pos) ==
    LET up[n \in 0 .. pos] == IF n = 0 THEN [h |-> heap, i |-> pos] ELSE TurnUp(e, up[n - 1])
    IN up[pos].h

\* Fault variant: the right child is not looked at.
LeastOfTwo(e, h, i) ==
    IF 2 * i <= Len(h) /\ Less(e, h[2 * i], h[i]) THEN 2 * i ELSE i

\* The least of a heap position and its children.
LeastOf(e, h, i) ==
    CHOOSE m \in {i, 2 * i, 2 * i + 1} \cap 1 .. Len(h) :
        \A n \in {i, 2 * i, 2 * i + 1} \cap 1 .. Len(h) : m = n \/ Less(e, h[m], h[n])

TurnDown(e, s) ==
    IF s.i > Len(s.h) \/ LeastOf(e, s.h, s.i) = s.i THEN s
    ELSE [h |-> Swap(s.h, s.i, LeastOf(e, s.h, s.i)), i |-> LeastOf(e, s.h, s.i)]

SiftDown(e, heap) ==
    LET down[n \in 0 .. Len(heap)] ==
          IF n = 0 THEN [h |-> heap, i |-> 1] ELSE TurnDown(e, down[n - 1])
    IN down[Len(heap)].h

\* g_pq[i] = g_pq[--g_pq_len]
Fill(h, i) == Front([h EXCEPT ![i] = Last(h)])

PqPush(e, t) == [e EXCEPT !.pq = SiftUp(e, Append(@, t), Len(@) + 1)]
PqPop(e) == [e EXCEPT !.pq = SiftDown(e, Fill(@, 1))]

Ready(e) == IF e.mode = "RR" THEN e.rr ELSE e.pq

\* plant_async_adjust_mode: two samples in a row switch the mode; queued tasks
\* stay where they are.
AdjustMode(e) ==
    LET q == Len(Ready(e))
        over == \/ e.mode = "RR" /\ q >= Threshold
                \/ e.mode = "PQ" /\ q <= (Threshold * 7) \div 10
    IN IF ~over THEN [e EXCEPT !.samples = 0]
       ELSE IF e.samples = 0 THEN [e EXCEPT !.samples = 1]
       ELSE [e EXCEPT !.samples = 0, !.mode = IF @ = "RR" THEN "PQ" ELSE "RR"]

PushReady(e, t) ==
    LET a == AdjustMode([e EXCEPT !.task[t].status = "ready"])
    IN IF a.mode = "RR" THEN [a EXCEPT !.rr = Append(@, t)] ELSE PqPush(a, t)

\* Fault variant: a task is freed without leaving its queue.
UnlinkNothing(e, t) == e

\* plant_unlink_ready looks in the queue of the current mode only.
UnlinkReady(e, t) ==
    IF e.task[t].status # "ready" \/ t \notin Range(Ready(e)) THEN e
    ELSE IF e.mode = "RR" THEN [e EXCEPT !.rr = RemoveFirst(@, t)]
    ELSE [e EXCEPT !.pq = Fill(@, CHOOSE i \in 1 .. Len(@) : @[i] = t)]

----------------------------------------------------------------------------
(* Task records *)

Children(e, t) == {c \in e.live : e.task[c].parent = t}

TaskFree(e, t) ==
    IF t \notin e.live THEN [e EXCEPT !.reread = @ \cup {t}]
    ELSE LET u == UnlinkReady(e, t)
         IN [u EXCEPT !.live = @ \ {t},
                      !.list[e.task[t].ctx] = RemoveFirst(@, t),
                      !.task = [c \in Tid |-> IF c \in Children(e, t)
                                              THEN [@[c] EXCEPT !.parent = 0] ELSE @[c]]]

\* A task and the parents above it; a parent is older than its child.
Ancestors(e, t) ==
    LET line[c \in 0 .. e.seq] == IF c = 0 THEN {} ELSE {c} \cup line[e.task[c].parent]
    IN line[t]

Descendants(e, t) == {c \in e.live \ {t} : t \in Ancestors(e, c)}

\* The deepest, which are the youngest, go first.
Teardown(e, t) ==
    LET cut[n \in 0 .. e.seq] ==
          IF n = 0 THEN e
          ELSE IF e.seq + 1 - n \in Descendants(e, t)
               THEN TaskFree(cut[n - 1], e.seq + 1 - n) ELSE cut[n - 1]
    IN cut[e.seq]

\* plant_cancel_task. A suspended task resumes with the marker; a ready one is
\* freed, and its parent resumes with the marker. The suspended case looks at the
\* child that the teardown just freed: undefined, taken here as finding it dead.
CancelTask(e, t) ==
    LET aw == e.task[t].aw
        p == e.task[t].parent
        cut == Teardown([e EXCEPT !.task[t].aw = 0], t)
    IN IF t \notin e.live \/ e.task[t].status = "done" \/ t = running THEN e
       ELSE IF e.task[t].status = "suspended" THEN PushReady(TaskFree(cut, aw), t)
       ELSE IF p # 0 /\ cut.task[p].aw = t
            THEN TaskFree(PushReady([cut EXCEPT !.task[p].aw = 0], p), t)
       ELSE TaskFree(cut, t)

CancelCtx(e, c) ==
    LET tasks == e.list[c]
        cut[n \in 0 .. Len(tasks)] ==
          IF n = 0 THEN [e EXCEPT !.gone = @ \cup {c}] ELSE CancelTask(cut[n - 1], tasks[n])
    IN [cut[Len(tasks)] EXCEPT !.list[c] = <<>>]

LeastPrio(S) == CHOOSE x \in S : \A y \in S : x <= y

\* plant_async_register. A context's priority is always 1. A task of a
\* cancelled context or with an ancestor of its own action does not run.
Register(e, p, c, act, prio) ==
    LET t == e.seq + 1
        kin == Ancestors(e, p)
    IN PushReady(
         [e EXCEPT !.seq = t,
                   !.live = @ \cup {t},
                   !.list[c] = <<t>> \o @,
                   !.task[t] = [NoTask EXCEPT
                       !.prio = LeastPrio({prio, 1} \cup {e.task[a].prio : a \in {p} \ {0}}),
                       !.parent = p, !.ctx = c, !.act = act,
                       !.fatal = c \in e.gone \/ \E a \in kin : e.task[a].act = act]],
         t)

\* Fault variant: the awaiting parent is not woken.
FinishUnnoticed(e, t) ==
    LET d == [e EXCEPT !.task[t].status = "done"]
        p == e.task[t].parent
    IN IF p # 0 /\ e.task[p].aw = t THEN d ELSE TaskFree(d, t)

\* plant_async_finish. A task whose parent awaits it is kept for the parent.
Finish(e, t) ==
    LET d == [e EXCEPT !.task[t].status = "done"]
        p == e.task[t].parent
    IN IF p # 0 /\ e.task[p].aw = t
       THEN IF e.task[p].status = "suspended" THEN PushReady(d, p) ELSE d
       ELSE TaskFree(d, t)

\* plant_async_await_result: the finished child is freed.
AwaitResult(e, t) ==
    IF e.task[t].aw = 0 THEN e
    ELSE [TaskFree(e, e.task[t].aw) EXCEPT !.task[t].aw = 0]

----------------------------------------------------------------------------
Init ==
    /\ eng = [task |-> [t \in Tid |-> NoTask], seq |-> 0, live |-> {},
              list |-> [c \in CtxId |-> <<>>], rr |-> <<>>, pq |-> <<>>,
              mode |-> "RR", samples |-> 0, gone |-> {}, reread |-> {}]
    /\ pc = "main"
    /\ running = 0

InBody == pc \in {"main", "step"}

\* START: a task without a parent.
Start ==
    /\ InBody /\ eng.seq < MaxTasks
    /\ \E c \in CtxId, a \in Acts, p \in Prios : eng' = Register(eng, 0, c, a, p)
    /\ UNCHANGED <<pc, running>>

\* The program cancels only tasks that are not freed; "kin" lets a body cancel
\* the tasks that await it.
MayCancel(S) ==
    \/ pc = "main" /\ "main" \in Cancels
    \/ pc = "step" /\ "step" \in Cancels
       /\ ("kin" \in Cancels \/ S \cap Ancestors(eng, running) \subseteq {running})

Cancel ==
    /\ InBody
    /\ \E t \in eng.live : MayCancel({t}) /\ eng' = CancelTask(eng, t)
    /\ UNCHANGED <<pc, running>>

CancelContext ==
    /\ InBody
    /\ \E c \in Ctxs \ eng.gone : MayCancel(Range(eng.list[c])) /\ eng' = CancelCtx(eng, c)
    /\ UNCHANGED <<pc, running>>

\* main ends with plant_async_drain, unless the program has no statements of its
\* own and its main ends in an explicit GIVE: that returns before the drain.
EndMain ==
    /\ pc = "main"
    /\ pc' \in {"drain", "exit"}
    /\ UNCHANGED <<eng, running>>

\* plant_pop_ready adjusts the mode and then pops from the mode's queue.
Popped == AdjustMode(eng)

\* One turn of the drain loop. It stops when no task is live, or when the pop
\* finds none.
Stop ==
    /\ pc = "drain"
    /\ \/ eng.live = {} /\ UNCHANGED eng
       \/ eng.live # {} /\ Ready(Popped) = <<>> /\ eng' = Popped
    /\ pc' = "done"
    /\ UNCHANGED running

\* Fault variant: the round-robin head stays in the queue.
DequeueCopy(e) == IF e.mode = "RR" THEN e ELSE PqPop(e)

Dequeue(e) == IF e.mode = "RR" THEN [e EXCEPT !.rr = Tail(@)] ELSE PqPop(e)

\* A task that must not run finishes at once, any other runs its next phase,
\* which first collects the child it awaited.
Pop ==
    /\ pc = "drain" /\ eng.live # {}
    /\ Ready(Popped) # <<>>
    /\ LET t == Head(Ready(Popped))
           e == Dequeue(Popped)
       IN IF e.task[t].fatal
          THEN /\ eng' = Finish([e EXCEPT !.task[t].fatal = FALSE], t)
               /\ UNCHANGED <<pc, running>>
          ELSE /\ eng' = AwaitResult(e, t)
               /\ running' = t
               /\ pc' = "step"

\* AWAIT: spawn the child and suspend on it.
Await ==
    /\ pc = "step" /\ eng.seq < MaxTasks
    /\ \E c \in CtxId, a \in Acts, p \in Prios :
          eng' = [Register(eng, running, c, a, p) EXCEPT
                    !.task[running].aw = eng.seq + 1, !.task[running].status = "suspended"]
    /\ pc' = "drain" /\ running' = 0

Return ==
    /\ pc = "step"
    /\ eng' = Finish(eng, running)
    /\ pc' = "drain" /\ running' = 0

Next == Start \/ Cancel \/ CancelContext \/ EndMain \/ Stop \/ Pop \/ Await \/ Return

Spec == Init /\ [][Next]_vars

\* One thread: it keeps running, and bodies return.
FairSpec == Spec /\ WF_vars(EndMain) /\ WF_vars(Stop \/ Pop) /\ WF_vars(Return)

----------------------------------------------------------------------------
(* Properties *)

\* Type invariant: the engine's queues, the task records and the frames of the
\* running steps stay in their domains.
TypeOK ==
    /\ eng.seq \in 0 .. MaxTasks /\ eng.live \subseteq 1 .. eng.seq
    /\ eng.rr \in Seq(Tid) /\ eng.pq \in Seq(Tid)
    /\ eng.mode \in {"RR", "PQ"} /\ eng.samples \in {0, 1}
    /\ \A t \in Tid : eng.task[t].status \in {"ready", "suspended", "done"}
    /\ pc \in {"main", "drain", "step", "done", "exit"}
    /\ running \in 0 .. MaxTasks /\ (running # 0 <=> pc = "step")

Occurs(t) == Cardinality({i \in DOMAIN eng.rr : eng.rr[i] = t})
           + Cardinality({i \in DOMAIN eng.pq : eng.pq[i] = t})

\* A live task is in one place: once in a queue when it is ready, running, or
\* in no queue while it waits for its child or for its parent to collect it.
PlacedOnce ==
    \A t \in eng.live :
        Occurs(t) = IF eng.task[t].status = "ready" /\ t # running THEN 1 ELSE 0

\* No wake-up is lost: a suspended task waits for a live child of its own that
\* has not finished, and a finished task is kept only for a parent that has
\* been woken.
AwaitMatched ==
    \A t \in eng.live :
        LET a == eng.task[t].aw
        IN /\ eng.task[t].status = "suspended" =>
                a \in eng.live /\ eng.task[a].parent = t /\ eng.task[a].status # "done"
           /\ eng.task[t].status = "done" =>
                \E p \in eng.live : eng.task[p].aw = t /\ eng.task[p].status = "ready"

\* The ready queues hold live tasks only.
QueuesLive == Range(eng.rr) \cup Range(eng.pq) \subseteq eng.live

\* The task whose body is running is not freed under it.
RunningIsLive == running # 0 => running \in eng.live

\* A task that waits in a ready queue or runs is not freed before its turn is
\* over, whoever cancels what meanwhile.
ScheduledIsLive == QueuesLive /\ RunningIsLive

\* The priority queue is a "binary min-heap by (prio, deadline, id)".
PqIsHeap ==
    \A i \in DOMAIN eng.pq \ {1} : Less(eng, eng.pq[i \div 2], eng.pq[i])

\* A task record is "freed exactly once at teardown": none is looked at again.
FreedOnce == eng.reread = {}

\* A drain that returns leaves no task behind.
DrainCompletes == pc = "done" => eng.live = {}

\* A main that spawns drains "so every worker completes before the program
\* exits" (Language Tour, async statements).
WorkersComplete == pc \in {"done", "exit"} => eng.live = {}

\* A task that is live once main drains ends, and its record is freed.
Draining == pc \in {"drain", "step"}
EveryTaskEnds == \A t \in Tid : (Draining /\ t \in eng.live) ~> (t \notin eng.live)
=============================================================================
