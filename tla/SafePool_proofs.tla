--------------------------- MODULE SafePool_proofs ---------------------------
(***************************************************************************)
(* Proofs about SafePool, for any number of slots, calls and forks: the    *)
(* worker that may be handed out is quiet, only a failed pipe leaves one   *)
(* busy after its call, and the calls implement SafeCall.                  *)
(***************************************************************************)
EXTENDS SafePool, ProofLemmas

\* The call under way, as SafeCall sees it.
InCall == pc # "idle" /\ ~(pc = "sweep" /\ back = "idle")

\* A slot of g_rw.
SlotState == [pid : 0 .. MaxSpawn, sock : 0 .. MaxSpawn,
              state : {Idle, Busy, Stalled}, ready : BOOLEAN, named : BOOLEAN]

\* Every variable stays in its domain.
Typed ==
    /\ rw \in [Slot -> SlotState]
    /\ spawns \in 0 .. MaxSpawn
    /\ pc \in {"idle", "acquire", "reacquire", "starved", "send", "recv", "inline",
               "sweep", "body", "dead"}
    /\ call \in 0 .. MaxCalls /\ attempt \in 0 .. 3 /\ wid \in 0 .. Slots + 1
    /\ back \in {"idle", "body"}
    /\ proc \in [Pid -> {"none", "boot", "wait", "run", "exited", "reaped"}]
    /\ job \in [Pid -> 0 .. MaxCalls]
    /\ toWorker \in [Pid -> Seq(Call)]
    /\ toParent \in [Pid -> Seq(Call \cup {Ready})]
    /\ runs \in [Call -> Nat]

\* Slots share no process, and an open socket is that of the slot's process.
Wired ==
    \A i \in Slot :
        /\ rw[i].pid <= spawns
        /\ rw[i].sock \in {0, rw[i].pid}
        /\ rw[i].ready => rw[i].sock # 0
        /\ \A j \in Slot : i # j /\ rw[i].pid # 0 => rw[i].pid # rw[j].pid

\* A process that was not forked yet has neither jobs nor messages.
Unborn ==
    \A p \in Pid : p > spawns =>
        proc[p] = "none" /\ toWorker[p] = <<>> /\ toParent[p] = <<>> /\ job[p] = 0

\* Where the parent is, and what its locals then stand for.
Placed ==
    /\ pc \in {"send", "recv"} =>
          wid \in Slot /\ rw[wid].state = Busy /\ rw[wid].sock # 0
    /\ pc = "sweep" => wid \in 1 .. Slots + 1
    /\ InCall => call > 0 /\ attempt > 0
    /\ pc \in {"acquire", "reacquire", "send", "recv"} => attempt <= 2

\* A busy slot is that of the call under way, or was lost to a failed pipe.
OneBusy ==
    \A i \in Slot : rw[i].state = Busy =>
        (pc \in {"send", "recv"} /\ i = wid) \/ i \in leaked

\* What a socket may carry: READY, a call's job or answer, or READY and an answer.
Hello == <<Ready>>
Just(c) == <<c>>
HelloThen(c) == <<Ready, c>>

\* The job of the call under way is in one place: on the way to the worker,
\* run by it, or answered; or it is lost with the worker.
InFlight(p) ==
    /\ toWorker[p] \in {<<>>, Just(call)}
    /\ job[p] \in {0, call}
    /\ toParent[p] \in {<<>>, Hello, Just(call), HelloThen(call)}
    /\ toWorker[p] # <<>> => job[p] = 0 /\ toParent[p] \in {<<>>, Hello}
    /\ job[p] # 0 => toParent[p] \in {<<>>, Hello}
    /\ job[p] # 0 \/ toParent[p] \notin {<<>>, Hello} => runs[call] > 0

AtRest(p) ==
    toWorker[p] = <<>> /\ job[p] = 0 /\ toParent[p] \in {<<>>, Hello}

\* What the socket of slot i carries. READY is sent once and read once.
Channel(i) ==
    LET p == rw[i].sock
    IN p # 0 =>
        /\ IF pc = "recv" /\ i = wid THEN InFlight(p) ELSE AtRest(p)
        /\ proc[p] = "boot" => ~rw[i].ready /\ toParent[p] = <<>>
        /\ rw[i].ready => toParent[p] \notin {Hello, HelloThen(call)}

Channels == \A i \in Slot : Channel(i)

\* A process has at most one job waiting, and one that runs has a job.
Jobs ==
    \A p \in Pid :
        /\ toWorker[p] = <<>> \/ \E c \in Call : toWorker[p] = Just(c)
        /\ proc[p] = "run" => job[p] # 0

\* The bodies of call c that ran, and those that still may from a JOB that
\* was sent: at most one per attempt made, and three in all.
Pending(c) == {p \in Pid : toWorker[p] = Just(c)}

Budget(c) ==
    IF c < call \/ (c = call /\ ~InCall) THEN 3
    ELSE IF c > call THEN 0
    ELSE IF pc \in {"recv", "dead"} THEN attempt ELSE attempt - 1

Bounded == \A c \in Call : runs[c] + Cardinality(Pending(c)) <= Budget(c)

IInv ==
    Typed /\ Wired /\ Unborn /\ Placed /\ OneBusy /\ Channels /\ Jobs /\ Bounded

USE DEF Slot, Pid, Call, Idle, Busy, Stalled, Ready

LEMMA ForkedSlot ==
    ASSUME NEW w \in SlotState, NEW p \in 0 .. MaxSpawn
    PROVE  /\ Forked(w, p) \in SlotState
           /\ Forked(w, p).pid = p /\ Forked(w, p).sock = p
           /\ Forked(w, p).state = w.state /\ Forked(w, p).ready = w.ready
  BY DEF Forked, SlotState

\* The queues that occur, and how they grow and shrink.
LEMMA Mail ==
    /\ Hello \in Seq(Call \cup {Ready}) /\ Hello # <<>>
    /\ Head(Hello) = Ready /\ Tail(Hello) = <<>> /\ Append(<<>>, Ready) = Hello
    /\ \A c \in Call :
         /\ Just(c) \in Seq(Call) /\ Just(c) \in Seq(Call \cup {Ready})
         /\ Just(c) # <<>> /\ Just(c) # Hello
         /\ Head(Just(c)) = c /\ Tail(Just(c)) = <<>>
         /\ Append(<<>>, c) = Just(c)
         /\ \A d \in Call : Just(c) = Just(d) => c = d
    /\ \A c : HelloThen(c) # <<>> /\ HelloThen(c) # Hello
    /\ \A c \in Call :
         /\ \A d \in Call : HelloThen(c) # Just(d)
         /\ HelloThen(c) \in Seq(Call \cup {Ready})
         /\ Head(HelloThen(c)) = Ready /\ Tail(HelloThen(c)) = Just(c)
         /\ Append(Hello, c) = HelloThen(c)
  <1>1. ASSUME NEW c \in Call
        PROVE  Just(c) \in Seq(Call) /\ Just(c) \in Seq(Call \cup {Ready})
    BY DEF Just
  <1>2. ASSUME NEW c \in Call
        PROVE  /\ Just(c) # <<>> /\ Just(c) # Hello
               /\ Head(Just(c)) = c /\ Tail(Just(c)) = <<>>
               /\ Append(<<>>, c) = Just(c)
               /\ \A d \in Call : Just(c) = Just(d) => c = d
    BY DEF Just, Hello
  <1>3. ASSUME NEW c \in Call
        PROVE  \A d \in Call : HelloThen(c) # Just(d)
    BY DEF HelloThen, Just
  <1>6. \A c : HelloThen(c) # <<>> /\ HelloThen(c) # Hello
    BY DEF HelloThen, Hello
  <1>4. ASSUME NEW c \in Call
        PROVE  /\ HelloThen(c) \in Seq(Call \cup {Ready})
               /\ Head(HelloThen(c)) = Ready /\ Tail(HelloThen(c)) = Just(c)
               /\ Append(Hello, c) = HelloThen(c)
    <2>1. HelloThen(c) \in Seq(Call \cup {Ready})
      BY DEF HelloThen
    <2>2. Head(HelloThen(c)) = Ready
      BY DEF HelloThen
    <2>3. Tail(HelloThen(c)) = Just(c)
      BY DEF HelloThen, Just
    <2>4. Append(Hello, c) = HelloThen(c)
      BY AppendPair DEF HelloThen, Hello
    <2> QED BY <2>1, <2>2, <2>3, <2>4
  <1>5. /\ Hello \in Seq(Call \cup {Ready}) /\ Hello # <<>>
        /\ Head(Hello) = Ready /\ Tail(Hello) = <<>> /\ Append(<<>>, Ready) = Hello
    BY DEF Hello
  <1> QED BY <1>1, <1>2, <1>3, <1>4, <1>5, <1>6

LEMMA PidsFinite ==
    ASSUME NEW S \in SUBSET Pid
    PROVE  IsFiniteSet(S) /\ Cardinality(S) \in Nat
  <1>1. IsFiniteSet(Pid)
    BY FS_Interval, PoolAssumption
  <1> QED BY <1>1, FS_Subset, FS_CardinalityType

LEMMA InitHolds == Init => IInv
  <1> SUFFICES ASSUME Init PROVE IInv
    OBVIOUS
  <1> USE PoolAssumption DEF Init
  <1>0. spawns \in 0 .. PoolCap
    BY DEF Booted
  <1>w. NoWorker \in SlotState
    BY DEF NoWorker, SlotState
  <1>a. \A i \in Slot :
           IF i <= spawns
           THEN /\ rw[i] \in SlotState /\ rw[i].pid = i /\ rw[i].sock = i
                /\ rw[i].state = Idle /\ rw[i].ready = FALSE
           ELSE rw[i] = NoWorker
    <2> SUFFICES ASSUME NEW i \in Slot, i <= spawns
                 PROVE  /\ rw[i] \in SlotState /\ rw[i].pid = i /\ rw[i].sock = i
                        /\ rw[i].state = Idle /\ rw[i].ready = FALSE
      OBVIOUS
    <2>1. rw[i] = Forked(NoWorker, i) /\ i \in 0 .. MaxSpawn
      BY <1>0
    <2> QED BY <2>1, <1>w, ForkedSlot DEF NoWorker
  <1>1. Typed
    <2>1. rw \in [Slot -> SlotState]
      BY <1>a, <1>w
    <2> QED BY <1>0, <2>1 DEF Typed
  <1>2. Wired
    BY <1>0, <1>a DEF Wired, NoWorker
  <1>3. Unborn
    BY <1>0 DEF Unborn
  <1>4. Placed
    BY DEF Placed, InCall
  <1>5. OneBusy
    <2>1. \A i \in Slot : rw[i].state = Idle
      BY <1>a DEF NoWorker
    <2> HIDE DEF Init
    <2> QED BY <2>1 DEF OneBusy
  <1>6. Channels
    <2> SUFFICES ASSUME NEW i \in Slot, rw[i].sock # 0
                 PROVE  Channel(i)
      BY DEF Channels, Channel
    <2>1. i <= spawns /\ rw[i].sock = i /\ rw[i].ready = FALSE /\ i \in Pid
      BY <1>0, <1>a DEF NoWorker
    <2> QED BY <2>1 DEF Channel, AtRest
  <1>7. Jobs
    BY DEF Jobs
  <1>8. Bounded
    <2> SUFFICES ASSUME NEW c \in Call PROVE runs[c] + Cardinality(Pending(c)) <= Budget(c)
      BY DEF Bounded
    <2>1. Pending(c) = {}
      BY Mail DEF Pending
    <2> QED BY <2>1, FS_EmptySet DEF Budget, InCall
  <1> QED BY <1>1, <1>2, <1>3, <1>4, <1>5, <1>6, <1>7, <1>8 DEF IInv

\* A step that leaves the workers alone, outside a receive.
LEMMA WorkersUndisturbed ==
    ASSUME IInv, UNCHANGED <<rw, spawns, proc, job, toWorker, toParent>>,
           pc # "recv", pc' # "recv"
    PROVE  Wired' /\ Unborn' /\ Jobs' /\ Channels'
  <1> USE DEF IInv
  <1>1. Wired' /\ Unborn' /\ Jobs'
    BY DEF Wired, Unborn, Jobs
  <1>2. ASSUME NEW i \in Slot PROVE Channel(i)'
    <2>1. Channel(i)
      BY DEF Channels
    <2>2. rw[i].sock # 0 => AtRest(rw[i].sock)
      BY <2>1 DEF Channel
    <2>3. rw[i].sock # 0 => AtRest(rw[i].sock)'
      BY <2>2 DEF AtRest
    <2>4. rw[i].ready /\ rw[i].sock # 0 => toParent[rw[i].sock] = <<>>
      BY <2>1, <2>2 DEF Channel, AtRest
    <2>5. HelloThen(call)' # <<>> /\ Hello # <<>>
      BY Mail DEF HelloThen
    <2> QED BY <2>1, <2>3, <2>4, <2>5 DEF Channel
  <1> QED BY <1>1, <1>2 DEF Channels

\* The budget of bodies suffices if it does not shrink and nothing was sent or run.
LEMMA BudgetSuffices ==
    ASSUME IInv, Typed', UNCHANGED <<toWorker, runs>>,
           \A c \in Call : Budget(c) <= Budget(c)'
    PROVE  Bounded'
  <1> SUFFICES ASSUME NEW c \in Call
               PROVE  (runs[c] + Cardinality(Pending(c)) <= Budget(c))'
    BY DEF Bounded
  <1>1. runs[c] + Cardinality(Pending(c)) <= Budget(c)
    BY DEF IInv, Bounded
  <1>2. Pending(c)' = Pending(c)
    BY DEF Pending
  <1>3. runs[c] \in Nat /\ Cardinality(Pending(c)) \in Nat
    BY PidsFinite DEF IInv, Typed, Pending
  <1>4. Budget(c) \in Int /\ Budget(c)' \in Int
    BY PoolAssumption DEF IInv, Typed, Budget
  <1> QED BY <1>1, <1>2, <1>3, <1>4

LEMMA BeginCallKeeps == IInv /\ BeginCall => IInv'
  <1> SUFFICES ASSUME IInv, BeginCall PROVE IInv'
    OBVIOUS
  <1> USE PoolAssumption DEF IInv, BeginCall
  <1>1. Typed'
    <2>1. call' \in 0 .. MaxCalls /\ attempt' \in 0 .. 3 /\ pc' = "acquire"
      BY DEF Typed
    <2> QED BY <2>1, Zenon DEF Typed
  <1>2. Wired' /\ Unborn' /\ Jobs' /\ Channels'
    BY WorkersUndisturbed
  <1>3. Placed' /\ OneBusy'
    BY DEF Placed, OneBusy, InCall, Typed
  <1>4. Bounded'
    <2>1. \A c \in Call : Budget(c) <= Budget(c)'
      BY DEF Budget, InCall, Typed
    <2> QED BY <1>1, <2>1, BudgetSuffices
  <1> QED BY <1>1, <1>2, <1>3, <1>4

LEMMA StarvedKeeps == IInv /\ Starved => IInv'
  <1> SUFFICES ASSUME IInv, Starved PROVE IInv'
    OBVIOUS
  <1> USE PoolAssumption DEF IInv, Starved
  <1>1. Typed'
    BY Zenon DEF Typed
  <1>2. Wired' /\ Unborn' /\ Jobs' /\ Channels'
    BY WorkersUndisturbed
  <1>3. Placed' /\ OneBusy'
    BY DEF Placed, OneBusy, InCall, Typed
  <1>4. Bounded'
    <2>1. \A c \in Call : Budget(c) <= Budget(c)'
      BY DEF Budget, InCall, Typed
    <2> QED BY <1>1, <2>1, BudgetSuffices
  <1> QED BY <1>1, <1>2, <1>3, <1>4

LEMMA PipeFailsKeeps == IInv /\ PipeFails => IInv'
  <1> SUFFICES ASSUME IInv, PipeFails PROVE IInv'
    OBVIOUS
  <1> USE PoolAssumption DEF IInv, PipeFails
  <1>1. Typed'
    BY Zenon DEF Typed
  <1>2. Wired' /\ Unborn' /\ Jobs' /\ Channels'
    BY WorkersUndisturbed
  <1>3. Placed' /\ OneBusy'
    BY DEF Placed, OneBusy, InCall, Typed
  <1>4. Bounded'
    <2>1. \A c \in Call : Budget(c) <= Budget(c)'
      BY DEF Budget, InCall, Typed
    <2> QED BY <1>1, <2>1, BudgetSuffices
  <1> QED BY <1>1, <1>2, <1>3, <1>4

\* The inline fallback enters the sweep of its prologue.
LEMMA InlineKeeps == IInv /\ Inline => IInv'
  <1> SUFFICES ASSUME IInv, Inline PROVE IInv'
    OBVIOUS
  <1> USE PoolAssumption DEF IInv, Inline
  <1>1. Typed'
    <2>1. pc' = "sweep" /\ wid' \in 0 .. Slots + 1 /\ back' = "body"
      BY DEF Typed
    <2> QED BY <2>1, Zenon DEF Typed
  <1>2. Wired' /\ Unborn' /\ Jobs' /\ Channels'
    BY WorkersUndisturbed
  <1>3. Placed' /\ OneBusy'
    BY DEF Placed, OneBusy, InCall, Typed
  <1>4. Bounded'
    <2>1. \A c \in Call : Budget(c) <= Budget(c)'
      BY DEF Budget, InCall, Typed
    <2> QED BY <1>1, <2>1, BudgetSuffices
  <1> QED BY <1>1, <1>2, <1>3, <1>4

LEMMA HeartbeatKeeps == IInv /\ Heartbeat => IInv'
  <1> SUFFICES ASSUME IInv, Heartbeat PROVE IInv'
    OBVIOUS
  <1> USE PoolAssumption DEF IInv, Heartbeat
  <1>1. Typed'
    <2>1. pc' = "sweep" /\ wid' \in 0 .. Slots + 1 /\ back' = "idle"
      BY DEF Typed
    <2> QED BY <2>1, Zenon DEF Typed
  <1>2. Wired' /\ Unborn' /\ Jobs' /\ Channels'
    BY WorkersUndisturbed
  <1>3. Placed' /\ OneBusy'
    BY DEF Placed, OneBusy, InCall, Typed
  <1>4. Bounded'
    <2>1. \A c \in Call : Budget(c) <= Budget(c)'
      BY DEF Budget, InCall, Typed
    <2> QED BY <1>1, <2>1, BudgetSuffices
  <1> QED BY <1>1, <1>2, <1>3, <1>4

LEMMA SweepDoneKeeps == IInv /\ SweepDone => IInv'
  <1> SUFFICES ASSUME IInv, SweepDone PROVE IInv'
    OBVIOUS
  <1> USE PoolAssumption DEF IInv, SweepDone
  <1>0. pc' \in {"idle", "body"} /\ wid' \in 0 .. Slots + 1
    BY DEF Typed
  <1>1. Typed'
    BY <1>0, Zenon DEF Typed
  <1>2. Wired' /\ Unborn' /\ Jobs' /\ Channels'
    BY <1>0, WorkersUndisturbed
  <1>3. Placed' /\ OneBusy'
    BY <1>0 DEF Placed, OneBusy, InCall, Typed
  <1>4. Bounded'
    <2>1. \A c \in Call : Budget(c) <= Budget(c)'
      BY <1>0 DEF Budget, InCall, Typed
    <2> QED BY <1>1, <2>1, BudgetSuffices
  <1> QED BY <1>1, <1>2, <1>3, <1>4

\* The first slot of a set of slots.
LEMMA LowestInSet ==
    ASSUME NEW S \in SUBSET Slot, S # {}
    PROVE  Lowest(S) \in S
  <1>1. PICK n \in S : \A m \in S : n <= m
    BY LeastNatural, PoolAssumption
  <1> QED BY <1>1 DEF Lowest

\* plant_rw_acquire takes a ready idle slot, which is quiet.
LEMMA AcquireKeeps ==
    ASSUME IInv, NEW i \in ReadyIdle(rw), pc \in {"acquire", "reacquire"},
           rw' = [rw EXCEPT ![i] = Acquired(@)], wid' = i, pc' = "send",
           UNCHANGED <<spawns, call, attempt, back, proc, job, toWorker, toParent, runs,
                     leaked>>
    PROVE  IInv'
  <1> USE PoolAssumption DEF IInv
  <1>0. /\ i \in Slot /\ rw[i].pid > 0 /\ rw[i].ready /\ rw[i].state = Idle
        /\ rw[i] \in SlotState /\ rw[i].sock # 0
    BY DEF ReadyIdle, Typed, Wired
  <1>a. \A j \in Slot :
           /\ rw'[j] \in SlotState
           /\ rw'[j].pid = rw[j].pid /\ rw'[j].sock = rw[j].sock /\ rw'[j].ready = rw[j].ready
           /\ rw'[j].state = IF j = i THEN Busy ELSE rw[j].state
    BY <1>0 DEF Typed, Acquired, SlotState
  <1>1. Typed'
    <2>1. rw' \in [Slot -> SlotState] /\ wid' \in 0 .. Slots + 1
      BY <1>0, <1>a DEF Typed
    <2> QED BY <2>1, Zenon DEF Typed
  <1>2. Wired' /\ Unborn' /\ Jobs'
    BY <1>a DEF Wired, Unborn, Jobs
  <1>3. Placed' /\ OneBusy'
    BY <1>0, <1>a DEF Placed, OneBusy, InCall, Typed
  <1>4. Channels'
    <2> SUFFICES ASSUME NEW j \in Slot PROVE Channel(j)'
      BY DEF Channels
    <2>1. Channel(j)
      BY DEF Channels
    <2> QED BY <1>a, <2>1 DEF Channel, AtRest
  <1>5. Bounded'
    <2>1. \A c \in Call : Budget(c) <= Budget(c)'
      BY DEF Budget, InCall, Typed
    <2> QED BY <1>1, <2>1, BudgetSuffices
  <1> QED BY <1>1, <1>2, <1>3, <1>4, <1>5

LEMMA AcquireReadyKeeps == IInv /\ (AcquireReady \/ Reacquire) => IInv'
  <1> SUFFICES ASSUME IInv, AcquireReady \/ Reacquire PROVE IInv'
    OBVIOUS
  <1>1. Lowest(ReadyIdle(rw)) \in ReadyIdle(rw)
    BY LowestInSet DEF ReadyIdle, AcquireReady, Reacquire
  <1>2. QED
    BY <1>1, AcquireKeeps DEF AcquireReady, Reacquire

\* A scan of the sockets reads the READYs that have arrived.
LEMMA DrainReadiesKeeps == IInv /\ DrainReadies => IInv'
  <1> SUFFICES ASSUME IInv, DrainReadies PROVE IInv'
    OBVIOUS
  <1> USE PoolAssumption DEF IInv
  <1>p. pc = "acquire" /\ pc' = "reacquire"
    BY DEF DrainReadies
  <1>u. UNCHANGED <<spawns, call, attempt, wid, back, proc, job, toWorker, runs, leaked>>
    BY DEF DrainReadies
  <1>0. PICK S \in SUBSET Waiting :
          /\ rw' = [i \in Slot |->
                      IF i \in S /\ Head(toParent[rw[i].sock]) = Ready
                      THEN [rw[i] EXCEPT !.ready = TRUE] ELSE rw[i]]
          /\ toParent' = [p \in Pid |->
                            IF \E i \in S : rw[i].sock = p
                            THEN Drained(toParent[p]) ELSE toParent[p]]
    BY DEF DrainReadies
  <1>s. \A i \in Slot : rw[i] \in SlotState /\ (rw[i].sock # 0 => rw[i].sock \in Pid)
    BY DEF Typed, SlotState
  <1>a. \A i \in S : /\ i \in Slot /\ rw[i].sock \in Pid /\ rw[i].sock # 0
                     /\ toParent[rw[i].sock] = Hello
    BY <1>p, <1>s DEF Waiting, Channels, Channel, AtRest
  <1>b. Drained(Hello) = <<>>
    BY DEF Drained, SelectInSeq, Hello
  <1>c. \A i \in Slot :
           /\ rw'[i] \in SlotState
           /\ rw'[i].pid = rw[i].pid /\ rw'[i].sock = rw[i].sock
           /\ rw'[i].state = rw[i].state
           /\ rw'[i].ready <=> i \in S \/ rw[i].ready
    <2> SUFFICES ASSUME NEW i \in Slot
                 PROVE  /\ rw'[i] \in SlotState
                        /\ rw'[i].pid = rw[i].pid /\ rw'[i].sock = rw[i].sock
                        /\ rw'[i].state = rw[i].state
                        /\ rw'[i].ready <=> i \in S \/ rw[i].ready
      OBVIOUS
    <2>1. CASE i \in S
      <3>1. rw'[i] = [rw[i] EXCEPT !.ready = TRUE]
        BY <1>0, <1>a, <2>1, Mail
      <3> QED BY <1>s, <2>1, <3>1 DEF SlotState
    <2>2. CASE i \notin S
      <3>1. rw'[i] = rw[i]
        BY <1>0, <2>2
      <3> QED BY <1>s, <2>2, <3>1
    <2> QED BY <2>1, <2>2
  <1>d. \A p \in Pid : toParent'[p] = IF \E i \in S : rw[i].sock = p
                                      THEN <<>> ELSE toParent[p]
    BY <1>0, <1>a, <1>b
  <1>1. Typed'
    <2>1. rw' \in [Slot -> SlotState]
      BY <1>0, <1>c
    <2>2. toParent' \in [Pid -> Seq(Call \cup {Ready})]
      <3>1. \A p \in Pid : toParent'[p] \in Seq(Call \cup {Ready})
        <4>1. <<>> \in Seq(Call \cup {Ready})
          OBVIOUS
        <4> QED BY <1>d, <4>1 DEF Typed
      <3> QED BY <1>0, <3>1
    <2>3. pc' \in {"idle", "acquire", "reacquire", "starved", "send", "recv", "inline",
                   "sweep", "body", "dead"}
      BY <1>p
    <2> QED BY <1>u, <2>1, <2>2, <2>3, Zenon DEF Typed
  <1>w. Wired'
    BY <1>u, <1>a, <1>c DEF Wired
  <1>n. Unborn'
    BY <1>u, <1>d DEF Unborn
  <1>2. Wired' /\ Unborn' /\ Jobs'
    BY <1>u, <1>w, <1>n DEF Jobs
  <1>3. Placed' /\ OneBusy'
    BY <1>p, <1>u, <1>c DEF Placed, OneBusy, InCall
  <1>4. Channels'
    <2> SUFFICES ASSUME NEW j \in Slot, rw[j].sock # 0 PROVE Channel(j)'
      BY <1>c DEF Channels, Channel
    <2>1. Channel(j) /\ AtRest(rw[j].sock) /\ rw[j].sock \in Pid
      BY <1>p, <1>s DEF Channels, Channel
    <2>2. toParent'[rw[j].sock] = IF j \in S THEN <<>> ELSE toParent[rw[j].sock]
      BY <1>a, <1>d, <2>1 DEF Wired
    <2>3. j \in S => toParent[rw[j].sock] = Hello
      BY <1>a
    <2>4. AtRest(rw[j].sock)'
      BY <1>u, <1>c, <2>1, <2>2 DEF AtRest
    <2>c. call \in Call
      BY <1>p DEF Placed, InCall, Typed
    <2>5. rw'[j].ready => toParent'[rw[j].sock] # Hello
      BY <1>c, <2>1, <2>2, <2>3, Mail DEF Channel
    <2>6. proc[rw[j].sock] = "boot" => j \notin S
      BY <2>1, <2>3, Mail DEF Channel
    <2>7. toParent'[rw[j].sock] # HelloThen(call)
      <3>1. toParent'[rw[j].sock] \in {<<>>, Hello}
        BY <2>1, <2>2 DEF AtRest
      <3> QED BY <2>c, <3>1, Mail
    <2>8. proc'[rw[j].sock] = "boot" => ~rw'[j].ready /\ toParent'[rw[j].sock] = <<>>
      BY <1>u, <1>c, <2>1, <2>2, <2>6 DEF Channel
    <2> QED BY <1>p, <1>u, <1>c, <2>4, <2>5, <2>7, <2>8 DEF Channel
  <1>5. Bounded'
    <2>1. \A c \in Call : Budget(c) <= Budget(c)'
      BY <1>p, <1>u DEF Budget, InCall, Typed
    <2> QED BY <1>u, <1>1, <2>1, BudgetSuffices
  <1> QED BY <1>1, <1>2, <1>3, <1>4, <1>5

\* The JOB of the call goes to a quiet worker, or is lost with it.
LEMMA SendKeeps == IInv /\ Send => IInv'
  <1> SUFFICES ASSUME IInv, Send PROVE IInv'
    OBVIOUS
  <1> USE PoolAssumption DEF IInv
  <1> DEFINE p == rw[wid].sock
  <1>p. pc = "send" /\ pc' = "recv"
    BY DEF Send
  <1>u. UNCHANGED <<rw, spawns, call, attempt, wid, back, proc, job, toParent, runs, leaked>>
    BY DEF Send
  <1>0. wid \in Slot /\ rw[wid].state = Busy /\ p # 0 /\ p \in Pid /\ p <= spawns
    BY <1>p DEF Placed, Wired, Typed, SlotState
  <1>c. call \in Call /\ attempt \in 1 .. 2
    BY <1>p DEF Placed, InCall, Typed
  <1>q. AtRest(p) /\ Channel(wid)
    BY <1>p, <1>0 DEF Channels, Channel
  <1>t. toWorker' = IF Live(p) THEN [toWorker EXCEPT ![p] = Just(call)] ELSE toWorker
    <2>1. Append(toWorker[p], call) = Just(call)
      BY <1>q, <1>c, Mail DEF AtRest
    <2> QED BY <2>1 DEF Send
  <1>a. \A q \in Pid : toWorker'[q] = IF q = p /\ Live(p) THEN Just(call) ELSE toWorker[q]
    BY <1>0, <1>t DEF Typed
  <1>1. Typed'
    <2>1. Just(call) \in Seq(Call)
      BY <1>c, Mail
    <2>2. toWorker' \in [Pid -> Seq(Call)] /\ pc' = "recv"
      BY <1>p, <1>0, <1>t, <2>1 DEF Typed
    <2> QED BY <1>u, <2>2, Zenon DEF Typed
  <1>w. Wired'
    BY <1>u DEF Wired
  <1>n. Unborn'
    <2> SUFFICES ASSUME NEW q \in Pid, q > spawns
                 PROVE  proc[q] = "none" /\ toWorker'[q] = <<>> /\ toParent[q] = <<>> /\ job[q] = 0
      BY <1>u DEF Unborn
    <2>1. q # p
      BY <1>0 DEF Typed
    <2> QED BY <1>a, <2>1 DEF Unborn
  <1>2. Wired' /\ Unborn' /\ Jobs'
    BY <1>u, <1>w, <1>n, <1>a, <1>c DEF Jobs
  <1>3. Placed' /\ OneBusy'
    BY <1>p, <1>u DEF Placed, OneBusy, InCall
  <1>4. Channels'
    <2> SUFFICES ASSUME NEW j \in Slot, rw[j].sock # 0 PROVE Channel(j)'
      BY <1>u DEF Channels, Channel
    <2>1. Channel(j) /\ AtRest(rw[j].sock) /\ rw[j].sock \in Pid
      BY <1>p DEF Channels, Channel, Typed, SlotState
    <2>2. CASE j = wid
      BY <1>p, <1>u, <1>a, <1>c, <2>1, <2>2, Mail DEF Channel, AtRest, InFlight
    <2>3. CASE j # wid
      <3>1. rw[j].sock # p
        BY <1>0, <2>3 DEF Wired
      <3> QED BY <1>p, <1>u, <1>a, <2>1, <2>3, <3>1 DEF Channel, AtRest
    <2> QED BY <2>2, <2>3
  <1>5. Bounded'
    <2> SUFFICES ASSUME NEW c \in Call
                 PROVE  (runs[c] + Cardinality(Pending(c)) <= Budget(c))'
      BY DEF Bounded
    <2>1. runs[c] + Cardinality(Pending(c)) <= Budget(c) /\ runs[c] \in Nat
      BY DEF Bounded, Typed
    <2>f. IsFiniteSet(Pending(c)) /\ Cardinality(Pending(c)) \in Nat
      BY PidsFinite DEF Pending
    <2>2. CASE Live(p) /\ c = call
      <3>a. toWorker[p] # Just(c) /\ toWorker'[p] = Just(c)
        BY <1>0, <1>a, <1>q, <2>2, Mail DEF AtRest
      <3>1. Pending(c)' = Pending(c) \cup {p} /\ p \notin Pending(c)
        BY <1>0, <1>a, <3>a DEF Pending
      <3>2. Cardinality(Pending(c)') = Cardinality(Pending(c)) + 1
        BY <2>f, <3>1, FS_AddElement
      <3> QED BY <1>p, <1>u, <1>c, <2>1, <2>2, <2>f, <3>2 DEF Budget, InCall
    <2>3. CASE ~(Live(p) /\ c = call)
      <3>a. \A q \in Pid : toWorker'[q] = Just(c) <=> toWorker[q] = Just(c)
        <4>1. toWorker[p] # Just(c)
          BY <1>q, Mail DEF AtRest
        <4>2. c # call => Just(call) # Just(c)
          BY <1>c, Mail
        <4>3. toWorker'[p] # Just(c)
          BY <1>0, <1>a, <2>3, <4>1, <4>2
        <4> QED BY <1>a, <4>1, <4>3
      <3>1. Pending(c)' = Pending(c)
        BY <3>a DEF Pending
      <3> QED BY <1>p, <1>u, <1>c, <2>1, <2>f, <3>1 DEF Budget, InCall, Typed
    <2> QED BY <2>2, <2>3
  <1> QED BY <1>1, <1>2, <1>3, <1>4, <1>5

\* The READY of the worker precedes its answer.
LEMMA RecvReadyKeeps == IInv /\ RecvReady => IInv'
  <1> SUFFICES ASSUME IInv, RecvReady PROVE IInv'
    OBVIOUS
  <1> USE PoolAssumption DEF IInv
  <1> DEFINE p == rw[wid].sock
  <1>p. pc = "recv" /\ pc' = "recv"
    BY DEF RecvReady
  <1>u. UNCHANGED <<spawns, call, attempt, wid, back, proc, job, toWorker, runs, leaked>>
    BY DEF RecvReady
  <1>0. wid \in Slot /\ rw[wid].state = Busy /\ p # 0 /\ p \in Pid /\ p <= spawns
    BY <1>p DEF Placed, Wired, Typed, SlotState
  <1>c. call \in Call
    BY <1>p DEF Placed, InCall, Typed
  <1>q. InFlight(p) /\ Channel(wid)
    BY <1>p, <1>0 DEF Channels, Channel
  <1>m. toParent[p] \in {Hello, HelloThen(call)}
    <2>1. toParent[p] \in {<<>>, Hello, Just(call), HelloThen(call)}
      BY <1>q DEF InFlight
    <2>2. toParent[p] # <<>> /\ Head(toParent[p]) = Ready
      BY DEF RecvReady
    <2>3. Head(Just(call)) = call /\ call # Ready
      BY <1>c, Mail
    <2> HIDE DEF p
    <2> QED BY <2>1, <2>2, <2>3
  <1>n. Tail(toParent[p]) = IF toParent[p] = Hello THEN <<>> ELSE Just(call)
    BY <1>m, <1>c, Mail
  <1>a. \A q \in Pid : toParent'[q] = IF q = p THEN Tail(toParent[p]) ELSE toParent[q]
    BY <1>0 DEF RecvReady, Typed
  <1>b. \A i \in Slot :
           /\ rw'[i] \in SlotState
           /\ rw'[i].pid = rw[i].pid /\ rw'[i].sock = rw[i].sock
           /\ rw'[i].state = rw[i].state
           /\ i # wid => rw'[i] = rw[i]
    <2>1. rw[wid] \in SlotState /\ rw' = [rw EXCEPT ![wid] = [rw[wid] EXCEPT !.ready = TRUE]]
      BY <1>0 DEF RecvReady, Typed
    <2>2. [rw[wid] EXCEPT !.ready = TRUE] \in SlotState
      BY <2>1 DEF SlotState
    <2> QED BY <1>0, <2>1, <2>2 DEF Typed, SlotState
  <1>1. Typed'
    <2>1. rw' \in [Slot -> SlotState]
      BY <1>b DEF RecvReady, Typed
    <2>2. toParent' \in [Pid -> Seq(Call \cup {Ready})]
      <3>1. Tail(toParent[p]) \in Seq(Call \cup {Ready})
        <4>1. <<>> \in Seq(Call \cup {Ready})
          OBVIOUS
        <4>2. Just(call) \in Seq(Call \cup {Ready})
          BY <1>c, Mail
        <4> QED BY <1>n, <4>1, <4>2
      <3> QED BY <3>1 DEF RecvReady, Typed
    <2> QED BY <1>p, <1>u, <2>1, <2>2, Zenon DEF Typed
  <1>w. Wired'
    BY <1>u, <1>b, <1>0 DEF Wired
  <1>v. Unborn'
    <2> SUFFICES ASSUME NEW q \in Pid, q > spawns
                 PROVE  proc[q] = "none" /\ toWorker[q] = <<>> /\ toParent'[q] = <<>> /\ job[q] = 0
      BY <1>u DEF Unborn
    <2>1. q # p
      BY <1>0 DEF Typed
    <2> QED BY <1>a, <2>1 DEF Unborn
  <1>j. Jobs'
    BY <1>u DEF Jobs
  <1>3. Placed' /\ OneBusy'
    BY <1>p, <1>u, <1>b, <1>0 DEF Placed, OneBusy, InCall
  <1>4. Channels'
    <2> SUFFICES ASSUME NEW j \in Slot, rw[j].sock # 0 PROVE Channel(j)'
      BY <1>b DEF Channels, Channel
    <2>1. Channel(j) /\ rw[j].sock \in Pid
      BY DEF Channels, Typed, SlotState
    <2>2. CASE j = wid
      <3>1. InFlight(rw[j].sock)'
        <4>1. toParent'[p] \in {<<>>, Just(call)} /\ rw'[j].sock = p
          BY <1>a, <1>b, <1>m, <1>n, <1>0, <2>2
        <4>2. toParent'[p] \in {<<>>, Hello} \/ toParent[p] \notin {<<>>, Hello}
          BY <1>a, <1>m, <1>n, <1>0, <1>c, Mail
        <4>3. /\ toWorker[p] # <<>> => toParent'[p] \in {<<>>, Hello}
              /\ job[p] # 0 => toParent'[p] \in {<<>>, Hello}
          BY <1>q, <4>2 DEF InFlight
        <4>4. job[p] # 0 \/ toParent'[p] \notin {<<>>, Hello} => runs[call] > 0
          BY <1>q, <4>2 DEF InFlight
        <4> QED BY <1>q, <1>u, <4>1, <4>3, <4>4 DEF InFlight
      <3>2. toParent'[p] \notin {Hello, HelloThen(call)}
        <4>1. /\ <<>> # Hello /\ <<>> # HelloThen(call)
              /\ Just(call) # Hello /\ Just(call) # HelloThen(call)
          BY <1>c, Mail
        <4> QED BY <1>a, <1>n, <1>0, <4>1
      <3>3. proc[p] # "boot"
        BY <1>m, <1>c, <1>0, <1>q, Mail DEF Channel
      <3> QED BY <1>p, <1>u, <1>b, <1>0, <2>2, <3>1, <3>2, <3>3 DEF Channel
    <2>3. CASE j # wid
      <3>1. rw[j].sock # p
        BY <1>0, <2>3 DEF Wired
      <3> QED BY <1>p, <1>u, <1>a, <1>b, <2>1, <2>3, <3>1 DEF Channel, AtRest
    <2> QED BY <2>2, <2>3
  <1>5. Bounded'
    <2>1. \A c \in Call : Budget(c) <= Budget(c)'
      BY <1>p, <1>u DEF Budget, InCall, Typed
    <2> QED BY <1>u, <1>1, <2>1, BudgetSuffices
  <1> QED BY <1>1, <1>w, <1>v, <1>j, <1>3, <1>4, <1>5

\* A message that is not READY is the answer of the call under way.
LEMMA AnswerIsOwn ==
    ASSUME IInv, RecvResult
    PROVE  /\ wid \in Slot /\ rw[wid].sock \in Pid /\ rw[wid].sock # 0
           /\ toParent[rw[wid].sock] = Just(call) /\ call \in Call
           /\ toWorker[rw[wid].sock] = <<>> /\ job[rw[wid].sock] = 0
           /\ ret' = call
  <1> USE PoolAssumption DEF IInv
  <1> DEFINE p == rw[wid].sock
  <1>p. pc = "recv"
    BY DEF RecvResult
  <1>0. wid \in Slot /\ p # 0 /\ p \in Pid
    BY <1>p DEF Placed, Wired, Typed, SlotState
  <1>c. call \in Call
    BY <1>p DEF Placed, InCall, Typed
  <1>q. InFlight(p)
    BY <1>p, <1>0 DEF Channels, Channel
  <1>m. toParent[p] # <<>> /\ Head(toParent[p]) # Ready /\ ret' = Head(toParent[p])
    BY DEF RecvResult
  <1>1. toParent[p] = Just(call)
    BY <1>q, <1>c, <1>m, Mail DEF InFlight
  <1>2. toWorker[p] = <<>> /\ job[p] = 0
    BY <1>q, <1>1, <1>c, Mail DEF InFlight
  <1> QED BY <1>0, <1>c, <1>m, <1>1, <1>2, Mail

LEMMA RecvResultKeeps == IInv /\ RecvResult => IInv'
  <1> SUFFICES ASSUME IInv, RecvResult PROVE IInv'
    OBVIOUS
  <1> USE PoolAssumption DEF IInv
  <1> DEFINE p == rw[wid].sock
  <1>p. pc = "recv" /\ pc' = "idle"
    BY DEF RecvResult
  <1>u. UNCHANGED <<spawns, call, attempt, wid, back, proc, job, toWorker, runs, leaked>>
    BY DEF RecvResult
  <1>0. wid \in Slot /\ p # 0 /\ p \in Pid /\ p <= spawns /\ call \in Call /\ attempt <= 2
    BY <1>p, AnswerIsOwn DEF Placed, Wired
  <1>m. toParent[p] = Just(call) /\ toWorker[p] = <<>> /\ job[p] = 0
    BY AnswerIsOwn
  <1>a. \A q \in Pid : toParent'[q] = IF q = p THEN <<>> ELSE toParent[q]
    BY <1>0, <1>m, Mail DEF RecvResult, Typed
  <1>b. \A i \in Slot :
           /\ rw'[i] \in SlotState
           /\ rw'[i].pid = rw[i].pid /\ rw'[i].sock = rw[i].sock
           /\ rw'[i].ready = rw[i].ready
           /\ rw'[i].state = IF i = wid THEN Idle ELSE rw[i].state
    <2>1. rw \in [Slot -> SlotState] /\ rw' = [rw EXCEPT ![wid] = Released(rw[wid])]
      BY DEF RecvResult, Typed
    <2>2. /\ Released(rw[wid]) \in SlotState /\ Released(rw[wid]).state = Idle
          /\ Released(rw[wid]).pid = rw[wid].pid /\ Released(rw[wid]).sock = rw[wid].sock
          /\ Released(rw[wid]).ready = rw[wid].ready
      <3>1. rw[wid] \in SlotState
        BY <1>0, <2>1
      <3> QED BY <3>1 DEF Released, SlotState
    <2>3. \A i \in Slot : rw'[i] = IF i = wid THEN Released(rw[wid]) ELSE rw[i]
      BY <2>1
    <2> QED BY <2>1, <2>2, <2>3
  <1>1. Typed'
    <2>1. rw' \in [Slot -> SlotState]
      BY <1>b DEF RecvResult, Typed
    <2>2. toParent' \in [Pid -> Seq(Call \cup {Ready})]
      <3>1. <<>> \in Seq(Call \cup {Ready})
        OBVIOUS
      <3>2. \A q \in Pid : toParent'[q] \in Seq(Call \cup {Ready})
        BY <1>a, <3>1 DEF Typed
      <3> QED BY <3>2 DEF RecvResult, Typed
    <2> QED BY <1>p, <1>u, <2>1, <2>2, Zenon DEF Typed
  <1>w. Wired'
    BY <1>u, <1>b DEF Wired
  <1>v. Unborn'
    BY <1>u, <1>a DEF Unborn
  <1>j. Jobs'
    BY <1>u DEF Jobs
  <1>3. Placed' /\ OneBusy'
    BY <1>p, <1>u, <1>b DEF Placed, OneBusy, InCall
  <1>4. Channels'
    <2> SUFFICES ASSUME NEW j \in Slot, rw[j].sock # 0 PROVE Channel(j)'
      BY <1>b DEF Channels, Channel
    <2>1. Channel(j) /\ rw[j].sock \in Pid
      BY DEF Channels, Typed, SlotState
    <2>2. CASE j = wid
      <3>1. proc[p] # "boot"
        BY <1>m, <1>0, <2>1, <2>2, Mail DEF Channel
      <3>2. AtRest(rw[j].sock)' /\ toParent'[p] \notin {Hello, HelloThen(call)}
        BY <1>u, <1>a, <1>b, <1>m, <1>0, <2>2, Mail DEF AtRest
      <3> QED BY <1>p, <1>u, <1>b, <1>0, <2>2, <3>1, <3>2 DEF Channel
    <2>3. CASE j # wid
      <3>1. rw[j].sock # p
        BY <1>0, <2>3 DEF Wired
      <3> QED BY <1>p, <1>u, <1>a, <1>b, <2>1, <2>3, <3>1 DEF Channel, AtRest
    <2> QED BY <2>2, <2>3
  <1>5. Bounded'
    <2>1. \A c \in Call : Budget(c) <= Budget(c)'
      BY <1>p, <1>u, <1>0 DEF Budget, InCall, Typed
    <2> QED BY <1>u, <1>1, <2>1, BudgetSuffices
  <1> QED BY <1>1, <1>w, <1>v, <1>j, <1>3, <1>4, <1>5

\* The body that runs inline is the third at most.
LEMMA RunInlineKeeps == IInv /\ RunInline => IInv'
  <1> SUFFICES ASSUME IInv, RunInline PROVE IInv'
    OBVIOUS
  <1> USE PoolAssumption DEF IInv
  <1>p. pc = "body" /\ pc' = "idle"
    BY DEF RunInline
  <1>u. UNCHANGED <<rw, spawns, call, attempt, wid, back, proc, job, toWorker, toParent, leaked>>
    BY DEF RunInline
  <1>0. call \in Call /\ attempt \in 1 .. 3
    BY <1>p DEF Placed, InCall, Typed
  <1>a. \A c \in Call : runs'[c] = IF c = call THEN runs[c] + 1 ELSE runs[c]
    BY <1>0 DEF RunInline, Typed
  <1>1. Typed'
    <2>1. runs' \in [Call -> Nat]
      BY <1>0 DEF RunInline, Typed
    <2> QED BY <1>p, <1>u, <2>1, Zenon DEF Typed
  <1>2. Wired' /\ Unborn' /\ Jobs' /\ Channels'
    BY <1>p, <1>u, WorkersUndisturbed
  <1>3. Placed' /\ OneBusy'
    BY <1>p, <1>u DEF Placed, OneBusy, InCall
  <1>4. Bounded'
    <2> SUFFICES ASSUME NEW c \in Call
                 PROVE  (runs[c] + Cardinality(Pending(c)) <= Budget(c))'
      BY DEF Bounded
    <2>1. runs[c] + Cardinality(Pending(c)) <= Budget(c) /\ runs[c] \in Nat
      BY DEF Bounded, Typed
    <2>2. Cardinality(Pending(c)) \in Nat /\ Pending(c)' = Pending(c)
      BY <1>u, PidsFinite DEF Pending
    <2> QED BY <1>p, <1>u, <1>a, <1>0, <2>1, <2>2 DEF Budget, InCall
  <1> QED BY <1>1, <1>2, <1>3, <1>4

\* A body that crashes inline ran once more and ends the program.
LEMMA CrashInlineKeeps == IInv /\ CrashInline => IInv'
  <1> SUFFICES ASSUME IInv, CrashInline PROVE IInv'
    OBVIOUS
  <1> USE PoolAssumption DEF IInv
  <1>p. pc = "body" /\ pc' = "dead"
    BY DEF CrashInline
  <1>u. UNCHANGED <<rw, spawns, call, attempt, wid, back, proc, job, toWorker, toParent, leaked>>
    BY DEF CrashInline
  <1>0. call \in Call /\ attempt \in 1 .. 3
    BY <1>p DEF Placed, InCall, Typed
  <1>a. \A c \in Call : runs'[c] = IF c = call THEN runs[c] + 1 ELSE runs[c]
    BY <1>0 DEF CrashInline, Typed
  <1>1. Typed'
    <2>1. runs' \in [Call -> Nat]
      BY <1>0 DEF CrashInline, Typed
    <2> QED BY <1>p, <1>u, <2>1, Zenon DEF Typed
  <1>2. Wired' /\ Unborn' /\ Jobs' /\ Channels'
    BY <1>p, <1>u, WorkersUndisturbed
  <1>3. Placed' /\ OneBusy'
    BY <1>p, <1>u DEF Placed, OneBusy, InCall
  <1>4. Bounded'
    <2> SUFFICES ASSUME NEW c \in Call
                 PROVE  (runs[c] + Cardinality(Pending(c)) <= Budget(c))'
      BY DEF Bounded
    <2>1. runs[c] + Cardinality(Pending(c)) <= Budget(c) /\ runs[c] \in Nat
      BY DEF Bounded, Typed
    <2>2. Cardinality(Pending(c)) \in Nat /\ Pending(c)' = Pending(c)
      BY <1>u, PidsFinite DEF Pending
    <2>3. Budget(c)' = IF c = call THEN Budget(c) + 1 ELSE Budget(c)
      BY <1>p, <1>u, <1>0 DEF Budget, InCall
    <2>4. Budget(c) \in Int
      BY DEF Budget, Typed
    <2> QED BY <1>a, <2>1, <2>2, <2>3, <2>4
  <1> QED BY <1>1, <1>2, <1>3, <1>4

\* plant_rw_spawn puts a new worker, without mail, in the slot i, or leaves the
\* slot without a socket. Only slot i may have a call in flight.
LEMMA SpawnKeeps ==
    ASSUME IInv, NEW i \in Slot, NEW fresh \in {NoWorker, Acquired(NoWorker)},
           NEW life \in [Pid -> {"none", "boot", "wait", "run", "exited", "reaped"}],
           \A p \in Pid : life[p] = proc[p] \/ (life[p] = "reaped" /\ proc[p] # "none"),
           SpawnInto(i, fresh, life),
           UNCHANGED <<call, job, toWorker, toParent, runs>>,
           pc # "recv" \/ wid = i, pc' # "recv"
    PROVE  /\ rw' \in [Slot -> SlotState] /\ spawns' \in 0 .. MaxSpawn
           /\ proc' \in [Pid -> {"none", "boot", "wait", "run", "exited", "reaped"}]
           /\ Wired' /\ Unborn' /\ Jobs' /\ Channels'
           /\ \A j \in Slot : j # i => rw'[j] = rw[j]
           /\ IF spawns' > spawns
              THEN rw'[i].sock # 0 /\ rw'[i].state = fresh.state
              ELSE rw'[i].state = Idle
  <1> USE PoolAssumption DEF IInv
  <1>n. NoWorker \in SlotState /\ fresh \in SlotState /\ fresh.ready = FALSE
    <2>1. NoWorker \in SlotState /\ NoWorker.ready = FALSE
      BY DEF NoWorker, SlotState
    <2>2. Acquired(NoWorker) \in SlotState /\ Acquired(NoWorker).ready = FALSE
      BY <2>1 DEF Acquired, SlotState
    <2> QED BY <2>1, <2>2
  <1>w. \A j \in Slot : /\ rw[j].pid <= spawns /\ rw[j].sock <= spawns
                       /\ rw[j].pid \in 0 .. MaxSpawn /\ rw[j].sock \in 0 .. MaxSpawn
    <2>1. spawns \in 0 .. MaxSpawn
      BY DEF Typed
    <2>2. \A j \in Slot : rw[j].pid \in 0 .. MaxSpawn /\ rw[j].sock \in 0 .. MaxSpawn
      BY DEF Typed, SlotState
    <2>3. \A j \in Slot : rw[j].pid <= spawns /\ rw[j].sock \in {0, rw[j].pid}
      BY DEF Wired
    <2> QED BY <2>1, <2>2, <2>3
  <1>s. spawns \in 0 .. MaxSpawn /\ rw[i].pid \in 0 .. MaxSpawn /\ rw[i] \in SlotState
    BY DEF Typed, SlotState
  <1>1. CASE /\ spawns < MaxSpawn /\ spawns' = spawns + 1
             /\ rw' = [rw EXCEPT ![i] = Forked(fresh, spawns')]
             /\ proc' = [life EXCEPT ![spawns'] = "boot"]
    <2> DEFINE n == spawns'
    <2>n. n \in Pid /\ n = spawns + 1 /\ n \in 0 .. MaxSpawn
      BY <1>1, <1>s
    <2>f. /\ rw'[i] = Forked(fresh, n) /\ rw'[i] \in SlotState
          /\ rw'[i].pid = n /\ rw'[i].sock = n
          /\ rw'[i].state = fresh.state /\ rw'[i].ready = FALSE
      BY <1>1, <1>n, <2>n, ForkedSlot DEF Typed
    <2>o. \A j \in Slot : j # i => rw'[j] = rw[j]
      BY <1>1 DEF Typed
    <2>p. \A p \in Pid : proc'[p] = IF p = n THEN "boot" ELSE life[p]
      BY <1>1
    <2>1. rw' \in [Slot -> SlotState]
      BY <1>1, <2>f DEF Typed
    <2>2. proc' \in [Pid -> {"none", "boot", "wait", "run", "exited", "reaped"}]
      BY <1>1
    <2>3. Wired'
      <3>1. \A j \in Slot : rw'[j].pid = IF j = i THEN n ELSE rw[j].pid
        BY <2>f, <2>o
      <3>2. \A j \in Slot : rw'[j].pid <= spawns' /\ rw'[j].sock \in {0, rw'[j].pid}
        <4>1. ASSUME NEW j \in Slot, j # i
              PROVE  rw'[j].pid <= spawns' /\ rw'[j].sock \in {0, rw'[j].pid}
          <5>1. rw'[j] = rw[j] /\ rw[j].pid <= spawns /\ rw[j].sock \in {0, rw[j].pid}
            BY <2>o, <4>1 DEF Wired
          <5> QED BY <1>s, <1>w, <2>n, <5>1
        <4>2. rw'[i].pid <= spawns' /\ rw'[i].sock \in {0, rw'[i].pid}
          BY <2>n, <2>f
        <4> QED BY <4>1, <4>2
      <3>3. \A j \in Slot : rw'[j].ready => rw'[j].sock # 0
        BY <2>f, <2>o DEF Wired
      <3>4. \A j, k \in Slot : j # k /\ rw'[j].pid # 0 => rw'[j].pid # rw'[k].pid
        BY <1>s, <1>w, <2>n, <3>1 DEF Wired
      <3> QED BY <3>2, <3>3, <3>4 DEF Wired
    <2>4. Unborn'
      BY <1>s, <2>n, <2>p DEF Unborn
    <2>5. Jobs'
      BY <2>p DEF Jobs
    <2>6. Channels'
      <3> SUFFICES ASSUME NEW j \in Slot, rw'[j].sock # 0 PROVE Channel(j)'
        BY DEF Channels, Channel
      <3>1. CASE j = i
        <4>1. rw'[j].sock = n /\ rw'[j].ready = FALSE
          BY <3>1, <2>f
        <4>2. toWorker[n] = <<>> /\ toParent[n] = <<>> /\ job[n] = 0
          BY <1>s, <2>n DEF Unborn
        <4> QED BY <4>1, <4>2 DEF Channel, AtRest
      <3>2. CASE j # i
        <4>1. rw'[j] = rw[j] /\ Channel(j) /\ rw[j].sock # n /\ rw[j].sock \in Pid
          BY <3>2, <2>o, <1>s, <1>w, <2>n DEF Channels
        <4>2. proc'[rw[j].sock] = "boot" => proc[rw[j].sock] = "boot"
          BY <4>1, <2>p
        <4> QED BY <3>2, <4>1, <4>2 DEF Channel, AtRest
      <3> QED BY <3>1, <3>2
    <2> QED BY <1>1, <1>s, <2>1, <2>2, <2>3, <2>4, <2>5, <2>6, <2>f, <2>o, <2>n
  <1>2. CASE /\ rw' = [rw EXCEPT ![i] = [NoWorker EXCEPT !.pid = rw[i].pid]]
             /\ proc' = life /\ spawns' = spawns
    <2>f. /\ rw'[i] \in SlotState /\ rw'[i].pid = rw[i].pid /\ rw'[i].sock = 0
          /\ rw'[i].state = Idle /\ rw'[i].ready = FALSE
      <3> DEFINE w == [NoWorker EXCEPT !.pid = rw[i].pid]
      <3>1. NoWorker.sock = 0 /\ NoWorker.state = Idle
        BY DEF NoWorker
      <3>3. NoWorker.ready = FALSE
        BY DEF NoWorker
      <3>2. /\ w \in SlotState /\ w.pid = rw[i].pid /\ w.sock = 0
            /\ w.state = Idle /\ w.ready = FALSE
        BY <1>n, <1>s, <3>1, <3>3 DEF SlotState
      <3> QED BY <1>2, <3>2 DEF Typed
    <2>o. \A j \in Slot : j # i => rw'[j] = rw[j]
      BY <1>2 DEF Typed
    <2>1. rw' \in [Slot -> SlotState]
      BY <1>2, <2>f DEF Typed
    <2>3. Wired'
      BY <1>2, <1>s, <2>f, <2>o DEF Wired
    <2>4. Unborn'
      BY <1>2, <1>s DEF Unborn
    <2>5. Jobs'
      BY <1>2 DEF Jobs
    <2>6. Channels'
      <3> SUFFICES ASSUME NEW j \in Slot, rw'[j].sock # 0 PROVE Channel(j)'
        BY DEF Channels, Channel
      <3>1. j # i /\ rw'[j] = rw[j] /\ Channel(j) /\ rw[j].sock \in Pid
        BY <2>f, <2>o, <1>w DEF Channels
      <3>2. proc'[rw[j].sock] = "boot" => proc[rw[j].sock] = "boot"
        BY <3>1, <1>2
      <3> QED BY <3>1, <3>2 DEF Channel, AtRest
    <2> QED BY <1>2, <1>s, <2>1, <2>3, <2>4, <2>5, <2>6, <2>f, <2>o
  <1> QED BY <1>1, <1>2 DEF SpawnInto

\* Growth hands out the new worker.
LEMMA GrowKeeps == IInv /\ Grow => IInv'
  <1> SUFFICES ASSUME IInv, Grow PROVE IInv'
    OBVIOUS
  <1> USE PoolAssumption DEF IInv
  <1>p. pc = "reacquire" /\ pc' = IF spawns' > spawns THEN "send" ELSE "starved"
    BY DEF Grow
  <1>u. UNCHANGED <<call, attempt, back, job, toWorker, toParent, runs, leaked>>
    BY DEF Grow
  <1>0. wid' \in Slot /\ SpawnInto(wid', Acquired(NoWorker), proc)
    BY LowestInSet DEF Grow
  <1>a. /\ rw' \in [Slot -> SlotState] /\ spawns' \in 0 .. MaxSpawn
        /\ proc' \in [Pid -> {"none", "boot", "wait", "run", "exited", "reaped"}]
        /\ Wired' /\ Unborn' /\ Jobs' /\ Channels'
        /\ \A j \in Slot : j # wid' => rw'[j] = rw[j]
        /\ IF spawns' > spawns
           THEN rw'[wid'].sock # 0 /\ rw'[wid'].state = Acquired(NoWorker).state
           ELSE rw'[wid'].state = Idle
    <2>1. proc \in [Pid -> {"none", "boot", "wait", "run", "exited", "reaped"}]
      BY DEF Typed
    <2>2. pc # "recv" /\ pc' # "recv"
      BY <1>p
    <2> QED BY <1>u, <1>0, <2>1, <2>2, SpawnKeeps
  <1>b. Acquired(NoWorker).state = Busy
    BY DEF Acquired, NoWorker
  <1>1. Typed'
    <2>1. /\ wid' \in 0 .. Slots + 1
          /\ pc' \in {"idle", "acquire", "reacquire", "starved", "send", "recv",
                      "inline", "sweep", "body", "dead"}
      BY <1>p, <1>0
    <2> QED BY <1>u, <1>a, <2>1, Zenon DEF Typed
  <1>3. Placed' /\ OneBusy'
    BY <1>p, <1>u, <1>0, <1>a, <1>b DEF Placed, OneBusy, InCall
  <1>5. Bounded'
    <2>1. \A c \in Call : Budget(c) <= Budget(c)'
      BY <1>p, <1>u DEF Budget, InCall, Typed
    <2> QED BY <1>u, <1>1, <2>1, BudgetSuffices
  <1> QED BY <1>1, <1>a, <1>3, <1>5

\* A timed-out worker is replaced in its slot, and its socket with it.
LEMMA RecvTimeoutKeeps == IInv /\ RecvTimeout => IInv'
  <1> SUFFICES ASSUME IInv, RecvTimeout PROVE IInv'
    OBVIOUS
  <1> USE PoolAssumption DEF IInv
  <1>p. /\ pc = "recv" /\ attempt' = attempt + 1
        /\ pc' = IF attempt < 2 THEN "acquire" ELSE "inline"
    BY DEF RecvTimeout
  <1>u. UNCHANGED <<call, wid, back, job, toWorker, toParent, runs, leaked>>
    BY DEF RecvTimeout
  <1>0. wid \in Slot /\ SpawnInto(wid, NoWorker, proc) /\ attempt \in 1 .. 2 /\ call > 0
    BY <1>p DEF RecvTimeout, Respawn, Placed, InCall, Typed
  <1>a. /\ rw' \in [Slot -> SlotState] /\ spawns' \in 0 .. MaxSpawn
        /\ proc' \in [Pid -> {"none", "boot", "wait", "run", "exited", "reaped"}]
        /\ Wired' /\ Unborn' /\ Jobs' /\ Channels'
        /\ \A j \in Slot : j # wid => rw'[j] = rw[j]
        /\ IF spawns' > spawns
           THEN rw'[wid].sock # 0 /\ rw'[wid].state = NoWorker.state
           ELSE rw'[wid].state = Idle
    <2>1. proc \in [Pid -> {"none", "boot", "wait", "run", "exited", "reaped"}]
      BY DEF Typed
    <2>2. pc' # "recv"
      BY <1>p
    <2> QED BY <1>u, <1>0, <2>1, <2>2, SpawnKeeps
  <1>b. NoWorker.state = Idle
    BY DEF NoWorker
  <1>1. Typed'
    <2>1. /\ attempt' \in 0 .. 3
          /\ pc' \in {"idle", "acquire", "reacquire", "starved", "send", "recv",
                      "inline", "sweep", "body", "dead"}
      BY <1>p, <1>0
    <2> QED BY <1>u, <1>a, <2>1, Zenon DEF Typed
  <1>3. Placed' /\ OneBusy'
    BY <1>p, <1>u, <1>0, <1>a, <1>b DEF Placed, OneBusy, InCall
  <1>5. Bounded'
    <2>1. \A c \in Call : Budget(c) <= Budget(c)'
      BY <1>p, <1>u, <1>0 DEF Budget, InCall, Typed
    <2> QED BY <1>u, <1>1, <2>1, BudgetSuffices
  <1> QED BY <1>1, <1>a, <1>3, <1>5

\* A sweep replaces the process of a slot or leaves the slot alone.
LEMMA SweepSlotKeeps == IInv /\ SweepSlot => IInv'
  <1> SUFFICES ASSUME IInv, SweepSlot PROVE IInv'
    OBVIOUS
  <1> USE PoolAssumption DEF IInv
  <1>p. /\ pc = "sweep" /\ pc' = "sweep" /\ wid' = wid + 1 /\ wid \in Slot
    BY DEF SweepSlot, Placed
  <1>u. UNCHANGED <<call, attempt, back, job, toWorker, toParent, runs, leaked>>
    BY DEF SweepSlot
  <1>a. /\ rw' \in [Slot -> SlotState] /\ spawns' \in 0 .. MaxSpawn
        /\ proc' \in [Pid -> {"none", "boot", "wait", "run", "exited", "reaped"}]
        /\ Wired' /\ Unborn' /\ Jobs' /\ Channels'
        /\ \A j \in Slot : rw'[j].state = Busy => rw[j].state = Busy
    <2>1. CASE (Dead(wid) \/ Halted(wid))
               /\ SpawnInto(wid, NoWorker, [proc EXCEPT ![rw[wid].pid] = "reaped"])
      <3> DEFINE life == [proc EXCEPT ![rw[wid].pid] = "reaped"]
      <3>1. proc \in [Pid -> {"none", "boot", "wait", "run", "exited", "reaped"}]
        BY DEF Typed
      <3>2. rw[wid].pid \in Pid /\ proc[rw[wid].pid] # "none"
        BY <1>p, <2>1 DEF Dead, Halted, InUse, Live, Typed, SlotState
      <3>3. life \in [Pid -> {"none", "boot", "wait", "run", "exited", "reaped"}]
        BY <3>1, <3>2
      <3>4. \A p \in Pid : life[p] = proc[p] \/ (life[p] = "reaped" /\ proc[p] # "none")
        BY <3>1, <3>2
      <3>5. NoWorker.state = Idle
        BY DEF NoWorker
      <3> HIDE DEF life
      <3>6. pc # "recv" /\ pc' # "recv" /\ SpawnInto(wid, NoWorker, life)
        BY <1>p, <2>1 DEF life
      <3>7. /\ rw' \in [Slot -> SlotState] /\ spawns' \in 0 .. MaxSpawn
            /\ proc' \in [Pid -> {"none", "boot", "wait", "run", "exited", "reaped"}]
            /\ Wired' /\ Unborn' /\ Jobs' /\ Channels'
            /\ \A j \in Slot : j # wid => rw'[j] = rw[j]
            /\ IF spawns' > spawns
               THEN rw'[wid].sock # 0 /\ rw'[wid].state = NoWorker.state
               ELSE rw'[wid].state = Idle
        BY <1>p, <1>u, <3>3, <3>4, <3>6, SpawnKeeps
      <3> QED BY <3>5, <3>7
    <2>2. CASE UNCHANGED <<rw, spawns, proc>>
      <3>1. Wired' /\ Unborn' /\ Jobs' /\ Channels'
        BY <1>p, <1>u, <2>2, WorkersUndisturbed
      <3> QED BY <2>2, <3>1 DEF Typed
    <2> QED BY <2>1, <2>2 DEF SweepSlot, Respawn
  <1>1. Typed'
    <2>1. wid' \in 0 .. Slots + 1 /\ pc' \in {"idle", "acquire", "reacquire", "starved",
                                     "send", "recv", "inline", "sweep", "body", "dead"}
      BY <1>p
    <2> QED BY <1>u, <1>a, <2>1, Zenon DEF Typed
  <1>3. Placed' /\ OneBusy'
    BY <1>p, <1>u, <1>a DEF Placed, OneBusy, InCall
  <1>5. Bounded'
    <2>1. \A c \in Call : Budget(c) <= Budget(c)'
      BY <1>p, <1>u DEF Budget, InCall, Typed
    <2> QED BY <1>u, <1>1, <2>1, BudgetSuffices
  <1> QED BY <1>1, <1>a, <1>3, <1>5

\* An injected stall marks slots and stops processes.
LEMMA StopSlotsKeeps ==
    ASSUME IInv, NEW S, StopSlots(S)
    PROVE  IInv'
  <1> USE PoolAssumption DEF IInv
  <1>p. pc = "idle" /\ pc' = "idle"
    BY DEF StopSlots
  <1>u. UNCHANGED <<spawns, call, attempt, wid, back, proc, job, toWorker, toParent, runs, leaked>>
    BY DEF StopSlots
  <1>a. \A i \in Slot :
           /\ rw'[i] \in SlotState
           /\ rw'[i].pid = rw[i].pid /\ rw'[i].sock = rw[i].sock
           /\ rw'[i].ready = rw[i].ready
           /\ rw'[i].state \in {rw[i].state, Stalled}
    <2> SUFFICES ASSUME NEW i \in Slot
                 PROVE  /\ rw'[i] \in SlotState
                        /\ rw'[i].pid = rw[i].pid /\ rw'[i].sock = rw[i].sock
                        /\ rw'[i].ready = rw[i].ready
                        /\ rw'[i].state \in {rw[i].state, Stalled}
      OBVIOUS
    <2>1. rw[i] \in SlotState
      BY DEF Typed
    <2>2. rw'[i] = IF i \in S THEN [rw[i] EXCEPT !.state = Stalled] ELSE rw[i]
      BY DEF StopSlots
    <2> QED BY <2>1, <2>2 DEF SlotState
  <1>1. Typed'
    <2>1. rw' \in [Slot -> SlotState]
      BY <1>a DEF StopSlots
    <2> QED BY <1>p, <1>u, <2>1, Zenon DEF Typed
  <1>w. Wired'
    BY <1>u, <1>a DEF Wired
  <1>2. Wired' /\ Unborn' /\ Jobs'
    BY <1>u, <1>w DEF Unborn, Jobs
  <1>3. Placed' /\ OneBusy'
    BY <1>p, <1>u, <1>a DEF Placed, OneBusy, InCall
  <1>4. Channels'
    <2> SUFFICES ASSUME NEW j \in Slot PROVE Channel(j)'
      BY DEF Channels
    <2>1. Channel(j)
      BY DEF Channels
    <2> QED BY <1>p, <1>u, <1>a, <2>1 DEF Channel, AtRest
  <1>5. Bounded'
    <2>1. \A c \in Call : Budget(c) <= Budget(c)'
      BY <1>p, <1>u DEF Budget, InCall, Typed
    <2> QED BY <1>u, <1>1, <2>1, BudgetSuffices
  <1> QED BY <1>1, <1>2, <1>3, <1>4, <1>5

\* A worker's step leaves the parent where it is, and disturbs the slot of
\* its own socket only.
LEMMA WorkerStep ==
    ASSUME IInv, NEW p \in Pid, UNCHANGED parent, p <= spawns, Typed', Jobs', Bounded',
           \A q \in Pid : q # p => /\ proc'[q] = proc[q] /\ job'[q] = job[q]
                                   /\ toWorker'[q] = toWorker[q]
                                   /\ toParent'[q] = toParent[q],
           \A c \in Call : runs'[c] >= runs[c],
           \A i \in Slot : rw[i].sock = p => Channel(i)'
    PROVE  IInv'
  <1> USE PoolAssumption DEF IInv, parent
  <1>1. Wired'
    BY DEF Wired
  <1>2. Unborn'
    <2> SUFFICES ASSUME NEW q \in Pid, q > spawns
                 PROVE  /\ proc'[q] = "none" /\ toWorker'[q] = <<>>
                        /\ toParent'[q] = <<>> /\ job'[q] = 0
      BY DEF Unborn
    <2>1. q # p
      BY DEF Typed
    <2> QED BY <2>1 DEF Unborn
  <1>3. Placed' /\ OneBusy'
    BY DEF Placed, OneBusy, InCall
  <1>4. Channels'
    <2> SUFFICES ASSUME NEW i \in Slot, rw[i].sock # 0, rw[i].sock # p PROVE Channel(i)'
      BY DEF Channels, Channel
    <2>1. Channel(i) /\ rw[i].sock \in Pid
      <3>1. rw[i].sock \in 0 .. MaxSpawn
        BY DEF Typed, SlotState
      <3> QED BY <3>1 DEF Channels
    <2>2. ASSUME pc = "recv", i = wid PROVE InFlight(rw[i].sock)'
      <3>1. call \in Call /\ runs'[call] >= runs[call]
            /\ runs[call] \in Nat /\ runs'[call] \in Nat
        BY <2>2 DEF Placed, InCall, Typed
      <3>2. InFlight(rw[i].sock)
        BY <2>1, <2>2 DEF Channel
      <3> QED BY <2>1, <3>1, <3>2 DEF InFlight
    <2> QED BY <2>1, <2>2 DEF Channel, AtRest
  <1> QED BY <1>1, <1>2, <1>3, <1>4

LEMMA SlotOf ==
    ASSUME IInv, NEW i \in Slot, rw[i].sock \in Pid
    PROVE  /\ Channel(i) /\ rw[i].sock # 0
           /\ pc = "recv" /\ i = wid => InFlight(rw[i].sock) /\ call \in Call
           /\ ~(pc = "recv" /\ i = wid) => AtRest(rw[i].sock)
  <1> USE PoolAssumption DEF IInv
  <1>1. Channel(i) /\ rw[i].sock # 0
    BY DEF Channels
  <1>2. pc = "recv" => call \in Call
    BY DEF Placed, InCall, Typed
  <1> QED BY <1>1, <1>2 DEF Channel

LEMMA Replied ==
    ASSUME Typed, NEW p \in Pid, NEW msg \in Call \cup {Ready}, Reply(p, msg)
    PROVE  /\ \A q \in Pid : q # p => toParent'[q] = toParent[q]
           /\ toParent'[p] \in {toParent[p], Append(toParent[p], msg)}
           /\ toParent' \in [Pid -> Seq(Call \cup {Ready})]
  <1>1. Append(toParent[p], msg) \in Seq(Call \cup {Ready})
    BY AppendProperties DEF Typed
  <1>2. CASE PeerOpen(p)
    <2>1. toParent' = [toParent EXCEPT ![p] = Append(toParent[p], msg)]
      BY <1>2 DEF Reply
    <2> QED BY <1>1, <2>1 DEF Typed
  <1>3. CASE ~PeerOpen(p)
    <2>1. toParent' = toParent
      BY <1>3 DEF Reply
    <2> QED BY <2>1 DEF Typed
  <1> QED BY <1>2, <1>3

LEMMA BootKeeps ==
    ASSUME IInv, NEW p \in Pid, Boot(p)
    PROVE  IInv'
  <1> USE PoolAssumption DEF IInv
  <1>u. UNCHANGED <<parent, job, toWorker, runs>>
    BY DEF Boot
  <1>0. proc[p] = "boot" /\ proc' = [proc EXCEPT ![p] = "wait"]
    BY DEF Boot, Reply
  <1>s. p <= spawns
    BY <1>0 DEF Unborn, Typed
  <1>t. /\ \A q \in Pid : q # p => toParent'[q] = toParent[q]
        /\ toParent'[p] \in {toParent[p], Append(toParent[p], Ready)}
        /\ toParent' \in [Pid -> Seq(Call \cup {Ready})]
    BY Replied DEF Boot
  <1>a. proc'[p] = "wait"
    BY <1>0 DEF Typed
  <1>1. Typed'
    <2>1. proc' \in [Pid -> {"none", "boot", "wait", "run", "exited", "reaped"}]
      BY <1>0 DEF Typed
    <2> QED BY <1>u, <1>t, <2>1, Zenon DEF Typed, parent
  <1>2. Jobs'
    BY <1>u, <1>0 DEF Jobs, Typed
  <1>3. Bounded'
    <2>1. \A c \in Call : Budget(c) <= Budget(c)'
      BY <1>u DEF Budget, InCall, Typed, parent
    <2> QED BY <1>u, <1>1, <2>1, BudgetSuffices
  <1>4. ASSUME NEW i \in Slot, rw[i].sock = p PROVE Channel(i)'
    <2>1. toParent[p] = <<>> /\ ~rw[i].ready
      BY <1>0, <1>4, SlotOf DEF Channel
    <2>2. toParent'[p] \in {<<>>, Hello}
      BY <1>t, <2>1, Mail
    <2>3. CASE pc = "recv" /\ i = wid
      <3>1. InFlight(p) /\ call \in Call
        BY <1>4, <2>3, SlotOf
      <3>2. InFlight(p)'
        BY <1>u, <2>1, <2>2, <3>1, Mail DEF InFlight, parent
      <3> QED BY <1>u, <1>a, <1>4, <2>1, <2>3, <3>2 DEF Channel, parent
    <2>4. CASE ~(pc = "recv" /\ i = wid)
      <3>1. AtRest(p)
        BY <1>4, <2>4, SlotOf
      <3>2. AtRest(p)'
        BY <1>u, <2>2, <3>1 DEF AtRest
      <3> QED BY <1>u, <1>a, <1>4, <2>1, <2>4, <3>2 DEF Channel, parent
    <2> QED BY <2>3, <2>4
  <1>5. /\ \A q \in Pid : q # p => /\ proc'[q] = proc[q] /\ job'[q] = job[q]
                                   /\ toWorker'[q] = toWorker[q]
                                   /\ toParent'[q] = toParent[q]
        /\ \A c \in Call : runs'[c] >= runs[c]
    BY <1>u, <1>0, <1>t DEF Typed
  <1> QED BY <1>u, <1>s, <1>1, <1>2, <1>3, <1>4, <1>5, WorkerStep

\* The worker that answers is the one the call waits for, or one that no slot
\* owns any more.
LEMMA FinishKeeps ==
    ASSUME IInv, NEW p \in Pid, Finish(p)
    PROVE  IInv'
  <1> USE PoolAssumption DEF IInv
  <1>u. UNCHANGED <<parent, toWorker, runs>>
    BY DEF Finish
  <1>0. /\ proc[p] = "run" /\ proc' = [proc EXCEPT ![p] = "wait"]
        /\ job' = [job EXCEPT ![p] = 0]
    BY DEF Finish, Reply
  <1>j. job[p] # 0 /\ job[p] \in 0 .. MaxCalls
    BY <1>0 DEF Jobs, Typed
  <1>s. p <= spawns
    BY <1>0 DEF Unborn, Typed
  <1>t. /\ \A q \in Pid : q # p => toParent'[q] = toParent[q]
        /\ toParent'[p] \in {toParent[p], Append(toParent[p], job[p])}
        /\ toParent' \in [Pid -> Seq(Call \cup {Ready})]
    <2>1. job[p] \in Call \cup {Ready}
      BY <1>j
    <2> QED BY <2>1, Replied DEF Finish
  <1>1. Typed'
    <2>1. /\ proc' \in [Pid -> {"none", "boot", "wait", "run", "exited", "reaped"}]
          /\ job' \in [Pid -> 0 .. MaxCalls]
      BY <1>0 DEF Typed
    <2> QED BY <1>u, <1>t, <2>1, Zenon DEF Typed, parent
  <1>2. Jobs'
    BY <1>u, <1>0 DEF Jobs, Typed
  <1>3. Bounded'
    <2>1. \A c \in Call : Budget(c) <= Budget(c)'
      BY <1>u DEF Budget, InCall, Typed, parent
    <2> QED BY <1>u, <1>1, <2>1, BudgetSuffices
  <1>4. ASSUME NEW i \in Slot, rw[i].sock = p PROVE Channel(i)'
    <2>1. pc = "recv" /\ i = wid
      BY <1>j, <1>4, SlotOf DEF AtRest
    <2>2. InFlight(p) /\ call \in Call /\ Channel(i)
      BY <1>4, <2>1, SlotOf
    <2>3. /\ job[p] = call /\ toWorker[p] = <<>> /\ runs[call] > 0
          /\ toParent[p] \in {<<>>, Hello}
      BY <1>j, <2>2 DEF InFlight
    <2>4. /\ toParent'[p] \in {<<>>, Hello, Just(call), HelloThen(call)}
          /\ toParent[p] # Hello => toParent'[p] \notin {Hello, HelloThen(call)}
      <3>1. /\ <<>> # Hello /\ <<>> # HelloThen(call) /\ Append(<<>>, call) = Just(call)
            /\ Just(call) # Hello /\ Just(call) # HelloThen(call)
            /\ Append(Hello, call) = HelloThen(call)
        BY <2>2, Mail
      <3>2. toParent'[p] \in {toParent[p], Append(toParent[p], call)}
        BY <1>t, <2>3
      <3>3. CASE toParent[p] = <<>>
        BY <3>1, <3>2, <3>3
      <3>4. CASE toParent[p] = Hello
        BY <3>1, <3>2, <3>4
      <3> QED BY <2>3, <3>3, <3>4
    <2>5. job'[p] = 0 /\ proc'[p] = "wait"
      BY <1>0 DEF Typed
    <2>6. InFlight(p)'
      BY <1>u, <2>3, <2>4, <2>5 DEF InFlight, parent
    <2>7. rw[i].ready => toParent[p] # Hello
      BY <1>4, <2>2 DEF Channel
    <2> QED BY <1>u, <1>4, <2>1, <2>4, <2>5, <2>6, <2>7 DEF Channel, parent
  <1>5. /\ \A q \in Pid : q # p => /\ proc'[q] = proc[q] /\ job'[q] = job[q]
                                   /\ toWorker'[q] = toWorker[q]
                                   /\ toParent'[q] = toParent[q]
        /\ \A c \in Call : runs'[c] >= runs[c]
    BY <1>u, <1>0, <1>t DEF Typed
  <1> QED BY <1>u, <1>s, <1>1, <1>2, <1>3, <1>4, <1>5, WorkerStep

\* A worker that exits takes its job with it.
LEMMA ExitKeeps ==
    ASSUME IInv, NEW p \in Pid, Dies(p) \/ WorkerEof(p)
    PROVE  IInv'
  <1> USE PoolAssumption DEF IInv
  <1>u. UNCHANGED <<parent, toWorker, toParent, runs>>
    BY DEF Dies, WorkerEof
  <1>0. /\ proc[p] # "none" /\ proc' = [proc EXCEPT ![p] = "exited"]
        /\ job' = job \/ job' = [job EXCEPT ![p] = 0]
    BY DEF Dies, WorkerEof
  <1>j. /\ job' \in [Pid -> 0 .. MaxCalls] /\ job'[p] \in {job[p], 0}
        /\ \A q \in Pid : q # p => job'[q] = job[q]
    <2>1. CASE job' = job
      BY <2>1 DEF Typed
    <2>2. CASE job' = [job EXCEPT ![p] = 0]
      BY <2>2 DEF Typed
    <2> QED BY <1>0, <2>1, <2>2
  <1>s. p <= spawns
    BY <1>0 DEF Unborn, Typed
  <1>1. Typed'
    <2>1. proc' \in [Pid -> {"none", "boot", "wait", "run", "exited", "reaped"}]
      BY <1>0 DEF Typed
    <2>2. job' \in [Pid -> 0 .. MaxCalls]
      BY <1>j
    <2> QED BY <1>u, <2>1, <2>2, Zenon DEF Typed, parent
  <1>a. proc'[p] = "exited" /\ job'[p] \in {job[p], 0}
    BY <1>0, <1>j DEF Typed
  <1>5. /\ \A q \in Pid : q # p => /\ proc'[q] = proc[q] /\ job'[q] = job[q]
                                   /\ toWorker'[q] = toWorker[q]
                                   /\ toParent'[q] = toParent[q]
        /\ \A c \in Call : runs'[c] >= runs[c]
    BY <1>u, <1>0, <1>j DEF Typed
  <1>2. Jobs'
    BY <1>u, <1>a, <1>5 DEF Jobs
  <1>3. Bounded'
    <2>1. \A c \in Call : Budget(c) <= Budget(c)'
      BY <1>u DEF Budget, InCall, Typed, parent
    <2> QED BY <1>u, <1>1, <2>1, BudgetSuffices
  <1>4. ASSUME NEW i \in Slot, rw[i].sock = p PROVE Channel(i)'
    <2>1. CASE pc = "recv" /\ i = wid
      <3>1. InFlight(p) /\ Channel(i)
        BY <1>4, <2>1, SlotOf
      <3>2. InFlight(p)'
        BY <1>u, <1>a, <3>1 DEF InFlight, parent
      <3> QED BY <1>u, <1>a, <1>4, <2>1, <3>1, <3>2 DEF Channel, parent
    <2>2. CASE ~(pc = "recv" /\ i = wid)
      <3>1. AtRest(p) /\ Channel(i)
        BY <1>4, <2>2, SlotOf
      <3>2. AtRest(p)'
        BY <1>u, <1>a, <3>1 DEF AtRest
      <3> QED BY <1>u, <1>a, <1>4, <2>2, <3>1, <3>2 DEF Channel, parent
    <2> QED BY <2>1, <2>2
  <1> QED BY <1>u, <1>s, <1>1, <1>2, <1>3, <1>4, <1>5, WorkerStep

\* A worker takes the one job its socket carries.
LEMMA TakeJobKeeps ==
    ASSUME IInv, NEW p \in Pid, TakeJob(p)
    PROVE  IInv'
  <1> USE PoolAssumption DEF IInv
  <1>u. UNCHANGED <<parent, toParent>>
    BY DEF TakeJob
  <1>0. PICK c \in Call : toWorker[p] = Just(c)
    BY DEF TakeJob, Jobs
  <1>h. Head(toWorker[p]) = c /\ Tail(toWorker[p]) = <<>>
    BY <1>0, Mail
  <1>a. /\ proc[p] = "wait" /\ proc' = [proc EXCEPT ![p] = "run"]
        /\ job' = [job EXCEPT ![p] = c] /\ runs' = [runs EXCEPT ![c] = runs[c] + 1]
        /\ toWorker' = [toWorker EXCEPT ![p] = <<>>]
    BY <1>h DEF TakeJob
  <1>s. p <= spawns
    BY <1>a DEF Unborn, Typed
  <1>1. Typed'
    <2>1. /\ proc' \in [Pid -> {"none", "boot", "wait", "run", "exited", "reaped"}]
          /\ job' \in [Pid -> 0 .. MaxCalls]
          /\ runs' \in [Call -> Nat]
      BY <1>a DEF Typed
    <2>2. toWorker' \in [Pid -> Seq(Call)]
      <3>1. <<>> \in Seq(Call)
        OBVIOUS
      <3> QED BY <1>a, <3>1 DEF Typed
    <2> QED BY <1>u, <2>1, <2>2, Zenon DEF Typed, parent
  <1>b. /\ proc'[p] = "run" /\ job'[p] = c /\ toWorker'[p] = <<>>
        /\ \A d \in Call : runs'[d] = IF d = c THEN runs[d] + 1 ELSE runs[d]
    BY <1>a DEF Typed
  <1>5. /\ \A q \in Pid : q # p => /\ proc'[q] = proc[q] /\ job'[q] = job[q]
                                   /\ toWorker'[q] = toWorker[q]
                                   /\ toParent'[q] = toParent[q]
        /\ \A d \in Call : runs'[d] >= runs[d]
    BY <1>u, <1>a, <1>b DEF Typed
  <1>2. Jobs'
    BY <1>b, <1>5 DEF Jobs
  <1>3. Bounded'
    <2> SUFFICES ASSUME NEW d \in Call
                 PROVE  (runs[d] + Cardinality(Pending(d)) <= Budget(d))'
      BY DEF Bounded
    <2>1. runs[d] + Cardinality(Pending(d)) <= Budget(d) /\ runs[d] \in Nat
      BY DEF Bounded, Typed
    <2>2. IsFiniteSet(Pending(d)) /\ Cardinality(Pending(d)) \in Nat
      BY PidsFinite DEF Pending
    <2>3. Budget(d)' = Budget(d) /\ Budget(d) \in Int
      BY <1>u DEF Budget, InCall, parent, Typed
    <2>4. toWorker'[p] # Just(d)
      BY <1>b, Mail
    <2>5. CASE d = c
      <3>1. p \in Pending(d) /\ Pending(d)' = Pending(d) \ {p}
        BY <1>0, <1>5, <2>4, <2>5 DEF Pending
      <3>2. Cardinality(Pending(d)') = Cardinality(Pending(d)) - 1
        BY <2>2, <3>1, FS_RemoveElement
      <3> QED BY <1>b, <2>1, <2>2, <2>3, <2>5, <3>2
    <2>6. CASE d # c
      <3>1. toWorker[p] # Just(d)
        BY <1>0, <2>6, Mail
      <3>2. Pending(d)' = Pending(d)
        BY <1>5, <2>4, <3>1 DEF Pending
      <3> QED BY <1>b, <2>1, <2>2, <2>3, <2>6, <3>2
    <2> QED BY <2>5, <2>6
  <1>4. ASSUME NEW i \in Slot, rw[i].sock = p PROVE Channel(i)'
    <2>0. Just(c) # <<>>
      BY Mail
    <2>1. pc = "recv" /\ i = wid
      BY <1>0, <1>4, <2>0, SlotOf DEF AtRest
    <2>2. InFlight(p) /\ call \in Call /\ Channel(i)
      BY <1>4, <2>1, SlotOf
    <2>3. c = call /\ toParent[p] \in {<<>>, Hello}
      BY <1>0, <2>0, <2>2, Mail DEF InFlight
    <2>r. runs[c] \in Nat /\ runs'[c] = runs[c] + 1
      BY <1>b DEF Typed
    <2>a. runs'[call] > 0 /\ call' = call /\ toParent' = toParent
      BY <1>u, <2>r, <2>3 DEF parent
    <2>4. InFlight(p)'
      BY <1>b, <2>a, <2>3 DEF InFlight
    <2> QED BY <1>u, <1>b, <1>4, <2>1, <2>2, <2>4 DEF Channel, parent
  <1> QED BY <1>u, <1>s, <1>1, <1>2, <1>3, <1>4, <1>5, WorkerStep

LEMMA NextKeeps == IInv /\ [Next]_vars => IInv'
  <1>1. ASSUME IInv, UNCHANGED vars PROVE IInv'
    <2>1. Typed' /\ Wired' /\ Unborn' /\ Placed' /\ OneBusy' /\ Channels' /\ Jobs'
      BY <1>1 DEF vars, IInv, Typed, Wired, Unborn, Placed, OneBusy, InCall, Channels,
                  Channel, InFlight, AtRest, Jobs
    <2>2. Bounded'
      BY <1>1 DEF vars, IInv, Bounded, Pending, Budget, InCall
    <2> QED BY <2>1, <2>2 DEF IInv
  <1>2. ASSUME IInv, Parent PROVE IInv'
    BY <1>2, BeginCallKeeps, AcquireReadyKeeps, DrainReadiesKeeps, GrowKeeps, StarvedKeeps,
       PipeFailsKeeps, SendKeeps, RecvReadyKeeps, RecvResultKeeps, RecvTimeoutKeeps,
       InlineKeeps, HeartbeatKeeps, SweepSlotKeeps, SweepDoneKeeps
       DEF Parent
  <1>3. ASSUME IInv, Stall \/ Starve PROVE IInv'
    BY <1>3, StopSlotsKeeps DEF Stall, Starve
  <1>4. ASSUME IInv, NEW p \in Pid, Worker(p) PROVE IInv'
    BY <1>4, BootKeeps, TakeJobKeeps, FinishKeeps, ExitKeeps DEF Worker
  <1>5. ASSUME IInv, InlineBody PROVE IInv'
    BY <1>5, RunInlineKeeps, CrashInlineKeeps DEF InlineBody
  <1> QED BY <1>1, <1>2, <1>3, <1>4, <1>5 DEF Next

\* The inductive invariant: slots, sockets, jobs and bodies are accounted for
\* in every state (plant_safe_call, plant_rw_* and the worker loop together).
THEOREM Invariance == Spec => []IInv
  <1>1. Init => IInv
    BY InitHolds
  <1>2. IInv /\ [Next]_vars => IInv'
    BY NextKeeps
  <1> QED BY <1>1, <1>2, PTL DEF Spec

\* The slots of g_rw, the processes and the caller's locals stay in their domains.
THEOREM TypeCorrect == Spec => []TypeOK
  <1>1. IInv => TypeOK
    BY DEF IInv, Typed, TypeOK, SlotState
  <1> QED BY <1>1, Invariance, PTL

\* A worker that plant_rw_acquire may hand out has no job and no stale result:
\* a timed-out worker never returns to the pool with its answer outstanding.
THEOREM ReadyWorkersAreQuiet == Spec => []ReadyIdleIsQuiet
  <1>1. IInv => ReadyIdleIsQuiet
    <2> SUFFICES ASSUME IInv, NEW i \in ReadyIdle(rw)
                 PROVE  LET p == rw[i].sock
                        IN p # 0 /\ toWorker[p] = <<>> /\ toParent[p] = <<>> /\ job[p] = 0
      BY DEF ReadyIdleIsQuiet
    <2> USE DEF IInv
    <2>1. i \in Slot /\ rw[i].ready /\ rw[i].state = Idle
      BY DEF ReadyIdle
    <2>2. rw[i].sock # 0 /\ ~(pc = "recv" /\ i = wid)
      BY <2>1 DEF Wired, Placed
    <2>3. AtRest(rw[i].sock) /\ Channel(i)
      BY <2>1, <2>2 DEF Channels, Channel
    <2>4. toParent[rw[i].sock] # Hello
      BY <2>1, <2>2, <2>3 DEF Channel
    <2> QED BY <2>2, <2>3, <2>4 DEF AtRest
  <1> QED BY <1>1, Invariance, PTL

\* Whatever fails, every path of plant_safe_call releases or replaces the worker
\* it acquired, but the path of a failed pipe().
THEOREM NoWorkerLeaks == Spec => []NoneBusyBetweenCalls
  <1>1. IInv => NoneBusyBetweenCalls
    BY DEF IInv, OneBusy, NoneBusyBetweenCalls
  <1> QED BY <1>1, Invariance, PTL

\* The states of plant_safe_call as SafeCall sees them.
LEMMA PromiseInit == Init => Promise!CallInit
  BY DEF Init, Promise!CallInit

\* Every step of the pool is a step of SafeCall or leaves the caller's view alone.
LEMMA PromiseStep == IInv /\ IInv' /\ [Next]_vars => [Promise!CallNext]_(Promise!cvars)
  <1> SUFFICES ASSUME IInv, IInv', [Next]_vars
               PROVE  Promise!CallNext \/ UNCHANGED <<InCall, call, runs, ret>>
    BY DEF Promise!cvars, InCall
  <1> USE PoolAssumption DEF IInv
  <1>b. \A c \in Call : /\ runs[c] \in Nat /\ runs'[c] \in Nat /\ runs'[c] <= 3
                        /\ runs[c] > 0 => c <= call
                        /\ runs[c] <= Budget(c)
    <2> SUFFICES ASSUME NEW c \in Call
                 PROVE  /\ runs[c] \in Nat /\ runs'[c] \in Nat /\ runs'[c] <= 3
                        /\ runs[c] > 0 => c <= call
                        /\ runs[c] <= Budget(c)
      OBVIOUS
    <2>1. runs[c] \in Nat /\ runs'[c] \in Nat
      BY DEF Typed
    <2>2. Cardinality(Pending(c)) \in Nat /\ Cardinality(Pending(c)') \in Nat
      BY PidsFinite DEF Pending
    <2>3. Budget(c) \in 0 .. 3 \/ Budget(c) = attempt - 1
      BY DEF Budget, Typed, Placed
    <2>4. Budget(c)' <= 3 /\ Budget(c)' \in Int
      <3>1. attempt' \in 0 .. 3
        BY DEF Typed
      <3>2. Budget(c)' \in {3, 0, attempt', attempt' - 1}
        BY Zenon DEF Budget
      <3> QED BY <3>1, <3>2
    <2>5. runs[c] + Cardinality(Pending(c)) <= Budget(c)
      BY DEF Bounded
    <2>6. (runs[c] + Cardinality(Pending(c)) <= Budget(c))'
      BY DEF Bounded
    <2>7. attempt \in Int /\ call \in Int /\ (c > call => Budget(c) = 0)
      BY DEF Budget, Typed
    <2> HIDE DEF IInv
    <2> QED BY <2>1, <2>2, <2>3, <2>4, <2>5, <2>6, <2>7
  <1>1. CASE BeginCall
    <2>1. ~InCall /\ InCall' /\ call' = call + 1 /\ UNCHANGED <<runs, ret>>
      BY <1>1 DEF BeginCall, InCall
    <2>2. Promise!BeginCall
      BY <2>1 DEF Promise!BeginCall, InCall
    <2> QED BY <2>2 DEF Promise!CallNext
  <1>2. CASE RecvResult
    <2>1. InCall /\ ~InCall' /\ UNCHANGED <<call, runs>>
      BY <1>2 DEF RecvResult, InCall
    <2>2. runs[call] > 0 /\ ret' = call
      <3>1. /\ wid \in Slot /\ rw[wid].sock # 0 /\ toParent[rw[wid].sock] = Just(call)
            /\ call \in Call /\ ret' = call
        BY <1>2, AnswerIsOwn
      <3>2. Channel(wid) /\ pc = "recv"
        BY <1>2, <3>1 DEF Channels, RecvResult
      <3>3. InFlight(rw[wid].sock)
        BY <3>1, <3>2 DEF Channel
      <3> QED BY <3>1, <3>3, Mail DEF InFlight
    <2>3. Promise!Return
      BY <2>1, <2>2 DEF Promise!Return, InCall
    <2> QED BY <2>3 DEF Promise!CallNext
  <1>3. CASE RunInline
    <2>1. /\ InCall /\ ~InCall' /\ UNCHANGED call /\ call \in Call /\ ret' = call
          /\ runs' = [runs EXCEPT ![call] = @ + 1]
      BY <1>3 DEF RunInline, InCall, Placed, Typed
    <2>2. runs[call] < 3
      <3>1. runs'[call] = runs[call] + 1
        BY <2>1 DEF Typed
      <3> QED BY <1>b, <2>1, <3>1
    <2>3. Promise!RunBody(call)
      BY <2>1, <2>2 DEF Promise!RunBody, Typed
    <2>4. Promise!Return
      BY <2>1, <2>3 DEF Promise!Return, InCall
    <2> QED BY <2>4 DEF Promise!CallNext
  <1>4. ASSUME NEW p \in Pid, TakeJob(p)
        PROVE  Promise!CallNext
    <2>1. PICK c \in Call : toWorker[p] = Just(c)
      BY <1>4 DEF TakeJob, Jobs
    <2>2. /\ UNCHANGED <<InCall, call, ret>> /\ runs' = [runs EXCEPT ![c] = @ + 1]
      <3>1. Head(toWorker[p]) = c
        BY <2>1, Mail
      <3> QED BY <1>4, <3>1 DEF TakeJob, InCall, parent
    <2>3. runs[c] < 3 /\ c <= call
      <3>1. runs'[c] = runs[c] + 1
        BY <2>2 DEF Typed
      <3>2. runs'[c] <= 3 /\ runs[c] \in Nat
        BY <1>b
      <3>3. runs'[c] > 0 => c <= call'
        <4>1. runs'[c] + Cardinality(Pending(c)') <= Budget(c)'
          BY DEF Bounded
        <4>2. Cardinality(Pending(c)') \in Nat /\ call' \in Nat
          BY PidsFinite DEF Pending, Typed
        <4> QED BY <3>1, <3>2, <4>1, <4>2 DEF Budget
      <3> QED BY <2>2, <3>1, <3>2, <3>3
    <2>4. Promise!RunRemote(c)
      BY <2>2, <2>3 DEF Promise!RunRemote, Promise!RunBody, InCall
    <2> QED BY <2>4 DEF Promise!CallNext
  <1>8. CASE CrashInline
    <2>1. /\ UNCHANGED <<InCall, call, ret>> /\ call \in Call
          /\ runs' = [runs EXCEPT ![call] = @ + 1]
      BY <1>8 DEF CrashInline, InCall, Placed, Typed
    <2>2. runs'[call] = runs[call] + 1
      BY <2>1 DEF Typed
    <2>3. runs[call] < 3 /\ call <= call
      BY <1>b, <2>1, <2>2 DEF Typed
    <2>4. Promise!RunRemote(call)
      BY <2>1, <2>3 DEF Promise!RunRemote, Promise!RunBody, InCall
    <2> QED BY <2>1, <2>4 DEF Promise!CallNext
  <1>5. ASSUME AcquireReady \/ DrainReadies \/ Reacquire \/ Grow \/ Starved \/ PipeFails
               \/ Send \/ RecvReady \/ RecvTimeout \/ Inline \/ Heartbeat \/ SweepSlot
               \/ SweepDone \/ Stall \/ Starve
        PROVE  UNCHANGED <<InCall, call, runs, ret>>
    BY <1>5 DEF AcquireReady, DrainReadies, Reacquire, Grow, Starved, PipeFails, Send,
       RecvReady, RecvTimeout, Inline, Heartbeat, SweepSlot, SweepDone, Stall, Starve,
       StopSlots, InCall
  <1>6. ASSUME NEW p \in Pid, Boot(p) \/ Finish(p) \/ Dies(p) \/ WorkerEof(p)
        PROVE  UNCHANGED <<InCall, call, runs, ret>>
    BY <1>6 DEF Boot, Finish, Dies, WorkerEof, parent, InCall
  <1>7. CASE UNCHANGED vars
    BY <1>7 DEF vars, InCall
  <1> QED BY <1>1, <1>2, <1>3, <1>4, <1>5, <1>6, <1>7, <1>8 DEF Next, Parent, InlineBody, Worker

\* The pool implements SafeCall: each call returns the result of its own body,
\* which ran, and no body runs more than three times.
THEOREM PoolKeepsPromise == Spec => KeepsPromise
  <1>1. Init => Promise!CallInit
    BY PromiseInit
  <1>2. IInv /\ IInv' /\ [Next]_vars => [Promise!CallNext]_(Promise!cvars)
    BY PromiseStep
  <1> QED BY <1>1, <1>2, Invariance, PTL DEF Spec, KeepsPromise, Promise!CallSpec
=================================================================
