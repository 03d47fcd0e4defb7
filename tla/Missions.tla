------------------------------ MODULE Missions ------------------------------
(***************************************************************************)
(* Mission modes of runtime/c/plant_runtime.c: the mode stack and the      *)
(* boundary handshake, the mission flags and grants that answer capability *)
(* checks, the in-process worker pool a SAFE action runs on when it is not *)
(* sent to a worker process, and the vector pool of SMART actions.         *)
(*                                                                         *)
(* open is the truth the code does not keep: the mission actions that are  *)
(* running. B is a BALANCED action, which leaves no trace in the runtime.  *)
(***************************************************************************)
EXTENDS Integers, Sequences, FiniteSets, SequencesExt, FiniteSetsExt

CONSTANTS
    StackMax,    \* PLANT_MODE_STACK_MAX
    PoolCap,     \* g_pool_cap: workers spawned at first use
    PoolMax,     \* g_pool_max: workers at most
    Heartbeat,   \* g_safe_cfg_heartbeat_ms
    Response,    \* g_safe_cfg_response_ms
    VecCap,      \* g_vec_cap
    VecMax,      \* g_vec_max
    Chunks,      \* chunks SMART datasets are cut into, 0 for a scalar one
    AnyNesting,  \* FALSE: a program nests P, M and S in this order only
    MaxDepth,    \* bound: actions open at a time
    MaxTime      \* bound: milliseconds in one behaviour

Modes == {"F", "S", "M", "P"}

ASSUME MissionsAssumption ==
    /\ StackMax \in Nat \ {0} /\ MaxDepth \in Nat /\ MaxTime \in Nat
    /\ PoolCap \in Nat \ {0} /\ PoolMax \in Nat /\ PoolCap <= PoolMax
    /\ Heartbeat \in Nat /\ Response \in Nat
    /\ VecCap \in Nat \ {0} /\ VecMax \in Nat /\ VecCap <= VecMax
    /\ Chunks \subseteq Nat /\ AnyNesting \in BOOLEAN

VARIABLES
    modes,     \* g_mode_stack up to g_mode_depth
    active,    \* g_safe_active, g_smart_active, g_persist_active
    mask,      \* g_safe_cap_mask, g_smart_cap_mask, g_persist_cap_mask
    pool,      \* g_pool up to g_pool_count
    current,   \* g_safe_current, 0 for none
    starving,  \* g_pending_wait_ms past the starvation threshold
    vec,       \* g_vec: the workers and those in state 1
    now,       \* plant_ms
    open,      \* history: mission actions running, outermost first
    leaked,    \* history: channels nothing points to
    answer     \* history: the last capability check

vars == <<modes, active, mask, pool, current, starving, vec, now, open, leaked, answer>>

Caps == {"FILE_READ", "FILE_WRITE", "NET_CONNECT", "NET_LISTEN", "EXEC"}
Worker == [state : {"idle", "busy", "stalled"}, beat : 0 .. MaxTime, chan : BOOLEAN]

Init ==
    /\ modes = <<>>
    /\ active = {} /\ mask = [m \in {"S", "M", "P"} |-> {}]
    /\ pool = <<>> /\ current = 0 /\ starving = FALSE
    /\ vec = [count |-> 0, busy |-> {}]
    /\ now = 0 /\ open = <<>> /\ leaked = 0 /\ answer = <<>>

\* plant_mode_push drops what does not fit, plant_mode_pop counts it anyway.
Push(s, m) == IF Len(s) < StackMax THEN Append(s, m) ELSE s
Pop(s) == IF s = <<>> THEN s ELSE Front(s)
Top(s) == IF s = <<>> THEN "B" ELSE Last(s)

\* Fault variant: the pair that keeps PERSISTENT callers out of SAFE is missing.
ForbiddenPersistentPasses == {<<"F", "S">>, <<"S", "F">>, <<"S", "M">>, <<"S", "P">>}

\* plant_boundary_block: the pairs of caller and callee that are blocked.
Forbidden == {<<"F", "S">>, <<"S", "F">>, <<"S", "M">>, <<"S", "P">>, <<"P", "S">>}

Blocked(callee) == <<Top(modes), callee>> \in Forbidden

\* The missions a program enters from the actions it is in.
Rank(m) == CASE m = "P" -> 1 [] m = "M" -> 2 [] m = "S" -> 3 [] OTHER -> 0
MayNest(m) ==
    /\ Len(open) < MaxDepth
    /\ AnyNesting \/ m = "F" \/ \A i \in DOMAIN open : Rank(open[i]) < Rank(m)

\* The prologue common to all modes, past the boundary block.
Begin(m) ==
    /\ MayNest(m) /\ ~Blocked(m)
    /\ modes' = Push(modes, m)
    /\ open' = Append(open, m)

\* The grants the entries of the modes set.
Entry(m) ==
    CASE m = "P" -> {"FILE_READ", "FILE_WRITE", "NET_CONNECT", "NET_LISTEN"}
      [] m = "M" -> {"FILE_READ", "FILE_WRITE", "NET_CONNECT"}
      [] OTHER -> {}

PoolVars == <<pool, current, starving, leaked>>

\* plant_fast_enter; its heap is FastHeap's.
FastEnter ==
    /\ Begin("F")
    /\ UNCHANGED <<active, mask, PoolVars, vec, now, answer>>

\* The entry of an async FAST action, which returns to its caller at once.
AsyncFastEnter ==
    /\ modes' = Push(modes, "F")
    /\ UNCHANGED <<active, mask, PoolVars, vec, now, open, answer>>

\* plant_persist_enter.
PersistEnter ==
    /\ Begin("P")
    /\ active' = active \cup {"P"}
    /\ mask' = [mask EXCEPT !["P"] = Entry("P")]
    /\ UNCHANGED <<PoolVars, vec, now, answer>>

\* plant_smart_enter with the dispatch of n chunks: the pool grows while the
\* queue is longer than twice the workers; no worker goes back to idle.
Expanded(v, n) ==
    LET wanted == {c \in v.count .. VecMax : n <= 2 * c}
    IN IF wanted = {} THEN VecMax ELSE Min(wanted)

Dispatched(n) ==
    IF n = 0 THEN vec
    ELSE LET v == IF vec.count = 0 THEN [vec EXCEPT !.count = VecCap] ELSE vec
             c == Expanded(v, n)
         IN [count |-> c, busy |-> v.busy \cup {i % c : i \in 0 .. n - 1}]

SmartEnter(n) ==
    /\ Begin("M")
    /\ active' = active \cup {"M"}
    /\ mask' = [mask EXCEPT !["M"] = Entry("M")]
    /\ vec' = Dispatched(n)
    /\ UNCHANGED <<PoolVars, now, answer>>

\* plant_pool_init and plant_pool_tick: a worker past the heartbeat interval
\* is stalled, busy or not; past the response window it is restarted.
Fresh == [state |-> "idle", beat |-> now, chan |-> FALSE]
Started == IF pool = <<>> THEN [i \in 1 .. PoolCap |-> Fresh] ELSE pool

Ticked(w) ==
    IF w.state = "stalled"
    THEN IF now - w.beat > Response THEN [w EXCEPT !.state = "idle", !.beat = now] ELSE w
    ELSE IF now - w.beat > Heartbeat THEN [w EXCEPT !.state = "stalled"] ELSE w

Busy(w) == [w EXCEPT !.state = "busy", !.beat = now]

\* plant_pool_acquire: the pool afterwards and the worker, 0 for none.
Acquired ==
    LET p == [i \in DOMAIN Started |-> Ticked(Started[i])]
        idle == {i \in DOMAIN p : p[i].state = "idle"}
    IN IF idle # {}
       THEN [pool |-> [p EXCEPT ![Min(idle)] = Busy(@)], worker |-> Min(idle), waits |-> starving]
       ELSE IF starving /\ Len(p) < PoolMax
       THEN [pool |-> Append(p, Busy(Fresh)), worker |-> Len(p) + 1, waits |-> FALSE]
       ELSE [pool |-> p, worker |-> 0, waits |-> FALSE]

\* plant_safe_enter, then plant_safe_channel_init: the channel goes to the
\* current worker, in place of the one it had; without a worker it is lost.
SafeEnter ==
    /\ Begin("S")
    /\ LET a == Acquired
       IN /\ current' = a.worker
          /\ starving' = a.waits
          /\ pool' = IF a.worker = 0 THEN a.pool ELSE [a.pool EXCEPT ![a.worker].chan = TRUE]
          /\ leaked' = IF a.worker = 0 /\ leaked = 0 THEN 1 ELSE leaked
    /\ active' = active \cup {"S"}
    /\ mask' = [mask EXCEPT !["S"] = Entry("S")]
    /\ UNCHANGED <<vec, now, answer>>

\* Fault variant: leaving a SMART action does not clear its flag.
ClearedButSmart(m) ==
    /\ active' = active \ ({m} \ {"M"})
    /\ mask' = IF m = "F" THEN mask ELSE [mask EXCEPT ![m] = {}]

\* Fault variant: the worker is forgotten and not given back.
ReleasedNot == pool

\* What each mode's exit clears, and the worker plant_safe_exit gives back.
Cleared(m) ==
    /\ active' = active \ {m}
    /\ mask' = IF m = "F" THEN mask ELSE [mask EXCEPT ![m] = {}]

Released ==
    IF current = 0 THEN pool
    ELSE [pool EXCEPT ![current] = [state |-> "idle", beat |-> now, chan |-> FALSE]]

Exit ==
    /\ open # <<>>
    /\ open' = Front(open)
    /\ modes' = Pop(modes)
    /\ Cleared(Last(open))
    /\ IF Last(open) = "S"
       THEN pool' = Released /\ current' = 0
       ELSE UNCHANGED <<pool, current>>
    /\ UNCHANGED <<starving, leaked, vec, now, answer>>

\* A storm leaves the innermost actions without their exits.
Storm ==
    /\ \E k \in 0 .. Len(open) - 1 : open' = SubSeq(open, 1, k)
    /\ UNCHANGED <<modes, active, mask, PoolVars, vec, now, answer>>

\* plant_safe_grant, from any action.
Grant(c) ==
    /\ c \in {"FILE_READ", "NET_CONNECT"}
    /\ mask' = [mask EXCEPT !["S"] = @ \cup {c}]
    /\ UNCHANGED <<modes, active, PoolVars, vec, now, open, answer>>

\* plant_cap_check: SAFE before SMART before PERSISTENT, whichever is inner.
Granted(c) ==
    IF "S" \in active THEN c \in mask["S"] \cap {"FILE_READ", "NET_CONNECT"}
    ELSE IF "M" \in active THEN c \in mask["M"]
    ELSE IF "P" \in active THEN c \in mask["P"]
    ELSE c \in {"FILE_READ", "FILE_WRITE", "NET_CONNECT"}

CapCheck(c) ==
    /\ answer' = <<c, Granted(c)>>
    /\ UNCHANGED <<modes, active, mask, PoolVars, vec, now, open>>

\* plant_safe_starve, and plant_ms.
Starve ==
    /\ ~starving /\ starving' = TRUE
    /\ UNCHANGED <<modes, active, mask, pool, current, leaked, vec, now, open, answer>>

Pass ==
    /\ now < MaxTime /\ now' = now + 1
    /\ UNCHANGED <<modes, active, mask, PoolVars, vec, open, answer>>

Next ==
    \/ FastEnter \/ PersistEnter \/ SafeEnter
    \/ \E n \in Chunks : SmartEnter(n)
    \/ Exit \/ Starve \/ Pass
    \/ \E c \in Caps : Grant(c) \/ CapCheck(c)

Spec == Init /\ [][Next]_vars

\* Programs that also start async FAST actions and throw storms.
StormyNext == Next \/ AsyncFastEnter \/ Storm
StormySpec == Init /\ [][StormyNext]_vars

----------------------------------------------------------------------------
(* Properties *)

\* Type invariant.
TypeOK ==
    /\ modes \in Seq(Modes) /\ Len(modes) <= StackMax
    /\ active \subseteq {"S", "M", "P"} /\ mask \in [{"S", "M", "P"} -> SUBSET Caps]
    /\ pool \in Seq(Worker) /\ Len(pool) <= PoolMax
    /\ current \in 0 .. Len(pool)
    /\ vec.count \in 0 .. VecMax /\ vec.busy \subseteq 0 .. VecMax - 1

\* The boundary handshake reads the mode of the innermost mission action, or
\* none when only BALANCED actions run, so no forbidden call ever runs.
BoundaryKept ==
    /\ Top(modes) = IF open = <<>> THEN "B" ELSE Last(open)
    /\ \A i \in 1 .. Len(open) - 1 :
          <<open[i], open[i + 1]>> \notin
              ({"F", "P"} \X {"S"}) \cup ({"S"} \X {"F", "M", "P"})

\* When no SAFE action runs, no worker of the pool is busy or owns a channel.
WorkersQuiet ==
    (\A i \in DOMAIN open : open[i] # "S") =>
        \A i \in DOMAIN pool : pool[i].state # "busy" /\ ~pool[i].chan

\* A SAFE action's channel is freed with it.
ChannelsFreed == leaked = 0

\* Capability checks answer as the governing mission's grants say. FAST has
\* no grants of its own: it is governed by the mission around it.
Governors(s) ==
    LET g[i \in 0 .. Len(s)] ==
            IF i = 0 THEN <<>>
            ELSE IF s[i] = "F" THEN g[i - 1] ELSE Append(g[i - 1], s[i])
    IN g[Len(s)]
Governed == Governors(open)

GovernorGrants ==
    [i \in 1 .. Len(Governed) |->
        [mode |-> Governed[i],
         grants |-> IF Governed[i] = "S" THEN mask["S"] ELSE Entry(Governed[i])]]

G == INSTANCE MissionGrants WITH stack <- GovernorGrants

GrantsFollowInnermost == G!GrantsSpec
=============================================================================
