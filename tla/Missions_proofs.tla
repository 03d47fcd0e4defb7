--------------------------- MODULE Missions_proofs ---------------------------
(***************************************************************************)
(* Proofs about Missions, for stacks, pools and datasets of any size: no   *)
(* forbidden call runs, and, for programs that nest PERSISTENT, SMART and  *)
(* SAFE actions in this order, no worker stays busy without a SAFE action  *)
(* and capability checks answer for the innermost mission.                 *)
(***************************************************************************)
EXTENDS Missions, ProofLemmas

\* Every variable stays in its domain.
Typed ==
    /\ modes \in Seq(Modes) /\ Len(modes) <= StackMax
    /\ open \in Seq(Modes) /\ Len(open) <= MaxDepth
    /\ active \subseteq {"S", "M", "P"} /\ mask \in [{"S", "M", "P"} -> SUBSET Caps]
    /\ pool \in Seq(Worker) /\ Len(pool) <= PoolMax
    /\ current \in 0 .. Len(pool) /\ starving \in BOOLEAN
    /\ vec \in [count : 0 .. VecMax, busy : SUBSET (0 .. VecMax - 1)]
    /\ now \in 0 .. MaxTime

\* The mode stack is the stack of the actions that run, and no call between
\* neighbours on it is forbidden.
Tracked ==
    /\ modes = open
    /\ \A i \in 1 .. Len(open) - 1 : <<open[i], open[i + 1]>> \notin Forbidden

\* A mission is entered from missions of lower rank only.
Nested ==
    \A i, j \in 1 .. Len(open) : i < j /\ open[j] # "F" => Rank(open[i]) < Rank(open[j])

\* The mission flags are those of the missions that govern, in their order.
Flags ==
    /\ active = {Governed[i] : i \in 1 .. Len(Governed)}
    /\ \A i \in 1 .. Len(Governed) : \E j \in 1 .. Len(open) : open[j] = Governed[i]
    /\ \A j \in 1 .. Len(open) : open[j] # "F" => open[j] \in active
    /\ \A i, j \in 1 .. Len(Governed) : i < j => Rank(Governed[i]) < Rank(Governed[j])

\* An active mission's grants are those of its entry, but for a SAFE one's.
Masks ==
    /\ \A m \in active \ {"S"} : mask[m] = Entry(m)
    /\ mask["S"] \subseteq {"FILE_READ", "NET_CONNECT"}

Quiet(w) == w.state # "busy" /\ ~w.chan

\* Only the worker of the SAFE action that runs is not quiet.
Pooled == \A i \in 1 .. Len(pool) : ~Quiet(pool[i]) => i = current /\ "S" \in active

Ordered == Nested /\ Flags /\ Masks /\ Pooled

USE DEF Modes

\* f lists the governors of the first actions of s, up to n of them.
Lists(f, s, n) ==
    /\ f \in [0 .. n -> Seq(Modes)] /\ f[0] = <<>>
    /\ \A i \in 1 .. n : f[i] = IF s[i] = "F" THEN f[i - 1] ELSE Append(f[i - 1], s[i])

LEMMA ListsExist ==
    ASSUME NEW s \in Seq(Modes)
    PROVE  \E f : Lists(f, s, Len(s))
  <1> DEFINE S == {n \in Nat : n <= Len(s) => \E f : Lists(f, s, n)}
  <1>1. 0 \in S
    <2>1. Lists([i \in 0 .. 0 |-> <<>>], s, 0)
      BY DEF Lists
    <2> QED BY <2>1
  <1>2. ASSUME NEW n \in Nat, n \in S PROVE n + 1 \in S
    <2> SUFFICES ASSUME n + 1 <= Len(s) PROVE \E f : Lists(f, s, n + 1)
      OBVIOUS
    <2>1. PICK f : Lists(f, s, n)
      BY <1>2
    <2> DEFINE x == IF s[n + 1] = "F" THEN f[n] ELSE Append(f[n], s[n + 1])
               h == [i \in 0 .. n + 1 |-> IF i = n + 1 THEN x ELSE f[i]]
    <2>2. s[n + 1] \in Modes /\ f[n] \in Seq(Modes)
      BY <2>1 DEF Lists
    <2>3. x \in Seq(Modes)
      BY <2>2
    <2> HIDE DEF x
    <2>4. h \in [0 .. n + 1 -> Seq(Modes)] /\ h[0] = <<>>
      BY <2>1, <2>3 DEF Lists
    <2>5. ASSUME NEW i \in 1 .. n + 1
          PROVE  h[i] = IF s[i] = "F" THEN h[i - 1] ELSE Append(h[i - 1], s[i])
      <3>1. CASE i = n + 1
        <4>1. h[i] = x /\ h[i - 1] = f[n]
          BY <3>1
        <4> QED BY <3>1, <4>1 DEF x
      <3>2. CASE i # n + 1
        <4>1. h[i] = f[i] /\ h[i - 1] = f[i - 1] /\ i \in 1 .. n
          BY <3>2
        <4> QED BY <2>1, <4>1 DEF Lists
      <3> QED BY <3>1, <3>2
    <2> QED BY <2>4, <2>5 DEF Lists
  <1>3. Nat \subseteq S
    <2> HIDE DEF S
    <2> QED BY <1>1, <1>2, InductiveSet
  <1> QED BY <1>3

LEMMA ListsAgree ==
    ASSUME NEW s, NEW t, NEW n \in Nat, NEW k \in Nat, NEW f, NEW g,
           Lists(f, s, n), Lists(g, t, k), n <= k, \A i \in 1 .. n : s[i] = t[i]
    PROVE  f[n] = g[n]
  <1> DEFINE S == {j \in Nat : j <= n => f[j] = g[j]}
  <1>1. 0 \in S
    BY DEF Lists
  <1>2. ASSUME NEW j \in Nat, j \in S PROVE j + 1 \in S
    <2> SUFFICES ASSUME j + 1 <= n PROVE f[j + 1] = g[j + 1]
      OBVIOUS
    <2>1. /\ f[j] = g[j] /\ s[j + 1] = t[j + 1] /\ j + 1 \in 1 .. n /\ j + 1 \in 1 .. k
          /\ (j + 1) - 1 = j
      BY <1>2
    <2> QED BY <2>1, Zenon DEF Lists
  <1>3. Nat \subseteq S
    <2> HIDE DEF S
    <2> QED BY <1>1, <1>2, InductiveSet
  <1> QED BY <1>3

LEMMA GovernorsAre ==
    ASSUME NEW s \in Seq(Modes), NEW f, Lists(f, s, Len(s))
    PROVE  Governors(s) = f[Len(s)]
  <1> DEFINE Step(g) == [i \in 0 .. Len(s) |->
                 IF i = 0 THEN <<>> ELSE IF s[i] = "F" THEN g[i - 1] ELSE Append(g[i - 1], s[i])]
             C == CHOOSE g : g = Step(g)
  <1>1. f = Step(f)
    <2>1. \A i \in 0 .. Len(s) : f[i] = Step(f)[i]
      <3> SUFFICES ASSUME NEW i \in 0 .. Len(s) PROVE f[i] = Step(f)[i]
        OBVIOUS
      <3>1. CASE i = 0
        BY <3>1 DEF Lists
      <3>2. CASE i # 0
        <4>1. i \in 1 .. Len(s)
          BY <3>2
        <4> QED BY <4>1 DEF Lists
      <3> QED BY <3>1, <3>2
    <2>2. f = [i \in 0 .. Len(s) |-> f[i]]
      BY DEF Lists
    <2> QED BY <2>1, <2>2
  <1>2. C = Step(C)
    BY <1>1
  <1>3. Governors(s) = C[Len(s)]
    BY DEF Governors
  <1>4. ASSUME NEW n \in Nat PROVE n <= Len(s) => C[n] = f[n]
    <2> DEFINE S == {j \in Nat : j <= Len(s) => C[j] = f[j]}
    <2> HIDE DEF C
    <2>1. 0 \in S
      BY <1>2 DEF Lists
    <2>2. ASSUME NEW j \in Nat, j \in S PROVE j + 1 \in S
      <3> SUFFICES ASSUME j + 1 <= Len(s) PROVE C[j + 1] = f[j + 1]
        OBVIOUS
      <3>1. C[j + 1] = IF s[j + 1] = "F" THEN C[j] ELSE Append(C[j], s[j + 1])
        <4>1. j + 1 \in 0 .. Len(s) /\ j + 1 # 0 /\ (j + 1) - 1 = j
          OBVIOUS
        <4>2. C[j + 1] = Step(C)[j + 1]
          BY <1>2
        <4> QED BY <4>1, <4>2
      <3>2. f[j + 1] = IF s[j + 1] = "F" THEN f[j] ELSE Append(f[j], s[j + 1])
        BY DEF Lists
      <3> QED BY <2>2, <3>1, <3>2
    <2>3. Nat \subseteq S
      <3> HIDE DEF S
      <3> QED BY <2>1, <2>2, InductiveSet
    <2> QED BY <2>3
  <1> QED BY <1>3, <1>4

LEMMA GovernorsGrow ==
    ASSUME NEW s \in Seq(Modes), NEW m \in Modes
    PROVE  /\ Governors(s) \in Seq(Modes)
           /\ Governors(Append(s, m)) = IF m = "F" THEN Governors(s) ELSE Append(Governors(s), m)
  <1> DEFINE t == Append(s, m)
             n == Len(s)
  <1>1. t \in Seq(Modes) /\ Len(t) = n + 1 /\ t[n + 1] = m /\ \A i \in 1 .. n : s[i] = t[i]
    BY AppendProperties
  <1> HIDE DEF t
  <1>2. PICK f : Lists(f, s, n)
    BY ListsExist
  <1>3. PICK g : Lists(g, t, n + 1)
    BY <1>1, ListsExist
  <1>n. n \in Nat /\ n + 1 \in Nat /\ n <= n + 1
    OBVIOUS
  <1>4. f[n] = g[n]
    <2> HIDE DEF n
    <2> QED BY <1>1, <1>2, <1>3, <1>n, ListsAgree
  <1>5. Governors(s) = f[n] /\ Governors(t) = g[n + 1] /\ f[n] \in Seq(Modes)
    <2>1. Governors(s) = f[n]
      BY <1>2, GovernorsAre
    <2>2. Lists(g, t, Len(t))
      BY <1>1, <1>3
    <2>3. Governors(t) = g[Len(t)]
      BY <1>1, <2>2, GovernorsAre
    <2> QED BY <1>1, <1>2, <1>n, <2>1, <2>3 DEF Lists
  <1>6. g[n + 1] = IF m = "F" THEN g[n] ELSE Append(g[n], m)
    BY <1>1, <1>3 DEF Lists
  <1> QED BY <1>4, <1>5, <1>6 DEF t

\* The first of a set of naturals.
LEMMA LeastIsIn ==
    ASSUME NEW S \in SUBSET Nat, S # {}
    PROVE  Min(S) \in S /\ \A m \in S : Min(S) <= m
  <1>1. \E n \in S : \A m \in S : n <= m
    BY LeastNatural
  <1> QED BY <1>1 DEF Min

LEMMA RunnersMove ==
    ASSUME Typed, NEW m \in Modes
    PROVE  /\ Len(open) < MaxDepth => Append(open, m) \in Seq(Modes)
                                      /\ Len(Append(open, m)) = Len(open) + 1
                                      /\ Len(Append(open, m)) <= MaxDepth
           /\ Push(modes, m) \in Seq(Modes) /\ Len(Push(modes, m)) <= StackMax
           /\ Pop(modes) \in Seq(Modes) /\ Len(Pop(modes)) <= StackMax
           /\ open # <<>> => /\ Front(open) \in Seq(Modes) /\ Len(Front(open)) <= MaxDepth
                             /\ Last(open) \in Modes
  <1> USE MissionsAssumption DEF Typed
  <1>1. /\ Append(open, m) \in Seq(Modes) /\ Len(Append(open, m)) = Len(open) + 1
        /\ Append(modes, m) \in Seq(Modes) /\ Len(Append(modes, m)) = Len(modes) + 1
        /\ Len(open) \in Nat /\ Len(modes) \in Nat
    BY AppendProperties
  <1>2. open # <<>> => /\ Front(open) \in Seq(Modes) /\ Len(Front(open)) = Len(open) - 1
                       /\ Last(open) \in Modes
    BY FrontProperties
  <1>3. modes # <<>> => Front(modes) \in Seq(Modes) /\ Len(Front(modes)) = Len(modes) - 1
    BY FrontProperties
  <1>4. Push(modes, m) \in Seq(Modes) /\ Len(Push(modes, m)) <= StackMax
    BY <1>1 DEF Push
  <1>5. Pop(modes) \in Seq(Modes) /\ Len(Pop(modes)) <= StackMax
    BY <1>1, <1>3 DEF Pop
  <1> QED BY <1>1, <1>2, <1>4, <1>5

\* plant_pool_acquire keeps the pool within its size; only the worker it hands
\* out is busy, if none was.
LEMMA AcquiredPool ==
    ASSUME Typed
    PROVE  /\ Acquired.pool \in Seq(Worker) /\ Len(Acquired.pool) <= PoolMax
           /\ Acquired.worker \in 0 .. Len(Acquired.pool) /\ Acquired.waits \in BOOLEAN
           /\ (\A i \in 1 .. Len(pool) : Quiet(pool[i])) =>
                 \A i \in 1 .. Len(Acquired.pool) : i # Acquired.worker =>
                                                       Quiet(Acquired.pool[i])
  <1> USE MissionsAssumption DEF Typed
  <1> DEFINE p == [i \in DOMAIN Started |-> Ticked(Started[i])]
             idle == {i \in DOMAIN p : p[i].state = "idle"}
             AllQuiet == \A i \in 1 .. Len(pool) : Quiet(pool[i])
  <1>1. Fresh \in Worker /\ Quiet(Fresh)
    BY DEF Fresh, Worker, Quiet
  <1>2. /\ Started \in Seq(Worker) /\ Len(Started) <= PoolMax
        /\ AllQuiet => \A i \in 1 .. Len(Started) : Quiet(Started[i])
    <2>1. CASE pool = <<>>
      <3>1. Started = [i \in 1 .. PoolCap |-> Fresh]
        BY <2>1 DEF Started
      <3> QED BY <1>1, <3>1, IsASeq
    <2>2. CASE pool # <<>>
      BY <2>2 DEF Started
    <2> QED BY <2>1, <2>2
  <1> DEFINE n == Len(Started)
  <1>3. ASSUME NEW w \in Worker
        PROVE  /\ Ticked(w) \in Worker /\ Busy(w) \in Worker
               /\ Quiet(w) => Quiet(Ticked(w))
    BY DEF Ticked, Busy, Worker, Quiet
  <1>4. DOMAIN Started = 1 .. n /\ n \in Nat /\ \A i \in 1 .. n : Started[i] \in Worker
    BY <1>2, LenProperties, ElementOfSeq
  <1>5. /\ p \in [1 .. n -> Worker] /\ p \in Seq(Worker) /\ Len(p) = n /\ DOMAIN p = 1 .. n
        /\ AllQuiet => \A i \in 1 .. n : Quiet(p[i])
    <2>1. \A i \in 1 .. n : p[i] = Ticked(Started[i]) /\ p[i] \in Worker
      BY <1>3, <1>4
    <2>2. p \in [1 .. n -> Worker] /\ DOMAIN p = 1 .. n
      BY <1>4, <2>1
    <2>3. AllQuiet => \A i \in 1 .. n : Quiet(p[i])
      BY <1>2, <1>3, <1>4, <2>1
    <2> HIDE DEF p, n
    <2> QED BY <1>4, <2>2, <2>3, LenProperties
  <1>6. idle # {} => Min(idle) \in 1 .. n
    <2> HIDE DEF n
    <2>1. idle \in SUBSET (1 .. n) /\ idle \in SUBSET Nat
      BY <1>4, <1>5
    <2> HIDE DEF idle
    <2> QED BY <2>1, LeastIsIn
  <1>7. n <= PoolMax
    BY <1>2
  <1> HIDE DEF p, idle, n, AllQuiet
  <1>8. CASE idle # {}
    <2> DEFINE q == [p EXCEPT ![Min(idle)] = Busy(p[Min(idle)])]
    <2>1. Acquired = [pool |-> q, worker |-> Min(idle), waits |-> starving]
      BY <1>8 DEF Acquired, p, idle
    <2>2. q \in [1 .. n -> Worker] /\ \A i \in 1 .. n : i # Min(idle) => q[i] = p[i]
      BY <1>3, <1>5, <1>6, <1>8
    <2>3. q \in Seq(Worker) /\ Len(q) = n
      BY <1>3, <1>5, <1>6, <1>8, ExceptSeq
    <2> HIDE DEF q
    <2> QED BY <1>4, <1>5, <1>6, <1>7, <1>8, <2>1, <2>2, <2>3 DEF AllQuiet
  <1>9. CASE idle = {} /\ starving /\ Len(p) < PoolMax
    <2> DEFINE q == Append(p, Busy(Fresh))
    <2>1. Acquired = [pool |-> q, worker |-> Len(p) + 1, waits |-> FALSE]
      BY <1>9 DEF Acquired, p, idle
    <2>2. q \in Seq(Worker) /\ Len(q) = n + 1 /\ \A i \in 1 .. n : q[i] = p[i]
      BY <1>1, <1>3, <1>5, AppendProperties
    <2> HIDE DEF q
    <2>3. /\ Acquired.pool = q /\ Acquired.worker = n + 1 /\ Acquired.waits = FALSE
          /\ n + 1 <= PoolMax /\ n + 1 \in 0 .. n + 1
      BY <1>4, <1>5, <1>9, <2>1
    <2>4. \A i \in 1 .. n + 1 : i # n + 1 => i \in 1 .. n /\ q[i] = p[i]
      BY <1>4, <2>2
    <2>5. AllQuiet => \A i \in 1 .. n + 1 : i # n + 1 => Quiet(q[i])
      BY <1>5, <2>4
    <2> QED BY <2>2, <2>3, <2>5 DEF AllQuiet
  <1>10. CASE idle = {} /\ ~(starving /\ Len(p) < PoolMax)
    <2>1. Acquired = [pool |-> p, worker |-> 0, waits |-> FALSE]
      BY <1>10 DEF Acquired, p, idle
    <2> QED BY <1>4, <1>5, <1>7, <2>1 DEF AllQuiet
  <1> QED BY <1>8, <1>9, <1>10

\* The domains are kept by every step.
LEMMA TypedInit == Init => Typed
  <1> SUFFICES ASSUME Init PROVE Typed
    OBVIOUS
  <1> USE MissionsAssumption DEF Init
  <1>1. <<>> \in Seq(Modes) /\ Len(<<>>) = 0 /\ <<>> \in Seq(Worker)
    OBVIOUS
  <1>2. /\ modes \in Seq(Modes) /\ Len(modes) <= StackMax
        /\ open \in Seq(Modes) /\ Len(open) <= MaxDepth
    BY <1>1
  <1>3. pool \in Seq(Worker) /\ Len(pool) <= PoolMax /\ current \in 0 .. Len(pool)
    BY <1>1
  <1>4. active \subseteq {"S", "M", "P"} /\ mask \in [{"S", "M", "P"} -> SUBSET Caps]
    OBVIOUS
  <1>5. vec \in [count : 0 .. VecMax, busy : SUBSET (0 .. VecMax - 1)]
    OBVIOUS
  <1>6. starving \in BOOLEAN
    OBVIOUS
  <1>7. now \in 0 .. MaxTime
    OBVIOUS
  <1> QED BY <1>2, <1>3, <1>4, <1>5, <1>6, <1>7, Zenon DEF Typed

LEMMA EntryIsGrant == \A m : Entry(m) \in SUBSET Caps
  BY DEF Entry, Caps

\* Growth stops at the limit, and tasks go to workers that exist.
LEMMA DispatchedTyped ==
    ASSUME Typed, NEW n \in Chunks
    PROVE  Dispatched(n) \in [count : 0 .. VecMax, busy : SUBSET (0 .. VecMax - 1)]
  <1> USE MissionsAssumption
  <1> DEFINE v == IF vec.count = 0 THEN [vec EXCEPT !.count = VecCap] ELSE vec
             wanted == {c \in v.count .. VecMax : n <= 2 * c}
             c == Expanded(v, n)
  <1>1. vec \in [count : 0 .. VecMax, busy : SUBSET (0 .. VecMax - 1)] /\ n \in Nat
    BY DEF Typed
  <1>2. v.count \in 1 .. VecMax /\ v.busy \subseteq 0 .. VecMax - 1
    BY <1>1
  <1> HIDE DEF v
  <1>3. wanted \in SUBSET Nat /\ wanted \subseteq v.count .. VecMax
    BY <1>2
  <1>4. c = IF wanted = {} THEN VecMax ELSE Min(wanted)
    BY DEF Expanded
  <1> HIDE DEF wanted, c
  <1>5. c \in 1 .. VecMax
    BY <1>2, <1>3, <1>4, LeastIsIn
  <1>6. \A i \in 0 .. n - 1 : i % c \in 0 .. VecMax - 1
    BY <1>1, <1>5
  <1>7. n # 0 => Dispatched(n) = [count |-> c, busy |-> v.busy \cup {i % c : i \in 0 .. n - 1}]
    BY DEF Dispatched, v, c
  <1>8. n = 0 => Dispatched(n) = vec
    BY DEF Dispatched
  <1> QED BY <1>1, <1>2, <1>5, <1>6, <1>7, <1>8

LEMMA TypedKept == Typed /\ [Next]_vars => Typed'
  <1> SUFFICES ASSUME Typed, [Next]_vars PROVE Typed'
    OBVIOUS
  <1> USE MissionsAssumption
  <1>m. ASSUME NEW m \in Modes, Begin(m)
        PROVE  /\ modes' \in Seq(Modes) /\ Len(modes') <= StackMax
               /\ open' \in Seq(Modes) /\ Len(open') <= MaxDepth
    <2>1. Len(open) < MaxDepth /\ open' = Append(open, m) /\ modes' = Push(modes, m)
      BY <1>m DEF Begin, MayNest
    <2> QED BY <2>1, RunnersMove
  <1>g. ASSUME NEW m \in {"S", "M", "P"}, mask' = [mask EXCEPT ![m] = Entry(m)],
               active' = active \cup {m}
        PROVE  /\ active' \subseteq {"S", "M", "P"}
               /\ mask' \in [{"S", "M", "P"} -> SUBSET Caps]
    BY <1>g, EntryIsGrant DEF Typed
  <1>1. CASE FastEnter
    <2>1. /\ modes' \in Seq(Modes) /\ Len(modes') <= StackMax
          /\ open' \in Seq(Modes) /\ Len(open') <= MaxDepth
      BY <1>1, <1>m DEF FastEnter
    <2>2. UNCHANGED <<active, mask, PoolVars, vec, now, answer>>
      BY <1>1 DEF FastEnter
    <2> QED BY <2>1, <2>2, Zenon DEF Typed, PoolVars
  <1>2. CASE PersistEnter
    <2>1. /\ modes' \in Seq(Modes) /\ Len(modes') <= StackMax
          /\ open' \in Seq(Modes) /\ Len(open') <= MaxDepth
      BY <1>2, <1>m DEF PersistEnter
    <2>2. active' \subseteq {"S", "M", "P"} /\ mask' \in [{"S", "M", "P"} -> SUBSET Caps]
      BY <1>2, <1>g DEF PersistEnter
    <2>3. UNCHANGED <<PoolVars, vec, now, answer>>
      BY <1>2 DEF PersistEnter
    <2> QED BY <2>1, <2>2, <2>3, Zenon DEF Typed, PoolVars
  <1>3. ASSUME NEW n \in Chunks, SmartEnter(n) PROVE Typed'
    <2>1. /\ modes' \in Seq(Modes) /\ Len(modes') <= StackMax
          /\ open' \in Seq(Modes) /\ Len(open') <= MaxDepth
      BY <1>3, <1>m DEF SmartEnter
    <2>2. active' \subseteq {"S", "M", "P"} /\ mask' \in [{"S", "M", "P"} -> SUBSET Caps]
      BY <1>3, <1>g DEF SmartEnter
    <2>3. vec' \in [count : 0 .. VecMax, busy : SUBSET (0 .. VecMax - 1)]
      BY <1>3, DispatchedTyped DEF SmartEnter
    <2>4. UNCHANGED <<PoolVars, now, answer>>
      BY <1>3 DEF SmartEnter
    <2> QED BY <2>1, <2>2, <2>3, <2>4, Zenon DEF Typed, PoolVars
  <1>4. CASE SafeEnter
    <2>1. /\ modes' \in Seq(Modes) /\ Len(modes') <= StackMax
          /\ open' \in Seq(Modes) /\ Len(open') <= MaxDepth
      BY <1>4, <1>m DEF SafeEnter
    <2>2. active' \subseteq {"S", "M", "P"} /\ mask' \in [{"S", "M", "P"} -> SUBSET Caps]
      BY <1>4, <1>g DEF SafeEnter
    <2>3. /\ pool' \in Seq(Worker) /\ Len(pool') <= PoolMax
          /\ current' \in 0 .. Len(pool') /\ starving' \in BOOLEAN
      <3>1. /\ current' = Acquired.worker /\ starving' = Acquired.waits
            /\ pool' = IF Acquired.worker = 0 THEN Acquired.pool
                       ELSE [Acquired.pool EXCEPT ![Acquired.worker].chan = TRUE]
        BY <1>4 DEF SafeEnter
      <3>2. /\ Acquired.pool \in Seq(Worker) /\ Len(Acquired.pool) <= PoolMax
            /\ Acquired.worker \in 0 .. Len(Acquired.pool) /\ Acquired.waits \in BOOLEAN
        BY AcquiredPool
      <3>3. Len(Acquired.pool) \in Nat
        BY <3>2, LenProperties
      <3>4. CASE Acquired.worker # 0
        <4> DEFINE a == Acquired
                   w == [a.pool[a.worker] EXCEPT !.chan = TRUE]
        <4> HIDE DEF a
        <4>0. a = Acquired
          BY DEF a
        <4>1. a.worker \in 1 .. Len(a.pool)
          BY <3>2, <3>3, <3>4, <4>0
        <4>2. a.pool[a.worker] \in Worker
          BY <3>2, <4>0, <4>1, ElementOfSeq
        <4>3. w \in Worker
          BY <4>2 DEF Worker
        <4>4. pool' = [a.pool EXCEPT ![a.worker] = w]
          BY <3>1, <3>4, <4>0
        <4> HIDE DEF w
        <4>5. pool' \in Seq(Worker) /\ Len(pool') = Len(a.pool)
          BY <3>2, <4>0, <4>1, <4>3, <4>4, ExceptSeq
        <4> QED BY <3>1, <3>2, <4>0, <4>5
      <3> QED BY <3>1, <3>2, <3>4
    <2>4. UNCHANGED <<vec, now, answer>>
      BY <1>4 DEF SafeEnter
    <2> QED BY <2>1, <2>2, <2>3, <2>4, Zenon DEF Typed
  <1>5. CASE Exit
    <2>1. /\ modes' \in Seq(Modes) /\ Len(modes') <= StackMax
          /\ open' \in Seq(Modes) /\ Len(open') <= MaxDepth
          /\ Last(open) \in Modes
      BY <1>5, RunnersMove DEF Exit
    <2>2. active' \subseteq {"S", "M", "P"} /\ mask' \in [{"S", "M", "P"} -> SUBSET Caps]
      BY <1>5, <2>1 DEF Exit, Cleared, Typed
    <2>3. pool' \in Seq(Worker) /\ Len(pool') <= PoolMax /\ current' \in 0 .. Len(pool')
      <3>1. CASE Last(open) # "S" \/ current = 0
        <4>1. pool' = pool /\ current' \in {current, 0}
          BY <1>5, <3>1 DEF Exit, Released
        <4> QED BY <4>1, LenProperties DEF Typed
      <3>2. CASE Last(open) = "S" /\ current # 0
        <4> DEFINE w == [state |-> "idle", beat |-> now, chan |-> FALSE]
        <4>1. pool' = [pool EXCEPT ![current] = w] /\ current' = 0
          BY <1>5, <3>2 DEF Exit, Released
        <4>2. w \in Worker /\ current \in 1 .. Len(pool) /\ Len(pool) \in Nat
          BY <3>2, LenProperties DEF Typed, Worker
        <4> HIDE DEF w
        <4>3. pool' \in Seq(Worker) /\ Len(pool') = Len(pool)
          BY <4>1, <4>2, ExceptSeq DEF Typed
        <4> QED BY <4>1, <4>2, <4>3 DEF Typed
      <3> QED BY <3>1, <3>2
    <2>4. UNCHANGED <<starving, leaked, vec, now, answer>>
      BY <1>5 DEF Exit
    <2> QED BY <2>1, <2>2, <2>3, <2>4, Zenon DEF Typed
  <1>6. ASSUME NEW c \in Caps, Grant(c) PROVE Typed'
    <2>1. mask' \in [{"S", "M", "P"} -> SUBSET Caps]
      BY <1>6 DEF Grant, Typed
    <2>2. UNCHANGED <<modes, active, PoolVars, vec, now, open, answer>>
      BY <1>6 DEF Grant
    <2> QED BY <2>1, <2>2, Zenon DEF Typed, PoolVars
  <1>7. ASSUME NEW c \in Caps, CapCheck(c) PROVE Typed'
    BY <1>7, Zenon DEF CapCheck, Typed, PoolVars
  <1>8. CASE Starve
    BY <1>8, Zenon DEF Starve, Typed
  <1>9. CASE Pass
    <2>1. now' \in 0 .. MaxTime
      BY <1>9 DEF Pass, Typed
    <2>2. UNCHANGED <<modes, active, mask, PoolVars, vec, open, answer>>
      BY <1>9 DEF Pass
    <2> QED BY <2>1, <2>2, Zenon DEF Typed, PoolVars
  <1>10. CASE UNCHANGED vars
    BY <1>10, Zenon DEF vars, Typed
  <1> QED BY <1>1, <1>2, <1>3, <1>4, <1>5, <1>6, <1>7, <1>8, <1>9, <1>10 DEF Next

\* The stack and the pools stay within their limits, in any program.
THEOREM TypeCorrect == Spec => []TypeOK
  <1>1. Typed => TypeOK
    BY DEF Typed, TypeOK
  <1>2. Spec => []Typed
    BY TypedInit, TypedKept, PTL DEF Spec
  <1> QED BY <1>1, <1>2, PTL

\* With a stack that is deep enough, its top is the action that runs.
LEMMA TrackedKept ==
    ASSUME MaxDepth <= StackMax, Typed, Tracked, [Next]_vars
    PROVE  Tracked'
  <1> USE MissionsAssumption
  <1>o. open \in Seq(Modes) /\ Len(open) \in Nat /\ Len(open) <= MaxDepth /\ modes = open
    BY LenProperties DEF Typed, Tracked
  <1>m. ASSUME NEW m \in Modes, Begin(m) PROVE Tracked'
    <2>1. /\ open' = Append(open, m) /\ modes' = open' /\ ~Blocked(m)
      BY <1>m, <1>o DEF Begin, MayNest, Push
    <2>2. /\ Len(open') = Len(open) + 1 /\ open'[Len(open) + 1] = m
          /\ \A i \in 1 .. Len(open) : open'[i] = open[i]
      BY <1>o, <2>1, AppendProperties
    <2>3. ASSUME NEW i \in 1 .. Len(open') - 1
          PROVE  <<open'[i], open'[i + 1]>> \notin Forbidden
      <3>1. CASE i = Len(open)
        <4>1. open # <<>> /\ open'[i] = Last(open) /\ open'[i + 1] = m
          BY <1>o, <2>2, <3>1 DEF Last
        <4> QED BY <1>o, <2>1, <4>1 DEF Blocked, Top
      <3>2. CASE i # Len(open)
        <4>1. i \in 1 .. Len(open) - 1 /\ i + 1 \in 1 .. Len(open)
          BY <1>o, <2>2, <3>2
        <4> QED BY <2>2, <4>1 DEF Tracked
      <3> QED BY <3>1, <3>2
    <2> QED BY <2>1, <2>3 DEF Tracked
  <1>1. CASE Exit
    <2>1. open # <<>> /\ open' = Front(open) /\ modes' = open'
      BY <1>1, <1>o DEF Exit, Pop
    <2>2. Len(open') = Len(open) - 1 /\ \A i \in 1 .. Len(open) - 1 : open'[i] = open[i]
      BY <1>o, <2>1, FrontProperties
    <2>3. \A i \in 1 .. Len(open') - 1 : <<open'[i], open'[i + 1]>> \notin Forbidden
      <3> SUFFICES ASSUME NEW i \in 1 .. Len(open') - 1
                   PROVE  <<open'[i], open'[i + 1]>> \notin Forbidden
        OBVIOUS
      <3>1. i \in 1 .. Len(open) - 1 /\ i + 1 \in 1 .. Len(open) - 1
        BY <1>o, <2>2
      <3> QED BY <2>2, <3>1 DEF Tracked
    <2> QED BY <2>1, <2>3 DEF Tracked
  <1>2. ASSUME UNCHANGED <<modes, open>> PROVE Tracked'
    BY <1>2 DEF Tracked
  <1>3. CASE FastEnter
    BY <1>3, <1>m DEF FastEnter
  <1>4. CASE PersistEnter
    BY <1>4, <1>m DEF PersistEnter
  <1>5. CASE SafeEnter
    BY <1>5, <1>m DEF SafeEnter
  <1>6. ASSUME NEW n \in Chunks, SmartEnter(n) PROVE Tracked'
    BY <1>6, <1>m DEF SmartEnter
  <1>7. CASE Starve \/ Pass \/ \E c \in Caps : Grant(c) \/ CapCheck(c)
    BY <1>7, <1>2 DEF Starve, Pass, Grant, CapCheck
  <1>8. CASE UNCHANGED vars
    BY <1>8, <1>2 DEF vars
  <1> QED BY <1>1, <1>3, <1>4, <1>5, <1>6, <1>7, <1>8 DEF Next

\* A forbidden call between missions never runs, however a program nests its
\* actions, as long as the mode stack holds them (plant_boundary_block).
THEOREM BoundaryHolds ==
    ASSUME MaxDepth <= StackMax
    PROVE  Spec => []BoundaryKept
  <1>1. Init => Tracked
    BY DEF Init, Tracked
  <1>2. Typed /\ Tracked /\ [Next]_vars => Tracked'
    BY TrackedKept
  <1>3. Typed /\ Tracked => BoundaryKept
    <2> SUFFICES ASSUME Typed, Tracked PROVE BoundaryKept
      OBVIOUS
    <2>1. Top(modes) = IF open = <<>> THEN "B" ELSE Last(open)
      BY DEF Tracked, Top
    <2>2. ASSUME NEW i \in 1 .. Len(open) - 1
          PROVE  <<open[i], open[i + 1]>> \notin
                     ({"F", "P"} \X {"S"}) \cup ({"S"} \X {"F", "M", "P"})
      BY DEF Tracked, Forbidden
    <2> QED BY <2>1, <2>2 DEF BoundaryKept
  <1> QED BY <1>1, <1>2, <1>3, TypedInit, TypedKept, PTL DEF Spec

\* Entering a mission m of higher rank than the missions that are open.
LEMMA EnterOrdered ==
    ASSUME Typed, Ordered, ~AnyNesting, NEW m \in {"S", "M", "P"}, Begin(m),
           active' = active \cup {m}
    PROVE  /\ Nested' /\ Flags' /\ m \notin active
           /\ Governed' = Append(Governed, m) /\ "S" \notin active
  <1> USE DEF Ordered
  <1>o. /\ open \in Seq(Modes) /\ Len(open) \in Nat /\ open' = Append(open, m)
        /\ Governed \in Seq(Modes) /\ Len(Governed) \in Nat
        /\ Governed' = Append(Governed, m)
    BY GovernorsGrow, LenProperties DEF Typed, Begin, Governed
  <1>1. /\ Len(open') = Len(open) + 1 /\ open'[Len(open) + 1] = m
        /\ \A i \in 1 .. Len(open) : open'[i] = open[i]
    BY <1>o, AppendProperties
  <1>2. \A i \in 1 .. Len(open) : Rank(open[i]) < Rank(m)
    <2>1. DOMAIN open = 1 .. Len(open)
      BY <1>o, LenProperties
    <2> QED BY <2>1 DEF Begin, MayNest
  <1>3. Nested'
    <2>1. ASSUME NEW i \in 1 .. Len(open'), NEW j \in 1 .. Len(open'), i < j, open'[j] # "F"
          PROVE  Rank(open'[i]) < Rank(open'[j])
      <3>1. i \in 1 .. Len(open) /\ open'[i] = open[i]
        BY <1>o, <1>1, <2>1
      <3>2. CASE j = Len(open) + 1
        BY <1>1, <1>2, <3>1, <3>2
      <3>3. CASE j # Len(open) + 1
        <4>1. j \in 1 .. Len(open) /\ open'[j] = open[j]
          BY <1>o, <1>1, <3>3
        <4> QED BY <2>1, <3>1, <4>1 DEF Nested
      <3> QED BY <3>2, <3>3
    <2> QED BY <2>1, Zenon DEF Nested
  <1> DEFINE g == Governed
             h == Governed'
             n == Len(g)
  <1>4. /\ h \in Seq(Modes) /\ Len(h) = n + 1 /\ h[n + 1] = m /\ n \in Nat
        /\ \A i \in 1 .. n : h[i] = g[i]
    BY <1>o, AppendProperties
  <1>5. \A i \in 1 .. n : \E j \in 1 .. Len(open) : open[j] = g[i]
    BY DEF Flags
  <1>6. \A i \in 1 .. n : Rank(g[i]) < Rank(m)
    BY <1>2, <1>5
  <1>7. active = {g[i] : i \in 1 .. n}
    BY DEF Flags
  <1>8. \A i, j \in 1 .. n : i < j => Rank(g[i]) < Rank(g[j])
    BY DEF Flags
  <1>9. \A j \in 1 .. Len(open) : open[j] # "F" => open[j] \in active
    BY DEF Flags
  <1> HIDE DEF g, h, n
  <1>10. active' = {h[i] : i \in 1 .. n + 1}
    BY <1>4, <1>7
  <1>11. \A i \in 1 .. n + 1 : \E j \in 1 .. Len(open') : open'[j] = h[i]
    <2> SUFFICES ASSUME NEW i \in 1 .. n + 1 PROVE \E j \in 1 .. Len(open') : open'[j] = h[i]
      OBVIOUS
    <2>1. CASE i = n + 1
      <3>1. Len(open) + 1 \in 1 .. Len(open') /\ open'[Len(open) + 1] = h[i]
        BY <1>o, <1>1, <1>4, <2>1
      <3> QED BY <3>1
    <2>2. CASE i # n + 1
      <3>1. i \in 1 .. n
        BY <1>4, <2>2
      <3>2. PICK j \in 1 .. Len(open) : open[j] = g[i]
        BY <1>5, <3>1
      <3> QED BY <1>o, <1>1, <1>4, <3>1, <3>2
    <2> QED BY <2>1, <2>2
  <1>12. \A j \in 1 .. Len(open') : open'[j] # "F" => open'[j] \in active'
    BY <1>o, <1>1, <1>9
  <1>13. \A i, j \in 1 .. n + 1 : i < j => Rank(h[i]) < Rank(h[j])
    BY <1>4, <1>6, <1>8
  <1>14. Flags'
    BY <1>4, <1>10, <1>11, <1>12, <1>13 DEF Flags, h
  <1>15. m \notin active /\ "S" \notin active
    <2>1. \A i \in 1 .. n : g[i] # m /\ g[i] # "S"
      BY <1>6, <1>4 DEF Rank
    <2> QED BY <1>7, <2>1
  <1> QED BY <1>o, <1>3, <1>14, <1>15

\* Leaving the innermost action takes its flag away, and no other mission's.
LEMMA LeaveOrdered ==
    ASSUME Typed, Ordered, open # <<>>, open' = Front(open),
           active' = active \ {Last(open)}
    PROVE  /\ Nested' /\ Flags'
           /\ Governed = IF Last(open) = "F" THEN Governed' ELSE Append(Governed', Last(open))
           /\ Governed' \in Seq(Modes)
  <1> USE DEF Ordered
  <1> DEFINE m == Last(open)
             g == Governed
             h == Governed'
             n == Len(h)
  <1>o. /\ open \in Seq(Modes) /\ Len(open) \in Nat /\ open' \in Seq(Modes) /\ m \in Modes
        /\ Len(open') = Len(open) - 1 /\ Len(open) > 0 /\ m = open[Len(open)]
        /\ \A i \in 1 .. Len(open) - 1 : open'[i] = open[i]
        /\ open = Append(open', m)
    BY FrontProperties, LenProperties DEF Typed
  <1>g. /\ h \in Seq(Modes) /\ n \in Nat
        /\ g = IF m = "F" THEN h ELSE Append(h, m)
    <2>1. Governed' = Governors(open') /\ Governed = Governors(open)
      BY DEF Governed
    <2> HIDE DEF m
    <2>2. /\ Governors(open') \in Seq(Modes)
          /\ Governors(Append(open', m)) =
                IF m = "F" THEN Governors(open') ELSE Append(Governors(open'), m)
      BY <1>o, GovernorsGrow
    <2> QED BY <1>o, <2>1, <2>2, LenProperties
  <1>5. \A i \in 1 .. Len(g) : \E j \in 1 .. Len(open) : open[j] = g[i]
    BY DEF Flags
  <1>7. active = {g[i] : i \in 1 .. Len(g)}
    BY DEF Flags
  <1>8. \A i, j \in 1 .. Len(g) : i < j => Rank(g[i]) < Rank(g[j])
    BY DEF Flags
  <1>9. \A j \in 1 .. Len(open) : open[j] # "F" => open[j] \in active
    BY DEF Flags
  <1>3. Nested'
    BY <1>o DEF Nested
  <1>4. \A i \in 1 .. n : h[i] = g[i] /\ i \in 1 .. Len(g) /\ (m # "F" => h[i] # m)
    <2>1. CASE m = "F"
      BY <1>g, <2>1
    <2>2. CASE m # "F"
      <3>1. Len(g) = n + 1 /\ g[n + 1] = m /\ \A i \in 1 .. n : g[i] = h[i]
        BY <1>g, <2>2, AppendProperties
      <3>2. \A i \in 1 .. n : Rank(g[i]) < Rank(g[n + 1])
        BY <1>8, <1>g, <3>1
      <3>3. Rank(m) \in 0 .. 3
        BY DEF Rank
      <3> QED BY <1>g, <3>1, <3>2, <3>3
    <2> QED BY <2>1, <2>2
  <1>6. Len(g) = IF m = "F" THEN n ELSE n + 1
    BY <1>g, AppendProperties
  <1>a. m # "F" => g[n + 1] = m
    BY <1>g, AppendProperties
  <1>f. \A j \in 1 .. Len(open) - 1 : open[j] # "F" => open[j] # m
    <2> SUFFICES ASSUME NEW j \in 1 .. Len(open) - 1, open[j] # "F", open[j] = m PROVE FALSE
      OBVIOUS
    <2>1. j \in 1 .. Len(open) /\ Len(open) \in 1 .. Len(open) /\ j < Len(open)
      BY <1>o
    <2>2. Rank(open[j]) < Rank(open[Len(open)])
      BY <1>o, <2>1 DEF Nested
    <2>3. Rank(m) \in 0 .. 3
      BY DEF Rank
    <2> QED BY <1>o, <2>2, <2>3
  <1>nf. \A i \in 1 .. n : h[i] # "F"
    <2>1. active \subseteq {"S", "M", "P"}
      BY DEF Typed
    <2> HIDE DEF g, h, n, m
    <2> QED BY <1>4, <1>7, <2>1
  <1> HIDE DEF g, h, n, m
  <1>m. active' = active \ {m}
    BY DEF m
  <1>10. active' = {h[i] : i \in 1 .. n}
    <2>1. ASSUME NEW x \in active, x # m PROVE \E i \in 1 .. n : h[i] = x
      <3>1. PICK i \in 1 .. Len(g) : g[i] = x
        BY <1>7, <2>1
      <3>2. i \in 1 .. n
        BY <1>g, <1>6, <1>a, <2>1, <3>1
      <3> QED BY <1>4, <3>1, <3>2
    <2>2. \A i \in 1 .. n : h[i] \in active /\ h[i] # m
      BY <1>4, <1>7, <1>nf
    <2> QED BY <1>m, <2>1, <2>2
  <1>11. \A i \in 1 .. n : \E j \in 1 .. Len(open') : open'[j] = h[i]
    <2> SUFFICES ASSUME NEW i \in 1 .. n PROVE \E j \in 1 .. Len(open') : open'[j] = h[i]
      OBVIOUS
    <2>1. h[i] = g[i] /\ i \in 1 .. Len(g) /\ h[i] # m
      BY <1>4, <1>nf
    <2>2. PICK j \in 1 .. Len(open) : open[j] = g[i]
      BY <1>5, <2>1
    <2>3. j \in 1 .. Len(open) - 1
      BY <1>o, <2>1, <2>2
    <2> QED BY <1>o, <2>1, <2>2, <2>3
  <1>12. \A j \in 1 .. Len(open') : open'[j] # "F" => open'[j] \in active'
    BY <1>o, <1>9, <1>f, <1>m
  <1>13. \A i, j \in 1 .. n : i < j => Rank(h[i]) < Rank(h[j])
    BY <1>4, <1>8
  <1>14. Flags'
    BY <1>10, <1>11, <1>12, <1>13 DEF Flags, h, n
  <1> QED BY <1>g, <1>3, <1>14 DEF g, h, m

\* The flags, the grants and the worker of the SAFE action that runs, in step
\* with the actions that are open.
LEMMA OrderedKept ==
    ASSUME ~AnyNesting, Typed, Ordered, [Next]_vars
    PROVE  Ordered'
  <1> USE DEF Ordered
  <1>t. /\ mask \in [{"S", "M", "P"} -> SUBSET Caps] /\ open \in Seq(Modes)
        /\ active \subseteq {"S", "M", "P"}
        /\ pool \in Seq(Worker) /\ Len(pool) \in Nat /\ current \in 0 .. Len(pool)
    BY LenProperties DEF Typed
  <1>u. ASSUME UNCHANGED <<active, mask, pool, current, open>> PROVE Ordered'
    <2>1. Governed' = Governed
      BY <1>u DEF Governed
    <2>2. Nested' /\ Flags' /\ Masks'
      BY <1>u, <2>1, Zenon DEF Nested, Flags, Masks
    <2>3. Pooled'
      BY <1>u, Zenon DEF Pooled
    <2> QED BY <2>2, <2>3
  <1>p. ASSUME UNCHANGED <<pool, current>>, "S" \in active => "S" \in active' PROVE Pooled'
    BY <1>p DEF Pooled
  <1>1. CASE FastEnter
    <2>1. open' = Append(open, "F") /\ UNCHANGED <<active, mask, pool, current>>
      BY <1>1 DEF FastEnter, Begin, PoolVars
    <2>2. Governed' = Governed
      BY <1>t, <2>1, GovernorsGrow DEF Governed
    <2>3. /\ Len(open) \in Nat /\ Len(open') = Len(open) + 1 /\ open'[Len(open) + 1] = "F"
          /\ \A i \in 1 .. Len(open) : open'[i] = open[i]
      BY <1>t, <2>1, AppendProperties, LenProperties
    <2>4. \A j \in 1 .. Len(open') : open'[j] # "F" => j \in 1 .. Len(open)
      BY <2>3
    <2>5. Nested'
      <3>1. ASSUME NEW i \in 1 .. Len(open'), NEW j \in 1 .. Len(open'), i < j, open'[j] # "F"
            PROVE  Rank(open'[i]) < Rank(open'[j])
        <4>1. j \in 1 .. Len(open) /\ i \in 1 .. Len(open)
          BY <2>3, <2>4, <3>1
        <4>2. open'[i] = open[i] /\ open'[j] = open[j]
          BY <2>3, <4>1
        <4> QED BY <3>1, <4>1, <4>2 DEF Nested
      <3> QED BY <3>1, Zenon DEF Nested
    <2>6. \A j \in 1 .. Len(open') : open'[j] # "F" => open'[j] \in active'
      BY <2>1, <2>3, <2>4 DEF Flags
    <2>7. \A i \in 1 .. Len(Governed) : \E j \in 1 .. Len(open') : open'[j] = Governed[i]
      <3> SUFFICES ASSUME NEW i \in 1 .. Len(Governed)
                   PROVE  \E j \in 1 .. Len(open') : open'[j] = Governed[i]
        OBVIOUS
      <3>1. PICK j \in 1 .. Len(open) : open[j] = Governed[i]
        BY DEF Flags
      <3> QED BY <2>3, <3>1
    <2>8. Flags'
      <3>1. /\ active' = {Governed[i] : i \in 1 .. Len(Governed)}
            /\ \A i, j \in 1 .. Len(Governed) : i < j => Rank(Governed[i]) < Rank(Governed[j])
        BY <2>1, Zenon DEF Flags
      <3> QED BY <2>2, <2>6, <2>7, <3>1, Zenon DEF Flags
    <2>9. Masks'
      BY <2>1, Zenon DEF Masks
    <2> QED BY <1>p, <2>1, <2>5, <2>8, <2>9
  <1>g. ASSUME NEW m \in {"S", "M", "P"}, Begin(m), active' = active \cup {m},
               mask' = [mask EXCEPT ![m] = Entry(m)]
        PROVE  Nested' /\ Flags' /\ Masks' /\ "S" \notin active
    <2>1. Nested' /\ Flags' /\ "S" \notin active
      BY <1>g, EnterOrdered
    <2>2. \A k \in {"S", "M", "P"} : mask'[k] = IF k = m THEN Entry(m) ELSE mask[k]
      BY <1>g, <1>t
    <2>3. \A k \in active' \ {"S"} : mask'[k] = Entry(k)
      BY <1>g, <1>t, <2>2 DEF Masks
    <2>4. mask'["S"] \subseteq {"FILE_READ", "NET_CONNECT"}
      BY <2>2 DEF Masks, Entry
    <2> QED BY <2>1, <2>3, <2>4 DEF Masks
  <1>2. CASE PersistEnter
    <2>1. Nested' /\ Flags' /\ Masks'
      BY <1>2, <1>g DEF PersistEnter
    <2> QED BY <1>2, <1>p, <2>1 DEF PersistEnter, PoolVars
  <1>3. ASSUME NEW n \in Chunks, SmartEnter(n) PROVE Ordered'
    <2>1. Nested' /\ Flags' /\ Masks'
      BY <1>3, <1>g DEF SmartEnter
    <2> QED BY <1>3, <1>p, <2>1 DEF SmartEnter, PoolVars
  <1>4. CASE SafeEnter
    <2>1. Nested' /\ Flags' /\ Masks' /\ "S" \notin active
      BY <1>4, <1>g DEF SafeEnter
    <2> DEFINE a == Acquired
    <2>2. \A i \in 1 .. Len(a.pool) : i # a.worker => Quiet(a.pool[i])
      <3>1. \A i \in 1 .. Len(pool) : Quiet(pool[i])
        BY <2>1 DEF Pooled
      <3> QED BY <3>1, AcquiredPool
    <2>3. a.pool \in Seq(Worker) /\ Len(a.pool) \in Nat /\ a.worker \in 0 .. Len(a.pool)
      BY AcquiredPool, LenProperties
    <2>4. /\ current' = a.worker /\ "S" \in active'
          /\ pool' = IF a.worker = 0 THEN a.pool ELSE [a.pool EXCEPT ![a.worker].chan = TRUE]
      BY <1>4 DEF SafeEnter
    <2> HIDE DEF a
    <2>5. Len(pool') = Len(a.pool) /\ \A i \in 1 .. Len(a.pool) : i # a.worker => pool'[i] = a.pool[i]
      <3>1. CASE a.worker = 0
        BY <2>4, <3>1
      <3>2. CASE a.worker # 0
        <4> DEFINE w == [a.pool[a.worker] EXCEPT !.chan = TRUE]
        <4>1. a.worker \in 1 .. Len(a.pool) /\ pool' = [a.pool EXCEPT ![a.worker] = w]
          BY <2>3, <2>4, <3>2
        <4>2. a.pool[a.worker] \in Worker
          BY <2>3, <4>1, ElementOfSeq
        <4>3. w \in Worker
          BY <4>2 DEF Worker
        <4> HIDE DEF w
        <4> QED BY <2>3, <4>1, <4>3, ExceptSeq
      <3> QED BY <3>1, <3>2
    <2>6. Pooled'
      BY <2>2, <2>3, <2>4, <2>5 DEF Pooled
    <2> QED BY <2>1, <2>6
  <1>5. CASE Exit
    <2>1. open # <<>> /\ open' = Front(open) /\ active' = active \ {Last(open)}
      BY <1>5 DEF Exit, Cleared
    <2>2. Nested' /\ Flags'
      BY <2>1, LeaveOrdered
    <2>3. Last(open) \in Modes
      BY <1>t, <2>1, FrontProperties
    <2>4. mask' = IF Last(open) = "F" THEN mask ELSE [mask EXCEPT ![Last(open)] = {}]
      BY <1>5 DEF Exit, Cleared
    <2>5. Masks'
      BY <1>t, <2>1, <2>3, <2>4 DEF Masks
    <2>6. Pooled'
      <3>1. CASE Last(open) # "S"
        BY <1>5, <1>p, <2>1, <3>1 DEF Exit
      <3>2. CASE Last(open) = "S" /\ current = 0
        <4>1. \A i \in 1 .. Len(pool) : Quiet(pool[i])
          BY <3>2 DEF Pooled
        <4>2. pool' = pool
          BY <1>5, <3>2 DEF Exit, Released
        <4> QED BY <4>1, <4>2 DEF Pooled
      <3>3. CASE Last(open) = "S" /\ current # 0
        <4> DEFINE w == [state |-> "idle", beat |-> now, chan |-> FALSE]
        <4>1. pool' = [pool EXCEPT ![current] = w]
          BY <1>5, <3>3 DEF Exit, Released
        <4>2. w \in Worker /\ current \in 1 .. Len(pool) /\ Quiet(w)
          BY <1>t, <3>3 DEF Typed, Worker, Quiet
        <4> HIDE DEF w
        <4>3. /\ Len(pool') = Len(pool) /\ pool'[current] = w
              /\ \A i \in 1 .. Len(pool) : i # current => pool'[i] = pool[i]
          BY <1>t, <4>1, <4>2, ExceptSeq
        <4>4. \A i \in 1 .. Len(pool) : i # current => Quiet(pool[i])
          BY DEF Pooled
        <4>5. \A i \in 1 .. Len(pool') : Quiet(pool'[i])
          BY <4>2, <4>3, <4>4
        <4> QED BY <4>5 DEF Pooled
      <3> QED BY <3>1, <3>2, <3>3
    <2> QED BY <2>2, <2>5, <2>6
  <1>6. ASSUME NEW c \in Caps, Grant(c) PROVE Ordered'
    <2>1. UNCHANGED <<active, pool, current, open>>
      BY <1>6 DEF Grant, PoolVars
    <2>2. Governed' = Governed
      BY <2>1 DEF Governed
    <2>3. Nested' /\ Flags'
      BY <2>1, <2>2, Zenon DEF Nested, Flags
    <2>4. c \in {"FILE_READ", "NET_CONNECT"} /\ mask' = [mask EXCEPT !["S"] = @ \cup {c}]
      BY <1>6 DEF Grant
    <2>5. Masks'
      BY <1>t, <2>1, <2>4 DEF Masks
    <2> QED BY <1>p, <2>1, <2>3, <2>5
  <1>7. CASE Starve \/ Pass \/ \E c \in Caps : CapCheck(c)
    BY <1>7, <1>u DEF Starve, Pass, CapCheck, PoolVars
  <1>8. CASE UNCHANGED vars
    BY <1>8, <1>u DEF vars
  <1> QED BY <1>1, <1>2, <1>3, <1>4, <1>5, <1>6, <1>7, <1>8 DEF Next

LEMMA OrderedInit == Init => Ordered
  <1> SUFFICES ASSUME Init PROVE Ordered
    OBVIOUS
  <1>1. open = <<>> /\ active = {} /\ pool = <<>> /\ mask["S"] = {}
    BY DEF Init
  <1>2. Lists([i \in 0 .. 0 |-> <<>>], <<>>, 0) /\ Len(<<>>) = 0 /\ <<>> \in Seq(Modes)
    BY DEF Lists
  <1>3. Governed = <<>>
    BY <1>1, <1>2, GovernorsAre DEF Governed
  <1> QED BY <1>1, <1>3 DEF Ordered, Nested, Flags, Masks, Pooled

\* When no SAFE action runs, every worker of the pool was given back and has no
\* channel (plant_pool_acquire, plant_safe_exit), in programs that nest their
\* missions in order.
THEOREM WorkersAreQuiet ==
    ASSUME ~AnyNesting
    PROVE  Spec => []WorkersQuiet
  <1>1. Typed /\ Ordered /\ [Next]_vars => Ordered'
    BY OrderedKept
  <1>2. Typed /\ Ordered => WorkersQuiet
    <2> SUFFICES ASSUME Typed, Ordered, \A i \in DOMAIN open : open[i] # "S"
                 PROVE  \A i \in DOMAIN pool : pool[i].state # "busy" /\ ~pool[i].chan
      BY DEF WorkersQuiet
    <2>1. DOMAIN open = 1 .. Len(open) /\ DOMAIN pool = 1 .. Len(pool)
      BY LenProperties DEF Typed
    <2>2. "S" \notin active
      BY <2>1 DEF Ordered, Flags
    <2> QED BY <2>1, <2>2 DEF Ordered, Pooled, Quiet
  <1> QED BY <1>1, <1>2, TypedInit, OrderedInit, TypedKept, PTL DEF Spec

\* The grants of the governing missions are a sequence of records.
LEMMA GrantsListed ==
    ASSUME Typed, Ordered
    PROVE  /\ Governed \in Seq({"S", "M", "P"}) /\ Len(Governed) \in Nat
           /\ Len(GovernorGrants) = Len(Governed)
           /\ GovernorGrants \in Seq([mode : {"S", "M", "P"}, grants : SUBSET Caps])
  <1> DEFINE g == Governed
             n == Len(g)
  <1>1. g \in Seq(Modes) /\ n \in Nat
    BY GovernorsGrow, LenProperties DEF Governed, Typed
  <1>2. \A i \in 1 .. n : g[i] \in {"S", "M", "P"}
    BY DEF Ordered, Flags, Typed
  <1> HIDE DEF g
  <1>3. g \in Seq({"S", "M", "P"})
    <2>1. g \in [1 .. n -> {"S", "M", "P"}]
      BY <1>1, <1>2
    <2> QED BY <1>1, <2>1, IsASeq
  <1> DEFINE r(i) == [mode |-> g[i], grants |-> IF g[i] = "S" THEN mask["S"] ELSE Entry(g[i])]
             R == [mode : {"S", "M", "P"}, grants : SUBSET Caps]
  <1>4. \A i \in 1 .. n : r(i) \in R
    BY <1>2, EntryIsGrant DEF Typed
  <1>5. GovernorGrants = [i \in 1 .. n |-> r(i)]
    BY DEF GovernorGrants, g
  <1> HIDE DEF r, R, n
  <1>6. GovernorGrants \in Seq(R) /\ Len(GovernorGrants) = n
    <2>1. GovernorGrants \in [1 .. n -> R]
      BY <1>4, <1>5
    <2> QED BY <1>1, <1>4, <1>5, IsASeq
  <1> QED BY <1>1, <1>3, <1>6 DEF g, R, n

\* A mission that is entered comes last, with the grants of its entry.
LEMMA GrantsEntered ==
    ASSUME Typed, Ordered, Typed', Ordered', NEW m \in {"S", "M", "P"},
           Governed' = Append(Governed, m),
           mask' = [mask EXCEPT ![m] = Entry(m)], m \notin active
    PROVE  GovernorGrants' = Append(GovernorGrants, [mode |-> m, grants |-> G!Default(m)])
  <1> DEFINE g == Governed
             n == Len(g)
             x == [mode |-> m, grants |-> G!Default(m)]
             s == GovernorGrants
  <1>1. /\ g \in Seq({"S", "M", "P"}) /\ n \in Nat /\ Len(s) = n
        /\ s \in Seq([mode : {"S", "M", "P"}, grants : SUBSET Caps])
    BY GrantsListed
  <1>2. /\ Len(Governed') = n + 1 /\ Governed'[n + 1] = m
        /\ \A i \in 1 .. n : Governed'[i] = g[i]
    BY <1>1, AppendProperties
  <1>3. \A i \in 1 .. n : g[i] # m
    BY DEF Ordered, Flags
  <1>4. x.grants = Entry(m)
    BY DEF G!Default, Entry
  <1>5. mask \in [{"S", "M", "P"} -> SUBSET Caps]
    BY DEF Typed
  <1>6. \A i \in 1 .. n + 1 :
           GovernorGrants'[i] = IF i = n + 1 THEN x ELSE s[i]
    <2> SUFFICES ASSUME NEW i \in 1 .. n + 1
                 PROVE  GovernorGrants'[i] = IF i = n + 1 THEN x ELSE s[i]
      OBVIOUS
    <2>1. GovernorGrants'[i] =
             [mode |-> Governed'[i],
              grants |-> IF Governed'[i] = "S" THEN mask'["S"] ELSE Entry(Governed'[i])]
      BY <1>2 DEF GovernorGrants
    <2>2. CASE i = n + 1
      <3>1. Governed'[i] = m /\ (m = "S" => mask'["S"] = Entry(m))
        BY <1>2, <1>5, <2>2
      <3>2. (IF m = "S" THEN mask'["S"] ELSE Entry(m)) = x.grants
        BY <1>4, <3>1
      <3> QED BY <2>1, <2>2, <3>1, <3>2
    <2>3. CASE i # n + 1
      <3>1. i \in 1 .. n /\ Governed'[i] = g[i] /\ g[i] # m
        BY <1>1, <1>2, <1>3, <2>3
      <3>2. s[i] = [mode |-> g[i], grants |-> IF g[i] = "S" THEN mask["S"] ELSE Entry(g[i])]
        BY <3>1 DEF GovernorGrants
      <3>3. g[i] = "S" => mask'["S"] = mask["S"]
        BY <1>5, <3>1
      <3> QED BY <2>1, <2>3, <3>1, <3>2, <3>3
    <2> QED BY <2>2, <2>3
  <1>7. GovernorGrants' = [i \in 1 .. n + 1 |-> GovernorGrants'[i]]
    BY <1>2 DEF GovernorGrants
  <1> DEFINE R == [mode : {"S", "M", "P"}, grants : SUBSET Caps]
  <1>x. x \in R /\ s \in Seq(R)
    BY <1>1, <1>4, EntryIsGrant
  <1> HIDE DEF n, g, x, s, R
  <1>8. Append(s, x) = [i \in 1 .. n + 1 |-> IF i = n + 1 THEN x ELSE s[i]]
    <2>1. /\ Append(s, x) \in Seq(R) /\ Len(Append(s, x)) = n + 1
          /\ Append(s, x)[n + 1] = x /\ \A i \in 1 .. n : Append(s, x)[i] = s[i]
      BY <1>1, <1>x, AppendProperties
    <2>2. Append(s, x) \in [1 .. n + 1 -> R]
      BY <2>1, LenProperties
    <2>3. \A i \in 1 .. n + 1 : Append(s, x)[i] = IF i = n + 1 THEN x ELSE s[i]
      BY <1>1, <2>1
    <2> HIDE DEF R
    <2> QED BY <2>2, <2>3
  <1>9. GovernorGrants' = [i \in 1 .. n + 1 |-> IF i = n + 1 THEN x ELSE s[i]]
    BY <1>6, <1>7
  <1> QED BY <1>8, <1>9 DEF s, x

\* Without the last mission the grants lose their last record.
LEMMA GrantsLeft ==
    ASSUME Typed, Ordered, Typed', Ordered', NEW m \in {"S", "M", "P"},
           Governed' \in Seq(Modes), Governed = Append(Governed', m), active' = active \ {m},
           mask' = [mask EXCEPT ![m] = {}]
    PROVE  /\ GovernorGrants # <<>>
           /\ GovernorGrants' = SubSeq(GovernorGrants, 1, Len(GovernorGrants) - 1)
  <1> DEFINE h == Governed'
             n == Len(h)
             s == GovernorGrants
             R == [mode : {"S", "M", "P"}, grants : SUBSET Caps]
  <1>1. /\ n \in Nat /\ Len(Governed) = n + 1
        /\ \A i \in 1 .. n : Governed[i] = h[i]
    BY AppendProperties, LenProperties
  <1>2. s \in Seq(R) /\ Len(s) = n + 1
    BY <1>1, GrantsListed
  <1>3. \A i \in 1 .. n : h[i] # m
    <2>1. \A i \in 1 .. n : h[i] \in active'
      BY DEF Ordered, Flags
    <2> QED BY <2>1
  <1>5. mask \in [{"S", "M", "P"} -> SUBSET Caps]
    BY DEF Typed
  <1>6. \A i \in 1 .. n : GovernorGrants'[i] = s[i]
    <2> SUFFICES ASSUME NEW i \in 1 .. n PROVE GovernorGrants'[i] = s[i]
      OBVIOUS
    <2>1. GovernorGrants'[i] =
             [mode |-> h[i], grants |-> IF h[i] = "S" THEN mask'["S"] ELSE Entry(h[i])]
      BY DEF GovernorGrants
    <2>2. s[i] = [mode |-> h[i], grants |-> IF h[i] = "S" THEN mask["S"] ELSE Entry(h[i])]
      BY <1>1 DEF GovernorGrants
    <2>3. h[i] = "S" => mask'["S"] = mask["S"]
      BY <1>3, <1>5
    <2> QED BY <2>1, <2>2, <2>3
  <1>7. GovernorGrants' = [i \in 1 .. n |-> GovernorGrants'[i]]
    BY DEF GovernorGrants
  <1> HIDE DEF n, h, s, R
  <1>8. SubSeq(s, 1, Len(s) - 1) = [i \in 1 .. n |-> s[i]]
    <2>1. Len(s) - 1 = n
      BY <1>1, <1>2
    <2>2. SubSeq(s, 1, n) = [i \in 1 .. n |-> s[i]]
      BY <1>1 DEF SubSeq
    <2> QED BY <2>1, <2>2
  <1>9. s # <<>>
    BY <1>1, <1>2
  <1> QED BY <1>6, <1>7, <1>8, <1>9 DEF s

\* A SAFE mission's grants grow in the last record, when it is the governor.
LEMMA GrantsGranted ==
    ASSUME Typed, Ordered, NEW c \in {"FILE_READ", "NET_CONNECT"},
           UNCHANGED <<active, open, answer>>, mask' = [mask EXCEPT !["S"] = @ \cup {c}]
    PROVE  GovernorGrants' = GovernorGrants \/ G!GrantCap(c)
  <1> DEFINE g == Governed
             n == Len(g)
             s == GovernorGrants
             R == [mode : {"S", "M", "P"}, grants : SUBSET Caps]
  <1>1. g \in Seq({"S", "M", "P"}) /\ n \in Nat /\ s \in Seq(R) /\ Len(s) = n
    BY GrantsListed
  <1>2. Governed' = g
    BY DEF Governed
  <1>5. mask \in [{"S", "M", "P"} -> SUBSET Caps] /\ mask'["S"] = mask["S"] \cup {c}
    BY DEF Typed
  <1>6. s = [i \in 1 .. n |-> [mode |-> g[i],
                               grants |-> IF g[i] = "S" THEN mask["S"] ELSE Entry(g[i])]]
    BY DEF GovernorGrants
  <1>7. s' = [i \in 1 .. n |-> [mode |-> g[i],
                                grants |-> IF g[i] = "S" THEN mask'["S"] ELSE Entry(g[i])]]
    BY <1>2, Zenon DEF GovernorGrants
  <1>o. \A i, j \in 1 .. n : i < j => Rank(g[i]) < Rank(g[j])
    BY DEF Ordered, Flags
  <1>r. \A i \in 1 .. n : g[i] \in {"S", "M", "P"}
    BY <1>1, ElementOfSeq
  <1> HIDE DEF n, g, s, R
  <1>8. \A i \in 1 .. n : g[i] = "S" => i = n
    <2> SUFFICES ASSUME NEW i \in 1 .. n, g[i] = "S", i # n PROVE FALSE
      OBVIOUS
    <2>1. i < n /\ n \in 1 .. n
      BY <1>1
    <2>2. Rank("S") < Rank(g[n])
      BY <1>o, <2>1
    <2> QED BY <1>r, <2>1, <2>2 DEF Rank
  <1>9. CASE \A i \in 1 .. n : g[i] # "S"
    <2>1. \A i \in 1 .. n : s'[i] = s[i]
      BY <1>6, <1>7, <1>9
    <2>2. s' = s
      BY <1>6, <1>7, <1>9
    <2> QED BY <2>2 DEF s
  <1>10. CASE \E i \in 1 .. n : g[i] = "S"
    <2>1. n \in 1 .. n /\ g[n] = "S"
      BY <1>8, <1>10
    <2>a. s[n] = [mode |-> "S", grants |-> mask["S"]]
      BY <1>6, <2>1
    <2>2. s # <<>> /\ s[n].mode = "S" /\ Len(s) = n
      BY <1>1, <2>1, <2>a
    <2>3. s' = [s EXCEPT ![n].grants = @ \cup {c}]
      <3> DEFINE q == [s EXCEPT ![n].grants = @ \cup {c}]
      <3>1. q = [i \in 1 .. n |-> IF i = n THEN [s[n] EXCEPT !.grants = @ \cup {c}] ELSE s[i]]
        BY <1>6, <2>1
      <3>2. [s[n] EXCEPT !.grants = @ \cup {c}] = [mode |-> "S", grants |-> mask'["S"]]
        BY <1>5, <2>a
      <3>3. s' = [i \in 1 .. n |-> IF i = n THEN [mode |-> "S", grants |-> mask'["S"]] ELSE s[i]]
        BY <1>6, <1>7, <1>8, <2>1
      <3> QED BY <3>1, <3>2, <3>3
    <2>4. c \in G!Grantable
      BY DEF G!Grantable
    <2> QED BY <2>2, <2>3, <2>4 DEF G!GrantCap, s
  <1> QED BY <1>9, <1>10

\* plant_cap_check reads the flags in the order of the missions' ranks, so it
\* answers for the governor.
LEMMA GrantedByGovernor ==
    ASSUME Typed, Ordered, NEW c
    PROVE  Granted(c) = (c \in G!Governing)
  <1> DEFINE g == Governed
             n == Len(g)
             s == GovernorGrants
  <1>1. g \in Seq({"S", "M", "P"}) /\ n \in Nat /\ Len(s) = n
    BY GrantsListed
  <1>2. \A i \in 1 .. n : g[i] \in {"S", "M", "P"}
    BY <1>1, ElementOfSeq
  <1>3. active = {g[i] : i \in 1 .. n}
    BY DEF Ordered, Flags
  <1>4. \A i, j \in 1 .. n : i < j => Rank(g[i]) < Rank(g[j])
    BY DEF Ordered, Flags
  <1>5. n # 0 => s[n].grants = IF g[n] = "S" THEN mask["S"] ELSE Entry(g[n])
    BY <1>1 DEF GovernorGrants
  <1>6. s = <<>> <=> n = 0
    <2>1. s \in Seq([mode : {"S", "M", "P"}, grants : SUBSET Caps])
      BY GrantsListed
    <2> HIDE DEF s, n
    <2> QED BY <1>1, <2>1
  <1>7. G!Governing = IF s = <<>> THEN G!Default("B") ELSE s[n].grants
    BY <1>1 DEF G!Governing
  <1> HIDE DEF g, n, s
  <1>8. ASSUME NEW m \in active PROVE n \in 1 .. n /\ (m = g[n] \/ Rank(m) < Rank(g[n]))
    <2>1. PICK i \in 1 .. n : g[i] = m
      BY <1>3
    <2>2. n \in 1 .. n /\ (i = n \/ i < n)
      BY <1>1
    <2> QED BY <1>4, <2>1, <2>2
  <1>9. CASE "S" \in active
    <2>1. g[n] = "S" /\ n # 0
      BY <1>2, <1>8, <1>9 DEF Rank
    <2> QED BY <1>5, <1>6, <1>7, <1>9, <2>1 DEF Granted, Ordered, Masks
  <1>10. CASE "S" \notin active /\ "M" \in active
    <2>1. n \in 1 .. n /\ g[n] \in active
      BY <1>3, <1>8, <1>10
    <2>2. g[n] = "M" /\ n # 0
      BY <1>2, <1>8, <1>10, <2>1 DEF Rank
    <2>3. mask["M"] = Entry("M")
      BY <1>10 DEF Ordered, Masks
    <2> QED BY <1>5, <1>6, <1>7, <1>10, <2>2, <2>3 DEF Granted
  <1>11. CASE "S" \notin active /\ "M" \notin active /\ "P" \in active
    <2>1. n \in 1 .. n /\ g[n] \in active
      BY <1>3, <1>8, <1>11
    <2>2. g[n] = "P" /\ n # 0
      BY <1>2, <1>11, <2>1
    <2>3. mask["P"] = Entry("P")
      BY <1>11 DEF Ordered, Masks
    <2> QED BY <1>5, <1>6, <1>7, <1>11, <2>2, <2>3 DEF Granted
  <1>12. CASE "S" \notin active /\ "M" \notin active /\ "P" \notin active
    <2>1. n = 0
      <3>1. n # 0 => g[n] \in active /\ g[n] \in {"S", "M", "P"}
        BY <1>1, <1>2, <1>3
      <3> QED BY <1>12, <3>1
    <2>2. G!Governing = {"FILE_READ", "FILE_WRITE", "NET_CONNECT"}
      BY <1>6, <1>7, <2>1 DEF G!Default
    <2> QED BY <1>12, <2>2 DEF Granted
  <1> QED BY <1>9, <1>10, <1>11, <1>12

\* Every step enters or leaves a mission, grants to the governor, checks a
\* capability, or changes nothing that the grants tell.
LEMMA GrantsStep ==
    ASSUME ~AnyNesting, Typed, Ordered, Typed', Ordered', [Next]_vars
    PROVE  [G!GrantsNext]_(G!gvars)
  <1>u. ASSUME UNCHANGED <<open, mask, answer>> PROVE UNCHANGED <<GovernorGrants, answer>>
    BY <1>u DEF GovernorGrants, Governed
  <1>m. ASSUME NEW m \in {"S", "M", "P"}, Begin(m), active' = active \cup {m},
               mask' = [mask EXCEPT ![m] = Entry(m)], UNCHANGED answer
        PROVE  G!GrantsNext
    <2>1. Governed' = Append(Governed, m) /\ m \notin active
      BY <1>m, EnterOrdered
    <2>2. GovernorGrants' = Append(GovernorGrants, [mode |-> m, grants |-> G!Default(m)])
      BY <1>m, <2>1, GrantsEntered
    <2>3. G!EnterMission(m)
      BY <1>m, <2>2 DEF G!EnterMission
    <2> QED BY <2>3 DEF G!GrantsNext
  <1>1. CASE FastEnter
    <2>1. open' = Append(open, "F") /\ UNCHANGED <<mask, answer>>
      BY <1>1 DEF FastEnter, Begin
    <2>2. Governed' = Governed
      BY <2>1, GovernorsGrow DEF Governed, Typed
    <2>3. UNCHANGED GovernorGrants
      BY <2>1, <2>2 DEF GovernorGrants
    <2> QED BY <2>1, <2>3 DEF G!gvars
  <1>2. CASE PersistEnter
    BY <1>2, <1>m DEF PersistEnter
  <1>3. ASSUME NEW n \in Chunks, SmartEnter(n) PROVE G!GrantsNext
    BY <1>3, <1>m DEF SmartEnter
  <1>4. CASE SafeEnter
    BY <1>4, <1>m DEF SafeEnter
  <1>5. CASE Exit
    <2>1. /\ open # <<>> /\ open' = Front(open) /\ active' = active \ {Last(open)}
          /\ mask' = IF Last(open) = "F" THEN mask ELSE [mask EXCEPT ![Last(open)] = {}]
          /\ UNCHANGED answer
      BY <1>5 DEF Exit, Cleared
    <2>2. /\ Governed = IF Last(open) = "F" THEN Governed' ELSE Append(Governed', Last(open))
          /\ Governed' \in Seq(Modes)
      BY <2>1, LeaveOrdered
    <2>3. Last(open) \in Modes
      BY <2>1, FrontProperties DEF Typed
    <2>4. CASE Last(open) = "F"
      <3>1. UNCHANGED GovernorGrants
        BY <2>1, <2>2, <2>4 DEF GovernorGrants
      <3> QED BY <2>1, <3>1 DEF G!gvars
    <2>5. CASE Last(open) # "F"
      <3>1. /\ GovernorGrants # <<>>
            /\ GovernorGrants' = SubSeq(GovernorGrants, 1, Len(GovernorGrants) - 1)
        BY <2>1, <2>2, <2>3, <2>5, GrantsLeft
      <3> QED BY <2>1, <3>1 DEF G!GrantsNext, G!LeaveMission
    <2> QED BY <2>4, <2>5
  <1>6. ASSUME NEW c \in Caps, Grant(c) PROVE G!GrantsNext \/ UNCHANGED G!gvars
    <2>1. GovernorGrants' = GovernorGrants \/ G!GrantCap(c)
      BY <1>6, GrantsGranted DEF Grant
    <2>2. UNCHANGED answer
      BY <1>6 DEF Grant
    <2>3. c \in G!Caps
      BY DEF G!Caps, Caps
    <2> QED BY <2>1, <2>2, <2>3 DEF G!GrantsNext, G!gvars
  <1>7. ASSUME NEW c \in Caps, CapCheck(c) PROVE G!GrantsNext
    <2>1. answer' = <<c, c \in G!Governing>>
      BY <1>7, GrantedByGovernor DEF CapCheck
    <2>2. UNCHANGED GovernorGrants
      BY <1>7 DEF CapCheck, GovernorGrants, Governed
    <2>3. c \in G!Caps
      BY DEF G!Caps, Caps
    <2> QED BY <2>1, <2>2, <2>3 DEF G!GrantsNext, G!CheckCap
  <1>8. CASE Starve \/ Pass
    BY <1>8, <1>u DEF Starve, Pass, G!gvars
  <1>9. CASE UNCHANGED vars
    BY <1>9, <1>u DEF vars, G!gvars
  <1> QED BY <1>1, <1>2, <1>3, <1>4, <1>5, <1>6, <1>7, <1>8, <1>9 DEF Next

\* Capability checks answer by the grants of the innermost mission: the flags
\* and masks of plant_cap_check implement a stack of missions with grants of
\* their own, in programs that nest their missions in order.
THEOREM GrantsFollow ==
    ASSUME ~AnyNesting
    PROVE  Spec => GrantsFollowInnermost
  <1>1. Init => G!GrantsInit
    <2> SUFFICES ASSUME Init PROVE G!GrantsInit
      OBVIOUS
    <2>1. Lists([i \in 0 .. 0 |-> <<>>], <<>>, 0) /\ Len(<<>>) = 0 /\ <<>> \in Seq(Modes)
      BY DEF Lists
    <2> DEFINE f == [i \in 0 .. 0 |-> <<>>]
    <2>2. Governors(<<>>) = f[0]
      <3> HIDE DEF f
      <3>1. Lists(f, <<>>, Len(<<>>))
        BY <2>1 DEF f
      <3>2. Governors(<<>>) = f[Len(<<>>)]
        BY <2>1, <3>1, GovernorsAre
      <3> QED BY <2>1, <3>2
    <2>3. Governed = <<>> /\ answer = <<>>
      BY <2>2 DEF Governed, Init
    <2> QED BY <2>3 DEF GovernorGrants, G!GrantsInit
  <1>2. Typed /\ Ordered /\ [Next]_vars => Ordered'
    BY OrderedKept
  <1>3. Typed /\ Ordered /\ Typed' /\ Ordered' /\ [Next]_vars => [G!GrantsNext]_(G!gvars)
    BY GrantsStep
  <1> QED BY <1>1, <1>2, <1>3, TypedInit, OrderedInit, TypedKept,
             PTL DEF Spec, GrantsFollowInnermost, G!GrantsSpec
==============================================================================
