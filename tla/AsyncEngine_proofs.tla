------------------------- MODULE AsyncEngine_proofs -------------------------
(***************************************************************************)
(* Proofs about AsyncEngine, for programs that keep to Careful.            *)
(***************************************************************************)
EXTENDS AsyncEngine, ProofLemmas

----------------------------------------------------------------------------
(* The inductive invariant *)

Record == [status : {"ready", "suspended", "done"}, prio : 0 .. 2, parent : 0 .. MaxTasks,
           aw : 0 .. MaxTasks, ctx : CtxId, act : Acts \cup {""}, fatal : BOOLEAN]

Engine == [task : [Tid -> Record], seq : 0 .. MaxTasks, live : SUBSET Tid,
           list : [CtxId -> Seq(Tid)], rr : Seq(Tid), pq : Seq(Tid),
           mode : {"RR", "PQ"}, samples : {0, 1}, gone : SUBSET CtxId,
           reread : SUBSET (0 .. MaxTasks)]

\* Ids are handed out in order, and a parent is older than its child.
Ordered(e) ==
    /\ e.live \subseteq 1 .. e.seq
    /\ \A t \in Tid : e.task[t].parent < t

\* A parent is live and awaits its child, so the live tasks form lines.
Family(e) ==
    \A t \in e.live :
        e.task[t].parent # 0 =>
            e.task[t].parent \in e.live /\ e.task[e.task[t].parent].aw = t

\* A task awaits its own child, suspended until the child is done. A task that
\* must not run awaits nothing, and a suspended task awaits something.
Awaits(e) ==
    \A t \in e.live :
        /\ e.task[t].aw # 0 =>
             LET a == e.task[t].aw
             IN /\ a \in e.live /\ e.task[a].parent = t
                /\ \/ e.task[t].status = "suspended" /\ e.task[a].status # "done"
                   \/ e.task[t].status = "ready" /\ e.task[a].status = "done"
        /\ e.task[t].status = "suspended" => e.task[t].aw # 0
        /\ e.task[t].status = "done" => e.task[t].parent # 0
        /\ e.task[t].fatal => e.task[t].aw = 0

\* The running task is live and ready, and awaits nothing.
Runs(e, r) ==
    r # 0 => /\ r \in e.live /\ e.task[r].status = "ready"
             /\ e.task[r].aw = 0 /\ ~e.task[r].fatal

\* A list without repetition.
Once(s) == \A i, j \in 1 .. Len(s) : s[i] = s[j] => i = j

Elements(s) == {s[i] : i \in 1 .. Len(s)}

\* The tasks that wait for their turn.
Waiting(e, r) == {t \in e.live : e.task[t].status = "ready" /\ t # r}

InQueue(e) == Elements(e.rr) \cup Elements(e.pq)

Heaped(e, h) == \A j \in 2 .. Len(h) : Less(e, h[j \div 2], h[j])

\* A task is in one queue, once, and the heap is in order.
Queues(e) ==
    /\ Once(e.rr) /\ Once(e.pq) /\ Elements(e.rr) \cap Elements(e.pq) = {}
    /\ Heaped(e, e.pq)

\* What a program must keep to: it cancels nothing, or it cancels none of the
\* tasks that await the canceller and never has enough tasks to leave the
\* round-robin mode.
Careful == Cancels = {} \/ ("kin" \notin Cancels /\ MaxTasks < Threshold)

\* The engine has not left the round-robin mode.
Calm(e) == e.mode = "RR" /\ e.pq = <<>>

\* The engine between two steps, r being the running task.
Good(e, r) ==
    /\ e \in Engine /\ Ordered(e) /\ Family(e) /\ Awaits(e) /\ Runs(e, r)
    /\ Queues(e) /\ InQueue(e) = Waiting(e, r)
    /\ MaxTasks < Threshold => Calm(e)
    /\ Cancels = {} => e.reread = {}

Inv ==
    /\ Good(eng, running)
    /\ pc \in {"main", "drain", "step", "done", "exit"}
    /\ running \in 0 .. MaxTasks /\ (running # 0 <=> pc = "step")
    /\ pc = "done" /\ Calm(eng) => Waiting(eng, running) = {}

----------------------------------------------------------------------------
(* Lists without repetition *)

\* RemoveFirst takes an occurrence out, if there is one.
LEMMA RemoveIs ==
    ASSUME NEW S, NEW s \in Seq(S), NEW t
    PROVE  \/ (\A i \in 1 .. Len(s) : s[i] # t) /\ RemoveFirst(s, t) = s
           \/ \E k \in 1 .. Len(s) : s[k] = t /\ RemoveFirst(s, t) = RemoveAt(s, k)
  <1> DEFINE I == {i \in 1 .. Len(s) : s[i] = t}
  <1>1. CASE I = {}
    <2>1. ~\E i \in 1 .. Len(s) : s[i] = t
      BY <1>1
    <2> QED BY <2>1 DEF RemoveFirst
  <1>2. CASE I # {}
    <2>1. \E i \in 1 .. Len(s) : s[i] = t
      BY <1>2
    <2>2. SelectInSeq(s, LAMBDA v : v = t) = Min(I)
      BY <1>2 DEF SelectInSeq
    <2>3. RemoveFirst(s, t) = RemoveAt(s, Min(I))
      BY <2>1, <2>2 DEF RemoveFirst
    <2>4. I \in SUBSET Nat
      OBVIOUS
    <2>5. PICK n \in I : \A m \in I : n <= m
      <3> HIDE DEF I
      <3> QED BY <1>2, <2>4, LeastNatural
    <2>6. Min(I) \in I
      BY <2>5 DEF Min
    <2> QED BY <2>3, <2>6
  <1> QED BY <1>1, <1>2

LEMMA RemoveAtProperties ==
    ASSUME NEW S, NEW s \in Seq(S), NEW k \in 1 .. Len(s)
    PROVE  /\ RemoveAt(s, k) \in Seq(S) /\ Len(RemoveAt(s, k)) = Len(s) - 1
           /\ \A i \in 1 .. Len(s) - 1 : RemoveAt(s, k)[i] = IF i < k THEN s[i] ELSE s[i + 1]
  <1> DEFINE a == SubSeq(s, 1, k - 1)
             b == SubSeq(s, k + 1, Len(s))
             n == Len(s)
  <1>1. n \in Nat /\ k \in 1 .. n /\ \A i \in 1 .. n : s[i] \in S
    OBVIOUS
  <1>2. a \in Seq(S) /\ Len(a) = k - 1 /\ \A i \in 1 .. k - 1 : a[i] = s[i]
    <2>1. 1 \in Int /\ k - 1 \in Int /\ \A i \in 1 .. k - 1 : s[i] \in S
      BY <1>1
    <2> DEFINE m == k - 1
    <2>2. m \in Nat
      BY <1>1
    <2> HIDE DEF m
    <2>3. /\ SubSeq(s, 1, m) \in Seq(S)
          /\ Len(SubSeq(s, 1, m)) = IF 1 <= m THEN m - 1 + 1 ELSE 0
          /\ \A i \in 1 .. m - 1 + 1 : SubSeq(s, 1, m)[i] = s[1 + i - 1]
      BY <2>1, <2>2, SubSeqProperties DEF m
    <2>4. (IF 1 <= m THEN m - 1 + 1 ELSE 0) = m /\ m - 1 + 1 = m
      BY <2>2
    <2>5. \A i \in 1 .. m : SubSeq(s, 1, m)[i] = s[i]
      <3> SUFFICES ASSUME NEW i \in 1 .. m PROVE SubSeq(s, 1, m)[i] = s[i]
        OBVIOUS
      <3>1. 1 + i - 1 = i /\ i \in 1 .. m - 1 + 1
        BY <2>2
      <3> QED BY <2>3, <3>1
    <2> QED BY <2>3, <2>4, <2>5 DEF m
  <1>3. b \in Seq(S) /\ Len(b) = n - k /\ \A i \in 1 .. n - k : b[i] = s[k + i]
    <2> DEFINE m == k + 1
    <2>1. m \in Int /\ n \in Int /\ \A i \in m .. n : s[i] \in S
      BY <1>1
    <2>2. /\ SubSeq(s, m, n) \in Seq(S)
          /\ Len(SubSeq(s, m, n)) = IF m <= n THEN n - m + 1 ELSE 0
          /\ \A i \in 1 .. n - m + 1 : SubSeq(s, m, n)[i] = s[m + i - 1]
      <3> HIDE DEF m, n
      <3> QED BY <2>1, SubSeqProperties
    <2>3. (IF m <= n THEN n - m + 1 ELSE 0) = n - k /\ n - m + 1 = n - k
      BY <1>1
    <2>4. \A i \in 1 .. n - k : SubSeq(s, m, n)[i] = s[k + i]
      <3> SUFFICES ASSUME NEW i \in 1 .. n - k PROVE SubSeq(s, m, n)[i] = s[k + i]
        OBVIOUS
      <3>1. m + i - 1 = k + i /\ i \in 1 .. n - m + 1
        BY <1>1
      <3> HIDE DEF m
      <3> QED BY <2>2, <3>1
    <2> HIDE DEF m
    <2>5. SubSeq(s, m, n) \in Seq(S) /\ Len(SubSeq(s, m, n)) = n - k
      BY <2>2, <2>3
    <2> QED BY <2>4, <2>5 DEF m
  <1>4. RemoveAt(s, k) = a \o b
    BY DEF RemoveAt
  <1> HIDE DEF a, b, n
  <1>5. /\ a \o b \in Seq(S) /\ Len(a \o b) = Len(a) + Len(b)
        /\ \A i \in 1 .. Len(a) + Len(b) :
              (a \o b)[i] = IF i <= Len(a) THEN a[i] ELSE b[i - Len(a)]
    BY <1>2, <1>3, ConcatProperties
  <1>6. Len(a) + Len(b) = n - 1
    BY <1>1, <1>2, <1>3
  <1>7. ASSUME NEW i \in 1 .. n - 1
        PROVE  (a \o b)[i] = IF i < k THEN s[i] ELSE s[i + 1]
    <2>1. (a \o b)[i] = IF i <= k - 1 THEN a[i] ELSE b[i - (k - 1)]
      BY <1>2, <1>5, <1>6
    <2>2. CASE i < k
      <3>1. i <= k - 1 /\ i \in 1 .. k - 1
        BY <1>1, <2>2
      <3> QED BY <1>2, <2>1, <2>2, <3>1
    <2>3. CASE ~(i < k)
      <3>1. ~(i <= k - 1) /\ i - (k - 1) \in 1 .. n - k /\ k + (i - (k - 1)) = i + 1
        BY <1>1, <2>3
      <3> QED BY <1>3, <2>1, <2>3, <3>1
    <2> QED BY <2>2, <2>3
  <1>8. \A i \in 1 .. n - 1 : RemoveAt(s, k)[i] = IF i < k THEN s[i] ELSE s[i + 1]
    BY <1>4, <1>7
  <1> QED BY <1>4, <1>5, <1>6, <1>8 DEF n

\* Removal leaves every other element once.
LEMMA RemoveOnce ==
    ASSUME NEW S, NEW s \in Seq(S), NEW t
    PROVE  /\ RemoveFirst(s, t) \in Seq(S)
           /\ Once(s) => /\ Once(RemoveFirst(s, t))
                         /\ Elements(RemoveFirst(s, t)) = Elements(s) \ {t}
  <1>1. CASE (\A i \in 1 .. Len(s) : s[i] # t) /\ RemoveFirst(s, t) = s
    BY <1>1 DEF Elements
  <1>2. ASSUME NEW k \in 1 .. Len(s), s[k] = t, RemoveFirst(s, t) = RemoveAt(s, k)
        PROVE  /\ RemoveFirst(s, t) \in Seq(S)
               /\ Once(s) => /\ Once(RemoveFirst(s, t))
                             /\ Elements(RemoveFirst(s, t)) = Elements(s) \ {t}
    <2> DEFINE q == RemoveFirst(s, t)
               n == Len(s)
    <2>1. n \in Nat /\ k \in 1 .. n
      OBVIOUS
    <2>2. /\ q \in Seq(S) /\ Len(q) = n - 1
          /\ \A i \in 1 .. n - 1 : q[i] = IF i < k THEN s[i] ELSE s[i + 1]
      BY <1>2, RemoveAtProperties
    <2> HIDE DEF q, n
    <2>3. SUFFICES ASSUME Once(s) PROVE Once(q) /\ Elements(q) = Elements(s) \ {t}
      BY <2>2 DEF q
    <2>4. Once(q)
      <3> SUFFICES ASSUME NEW i \in 1 .. n - 1, NEW j \in 1 .. n - 1, q[i] = q[j] PROVE i = j
        BY <2>2 DEF Once
      <3> DEFINE up(x) == IF x < k THEN x ELSE x + 1
      <3>1. up(i) \in 1 .. n /\ up(j) \in 1 .. n /\ q[i] = s[up(i)] /\ q[j] = s[up(j)]
        BY <2>1, <2>2
      <3>2. up(i) = up(j)
        <4> HIDE DEF up
        <4> QED BY <2>3, <3>1 DEF Once, n
      <3> QED BY <2>1, <3>2
    <2>5. ASSUME NEW x \in Elements(q) PROVE x \in Elements(s) \ {t}
      <3>1. PICK i \in 1 .. n - 1 : x = q[i]
        BY <2>2 DEF Elements
      <3>2. PICK j \in 1 .. n : x = s[j] /\ j # k
        <4>1. CASE i < k
          BY <2>1, <2>2, <3>1, <4>1
        <4>2. CASE ~(i < k)
          <5>1. i + 1 \in 1 .. n /\ i + 1 # k /\ x = s[i + 1]
            BY <2>1, <2>2, <3>1, <4>2
          <5> QED BY <5>1
        <4> QED BY <4>1, <4>2
      <3> QED BY <1>2, <2>3, <3>2 DEF Once, Elements, n
    <2>6. ASSUME NEW x \in Elements(s) \ {t} PROVE x \in Elements(q)
      <3>1. PICK j \in 1 .. n : x = s[j]
        BY DEF Elements, n
      <3>2. j # k
        BY <1>2, <3>1
      <3>3. \E i \in 1 .. n - 1 : x = q[i]
        <4>1. CASE j < k
          <5>1. j \in 1 .. n - 1
            BY <2>1, <4>1
          <5> QED BY <2>2, <3>1, <4>1, <5>1
        <4>2. CASE ~(j < k)
          <5>1. j - 1 \in 1 .. n - 1 /\ ~(j - 1 < k) /\ (j - 1) + 1 = j
            BY <2>1, <3>2, <4>2
          <5> QED BY <2>2, <3>1, <5>1
        <4> QED BY <4>1, <4>2
      <3> QED BY <2>2, <3>3 DEF Elements
    <2> QED BY <2>4, <2>5, <2>6
  <1> QED BY <1>1, <1>2, RemoveIs

LEMMA AppendOnce ==
    ASSUME NEW S, NEW s \in Seq(S), NEW t \in S, Once(s), t \notin Elements(s)
    PROVE  /\ Append(s, t) \in Seq(S) /\ Once(Append(s, t))
           /\ Elements(Append(s, t)) = Elements(s) \cup {t}
           /\ Len(Append(s, t)) = Len(s) + 1
  <1> DEFINE q == Append(s, t)
             n == Len(s)
  <1>1. n \in Nat /\ q \in Seq(S) /\ Len(q) = n + 1 /\ q[n + 1] = t
        /\ \A i \in 1 .. n : q[i] = s[i]
    BY AppendProperties
  <1> HIDE DEF q, n
  <1>2. \A i \in 1 .. n + 1 : (i \in 1 .. n /\ i # n + 1) \/ i = n + 1
    BY <1>1
  <1>3. \A i \in 1 .. n : s[i] # t
    BY DEF Elements, n
  <1>4. Once(q)
    <2> SUFFICES ASSUME NEW i \in 1 .. n + 1, NEW j \in 1 .. n + 1, q[i] = q[j] PROVE i = j
      BY <1>1 DEF Once
    <2>1. CASE i = n + 1 \/ j = n + 1
      BY <1>1, <1>2, <1>3, <2>1
    <2>2. CASE i \in 1 .. n /\ j \in 1 .. n
      <3>1. s[i] = s[j]
        BY <1>1, <2>2
      <3> QED BY <2>2, <3>1 DEF Once, n
    <2> QED BY <1>2, <2>1, <2>2
  <1>5. Elements(q) = Elements(s) \cup {t}
    <2>1. Elements(q) = {q[i] : i \in 1 .. n + 1} /\ Elements(s) = {s[i] : i \in 1 .. n}
      BY <1>1 DEF Elements, n
    <2>2. \A x \in Elements(q) : x \in Elements(s) \cup {t}
      BY <1>1, <1>2, <2>1
    <2>3. \A i \in 1 .. n : i \in 1 .. n + 1 /\ s[i] = q[i]
      BY <1>1
    <2>4. Elements(s) \subseteq Elements(q)
      BY <2>1, <2>3
    <2>5. t \in Elements(q)
      <3>1. n + 1 \in 1 .. n + 1
        BY <1>1
      <3> QED BY <1>1, <2>1, <3>1
    <2> QED BY <2>2, <2>4, <2>5
  <1> QED BY <1>1, <1>4, <1>5 DEF q, n

LEMMA TailOnce ==
    ASSUME NEW S, NEW s \in Seq(S), s # <<>>, Once(s)
    PROVE  /\ Tail(s) \in Seq(S) /\ Once(Tail(s)) /\ Head(s) \in Elements(s)
           /\ Elements(Tail(s)) = Elements(s) \ {Head(s)}
  <1> DEFINE q == Tail(s)
             n == Len(s)
  <1>1. n \in Nat \ {0} /\ Head(s) = s[1]
    BY EmptySeq
  <1>2. q \in Seq(S) /\ Len(q) = n - 1 /\ \A i \in 1 .. n - 1 : q[i] = s[i + 1]
    BY HeadTailProperties
  <1> HIDE DEF q, n
  <1>3. Once(q)
    <2> SUFFICES ASSUME NEW i \in 1 .. n - 1, NEW j \in 1 .. n - 1, q[i] = q[j] PROVE i = j
      BY <1>2 DEF Once
    <2>1. s[i + 1] = s[j + 1] /\ i + 1 \in 1 .. n /\ j + 1 \in 1 .. n
      BY <1>1, <1>2
    <2>2. i + 1 = j + 1
      BY <2>1 DEF Once, n
    <2> QED BY <2>2
  <1>4. Elements(q) = {q[i] : i \in 1 .. n - 1} /\ Elements(s) = {s[i] : i \in 1 .. n}
    BY <1>2 DEF Elements, n
  <1>5. 1 \in 1 .. n
    BY <1>1
  <1>6. ASSUME NEW x \in Elements(q) PROVE x \in Elements(s) \ {s[1]}
    <2>1. PICK i \in 1 .. n - 1 : x = s[i + 1]
      BY <1>2, <1>4
    <2>2. i + 1 \in 1 .. n /\ i + 1 # 1
      BY <1>1
    <2>3. s[i + 1] # s[1]
      BY <1>5, <2>2 DEF Once, n
    <2> QED BY <1>4, <2>1, <2>2, <2>3
  <1>7. ASSUME NEW x \in Elements(s) \ {s[1]} PROVE x \in Elements(q)
    <2>1. PICK i \in 1 .. n : x = s[i]
      BY <1>4
    <2>2. i # 1
      BY <2>1
    <2>3. i - 1 \in 1 .. n - 1 /\ (i - 1) + 1 = i
      BY <1>1, <2>2
    <2>4. q[i - 1] = x
      BY <1>2, <2>1, <2>3
    <2> QED BY <1>4, <2>3, <2>4
  <1> QED BY <1>1, <1>2, <1>3, <1>4, <1>5, <1>6, <1>7 DEF q, n

----------------------------------------------------------------------------
(* The order of the tasks, and the heap *)

Tasks(e) == e.task \in [Tid -> Record]

LEMMA LessOrder ==
    ASSUME NEW e, Tasks(e)
    PROVE  /\ \A a, b \in Tid : a # b => Less(e, a, b) \/ Less(e, b, a)
           /\ \A a, b, c \in Tid : Less(e, a, b) /\ Less(e, b, c) => Less(e, a, c)
  <1>1. \A a \in Tid : e.task[a].prio \in 0 .. 2
    BY DEF Tasks, Record
  <1>2. Tid \subseteq Int /\ 0 .. 2 \subseteq Int
    BY AsyncAssumption DEF Tid
  <1>3. ASSUME NEW a \in Tid, NEW b \in Tid, a # b PROVE Less(e, a, b) \/ Less(e, b, a)
    <2>1. a \in Int /\ b \in Int /\ e.task[a].prio \in Int /\ e.task[b].prio \in Int
      BY <1>1, <1>2
    <2> QED BY <1>3, <2>1 DEF Less
  <1>4. ASSUME NEW a \in Tid, NEW b \in Tid, NEW d \in Tid, Less(e, a, b), Less(e, b, d)
        PROVE  Less(e, a, d)
    <2>1. /\ a \in Int /\ b \in Int /\ d \in Int /\ e.task[a].prio \in Int /\ e.task[b].prio \in Int
          /\ e.task[d].prio \in Int
      BY <1>1, <1>2
    <2> QED BY <1>4, <2>1 DEF Less
  <1> QED BY <1>3, <1>4

LEMMA Half ==
    ASSUME NEW i \in Nat
    PROVE  /\ i \div 2 \in Nat
           /\ i = 2 * (i \div 2) \/ i = 2 * (i \div 2) + 1
           /\ i > 1 => i \div 2 \in 1 .. i - 1
  OBVIOUS

\* q is h with two places exchanged.
Swapped(h, i, j, q) ==
    /\ q \in Seq(Tid) /\ Len(q) = Len(h) /\ Once(q) /\ Elements(q) = Elements(h)
    /\ \A k \in 1 .. Len(h) : q[k] = IF k = j THEN h[i] ELSE IF k = i THEN h[j] ELSE h[k]

LEMMA SwapOnce ==
    ASSUME NEW h \in Seq(Tid), Once(h), NEW i \in 1 .. Len(h), NEW j \in 1 .. Len(h)
    PROVE  Swapped(h, i, j, Swap(h, i, j))
  <1> DEFINE g == [h EXCEPT ![i] = h[j]]
             q == Swap(h, i, j)
             n == Len(h)
  <1>1. g \in Seq(Tid) /\ Len(g) = n /\ \A k \in 1 .. n : g[k] = IF k = i THEN h[j] ELSE h[k]
    BY ExceptSeq
  <1>2. h[i] \in Tid /\ h[j] \in Tid
    OBVIOUS
  <1>3. q = [g EXCEPT ![j] = h[i]]
    BY DEF Swap
  <1> HIDE DEF g
  <1>4. q \in Seq(Tid) /\ Len(q) = n /\ \A k \in 1 .. n : q[k] = IF k = j THEN h[i] ELSE g[k]
    <2>1. j \in 1 .. Len(g)
      BY <1>1
    <2>2. /\ [g EXCEPT ![j] = h[i]] \in Seq(Tid) /\ Len([g EXCEPT ![j] = h[i]]) = Len(g)
          /\ \A k \in 1 .. Len(g) : [g EXCEPT ![j] = h[i]][k] = IF k = j THEN h[i] ELSE g[k]
      BY <1>1, <1>2, <2>1, ExceptSeq
    <2> QED BY <1>1, <1>3, <2>2
  <1>5. \A k \in 1 .. n : q[k] = IF k = j THEN h[i] ELSE IF k = i THEN h[j] ELSE h[k]
    BY <1>1, <1>4
  <1> HIDE DEF q
  <1>6. Once(q)
    BY <1>4, <1>5 DEF Once
  <1>7. Elements(q) = Elements(h)
    <2>1. Elements(q) = {q[k] : k \in 1 .. n} /\ Elements(h) = {h[k] : k \in 1 .. n}
      BY <1>4 DEF Elements
    <2>2. \A k \in 1 .. n : \E m \in 1 .. n : q[k] = h[m]
      BY <1>5
    <2>3. q[j] = h[i] /\ q[i] = h[j] /\ \A k \in 1 .. n : k # i /\ k # j => q[k] = h[k]
      BY <1>5
    <2>4. \A k \in 1 .. n : \E m \in 1 .. n : h[k] = q[m]
      BY <2>3
    <2>5. Elements(q) \subseteq Elements(h)
      BY <2>1, <2>2
    <2>6. Elements(h) \subseteq Elements(q)
      BY <2>1, <2>4
    <2> QED BY <2>5, <2>6
  <1> QED BY <1>4, <1>5, <1>6, <1>7 DEF q, n, Swapped

\* h holds what g holds, each task once.
Shuffled(g, h) ==
    /\ h \in Seq(Tid) /\ Len(h) = Len(g) /\ Once(h) /\ Elements(h) = Elements(g)

\* The heap is in order but for the position i and its parent.
UpOk(e, g, s) ==
    /\ Shuffled(g, s.h) /\ s.i \in 1 .. Len(g)
    /\ \A j \in 2 .. Len(g) : j # s.i => Less(e, s.h[j \div 2], s.h[j])
    /\ \A j \in 2 .. Len(g) : j \div 2 = s.i /\ s.i > 1 => Less(e, s.h[s.i \div 2], s.h[j])

\* The heap is in order but for the position i and its children.
DownOk(e, g, s) ==
    /\ Shuffled(g, s.h) /\ s.i \in Nat \ {0} /\ (s.i = 1 \/ s.i <= Len(g))
    /\ \A j \in 2 .. Len(g) : j \div 2 # s.i => Less(e, s.h[j \div 2], s.h[j])
    /\ \A j \in 2 .. Len(g) : j \div 2 = s.i /\ s.i > 1 => Less(e, s.h[s.i \div 2], s.h[j])

UpDone(e, s) == ~(s.i > 1 /\ Less(e, s.h[s.i], s.h[s.i \div 2]))

DownDone(e, s) == s.i > Len(s.h) \/ LeastOf(e, s.h, s.i) = s.i

\* A swap with the parent leaves the order broken at the parent at most.
LEMMA TurnUpKeeps ==
    ASSUME NEW e, Tasks(e), NEW g, NEW h, NEW i, UpOk(e, g, [h |-> h, i |-> i]),
           i > 1, Less(e, h[i], h[i \div 2])
    PROVE  UpOk(e, g, [h |-> Swap(h, i, i \div 2), i |-> i \div 2])
  <1> DEFINE p == i \div 2
             n == Len(g)
             q == Swap(h, i, p)
             Under(a, b) == Less(e, a, b)
  <1>1. /\ Shuffled(g, h) /\ i \in 1 .. n
        /\ \A j \in 2 .. n : j # i => Less(e, h[j \div 2], h[j])
        /\ \A j \in 2 .. n : j \div 2 = i => Less(e, h[p], h[j])
    BY DEF UpOk
  <1>2. Len(h) = n /\ h \in Seq(Tid) /\ n \in Nat /\ Once(h) /\ \A j \in 1 .. n : h[j] \in Tid
    BY <1>1 DEF Shuffled
  <1>3. p \in 1 .. i - 1 /\ p \in 1 .. n /\ i \in 2 .. n /\ p # i
    BY <1>1, <1>2, Half
  <1>4. \A j \in 2 .. n : j \div 2 \in 1 .. n /\ j \in 1 .. n /\ j \div 2 # j
    <2> SUFFICES ASSUME NEW j \in 2 .. n PROVE j \div 2 \in 1 .. n /\ j \div 2 # j
      OBVIOUS
    <2>1. j \div 2 \in 1 .. j - 1
      BY <1>2, Half
    <2> QED BY <1>2, <2>1
  <1>5. Shuffled(g, q) /\ \A k \in 1 .. n : q[k] = IF k = p THEN h[i] ELSE IF k = i THEN h[p] ELSE h[k]
    <2>1. h \in Seq(Tid) /\ Once(h) /\ i \in 1 .. Len(h) /\ p \in 1 .. Len(h)
      BY <1>1, <1>2, <1>3
    <2> HIDE DEF p
    <2>2. Swapped(h, i, p, q)
      BY <2>1, SwapOnce
    <2> HIDE DEF q
    <2> QED BY <1>1, <1>2, <2>2 DEF Shuffled, Swapped
  <1>6. \A a, b, c \in Tid : Less(e, a, b) /\ Less(e, b, c) => Less(e, a, c)
    BY LessOrder
  <1>7. p # 1 => p \in 2 .. n /\ Less(e, h[p \div 2], h[p])
    BY <1>1, <1>2, <1>3
  <1>8. Less(e, h[i], h[p])
    OBVIOUS
  <1> HIDE DEF p, n, q
  <1>9. ASSUME NEW j \in 2 .. n, j # p PROVE Less(e, q[j \div 2], q[j])
    <2>1. j \div 2 \in 1 .. n /\ j \in 1 .. n /\ h[j] \in Tid /\ h[i] \in Tid /\ h[p] \in Tid
      BY <1>2, <1>3, <1>4
    <2>2. CASE j = i
      <3>1. j \div 2 = p /\ q[p] = h[i] /\ q[j] = h[p]
        BY <1>3, <1>5, <2>2 DEF p
      <3> QED BY <1>8, <3>1
    <2>3. CASE j # i /\ j \div 2 = i
      <3>1. q[j \div 2] = h[p] /\ q[j] = h[j]
        BY <1>3, <1>5, <1>9, <2>1, <2>3
      <3> QED BY <1>1, <2>3, <3>1 DEF n, p
    <2>4. CASE j # i /\ j \div 2 = p
      <3>1. q[j \div 2] = h[i] /\ q[j] = h[j]
        BY <1>3, <1>5, <1>9, <2>1, <2>4
      <3>2. Less(e, h[p], h[j])
        BY <1>1, <2>4 DEF n
      <3> QED BY <1>6, <1>8, <2>1, <3>1, <3>2
    <2>5. CASE j # i /\ j \div 2 # i /\ j \div 2 # p
      <3>1. q[j \div 2] = h[j \div 2] /\ q[j] = h[j]
        BY <1>5, <1>9, <2>1, <2>5
      <3> QED BY <1>1, <2>5, <3>1 DEF n
    <2> QED BY <2>2, <2>3, <2>4, <2>5
  <1>10. ASSUME NEW j \in 2 .. n, j \div 2 = p, p > 1 PROVE Less(e, q[p \div 2], q[j])
    <2>1. /\ p \in 2 .. n /\ Less(e, h[p \div 2], h[p])
      BY <1>3, <1>7, <1>10
    <2>2. p \div 2 \in 1 .. p - 1
      BY <1>3, <1>10, Half
    <2>3. p \div 2 \in 1 .. n /\ p \div 2 # p /\ p \div 2 # i
      <3> DEFINE x == p \div 2
      <3>1. x \in 1 .. p - 1
        BY <2>2
      <3> HIDE DEF x
      <3>2. x \in 1 .. n /\ x # p /\ x # i
        BY <1>2, <1>3, <3>1
      <3> QED BY <3>2 DEF x
    <2>4. q[p \div 2] = h[p \div 2] /\ h[p \div 2] \in Tid /\ h[p] \in Tid
      BY <1>2, <1>3, <1>5, <2>3
    <2>5. j \in 1 .. n /\ j # p
      BY <1>4, <1>10
    <2>6. CASE j = i
      <3>1. q[j] = h[p]
        BY <1>3, <1>5, <2>6
      <3> QED BY <2>1, <2>4, <3>1
    <2>7. CASE j # i
      <3>1. q[j] = h[j] /\ h[j] \in Tid
        BY <1>2, <1>5, <2>5, <2>7
      <3>2. Less(e, h[p], h[j])
        BY <1>1, <1>10, <2>7 DEF n
      <3> QED BY <1>6, <2>1, <2>4, <3>1, <3>2
    <2> QED BY <2>6, <2>7
  <1> QED BY <1>3, <1>5, <1>9, <1>10 DEF UpOk, p, q, n

LEMMA SiftUpHeap ==
    ASSUME NEW e, Tasks(e), NEW g \in Seq(Tid), Len(g) # 0,
           UpOk(e, g, [h |-> g, i |-> Len(g)])
    PROVE  Shuffled(g, SiftUp(e, g, Len(g))) /\ Heaped(e, SiftUp(e, g, Len(g)))
  <1> DEFINE n == Len(g)
             D == [h : Seq(Tid), i : 1 .. n]
             S == [k \in 0 .. n |-> {s \in D : UpOk(e, g, s) /\ (s.i + k <= n \/ UpDone(e, s))}]
             base == [h |-> g, i |-> n]
             step == [p \in (1 .. n) \X D |-> TurnUp(e, p[2])]
             Turns(f) == [k \in 0 .. n |-> IF k = 0 THEN base ELSE TurnUp(e, f[k - 1])]
             C == CHOOSE f : f = Turns(f)
  <1>1. n \in Nat \ {0} /\ g \in Seq(Tid)
    OBVIOUS
  <1>2. base \in S[0]
    <2>1. base \in D /\ base.i + 0 <= n /\ 0 \in 0 .. n
      BY <1>1
    <2> QED BY <2>1
  <1>3. ASSUME NEW k \in 1 .. n, NEW s \in S[k - 1] PROVE s \in D /\ TurnUp(e, s) \in S[k]
    <2>1. k - 1 \in 0 .. n /\ k \in 0 .. n
      BY <1>1
    <2>2. s \in D /\ UpOk(e, g, s) /\ (s.i + (k - 1) <= n \/ UpDone(e, s))
      BY <1>3, <2>1
    <2>3. s = [h |-> s.h, i |-> s.i] /\ s.i \in 1 .. n
      BY <2>2
    <2>4. CASE UpDone(e, s)
      <3>1. TurnUp(e, s) = s
        BY <2>4 DEF UpDone, TurnUp
      <3> HIDE DEF D, n
      <3> QED BY <2>1, <2>2, <2>4, <3>1
    <2>5. CASE ~UpDone(e, s)
      <3> DEFINE t == [h |-> Swap(s.h, s.i, s.i \div 2), i |-> s.i \div 2]
      <3>1. s.i > 1 /\ Less(e, s.h[s.i], s.h[s.i \div 2])
        BY <2>5 DEF UpDone
      <3>2. TurnUp(e, s) = t
        BY <3>1 DEF TurnUp
      <3>3. UpOk(e, g, t)
        BY <2>2, <2>3, <3>1, TurnUpKeeps
      <3>4. s.i \div 2 \in 1 .. s.i - 1
        BY <2>3, <3>1, Half
      <3>5. t.h \in Seq(Tid) /\ t.i \in 1 .. n /\ t.i + k <= n
        <4>1. s.i + (k - 1) <= n
          BY <2>2, <2>5
        <4>2. t.i \in 1 .. n /\ t.i + k <= n
          BY <1>1, <2>3, <3>4, <4>1
        <4> QED BY <3>3, <4>2 DEF UpOk, Shuffled
      <3>6. t \in D
        BY <3>5
      <3> HIDE DEF D, n, t
      <3> QED BY <2>1, <2>2, <3>2, <3>3, <3>5, <3>6
    <2> HIDE DEF S
    <2> QED BY <2>2, <2>4, <2>5
  <1> HIDE DEF S, D, n, base
  <1>4. PICK f : Iteration(n, S, step, base, f)
    <2>1. \A k \in 1 .. n : \A s \in S[k - 1] : step[<<k, s>>] \in S[k]
      BY <1>3
    <2>2. n \in Nat
      BY <1>1
    <2> HIDE DEF step
    <2> QED BY <1>2, <2>1, <2>2, LoopExists
  <1>5. f = Turns(f)
    <2>1. \A k \in 0 .. n : k # 0 => step[<<k, f[k - 1]>>] = TurnUp(e, f[k - 1])
      <3> SUFFICES ASSUME NEW k \in 1 .. n PROVE step[<<k, f[k - 1]>>] = TurnUp(e, f[k - 1])
        <4> HIDE DEF step
        <4> QED BY <1>1
      <3>1. k - 1 \in 0 .. n
        BY <1>1
      <3>2. f[k - 1] \in S[k - 1]
        BY <1>4, <3>1 DEF Iteration
      <3>3. f[k - 1] \in D
        BY <1>3, <3>2
      <3> QED BY <3>3
    <2> HIDE DEF step
    <2>2. \A k \in 0 .. n : f[k] = IF k = 0 THEN base ELSE TurnUp(e, f[k - 1])
      BY <1>4, <2>1 DEF Iteration
    <2>3. f = [k \in 0 .. n |-> f[k]]
      BY <1>4 DEF Iteration
    <2> QED BY <2>2, <2>3
  <1> HIDE DEF Turns
  <1>6. C = Turns(C)
    BY <1>5
  <1>7. SiftUp(e, g, n) = C[n].h
    BY DEF SiftUp, Turns, base, n
  <1> HIDE DEF C
  <1>8. C[n] \in S[n]
    <2>1. \A k \in 0 .. n : C[k] = IF k = 0 THEN base ELSE TurnUp(e, C[k - 1])
      BY <1>6 DEF Turns
    <2>2. C[0] \in S[0] /\ \A k \in 1 .. n : C[k - 1] \in S[k - 1] => C[k] \in S[k]
      BY <1>1, <1>2, <1>3, <2>1
    <2> QED BY <1>1, <2>2, LoopKeeps
  <1>9. C[n] \in D /\ UpOk(e, g, C[n]) /\ UpDone(e, C[n])
    <2>1. n \in 0 .. n
      BY <1>1
    <2>2. C[n] \in D /\ UpOk(e, g, C[n]) /\ (C[n].i + n <= n \/ UpDone(e, C[n]))
      BY <1>8, <2>1 DEF S
    <2> QED BY <1>1, <2>2 DEF D
  <1> DEFINE h == C[n].h
             i == C[n].i
  <1>10. Heaped(e, h)
    <2>1. /\ Shuffled(g, h) /\ i \in 1 .. n /\ h \in Seq(Tid) /\ Len(h) = n
          /\ \A j \in 2 .. n : j # i => Less(e, h[j \div 2], h[j])
          /\ ~(i > 1 /\ Less(e, h[i], h[i \div 2]))
      BY <1>9 DEF UpOk, UpDone, Shuffled, n
    <2> HIDE DEF h, i
    <2>2. ASSUME i > 1 PROVE Less(e, h[i \div 2], h[i])
      <3>1. i \div 2 \in 1 .. i - 1
        BY <1>1, <2>1, <2>2, Half
      <3>2. i \div 2 \in 1 .. n /\ i \div 2 # i
        BY <1>1, <2>1, <3>1
      <3>3. h[i \div 2] \in Tid /\ h[i] \in Tid /\ h[i \div 2] # h[i]
        BY <2>1, <3>2 DEF Shuffled, Once
      <3> QED BY <2>1, <2>2, <3>3, LessOrder
    <2>3. ASSUME NEW j \in 2 .. n PROVE Less(e, h[j \div 2], h[j])
      BY <1>1, <2>1, <2>2
    <2> QED BY <2>1, <2>3 DEF Heaped
  <1> QED BY <1>7, <1>9, <1>10 DEF UpOk, n

Places(h, i) == {i, 2 * i, 2 * i + 1} \cap 1 .. Len(h)

\* The least of a position and its children is one of them.
LEMMA LeastOfIs ==
    ASSUME NEW e, Tasks(e), NEW h \in Seq(Tid), Once(h), NEW i \in 1 .. Len(h)
    PROVE  /\ LeastOf(e, h, i) \in Places(h, i)
           /\ \A n \in Places(h, i) : LeastOf(e, h, i) = n \/ Less(e, h[LeastOf(e, h, i)], h[n])
  <1> DEFINE P == Places(h, i)
             L(a, b) == Less(e, h[a], h[b])
             Least(m) == \A n \in P : m = n \/ L(m, n)
  <1>1. i \in P /\ P \subseteq {i, 2 * i, 2 * i + 1}
    BY DEF Places
  <1>2. \A a, b \in P : a # b => L(a, b) \/ L(b, a)
    <2> SUFFICES ASSUME NEW a \in P, NEW b \in P, a # b PROVE L(a, b) \/ L(b, a)
      OBVIOUS
    <2>1. h[a] \in Tid /\ h[b] \in Tid /\ h[a] # h[b]
      BY DEF Places, Once
    <2> QED BY <2>1, LessOrder
  <1>3. \A a, b, c \in P : L(a, b) /\ L(b, c) => L(a, c)
    <2> SUFFICES ASSUME NEW a \in P, NEW b \in P, NEW c \in P, L(a, b), L(b, c) PROVE L(a, c)
      OBVIOUS
    <2>1. h[a] \in Tid /\ h[b] \in Tid /\ h[c] \in Tid
      BY DEF Places
    <2> QED BY <2>1, LessOrder
  <1> HIDE DEF P, L
  <1>4. \E m \in P : Least(m)
    <2> DEFINE a == IF 2 * i \in P /\ L(2 * i, i) THEN 2 * i ELSE i
               b == IF 2 * i + 1 \in P /\ L(2 * i + 1, a) THEN 2 * i + 1 ELSE a
    <2>1. a \in P /\ \A n \in P : n = a \/ n = 2 * i + 1 \/ L(a, n)
      BY <1>1, <1>2
    <2> HIDE DEF a
    <2>2. b \in P /\ \A n \in P : b = n \/ L(b, n)
      BY <1>1, <1>2, <1>3, <2>1
    <2> QED BY <2>2
  <1>5. LeastOf(e, h, i) = CHOOSE m \in P : Least(m)
    BY DEF LeastOf, P, Places, L
  <1> HIDE DEF Least
  <1>6. LeastOf(e, h, i) \in P /\ Least(LeastOf(e, h, i))
    BY <1>4, <1>5
  <1> QED BY <1>6 DEF Least, P, L

\* A swap with the least child leaves the order broken at that child at most.
LEMMA TurnDownKeeps ==
    ASSUME NEW e, Tasks(e), NEW g, NEW h, NEW i, DownOk(e, g, [h |-> h, i |-> i]),
           i <= Len(h), LeastOf(e, h, i) # i
    PROVE  /\ DownOk(e, g, [h |-> Swap(h, i, LeastOf(e, h, i)), i |-> LeastOf(e, h, i)])
           /\ LeastOf(e, h, i) \in i + 1 .. Len(h)
  <1> DEFINE m == LeastOf(e, h, i)
             n == Len(g)
             q == Swap(h, i, m)
             p == i \div 2
  <1>1. /\ Shuffled(g, h) /\ i \in Nat \ {0}
        /\ \A j \in 2 .. n : j \div 2 # i => Less(e, h[j \div 2], h[j])
        /\ \A j \in 2 .. n : j \div 2 = i /\ i > 1 => Less(e, h[p], h[j])
    BY DEF DownOk
  <1>2. Len(h) = n /\ h \in Seq(Tid) /\ n \in Nat /\ Once(h) /\ i \in 1 .. n
    BY <1>1 DEF Shuffled
  <1>3. m \in Places(h, i) /\ \A j \in Places(h, i) : m = j \/ Less(e, h[m], h[j])
    BY <1>2, LeastOfIs
  <1> HIDE DEF m
  <1>4. m \in {2 * i, 2 * i + 1} /\ m \in 1 .. n /\ m \in i + 1 .. n /\ m \in 2 .. n /\ m \div 2 = i
    <2>1. m \in {2 * i, 2 * i + 1} /\ m \in 1 .. n
      BY <1>2, <1>3 DEF Places, m
    <2> QED BY <1>2, <2>1
  <1>5. \A j \in 2 .. n : j \div 2 \in 1 .. n /\ j \in 1 .. n /\ j \div 2 # j
                          /\ (j \div 2 = i => j \in Places(h, i))
    <2> SUFFICES ASSUME NEW j \in 2 .. n
                 PROVE  j \div 2 \in 1 .. n /\ j \div 2 # j /\ (j \div 2 = i => j \in Places(h, i))
      OBVIOUS
    <2>1. /\ j \div 2 \in 1 .. j - 1
          /\ j = 2 * (j \div 2) \/ j = 2 * (j \div 2) + 1
      BY <1>2, Half
    <2> DEFINE x == j \div 2
    <2> HIDE DEF x
    <2>2. x \in 1 .. n /\ x # j /\ (x = i => j \in Places(h, i))
      BY <1>2, <2>1 DEF Places, x
    <2> QED BY <2>2 DEF x
  <1>6. Shuffled(g, q) /\ \A k \in 1 .. n : q[k] = IF k = m THEN h[i] ELSE IF k = i THEN h[m] ELSE h[k]
    <2>1. h \in Seq(Tid) /\ Once(h) /\ i \in 1 .. Len(h) /\ m \in 1 .. Len(h)
      BY <1>2, <1>4
    <2>2. Swapped(h, i, m, q)
      BY <2>1, SwapOnce
    <2> HIDE DEF q
    <2> QED BY <1>1, <1>2, <2>2 DEF Shuffled, Swapped
  <1>7. m # i /\ i \in Places(h, i)
    BY <1>2, <1>4 DEF Places
  <1>8. Less(e, h[m], h[i])
    BY <1>3, <1>7
  <1>9. i > 1 => i \in 2 .. n /\ p \in 1 .. n /\ p # i /\ p # m /\ Less(e, h[p], h[m])
    <2> SUFFICES ASSUME i > 1
                 PROVE  i \in 2 .. n /\ p \in 1 .. n /\ p # i /\ p # m /\ Less(e, h[p], h[m])
      OBVIOUS
    <2>1. p \in 1 .. i - 1
      BY <1>2, Half
    <2>2. Less(e, h[p], h[m])
      BY <1>1, <1>4
    <2> HIDE DEF p, q
    <2> QED BY <1>2, <1>4, <2>1, <2>2
  <1> HIDE DEF p, n, q
  <1>10. ASSUME NEW j \in 2 .. n, j \div 2 # m PROVE Less(e, q[j \div 2], q[j])
    <2>1. j \div 2 \in 1 .. n /\ j \in 1 .. n
      BY <1>5
    <2>2. CASE j = m
      <3>1. q[j] = h[i] /\ j \div 2 = i /\ q[i] = h[m]
        BY <1>2, <1>4, <1>6, <1>7, <2>2
      <3> QED BY <1>8, <3>1
    <2>3. CASE j # m /\ j \div 2 = i
      <3>1. j # i
        BY <1>5, <2>3
      <3>2. q[j] = h[j] /\ q[i] = h[m]
        BY <1>2, <1>6, <1>7, <2>1, <2>3, <3>1
      <3>3. Less(e, h[m], h[j])
        BY <1>3, <1>5, <2>3
      <3> QED BY <2>3, <3>2, <3>3
    <2>4. CASE j = i
      <3>1. i > 1
        BY <1>2, <2>4
      <3>2. q[i] = h[m] /\ q[p] = h[p]
        BY <1>2, <1>6, <1>7, <1>9, <3>1
      <3> QED BY <1>9, <2>4, <3>1, <3>2 DEF p
    <2>5. CASE j # m /\ j # i /\ j \div 2 # i
      <3>1. q[j] = h[j] /\ q[j \div 2] = h[j \div 2]
        BY <1>6, <1>10, <2>1, <2>5
      <3> QED BY <1>1, <2>5, <3>1 DEF n
    <2> QED BY <2>2, <2>3, <2>4, <2>5
  <1>11. ASSUME NEW j \in 2 .. n, j \div 2 = m PROVE Less(e, q[m \div 2], q[j])
    <2>1. j \in 1 .. n /\ j # m /\ j # i
      <3>1. j \div 2 \in 1 .. j - 1
        BY <1>2, Half
      <3> QED BY <1>2, <1>4, <1>11, <3>1
    <2>2. q[j] = h[j] /\ q[m \div 2] = h[m]
      BY <1>2, <1>4, <1>6, <1>7, <2>1
    <2>3. Less(e, h[m], h[j])
      BY <1>1, <1>7, <1>11 DEF n
    <2> QED BY <2>2, <2>3
  <1>12. DownOk(e, g, [h |-> q, i |-> m])
    BY <1>2, <1>4, <1>6, <1>10, <1>11 DEF DownOk, n
  <1> QED BY <1>2, <1>4, <1>12 DEF q, m

LEMMA SiftDownHeap ==
    ASSUME NEW e, Tasks(e), NEW g \in Seq(Tid), DownOk(e, g, [h |-> g, i |-> 1])
    PROVE  Shuffled(g, SiftDown(e, g)) /\ Heaped(e, SiftDown(e, g))
  <1> DEFINE n == Len(g)
             D == [h : Seq(Tid), i : Nat \ {0}]
             S == [k \in 0 .. n |-> {s \in D : DownOk(e, g, s) /\ (s.i > k \/ DownDone(e, s))}]
             base == [h |-> g, i |-> 1]
             step == [p \in (1 .. n) \X D |-> TurnDown(e, p[2])]
             Turns(f) == [k \in 0 .. n |-> IF k = 0 THEN base ELSE TurnDown(e, f[k - 1])]
             C == CHOOSE f : f = Turns(f)
  <1>1. n \in Nat /\ g \in Seq(Tid)
    OBVIOUS
  <1>2. base \in S[0]
    <2>1. base \in D /\ base.i > 0 /\ 0 \in 0 .. n
      BY <1>1
    <2> QED BY <2>1
  <1>3. ASSUME NEW k \in 1 .. n, NEW s \in S[k - 1] PROVE s \in D /\ TurnDown(e, s) \in S[k]
    <2>1. k - 1 \in 0 .. n /\ k \in 0 .. n
      BY <1>1
    <2>2. s \in D /\ DownOk(e, g, s) /\ (s.i > k - 1 \/ DownDone(e, s))
      BY <1>3, <2>1
    <2>3. s = [h |-> s.h, i |-> s.i] /\ s.i \in Nat \ {0} /\ Len(s.h) = n /\ s.h \in Seq(Tid)
      BY <2>2 DEF DownOk, Shuffled
    <2>4. CASE DownDone(e, s)
      <3>1. TurnDown(e, s) = s
        BY <2>4 DEF DownDone, TurnDown
      <3> HIDE DEF D, n
      <3> QED BY <2>1, <2>2, <2>4, <3>1
    <2>5. CASE ~DownDone(e, s)
      <3> DEFINE m == LeastOf(e, s.h, s.i)
                 t == [h |-> Swap(s.h, s.i, m), i |-> m]
      <3>1. s.i <= Len(s.h) /\ m # s.i
        BY <1>1, <2>3, <2>5 DEF DownDone
      <3>2. TurnDown(e, s) = t
        BY <1>1, <2>3, <2>5 DEF TurnDown, DownDone
      <3>3. DownOk(e, g, t) /\ m \in s.i + 1 .. Len(s.h)
        BY <2>2, <2>3, <3>1, TurnDownKeeps
      <3>4. t.h \in Seq(Tid) /\ t.i \in Nat \ {0} /\ t.i > k
        <4>1. s.i > k - 1
          BY <2>2, <2>5
        <4>2. t.h \in Seq(Tid) /\ t.i = m
          BY <3>3 DEF DownOk, Shuffled
        <4> HIDE DEF m
        <4> QED BY <1>1, <2>3, <3>3, <4>1, <4>2
      <3>5. t \in D
        BY <3>4
      <3> HIDE DEF D, n, t
      <3> QED BY <2>1, <3>2, <3>3, <3>4, <3>5
    <2> HIDE DEF S
    <2> QED BY <2>2, <2>4, <2>5
  <1> HIDE DEF S, D, n, base
  <1>4. PICK f : Iteration(n, S, step, base, f)
    <2>1. \A k \in 1 .. n : \A s \in S[k - 1] : step[<<k, s>>] \in S[k]
      BY <1>3
    <2> HIDE DEF step
    <2> QED BY <1>1, <1>2, <2>1, LoopExists
  <1>5. f = Turns(f)
    <2>1. \A k \in 0 .. n : k # 0 => step[<<k, f[k - 1]>>] = TurnDown(e, f[k - 1])
      <3> SUFFICES ASSUME NEW k \in 1 .. n PROVE step[<<k, f[k - 1]>>] = TurnDown(e, f[k - 1])
        <4> HIDE DEF step
        <4> QED BY <1>1
      <3>1. k - 1 \in 0 .. n
        BY <1>1
      <3>2. f[k - 1] \in S[k - 1]
        BY <1>4, <3>1 DEF Iteration
      <3>3. f[k - 1] \in D
        BY <1>3, <3>2
      <3> QED BY <3>3
    <2> HIDE DEF step
    <2>2. \A k \in 0 .. n : f[k] = IF k = 0 THEN base ELSE TurnDown(e, f[k - 1])
      BY <1>4, <2>1 DEF Iteration
    <2>3. f = [k \in 0 .. n |-> f[k]]
      BY <1>4 DEF Iteration
    <2> QED BY <2>2, <2>3
  <1> HIDE DEF Turns
  <1>6. C = Turns(C)
    BY <1>5
  <1>7. SiftDown(e, g) = C[n].h
    BY DEF SiftDown, Turns, base, n
  <1> HIDE DEF C
  <1>8. C[n] \in S[n]
    <2>1. \A k \in 0 .. n : C[k] = IF k = 0 THEN base ELSE TurnDown(e, C[k - 1])
      BY <1>6 DEF Turns
    <2>2. C[0] \in S[0] /\ \A k \in 1 .. n : C[k - 1] \in S[k - 1] => C[k] \in S[k]
      BY <1>1, <1>2, <1>3, <2>1
    <2> QED BY <1>1, <2>2, LoopKeeps
  <1>9. C[n] \in D /\ DownOk(e, g, C[n]) /\ DownDone(e, C[n])
    <2>1. n \in 0 .. n
      BY <1>1
    <2>2. C[n] \in D /\ DownOk(e, g, C[n]) /\ (C[n].i > n \/ DownDone(e, C[n]))
      BY <1>8, <2>1 DEF S
    <2> QED BY <1>1, <2>2 DEF DownOk, DownDone, Shuffled, n
  <1> DEFINE h == C[n].h
             i == C[n].i
  <1>10. Heaped(e, h)
    <2>1. /\ Shuffled(g, h) /\ i \in Nat \ {0} /\ h \in Seq(Tid) /\ Len(h) = n /\ Once(h)
          /\ \A j \in 2 .. n : j \div 2 # i => Less(e, h[j \div 2], h[j])
          /\ i > n \/ LeastOf(e, h, i) = i
      BY <1>9 DEF DownOk, DownDone, Shuffled, n, D
    <2> HIDE DEF h, i
    <2>2. ASSUME NEW j \in 2 .. n, j \div 2 = i PROVE Less(e, h[i], h[j])
      <3>1. /\ i \in 1 .. j - 1
            /\ j = 2 * i \/ j = 2 * i + 1
        BY <1>1, <2>1, <2>2, Half
      <3>2. i \in 1 .. n /\ j # i
        BY <1>1, <2>1, <3>1
      <3>3. j \in Places(h, i) /\ LeastOf(e, h, i) = i
        BY <1>1, <2>1, <3>1, <3>2 DEF Places
      <3>4. \A x \in Places(h, i) : LeastOf(e, h, i) = x \/ Less(e, h[LeastOf(e, h, i)], h[x])
        BY <2>1, <3>2, LeastOfIs
      <3> QED BY <3>2, <3>3, <3>4
    <2>3. ASSUME NEW j \in 2 .. n PROVE Less(e, h[j \div 2], h[j])
      BY <2>1, <2>2
    <2> QED BY <2>1, <2>3 DEF Heaped
  <1> QED BY <1>7, <1>9, <1>10 DEF DownOk, n

----------------------------------------------------------------------------
(* The operations on the ready queue *)

LEMMA PqPushHeap ==
    ASSUME NEW e \in Engine, Queues(e), NEW t \in Tid, t \notin Elements(e.pq)
    PROVE  \E q \in Seq(Tid) :
              /\ PqPush(e, t) = [e EXCEPT !.pq = q]
              /\ Once(q) /\ Elements(q) = Elements(e.pq) \cup {t} /\ Heaped(e, q)
  <1> DEFINE g == Append(e.pq, t)
             q == SiftUp(e, g, Len(g))
  <1>1. e.pq \in Seq(Tid) /\ Tasks(e) /\ Once(e.pq) /\ Heaped(e, e.pq)
    BY DEF Engine, Tasks, Queues
  <1>2. /\ g \in Seq(Tid) /\ Once(g) /\ Elements(g) = Elements(e.pq) \cup {t}
        /\ Len(g) = Len(e.pq) + 1
    BY <1>1, AppendOnce
  <1>3. \A i \in 1 .. Len(e.pq) : g[i] = e.pq[i]
    BY <1>1, AppendProperties
  <1>4. PqPush(e, t) = [e EXCEPT !.pq = q]
    BY <1>2 DEF PqPush
  <1> HIDE DEF g
  <1> DEFINE n == Len(g)
  <1>5. n \in Nat \ {0} /\ n - 1 = Len(e.pq) /\ n = Len(g)
    BY <1>1, <1>2
  <1> HIDE DEF n
  <1>6. ASSUME NEW j \in 2 .. n PROVE j \div 2 \in 1 .. n - 1 /\ (j # n => j \in 2 .. n - 1) /\ j \div 2 # n
    <2>1. j \div 2 \in 1 .. j - 1
      BY <1>5, Half
    <2> DEFINE x == j \div 2
    <2> HIDE DEF x
    <2>2. x \in 1 .. n - 1 /\ (j # n => j \in 2 .. n - 1) /\ x # n
      BY <1>5, <2>1 DEF x
    <2> QED BY <2>2 DEF x
  <1>7. ASSUME NEW j \in 2 .. n, j # n PROVE Less(e, g[j \div 2], g[j])
    <2>1. j \in 2 .. n - 1 /\ j \div 2 \in 1 .. n - 1 /\ j \in 1 .. n - 1
      BY <1>5, <1>6, <1>7
    <2>2. Less(e, e.pq[j \div 2], e.pq[j])
      BY <1>1, <1>5, <2>1 DEF Heaped
    <2> QED BY <1>3, <1>5, <2>1, <2>2
  <1>8. UpOk(e, g, [h |-> g, i |-> n])
    <2>1. \A j \in 2 .. n : j # n => Less(e, g[j \div 2], g[j])
      BY <1>7
    <2>2. \A j \in 2 .. n : j \div 2 # n
      BY <1>6
    <2>3. Shuffled(g, g) /\ n \in 1 .. n
      BY <1>2, <1>5 DEF Shuffled
    <2> QED BY <2>1, <2>2, <2>3 DEF UpOk, n
  <1>9. Shuffled(g, q) /\ Heaped(e, q)
    BY <1>1, <1>2, <1>5, <1>8, SiftUpHeap
  <1> QED BY <1>2, <1>4, <1>9 DEF Shuffled

\* The last element takes the first place.
LEMMA FillFirst ==
    ASSUME NEW h \in Seq(Tid), h # <<>>, Once(h)
    PROVE  /\ Fill(h, 1) \in Seq(Tid) /\ Len(Fill(h, 1)) = Len(h) - 1
           /\ \A i \in 2 .. Len(h) - 1 : Fill(h, 1)[i] = h[i]
           /\ Once(Fill(h, 1)) /\ Elements(Fill(h, 1)) = Elements(h) \ {h[1]}
           /\ h[1] \in Elements(h)
  <1> DEFINE g == [h EXCEPT ![1] = Last(h)]
             q == Fill(h, 1)
             n == Len(h)
  <1>1. n \in Nat \ {0} /\ Last(h) = h[n] /\ h[n] \in Tid
    BY FrontProperties, EmptySeq
  <1>2. 1 \in 1 .. n
    BY <1>1
  <1>3. g \in Seq(Tid) /\ Len(g) = n /\ \A i \in 1 .. n : g[i] = IF i = 1 THEN h[n] ELSE h[i]
    BY <1>1, <1>2, ExceptSeq
  <1>4. q = Front(g)
    BY DEF Fill
  <1> HIDE DEF g
  <1>5. g # <<>>
    BY <1>1, <1>3, EmptySeq
  <1>6. q \in Seq(Tid) /\ Len(q) = n - 1 /\ \A i \in 1 .. n - 1 : q[i] = g[i]
    BY <1>3, <1>4, <1>5, FrontProperties
  <1> HIDE DEF q, n
  <1>7. \A i \in 1 .. n - 1 : q[i] = IF i = 1 THEN h[n] ELSE h[i]
    BY <1>1, <1>3, <1>6
  <1>8. \A i, j \in 1 .. n : h[i] = h[j] => i = j
    BY DEF Once, n
  <1>9. Once(q)
    <2> SUFFICES ASSUME NEW i \in 1 .. n - 1, NEW j \in 1 .. n - 1, q[i] = q[j] PROVE i = j
      BY <1>6 DEF Once
    <2>1. i \in 1 .. n /\ j \in 1 .. n /\ n \in 1 .. n /\ i # n /\ j # n
      BY <1>1
    <2>2. CASE i = 1
      BY <1>7, <1>8, <2>1, <2>2
    <2>3. CASE i # 1
      BY <1>7, <1>8, <2>1, <2>3
    <2> QED BY <2>2, <2>3
  <1>10. Elements(q) = {q[i] : i \in 1 .. n - 1} /\ Elements(h) = {h[i] : i \in 1 .. n}
    BY <1>6 DEF Elements, n
  <1>11. ASSUME NEW x \in Elements(q) PROVE x \in Elements(h) \ {h[1]}
    <2>1. PICK i \in 1 .. n - 1 : x = q[i]
      BY <1>10
    <2>2. i \in 1 .. n /\ n \in 1 .. n /\ 1 \in 1 .. n /\ n # 1
      BY <1>1
    <2>3. CASE i = 1
      BY <1>7, <1>8, <1>10, <2>1, <2>2, <2>3
    <2>4. CASE i # 1
      BY <1>7, <1>8, <1>10, <2>1, <2>2, <2>4
    <2> QED BY <2>3, <2>4
  <1>12. ASSUME NEW x \in Elements(h) \ {h[1]} PROVE x \in Elements(q)
    <2>1. PICK i \in 1 .. n : x = h[i]
      BY <1>10
    <2>2. i # 1
      BY <2>1
    <2>3. CASE i = n
      <3>1. 1 \in 1 .. n - 1
        BY <1>1, <2>2, <2>3
      <3> QED BY <1>7, <1>10, <2>1, <2>3, <3>1
    <2>4. CASE i # n
      <3>1. i \in 1 .. n - 1
        BY <1>1, <2>4
      <3> QED BY <1>7, <1>10, <2>1, <2>2, <3>1
    <2> QED BY <2>3, <2>4
  <1>13. Elements(q) = Elements(h) \ {h[1]} /\ h[1] \in Elements(h)
    BY <1>2, <1>10, <1>11, <1>12 DEF n
  <1>14. \A i \in 2 .. n - 1 : q[i] = h[i]
    BY <1>1, <1>7
  <1> QED BY <1>6, <1>9, <1>13, <1>14 DEF q, n

LEMMA PqPopHeap ==
    ASSUME NEW e \in Engine, Queues(e), e.pq # <<>>
    PROVE  /\ Head(e.pq) \in Elements(e.pq)
           /\ \E q \in Seq(Tid) :
              /\ PqPop(e) = [e EXCEPT !.pq = q]
              /\ Once(q) /\ Elements(q) = Elements(e.pq) \ {Head(e.pq)} /\ Heaped(e, q)
  <1> DEFINE h == e.pq
             g == Fill(h, 1)
             q == SiftDown(e, g)
  <1>1. h \in Seq(Tid) /\ Tasks(e) /\ Once(h) /\ Heaped(e, h) /\ h # <<>>
    BY DEF Engine, Tasks, Queues
  <1>2. PqPop(e) = [e EXCEPT !.pq = q]
    BY DEF PqPop
  <1>3. Head(h) = h[1]
    BY <1>1
  <1> HIDE DEF h
  <1>4. /\ g \in Seq(Tid) /\ Len(g) = Len(h) - 1 /\ \A i \in 2 .. Len(h) - 1 : g[i] = h[i]
        /\ Once(g) /\ Elements(g) = Elements(h) \ {h[1]} /\ h[1] \in Elements(h)
    BY <1>1, FillFirst
  <1> HIDE DEF g
  <1>5. Len(h) \in Nat /\ Len(g) \in Nat
    BY <1>1, <1>4
  <1>6. ASSUME NEW j \in 2 .. Len(g), j \div 2 # 1 PROVE Less(e, g[j \div 2], g[j])
    <2>1. j \div 2 \in 1 .. j - 1
      BY <1>5, Half
    <2>2. j \div 2 \in 2 .. Len(h) - 1 /\ j \in 2 .. Len(h) - 1 /\ j \in 2 .. Len(h)
      <3> DEFINE x == j \div 2
      <3> HIDE DEF x
      <3>1. x \in 2 .. Len(h) - 1 /\ j \in 2 .. Len(h) - 1 /\ j \in 2 .. Len(h)
        BY <1>4, <1>5, <1>6, <2>1 DEF x
      <3> QED BY <3>1 DEF x
    <2>3. Less(e, h[j \div 2], h[j])
      BY <1>1, <2>2 DEF Heaped
    <2> QED BY <1>4, <2>2, <2>3
  <1>7. DownOk(e, g, [h |-> g, i |-> 1])
    BY <1>4, <1>6 DEF DownOk, Shuffled
  <1>8. Shuffled(g, q) /\ Heaped(e, q)
    BY <1>1, <1>4, <1>7, SiftDownHeap
  <1> QED BY <1>2, <1>3, <1>4, <1>8 DEF Shuffled, h

\* Each task is in a list at most once, so a list is no longer than MaxTasks.
LEMMA OnceLength ==
    ASSUME NEW s \in Seq(Tid), Once(s)
    PROVE  Len(s) \in 0 .. MaxTasks
  <1> DEFINE n == Len(s)
  <1>1. n \in Nat /\ MaxTasks \in Nat /\ s \in [1 .. n -> Tid]
    BY AsyncAssumption, LenProperties
  <1>2. IsFiniteSet(Tid) /\ Cardinality(Tid) = MaxTasks
    BY <1>1, FS_Interval DEF Tid
  <1>3. IsFiniteSet(1 .. n) /\ Cardinality(1 .. n) = n
    BY <1>1, FS_Interval
  <1>4. IsInjective(s) /\ s \in Injection(1 .. n, Tid)
    BY <1>1 DEF Injection, IsInjective, Once
  <1> HIDE DEF n
  <1>5. Cardinality(1 .. n) <= Cardinality(Tid)
    BY <1>2, <1>4, FS_Injection
  <1> QED BY <1>1, <1>2, <1>3, <1>5 DEF n

\* f is e but for the task records, the mode and the ready queues.
SameTasks(e, f) ==
    /\ f.seq = e.seq /\ f.live = e.live /\ f.list = e.list
    /\ f.gone = e.gone /\ f.reread = e.reread

LEMMA EngineFields ==
    ASSUME NEW e \in Engine
    PROVE  /\ e.task \in [Tid -> Record] /\ e.seq \in 0 .. MaxTasks /\ e.live \in SUBSET Tid
           /\ e.list \in [CtxId -> Seq(Tid)] /\ e.rr \in Seq(Tid) /\ e.pq \in Seq(Tid)
           /\ e.mode \in {"RR", "PQ"} /\ e.samples \in {0, 1} /\ e.gone \in SUBSET CtxId
           /\ e.reread \in SUBSET (0 .. MaxTasks)
  BY DEF Engine

LEMMA RecordFields ==
    ASSUME NEW x \in Record
    PROVE  /\ x.status \in {"ready", "suspended", "done"} /\ x.prio \in 0 .. 2
           /\ x.parent \in 0 .. MaxTasks /\ x.aw \in 0 .. MaxTasks /\ x.ctx \in CtxId
           /\ x.act \in Acts \cup {""} /\ x.fatal \in BOOLEAN
  BY DEF Record

\* f is e with other task records.
Retasked(e, f) ==
    /\ f \in Engine /\ SameTasks(e, f) /\ f.rr = e.rr /\ f.pq = e.pq /\ f.mode = e.mode

LEMMA Retask ==
    ASSUME NEW e \in Engine, NEW T \in [Tid -> Record]
    PROVE  Retasked(e, [e EXCEPT !.task = T]) /\ [e EXCEPT !.task = T].task = T
  BY DEF Engine, Retasked, SameTasks

\* x with another status, awaited child or mark.
LEMMA RecordStatus ==
    ASSUME NEW x \in Record, NEW s \in {"ready", "suspended", "done"}
    PROVE  [x EXCEPT !.status = s] \in Record /\ [x EXCEPT !.status = s].prio = x.prio
  BY DEF Record

LEMMA RecordAw ==
    ASSUME NEW x \in Record, NEW a \in 0 .. MaxTasks
    PROVE  [x EXCEPT !.aw = a] \in Record /\ [x EXCEPT !.aw = a].prio = x.prio
  BY DEF Record

LEMMA RecordParent ==
    ASSUME NEW x \in Record, NEW p \in 0 .. MaxTasks
    PROVE  [x EXCEPT !.parent = p] \in Record /\ [x EXCEPT !.parent = p].prio = x.prio
  BY DEF Record

LEMMA RecordFatal ==
    ASSUME NEW x \in Record
    PROVE  [x EXCEPT !.fatal = FALSE] \in Record /\ [x EXCEPT !.fatal = FALSE].prio = x.prio
  BY DEF Record

\* With fewer tasks than the threshold the mode stays.
StaysCalm(e, f) == MaxTasks < Threshold /\ Calm(e) => Calm(f)

Adjusted(e, f) ==
    /\ f \in Engine /\ SameTasks(e, f) /\ f.task = e.task /\ f.rr = e.rr /\ f.pq = e.pq
    /\ StaysCalm(e, f)

LEMMA AdjustIs ==
    ASSUME NEW e \in Engine, Queues(e)
    PROVE  Adjusted(e, AdjustMode(e))
  <1> DEFINE f == AdjustMode(e)
  <1>1. PICK m \in {"RR", "PQ"}, k \in {0, 1} :
            /\ f = [e EXCEPT !.samples = k, !.mode = m]
            /\ m = e.mode \/ ~(e.mode = "RR" /\ Len(e.rr) < Threshold)
    <2> DEFINE q == Len(Ready(e))
               over == \/ e.mode = "RR" /\ q >= Threshold
                       \/ e.mode = "PQ" /\ q <= (Threshold * 7) \div 10
               other == IF e.mode = "RR" THEN "PQ" ELSE "RR"
    <2>1. e.mode \in {"RR", "PQ"} /\ e.rr \in Seq(Tid) /\ Len(e.rr) \in Nat /\ Threshold \in Nat
      BY AsyncAssumption DEF Engine
    <2>2. e = [e EXCEPT !.mode = e.mode]
      BY DEF Engine
    <2>3. f = IF ~over THEN [e EXCEPT !.samples = 0]
              ELSE IF e.samples = 0 THEN [e EXCEPT !.samples = 1]
              ELSE [e EXCEPT !.samples = 0, !.mode = other]
      BY DEF AdjustMode
    <2>4. [e EXCEPT !.samples = 0] = [e EXCEPT !.samples = 0, !.mode = e.mode]
      BY DEF Engine
    <2>5. [e EXCEPT !.samples = 1] = [e EXCEPT !.samples = 1, !.mode = e.mode]
      BY DEF Engine
    <2>6. over => ~(e.mode = "RR" /\ Len(e.rr) < Threshold)
      BY <2>1 DEF Ready
    <2>7. other \in {"RR", "PQ"}
      OBVIOUS
    <2> HIDE DEF over, other, f
    <2>8. CASE ~over
      BY <2>1, <2>3, <2>4, <2>8
    <2>9. CASE over /\ e.samples = 0
      BY <2>1, <2>3, <2>5, <2>9
    <2>10. CASE over /\ e.samples # 0
      <3>1. f = [e EXCEPT !.samples = 0, !.mode = other]
        BY <2>3, <2>10
      <3> QED BY <2>6, <2>7, <2>10, <3>1
    <2> QED BY <2>8, <2>9, <2>10
  <1> HIDE DEF f
  <1>2. f \in Engine /\ SameTasks(e, f) /\ f.task = e.task /\ f.rr = e.rr /\ f.pq = e.pq /\ f.mode = m
    BY <1>1 DEF Engine, SameTasks
  <1>3. StaysCalm(e, f)
    <2> SUFFICES ASSUME MaxTasks < Threshold, Calm(e) PROVE Calm(f)
      BY DEF StaysCalm
    <2>1. e.rr \in Seq(Tid) /\ Once(e.rr)
      BY DEF Engine, Queues
    <2>2. Len(e.rr) \in 0 .. MaxTasks
      BY <2>1, OnceLength
    <2>3. Len(e.rr) < Threshold
      BY <2>2, AsyncAssumption
    <2> QED BY <1>1, <1>2, <2>3 DEF Calm
  <1> QED BY <1>2, <1>3 DEF Adjusted, f

Pushed(e, f, t) ==
    /\ f \in Engine /\ SameTasks(e, f) /\ Queues(f)
    /\ f.task = [e.task EXCEPT ![t].status = "ready"]
    /\ InQueue(f) = InQueue(e) \cup {t}
    /\ StaysCalm(e, f)

\* Only the priorities and the heap tell whether the queues are in order.
LEMMA QueuesSameOn ==
    ASSUME NEW e, NEW f, Queues(e), f.rr = e.rr, f.pq = e.pq, e.pq \in Seq(Tid),
           \A c \in Elements(e.pq) : f.task[c].prio = e.task[c].prio
    PROVE  Queues(f) /\ InQueue(f) = InQueue(e)
  <1>1. \A j \in 2 .. Len(e.pq) : j \div 2 \in 1 .. Len(e.pq) /\ j \in 1 .. Len(e.pq)
    <2> SUFFICES ASSUME NEW j \in 2 .. Len(e.pq) PROVE j \div 2 \in 1 .. Len(e.pq)
      OBVIOUS
    <2>1. Len(e.pq) \in Nat /\ j \div 2 \in 1 .. j - 1
      BY Half
    <2> QED BY <2>1
  <1>2. \A j \in 2 .. Len(e.pq) : e.pq[j \div 2] \in Elements(e.pq) /\ e.pq[j] \in Elements(e.pq)
    BY <1>1 DEF Elements
  <1>3. Heaped(f, f.pq)
    BY <1>2 DEF Queues, Heaped, Less
  <1> QED BY <1>3 DEF Queues, InQueue

LEMMA QueuesSame ==
    ASSUME NEW e, NEW f, Queues(e), f.rr = e.rr, f.pq = e.pq, e.pq \in Seq(Tid),
           \A c \in Tid : f.task[c].prio = e.task[c].prio
    PROVE  Queues(f) /\ InQueue(f) = InQueue(e)
  <1>1. \A c \in Elements(e.pq) : c \in Tid
    BY DEF Elements
  <1> QED BY <1>1, QueuesSameOn

LEMMA PushReadyIs ==
    ASSUME NEW e \in Engine, Queues(e), NEW t \in Tid, t \notin InQueue(e)
    PROVE  Pushed(e, PushReady(e, t), t)
  <1> DEFINE d == [e EXCEPT !.task[t].status = "ready"]
             a == AdjustMode(d)
             f == PushReady(e, t)
  <1>1. /\ d \in Engine /\ SameTasks(e, d) /\ d.rr = e.rr /\ d.pq = e.pq /\ d.mode = e.mode
        /\ d.task = [e.task EXCEPT ![t].status = "ready"]
        /\ \A c \in Tid : d.task[c].prio = e.task[c].prio
    <2> DEFINE T == [e.task EXCEPT ![t].status = "ready"]
    <2>1. T \in [Tid -> Record] /\ \A c \in Tid : T[c].prio = e.task[c].prio
      <3> DEFINE y == [e.task[t] EXCEPT !.status = "ready"]
      <3>1. e.task \in [Tid -> Record]
        BY EngineFields
      <3>2. y \in Record /\ y.prio = e.task[t].prio
        BY <3>1, RecordStatus
      <3>3. T = [e.task EXCEPT ![t] = y]
        OBVIOUS
      <3> HIDE DEF y, T
      <3> QED BY <3>1, <3>2, <3>3
    <2>2. d = [e EXCEPT !.task = T]
      OBVIOUS
    <2> HIDE DEF T, d
    <2>3. Retasked(e, d) /\ d.task = T
      BY <2>1, <2>2, Retask
    <2> QED BY <2>1, <2>3 DEF Retasked, T
  <1>2. Queues(d) /\ InQueue(d) = InQueue(e)
    <2>1. e.pq \in Seq(Tid)
      BY DEF Engine
    <2> HIDE DEF d
    <2> QED BY <1>1, <2>1, QueuesSame
  <1> HIDE DEF d
  <1>3. Adjusted(d, a)
    BY <1>1, <1>2, AdjustIs
  <1> HIDE DEF a
  <1>4. a \in Engine /\ a.task = d.task /\ a.rr = e.rr /\ a.pq = e.pq /\ SameTasks(e, a)
    BY <1>1, <1>3 DEF Adjusted, SameTasks
  <1>5. StaysCalm(e, a)
    BY <1>1, <1>3 DEF Adjusted, StaysCalm, Calm
  <1>6. Queues(a) /\ InQueue(a) = InQueue(e) /\ a.pq \in Seq(Tid) /\ a.rr \in Seq(Tid)
    <2>1. d.pq \in Seq(Tid) /\ a.pq \in Seq(Tid) /\ a.rr \in Seq(Tid)
      BY <1>1, <1>4 DEF Engine
    <2>2. a.pq = d.pq /\ a.rr = d.rr /\ \A c \in Tid : a.task[c].prio = d.task[c].prio
      BY <1>1, <1>4
    <2> QED BY <1>2, <2>1, <2>2, QueuesSame
  <1>7. t \notin Elements(a.rr) /\ t \notin Elements(a.pq)
    BY <1>6 DEF InQueue
  <1>8. f = IF a.mode = "RR" THEN [a EXCEPT !.rr = Append(@, t)] ELSE PqPush(a, t)
    BY DEF PushReady, a, d
  <1> HIDE DEF f
  <1>9. CASE a.mode = "RR"
    <2> DEFINE q == Append(a.rr, t)
    <2>1. q \in Seq(Tid) /\ Once(q) /\ Elements(q) = Elements(a.rr) \cup {t}
      <3>1. Once(a.rr)
        BY <1>6 DEF Queues
      <3> QED BY <1>6, <1>7, <3>1, AppendOnce
    <2> HIDE DEF q
    <2>2. f = [a EXCEPT !.rr = q]
      BY <1>8, <1>9 DEF q
    <2>3. /\ f \in Engine /\ SameTasks(e, f) /\ f.task = a.task /\ f.rr = q /\ f.pq = a.pq
          /\ f.mode = a.mode
      BY <1>4, <2>1, <2>2 DEF Engine, SameTasks
    <2>4. Queues(f)
      <3>1. Heaped(f, f.pq)
        <4>1. Heaped(a, a.pq)
          BY <1>6 DEF Queues
        <4> QED BY <2>3, <4>1 DEF Heaped, Less
      <3> QED BY <1>6, <1>7, <2>1, <2>3, <3>1 DEF Queues
    <2>5. InQueue(f) = InQueue(e) \cup {t}
      BY <1>6, <2>1, <2>3 DEF InQueue
    <2>6. StaysCalm(e, f)
      BY <1>5, <2>3 DEF StaysCalm, Calm
    <2> QED BY <1>1, <1>4, <2>3, <2>4, <2>5, <2>6 DEF Pushed, f
  <1>10. CASE a.mode # "RR"
    <2>1. PICK q \in Seq(Tid) :
              /\ PqPush(a, t) = [a EXCEPT !.pq = q]
              /\ Once(q) /\ Elements(q) = Elements(a.pq) \cup {t} /\ Heaped(a, q)
      BY <1>4, <1>6, <1>7, PqPushHeap
    <2>2. f = [a EXCEPT !.pq = q]
      BY <1>8, <1>10, <2>1
    <2>3. /\ f \in Engine /\ SameTasks(e, f) /\ f.task = a.task /\ f.rr = a.rr /\ f.pq = q
      BY <1>4, <2>1, <2>2 DEF Engine, SameTasks
    <2>4. Queues(f)
      <3>1. Heaped(f, f.pq)
        BY <2>1, <2>3 DEF Heaped, Less
      <3> QED BY <1>6, <1>7, <2>1, <2>3, <3>1 DEF Queues
    <2>5. InQueue(f) = InQueue(e) \cup {t}
      BY <1>6, <2>1, <2>3 DEF InQueue
    <2>6. StaysCalm(e, f)
      BY <1>5, <1>10 DEF StaysCalm, Calm
    <2> QED BY <1>1, <1>4, <2>3, <2>4, <2>5, <2>6 DEF Pushed, f
  <1> QED BY <1>9, <1>10

\* The record of a task is gone, and its children have no parent.
Freed(e, f, t) ==
    /\ f \in Engine /\ Queues(f)
    /\ f.live = e.live \ {t} /\ f.seq = e.seq /\ f.gone = e.gone /\ f.reread = e.reread
    /\ f.task = [c \in Tid |-> IF c \in Children(e, t)
                               THEN [e.task[c] EXCEPT !.parent = 0] ELSE e.task[c]]
    /\ InQueue(f) = IF e.task[t].status = "ready" THEN InQueue(e) \ {t} ELSE InQueue(e)
    /\ Calm(e) => Calm(f)

LEMMA TaskFreeIs ==
    ASSUME NEW e \in Engine, Queues(e), NEW t \in e.live,
           e.task[t].status = "ready" => Calm(e)
    PROVE  Freed(e, TaskFree(e, t), t)
  <1> DEFINE u == UnlinkReady(e, t)
             T == [c \in Tid |-> IF c \in Children(e, t)
                                 THEN [e.task[c] EXCEPT !.parent = 0] ELSE e.task[c]]
             q == RemoveFirst(e.rr, t)
             L == [e.list EXCEPT ![e.task[t].ctx] = RemoveFirst(@, t)]
             f == TaskFree(e, t)
  <1>1. /\ e.rr \in Seq(Tid) /\ e.pq \in Seq(Tid) /\ e.live \in SUBSET Tid /\ t \in Tid
        /\ e.task \in [Tid -> Record] /\ e.list \in [CtxId -> Seq(Tid)] /\ e.task[t].ctx \in CtxId
        /\ 0 \in 0 .. MaxTasks
    <2>1. e.live \in SUBSET Tid /\ e.task \in [Tid -> Record]
      BY EngineFields
    <2>2. t \in Tid /\ e.task[t] \in Record
      BY <2>1
    <2>3. 0 \in 0 .. MaxTasks
      BY AsyncAssumption
    <2> QED BY <2>1, <2>2, <2>3, EngineFields, RecordFields
  <1>2. T \in [Tid -> Record] /\ \A c \in Tid : T[c].prio = e.task[c].prio
    <2> SUFFICES ASSUME NEW c \in Tid
                 PROVE  T[c] \in Record /\ T[c].prio = e.task[c].prio
      OBVIOUS
    <2>1. e.task[c] \in Record
      BY <1>1
    <2> QED BY <1>1, <2>1, RecordParent
  <1>3. L \in [CtxId -> Seq(Tid)]
    <2>1. e.list[e.task[t].ctx] \in Seq(Tid)
      BY <1>1
    <2>2. RemoveFirst(e.list[e.task[t].ctx], t) \in Seq(Tid)
      BY <2>1, RemoveOnce
    <2> QED BY <1>1, <2>2
  <1>4. Once(e.rr) /\ q \in Seq(Tid) /\ Once(q) /\ Elements(q) = Elements(e.rr) \ {t}
    BY <1>1, RemoveOnce DEF Queues
  <1> HIDE DEF q, T, L, f
  <1>5. PICK r \in Seq(Tid) :
            /\ u = [e EXCEPT !.rr = r] /\ Once(r) /\ Elements(r) \subseteq Elements(e.rr)
            /\ Elements(r) \cup Elements(e.pq) =
                  IF e.task[t].status = "ready" THEN InQueue(e) \ {t} ELSE InQueue(e)
    <2>1. e = [e EXCEPT !.rr = e.rr]
      BY DEF Engine
    <2>2. CASE e.task[t].status # "ready"
      <3>1. u = e
        BY <2>2 DEF UnlinkReady
      <3> QED BY <1>1, <1>4, <2>1, <2>2, <3>1 DEF InQueue
    <2>3. CASE e.task[t].status = "ready"
      <3>1. Ready(e) = e.rr /\ Elements(e.pq) = {} /\ e.mode = "RR"
        BY <2>3 DEF Calm, Ready, Elements
      <3>2. Range(e.rr) = Elements(e.rr)
        BY <1>1, LenProperties DEF Range, Elements
      <3>3. CASE t \in Elements(e.rr)
        <4>1. u = [e EXCEPT !.rr = q]
          BY <2>3, <3>1, <3>2, <3>3 DEF UnlinkReady, q
        <4> QED BY <1>4, <2>3, <3>1, <4>1 DEF InQueue
      <3>4. CASE t \notin Elements(e.rr)
        <4>1. u = e
          BY <3>1, <3>2, <3>4 DEF UnlinkReady
        <4> QED BY <1>1, <1>4, <2>1, <2>3, <3>1, <3>4, <4>1 DEF InQueue
      <3> QED BY <3>3, <3>4
    <2> QED BY <2>2, <2>3
  <1>6. f = [u EXCEPT !.live = @ \ {t}, !.list[e.task[t].ctx] = RemoveFirst(@, t),
                      !.task = [c \in Tid |-> IF c \in Children(e, t)
                                              THEN [@[c] EXCEPT !.parent = 0] ELSE @[c]]]
    BY DEF TaskFree, f
  <1> HIDE DEF u
  <1>7. u.task = e.task /\ u.list = e.list /\ u.live = e.live
    BY <1>5 DEF Engine
  <1>8. f = [u EXCEPT !.live = e.live \ {t}, !.list = L, !.task = T]
    BY <1>6, <1>7 DEF L, T
  <1>9. /\ f \in Engine /\ f.live = e.live \ {t} /\ f.task = T /\ f.rr = r /\ f.pq = e.pq
        /\ f.mode = e.mode /\ f.seq = e.seq /\ f.gone = e.gone /\ f.reread = e.reread
    BY <1>1, <1>2, <1>3, <1>5, <1>8 DEF Engine
  <1>10. Queues(f)
    <2> DEFINE w == [e EXCEPT !.rr = r]
    <2>1. w.rr = r /\ w.pq = e.pq /\ w.task = e.task
      BY DEF Engine
    <2>2. Queues(w)
      <3>1. Heaped(w, w.pq)
        BY <2>1 DEF Queues, Heaped, Less
      <3> HIDE DEF w
      <3> QED BY <1>5, <2>1, <3>1 DEF Queues
    <2> HIDE DEF w
    <2> QED BY <1>1, <1>2, <1>9, <2>1, <2>2, QueuesSame
  <1>11. InQueue(f) = IF e.task[t].status = "ready" THEN InQueue(e) \ {t} ELSE InQueue(e)
    BY <1>5, <1>9 DEF InQueue
  <1> QED BY <1>9, <1>10, <1>11 DEF Freed, T, f, Calm

----------------------------------------------------------------------------
(* Ancestors and descendants *)

LEMMA OrderedFields ==
    ASSUME NEW e \in Engine, Ordered(e)
    PROVE  /\ e.seq \in Nat /\ \A c \in 1 .. e.seq : c \in Tid /\ e.task[c].parent \in 0 .. c - 1
           /\ e.live \subseteq 1 .. e.seq
  <1>1. e.seq \in 0 .. MaxTasks /\ MaxTasks \in Nat /\ e.task \in [Tid -> Record]
    BY EngineFields, AsyncAssumption
  <1>2. ASSUME NEW c \in 1 .. e.seq PROVE c \in Tid /\ e.task[c].parent \in 0 .. c - 1
    <2>1. c \in Tid
      BY <1>1 DEF Tid
    <2>2. e.task[c].parent \in 0 .. MaxTasks /\ e.task[c].parent < c
      BY <1>1, <2>1, RecordFields DEF Ordered
    <2> QED BY <1>1, <2>1, <2>2
  <1> QED BY <1>1, <1>2 DEF Ordered

\* The recursion of Ancestors ends, as a parent is older than its child.
LEMMA LineExists ==
    ASSUME NEW e \in Engine, Ordered(e)
    PROVE  \E f : f = [c \in 0 .. e.seq |-> IF c = 0 THEN {} ELSE {c} \cup f[e.task[c].parent]]
  <1> DEFINE P(c) == e.task[c].parent
             Lines(f, m) == f = [c \in 0 .. m |-> IF c = 0 THEN {} ELSE {c} \cup f[P(c)]]
             T == {m \in Nat : m <= e.seq => \E f : Lines(f, m)}
  <1>1. e.seq \in Nat /\ \A c \in 1 .. e.seq : P(c) \in 0 .. c - 1
    BY OrderedFields
  <1> HIDE DEF P
  <1>2. 0 \in T
    <2> DEFINE f == [c \in 0 .. 0 |-> {}]
    <2>1. \A c \in 0 .. 0 : f[c] = IF c = 0 THEN {} ELSE {c} \cup f[P(c)]
      OBVIOUS
    <2>2. Lines(f, 0)
      BY <2>1
    <2> HIDE DEF Lines
    <2> QED BY <2>2
  <1>3. ASSUME NEW m \in Nat, m \in T PROVE m + 1 \in T
    <2> SUFFICES ASSUME m + 1 <= e.seq PROVE \E f : Lines(f, m + 1)
      OBVIOUS
    <2>1. PICK f : Lines(f, m)
      <3>1. m <= e.seq
        BY <1>1
      <3> HIDE DEF Lines
      <3> QED BY <1>3, <3>1
    <2> DEFINE x == {m + 1} \cup f[P(m + 1)]
               g == [c \in 0 .. m + 1 |-> IF c = m + 1 THEN x ELSE f[c]]
    <2>2. ASSUME NEW c \in 0 .. m + 1
          PROVE  g[c] = IF c = 0 THEN {} ELSE {c} \cup g[P(c)]
      <3>1. CASE c = 0
        BY <2>1, <3>1
      <3>2. CASE c # 0
        <4>1. c \in 1 .. e.seq /\ P(c) \in 0 .. c - 1
          BY <1>1, <3>2
        <4>2. P(c) \in 0 .. m + 1 /\ P(c) # m + 1
          BY <4>1
        <4>3. g[P(c)] = f[P(c)]
          BY <4>2
        <4>4. CASE c = m + 1
          <5>1. g[c] = x
            BY <4>4
          <5> HIDE DEF g
          <5> QED BY <3>2, <4>3, <4>4, <5>1
        <4>5. CASE c # m + 1
          <5>1. c \in 0 .. m /\ g[c] = f[c]
            BY <4>5
          <5>2. f[c] = {c} \cup f[P(c)]
            BY <2>1, <3>2, <5>1
          <5> HIDE DEF g
          <5> QED BY <3>2, <4>3, <5>1, <5>2
        <4> QED BY <4>4, <4>5
      <3> QED BY <3>1, <3>2
    <2>3. g = [c \in 0 .. m + 1 |-> g[c]]
      OBVIOUS
    <2>4. Lines(g, m + 1)
      <3> HIDE DEF g
      <3> QED BY <2>2, <2>3
    <2> HIDE DEF Lines
    <2> QED BY <2>4
  <1>4. Nat \subseteq T
    <2> HIDE DEF T
    <2> QED BY <1>2, <1>3, InductiveSet
  <1>5. \E f : Lines(f, e.seq)
    <2>1. e.seq \in T
      BY <1>1, <1>4
    <2> HIDE DEF Lines
    <2> QED BY <2>1
  <1> QED BY <1>5 DEF P

LEMMA AncestorsAre ==
    ASSUME NEW e \in Engine, Ordered(e)
    PROVE  /\ Ancestors(e, 0) = {}
           /\ \A t \in 1 .. e.seq : Ancestors(e, t) = {t} \cup Ancestors(e, e.task[t].parent)
  <1> DEFINE Line(f) == [c \in 0 .. e.seq |-> IF c = 0 THEN {} ELSE {c} \cup f[e.task[c].parent]]
             C == CHOOSE f : f = Line(f)
  <1>1. C = Line(C)
    <2>1. \E f : f = Line(f)
      BY LineExists
    <2> HIDE DEF Line
    <2> QED BY <2>1
  <1>2. \A t : Ancestors(e, t) = C[t]
    BY DEF Ancestors
  <1> HIDE DEF C
  <1>3. \A c \in 0 .. e.seq : C[c] = IF c = 0 THEN {} ELSE {c} \cup C[e.task[c].parent]
    BY <1>1
  <1>4. e.seq \in Nat
    BY OrderedFields
  <1>5. C[0] = {} /\ \A t \in 1 .. e.seq : C[t] = {t} \cup C[e.task[t].parent]
    <2>1. 0 \in 0 .. e.seq /\ \A t \in 1 .. e.seq : t \in 0 .. e.seq /\ t # 0
      BY <1>4
    <2>2. C[0] = {}
      BY <1>3, <2>1
    <2>3. ASSUME NEW t \in 1 .. e.seq PROVE C[t] = {t} \cup C[e.task[t].parent]
      <3>1. t \in 0 .. e.seq /\ t # 0
        BY <2>1
      <3>2. C[t] = IF t = 0 THEN {} ELSE {t} \cup C[e.task[t].parent]
        BY <1>3, <3>1, Zenon
      <3> QED BY <3>1, <3>2
    <2> QED BY <2>2, <2>3
  <1>6. Ancestors(e, 0) = {}
    BY <1>2, <1>5
  <1>7. ASSUME NEW t \in 1 .. e.seq
        PROVE  Ancestors(e, t) = {t} \cup Ancestors(e, e.task[t].parent)
    BY <1>2, <1>5
  <1> QED BY <1>6, <1>7

\* The ancestors of a task stay in a set that the parents of its members are in.
LEMMA AncestorsWithin ==
    ASSUME NEW e \in Engine, Ordered(e), NEW K,
           \A c \in K : c \in 1 .. e.seq /\ e.task[c].parent \in K \cup {0},
           NEW t \in K \cup {0}
    PROVE  Ancestors(e, t) \subseteq K
  <1> DEFINE T == {m \in Nat : \A c \in K \cup {0} : c <= m => Ancestors(e, c) \subseteq K}
  <1>1. e.seq \in Nat /\ \A c \in 1 .. e.seq : e.task[c].parent \in 0 .. c - 1
    BY OrderedFields
  <1>2. 0 \in T
    <2>1. \A c \in K \cup {0} : c <= 0 => c = 0
      BY <1>1
    <2> QED BY <2>1, AncestorsAre
  <1>3. ASSUME NEW m \in Nat, m \in T PROVE m + 1 \in T
    <2> SUFFICES ASSUME NEW c \in K \cup {0}, c <= m + 1 PROVE Ancestors(e, c) \subseteq K
      OBVIOUS
    <2>1. CASE c = 0
      BY <2>1, AncestorsAre
    <2>2. CASE c # 0
      <3>1. c \in K /\ c \in 1 .. e.seq /\ e.task[c].parent \in K \cup {0}
        BY <2>2
      <3>2. e.task[c].parent \in 0 .. c - 1
        BY <1>1, <3>1
      <3>3. e.task[c].parent <= m
        BY <1>1, <3>1, <3>2
      <3>4. Ancestors(e, e.task[c].parent) \subseteq K
        BY <1>3, <3>1, <3>3
      <3> QED BY <3>1, <3>4, AncestorsAre
    <2> QED BY <2>1, <2>2
  <1>4. Nat \subseteq T
    <2> HIDE DEF T
    <2> QED BY <1>2, <1>3, InductiveSet
  <1>5. t \in Nat
    BY <1>1
  <1> QED BY <1>4, <1>5

\* The ancestors of a task are no younger than it, and with an ancestor its
\* parent is one.
LEMMA AncestorsLine ==
    ASSUME NEW e \in Engine, Ordered(e), NEW t \in 0 .. e.seq
    PROVE  \A x \in Ancestors(e, t) : /\ x \in 1 .. t
                                      /\ e.task[x].parent \in Ancestors(e, t) \cup {0}
  <1> DEFINE P(c) == e.task[c].parent
             Line(c) == \A x \in Ancestors(e, c) : x \in 1 .. c /\ P(x) \in Ancestors(e, c) \cup {0}
             T == {m \in Nat : \A c \in 0 .. e.seq : c <= m => Line(c)}
  <1>1. e.seq \in Nat /\ \A c \in 1 .. e.seq : P(c) \in 0 .. c - 1
    BY OrderedFields
  <1>2. /\ Ancestors(e, 0) = {}
        /\ \A c \in 1 .. e.seq : Ancestors(e, c) = {c} \cup Ancestors(e, P(c))
    BY AncestorsAre
  <1> HIDE DEF P
  <1>3. 0 \in T
    <2>1. \A c \in 0 .. e.seq : c <= 0 => c = 0
      BY <1>1
    <2> QED BY <1>2, <2>1
  <1>4. ASSUME NEW m \in Nat, m \in T PROVE m + 1 \in T
    <2> SUFFICES ASSUME NEW c \in 0 .. e.seq, c <= m + 1 PROVE Line(c)
      OBVIOUS
    <2>1. CASE c = 0
      BY <1>2, <2>1
    <2>2. CASE c # 0
      <3>1. c \in 1 .. e.seq
        BY <1>1, <2>2
      <3>2. P(c) \in 0 .. c - 1
        BY <1>1, <3>1
      <3>3. P(c) \in 0 .. e.seq /\ P(c) <= m
        BY <1>1, <3>1, <3>2
      <3>4. Line(P(c))
        BY <1>4, <3>3
      <3>5. Ancestors(e, c) = {c} \cup Ancestors(e, P(c))
        BY <1>2, <3>1
      <3>6. P(c) # 0 => P(c) \in Ancestors(e, P(c))
        <4>1. P(c) # 0 => P(c) \in 1 .. e.seq
          BY <1>1, <3>3
        <4> QED BY <1>2, <4>1
      <3>7. ASSUME NEW x \in Ancestors(e, c)
            PROVE  x \in 1 .. c /\ P(x) \in Ancestors(e, c) \cup {0}
        <4>1. CASE x = c
          BY <3>1, <3>5, <3>6, <4>1
        <4>2. CASE x # c
          <5>1. x \in Ancestors(e, P(c))
            BY <3>5, <3>7, <4>2
          <5>2. x \in 1 .. P(c) /\ P(x) \in Ancestors(e, P(c)) \cup {0}
            BY <3>4, <5>1
          <5>3. x \in 1 .. c
            BY <3>1, <3>2, <5>2
          <5> QED BY <3>5, <5>2, <5>3
        <4> QED BY <4>1, <4>2
      <3> QED BY <3>7
    <2> QED BY <2>1, <2>2
  <1>5. Nat \subseteq T
    <2> HIDE DEF T
    <2> QED BY <1>3, <1>4, InductiveSet
  <1>6. t \in Nat
    BY <1>1
  <1>7. Line(t)
    BY <1>5, <1>6
  <1> QED BY <1>7 DEF P

\* The parent of a live task is live.
Rooted(e) == \A t \in e.live : e.task[t].parent \in e.live \cup {0}

\* The descendants of a task are younger than it; with a task its children are
\* among them, and its parent unless that is the task itself.
LEMMA DescendantsAre ==
    ASSUME NEW e \in Engine, Ordered(e), Rooted(e), NEW t \in Tid
    PROVE  /\ Descendants(e, t) \subseteq e.live
           /\ \A d \in Descendants(e, t) :
                 /\ d > t /\ e.task[d].parent \in Descendants(e, t) \cup {t}
           /\ \A c \in e.live : e.task[c].parent \in Descendants(e, t) \cup {t}
                                   => c \in Descendants(e, t)
  <1> DEFINE P(c) == e.task[c].parent
             A(c) == Ancestors(e, c)
             D == Descendants(e, t)
  <1>1. /\ e.seq \in Nat /\ \A c \in 1 .. e.seq : P(c) \in 0 .. c - 1
        /\ e.live \subseteq 1 .. e.seq
    BY OrderedFields
  <1>2. A(0) = {} /\ \A c \in 1 .. e.seq : A(c) = {c} \cup A(P(c))
    BY AncestorsAre
  <1>3. \A c \in 0 .. e.seq : \A x \in A(c) : x \in 1 .. c
    BY AncestorsLine
  <1>4. D = {c \in e.live \ {t} : t \in A(c)}
    BY DEF Descendants
  <1>5. \A c \in e.live : P(c) \in e.live \cup {0}
    BY DEF Rooted
  <1>6. t \in Nat /\ t # 0
    BY AsyncAssumption DEF Tid
  <1> HIDE DEF P, A, D
  <1>7. ASSUME NEW d \in D PROVE d > t /\ P(d) \in D \cup {t}
    <2>1. d \in 1 .. e.seq /\ d \in e.live /\ d # t /\ t \in A(d)
      BY <1>1, <1>4
    <2>2. d > t
      <3>1. t \in 1 .. d
        BY <1>1, <1>3, <2>1
      <3> QED BY <2>1, <3>1
    <2>3. t \in A(P(d))
      BY <1>2, <2>1
    <2>4. P(d) # 0
      BY <1>2, <2>3
    <2> QED BY <1>4, <1>5, <2>1, <2>2, <2>3, <2>4
  <1>8. ASSUME NEW c \in e.live, P(c) \in D \cup {t} PROVE c \in D
    <2>1. c \in 1 .. e.seq /\ P(c) \in 0 .. c - 1
      BY <1>1
    <2>2. P(c) # 0
      BY <1>1, <1>4, <1>6, <1>8
    <2>3. P(c) \in 1 .. e.seq
      BY <1>1, <2>1, <2>2
    <2>4. t \in A(P(c))
      BY <1>2, <1>4, <1>8, <2>3
    <2>5. t \in A(c)
      BY <1>2, <2>1, <2>4
    <2>6. c # t
      <3>1. t \in 1 .. P(c)
        BY <1>1, <1>3, <2>3, <2>4
      <3> QED BY <1>6, <2>1, <3>1
    <2> QED BY <1>4, <2>5, <2>6
  <1> QED BY <1>4, <1>7, <1>8 DEF P, D

----------------------------------------------------------------------------
(* Teardown *)

\* f is e without the tasks of D.
Torn(e, D, f) ==
    /\ f \in Engine /\ Queues(f) /\ Calm(f)
    /\ f.task = e.task /\ f.live = e.live \ D /\ f.seq = e.seq /\ f.gone = e.gone
    /\ InQueue(f) = InQueue(e) \ D

\* A task none of whose children is live takes no other record with it.
LEMMA FreeLeaf ==
    ASSUME NEW e \in Engine, NEW D, NEW f, Torn(e, D, f), NEW t \in f.live,
           \A c \in f.live : e.task[c].parent # t,
           \A c \in InQueue(e) : e.task[c].status = "ready"
    PROVE  Torn(e, D \cup {t}, TaskFree(f, t))
  <1> DEFINE g == TaskFree(f, t)
  <1>1. /\ f \in Engine /\ Queues(f) /\ Calm(f)
        /\ f.task = e.task /\ f.live = e.live \ D /\ f.seq = e.seq /\ f.gone = e.gone
        /\ InQueue(f) = InQueue(e) \ D
    BY DEF Torn
  <1>2. Freed(f, g, t)
    BY <1>1, TaskFreeIs
  <1>3. Children(f, t) = {}
    BY <1>1 DEF Children
  <1> HIDE DEF g
  <1>4. g.task = [c \in Tid |-> e.task[c]]
    BY <1>1, <1>2, <1>3 DEF Freed
  <1>5. g.task = e.task
    BY <1>4, EngineFields
  <1>6. InQueue(g) = InQueue(e) \ (D \cup {t})
    <2>1. CASE e.task[t].status = "ready"
      BY <1>1, <1>2, <2>1 DEF Freed
    <2>2. CASE e.task[t].status # "ready"
      BY <1>1, <1>2, <2>2 DEF Freed
    <2> QED BY <2>1, <2>2
  <1>7. g \in Engine /\ Queues(g) /\ Calm(g) /\ g.seq = e.seq /\ g.gone = e.gone
        /\ g.live = e.live \ (D \cup {t})
    BY <1>1, <1>2 DEF Freed
  <1> QED BY <1>5, <1>6, <1>7 DEF Torn, g

LEMMA TeardownIs ==
    ASSUME NEW e \in Engine, Ordered(e), Rooted(e), Queues(e), Calm(e), NEW t \in Tid,
           \A c \in InQueue(e) : e.task[c].status = "ready"
    PROVE  Torn(e, Descendants(e, t), Teardown(e, t))
  <1> DEFINE n == e.seq
             D == Descendants(e, t)
             Below(k) == {d \in D : d > n - k}
             S == [k \in 0 .. n |-> {f \in Engine : Torn(e, Below(k), f)}]
             Cut(k, f) == IF n + 1 - k \in D THEN TaskFree(f, n + 1 - k) ELSE f
             step == [p \in (1 .. n) \X Engine |-> Cut(p[1], p[2])]
             Turns(g) == [k \in 0 .. n |-> IF k = 0 THEN e ELSE Cut(k, g[k - 1])]
             C == CHOOSE g : g = Turns(g)
  <1>1. n \in Nat /\ e.live \subseteq 1 .. n
    BY OrderedFields
  <1>2. /\ D \subseteq e.live
        /\ \A d \in D : d > t /\ e.task[d].parent \in D \cup {t}
        /\ \A c \in e.live : e.task[c].parent \in D \cup {t} => c \in D
    BY DescendantsAre
  <1>3. \A c \in e.live : e.task[c].parent < c
    BY <1>1, EngineFields DEF Ordered
  <1> HIDE DEF D, n
  <1>4. e \in S[0]
    <2>1. Below(0) = {} /\ 0 \in 0 .. n
      BY <1>1, <1>2
    <2>2. Torn(e, {}, e)
      BY DEF Torn, n
    <2> HIDE DEF Below
    <2> QED BY <2>1, <2>2
  <1>5. ASSUME NEW k \in 1 .. n, NEW f \in S[k - 1] PROVE f \in Engine /\ Cut(k, f) \in S[k]
    <2> DEFINE d == n + 1 - k
    <2>1. k - 1 \in 0 .. n /\ k \in 0 .. n /\ d \in 1 .. n
      BY <1>1
    <2>2. f \in Engine /\ Torn(e, Below(k - 1), f)
      BY <1>5, <2>1
    <2>3. \A x \in 1 .. n : x > n - k <=> (x > n - (k - 1) \/ x = d)
      BY <1>1
    <2>4. CASE d \in D
      <3>1. Below(k) = Below(k - 1) \cup {d}
        BY <1>1, <1>2, <2>3, <2>4
      <3>2. d \in f.live
        <4>1. ~(d > n - (k - 1))
          BY <1>1
        <4> QED BY <1>2, <2>2, <2>4, <4>1 DEF Torn
      <3>3. ASSUME NEW c \in f.live, e.task[c].parent = d PROVE FALSE
        <4>1. c \in e.live /\ c \notin Below(k - 1)
          BY <2>2 DEF Torn
        <4>2. c \in D /\ d < c
          BY <1>2, <1>3, <2>4, <3>3, <4>1
        <4>3. c > n - (k - 1)
          BY <1>1, <4>1, <4>2
        <4> QED BY <4>1, <4>2, <4>3
      <3> HIDE DEF Below, d
      <3>4. Torn(e, Below(k), TaskFree(f, d))
        BY <2>2, <3>1, <3>2, <3>3, FreeLeaf
      <3>5. Cut(k, f) = TaskFree(f, d)
        BY <2>4 DEF d
      <3> QED BY <2>1, <2>2, <3>4, <3>5 DEF Torn
    <2>5. CASE d \notin D
      <3>1. Below(k) = Below(k - 1)
        BY <1>1, <1>2, <2>3, <2>5
      <3>2. Cut(k, f) = f
        BY <2>5
      <3> HIDE DEF Below
      <3> QED BY <2>1, <2>2, <3>1, <3>2
    <2> HIDE DEF S
    <2> QED BY <2>2, <2>4, <2>5
  <1> HIDE DEF S, Cut
  <1>6. PICK g : Iteration(n, S, step, e, g)
    <2>1. \A k \in 1 .. n : \A f \in S[k - 1] : step[<<k, f>>] \in S[k]
      BY <1>5
    <2> HIDE DEF step
    <2> QED BY <1>1, <1>4, <2>1, LoopExists
  <1>7. g = Turns(g)
    <2>1. \A k \in 0 .. n : k # 0 => step[<<k, g[k - 1]>>] = Cut(k, g[k - 1])
      <3> SUFFICES ASSUME NEW k \in 1 .. n PROVE step[<<k, g[k - 1]>>] = Cut(k, g[k - 1])
        <4> HIDE DEF step
        <4> QED BY <1>1
      <3>1. k - 1 \in 0 .. n
        BY <1>1
      <3>2. g[k - 1] \in S[k - 1]
        BY <1>6, <3>1 DEF Iteration
      <3>3. g[k - 1] \in Engine
        BY <1>5, <3>2
      <3> QED BY <3>3
    <2> HIDE DEF step
    <2>2. \A k \in 0 .. n : g[k] = IF k = 0 THEN e ELSE Cut(k, g[k - 1])
      BY <1>6, <2>1 DEF Iteration
    <2>3. g = [k \in 0 .. n |-> g[k]]
      BY <1>6 DEF Iteration
    <2> QED BY <2>2, <2>3
  <1> HIDE DEF Turns
  <1>8. C = Turns(C)
    BY <1>7
  <1>9. Teardown(e, t) = C[n]
    BY DEF Teardown, Turns, Cut, n, D
  <1> HIDE DEF C
  <1>10. C[n] \in S[n]
    <2>1. \A k \in 0 .. n : C[k] = IF k = 0 THEN e ELSE Cut(k, C[k - 1])
      BY <1>8 DEF Turns
    <2>2. C[0] \in S[0] /\ \A k \in 1 .. n : C[k - 1] \in S[k - 1] => C[k] \in S[k]
      BY <1>1, <1>4, <1>5, <2>1
    <2> QED BY <1>1, <2>2, LoopKeeps
  <1>11. Below(n) = D /\ n \in 0 .. n
    BY <1>1, <1>2
  <1>12. Torn(e, D, C[n])
    <2> HIDE DEF Below
    <2> QED BY <1>10, <1>11 DEF S
  <1> QED BY <1>9, <1>12 DEF D

----------------------------------------------------------------------------
(* Cancellation *)

\* f is e without the tasks of X, and the tasks of W no longer wait for theirs.
Cut(e, X, W, f) ==
    /\ f.live = e.live \ X /\ f.seq = e.seq
    /\ \A c \in Tid : f.task[c].parent = e.task[c].parent
    /\ \A c \in f.live \ W : f.task[c] = e.task[c]
    /\ \A c \in W : f.task[c].status = "ready" /\ f.task[c].aw = 0 /\ ~f.task[c].fatal
    /\ InQueue(f) = (InQueue(e) \ X) \cup W

\* When X holds the tasks below and only those W was waiting for, the rest of
\* the engine is as it must be.
LEMMA CutIsGood ==
    ASSUME NEW e, NEW r, Good(e, r), NEW X, NEW W, W \subseteq e.live \ X,
           NEW f \in Engine, Queues(f), Calm(f), Cancels # {}, Cut(e, X, W, f),
           r \notin X \cup W,
           \A c \in e.live : e.task[c].parent \in X \cup W => c \in X,
           \A c \in X : e.task[c].parent \in X \cup W \cup {0},
           \A c \in W : e.task[c].status = "suspended"
    PROVE  Good(f, r)
  <1>1. /\ e \in Engine /\ Ordered(e) /\ Family(e) /\ Awaits(e) /\ Runs(e, r)
        /\ InQueue(e) = Waiting(e, r)
    BY DEF Good
  <1>2. /\ f.live = e.live \ X /\ f.seq = e.seq /\ f.live \in SUBSET Tid /\ e.live \in SUBSET Tid
        /\ \A c \in Tid : f.task[c].parent = e.task[c].parent
        /\ \A c \in f.live \ W : f.task[c] = e.task[c]
        /\ \A c \in W : f.task[c].status = "ready" /\ f.task[c].aw = 0 /\ ~f.task[c].fatal
        /\ InQueue(f) = (InQueue(e) \ X) \cup W
    BY <1>1, EngineFields DEF Cut
  <1>3. Ordered(f)
    BY <1>1, <1>2 DEF Ordered
  <1>4. Family(f)
    <2> SUFFICES ASSUME NEW c \in f.live, f.task[c].parent # 0
                 PROVE  f.task[c].parent \in f.live /\ f.task[f.task[c].parent].aw = c
      BY DEF Family
    <2> DEFINE p == e.task[c].parent
    <2>1. c \in e.live /\ c \notin X /\ c \in Tid /\ f.task[c].parent = p
      BY <1>2
    <2>2. p \in e.live /\ e.task[p].aw = c
      BY <1>1, <2>1 DEF Family
    <2>3. p \notin X \cup W
      BY <2>1
    <2>4. p \in f.live \ W
      BY <1>2, <2>2, <2>3
    <2>5. f.task[p] = e.task[p]
      BY <1>2, <2>4
    <2> QED BY <2>1, <2>2, <2>4, <2>5
  <1>5. ASSUME NEW c \in f.live
        PROVE  /\ f.task[c].aw # 0 =>
                    /\ f.task[c].aw \in f.live /\ f.task[f.task[c].aw].parent = c
                    /\ \/ f.task[c].status = "suspended" /\ f.task[f.task[c].aw].status # "done"
                       \/ f.task[c].status = "ready" /\ f.task[f.task[c].aw].status = "done"
               /\ f.task[c].status = "suspended" => f.task[c].aw # 0
               /\ f.task[c].status = "done" => f.task[c].parent # 0
               /\ f.task[c].fatal => f.task[c].aw = 0
    <2>1. CASE c \in W
      BY <1>2, <2>1
    <2>2. CASE c \notin W
      <3> DEFINE a == e.task[c].aw
      <3>1. c \in e.live /\ c \notin X /\ f.task[c] = e.task[c]
        BY <1>2, <2>2
      <3>2. /\ a # 0 =>
                 /\ a \in e.live /\ e.task[a].parent = c
                 /\ \/ e.task[c].status = "suspended" /\ e.task[a].status # "done"
                    \/ e.task[c].status = "ready" /\ e.task[a].status = "done"
            /\ e.task[c].status = "suspended" => a # 0
            /\ e.task[c].status = "done" => e.task[c].parent # 0
            /\ e.task[c].fatal => a = 0
        BY <1>1, <3>1 DEF Awaits
      <3> HIDE DEF a
      <3>3. ASSUME a # 0
            PROVE  /\ a \in f.live /\ f.task[a].parent = c
                   /\ \/ f.task[c].status = "suspended" /\ f.task[a].status # "done"
                      \/ f.task[c].status = "ready" /\ f.task[a].status = "done"
        <4>1. a \in e.live /\ e.task[a].parent = c /\ a \in Tid
          BY <1>2, <3>2, <3>3
        <4>2. a \notin X
          <5>1. c \in Tid /\ c # 0
            BY <1>2, AsyncAssumption DEF Tid
          <5>2. c \notin X \cup W \cup {0}
            BY <2>2, <3>1, <5>1
          <5> QED BY <4>1, <5>2
        <4>3. a \in f.live /\ f.task[a].parent = c
          BY <1>2, <4>1, <4>2
        <4>4. CASE a \in W
          <5>1. e.task[a].status = "suspended" /\ f.task[a].status = "ready"
            BY <1>2, <4>4
          <5> QED BY <3>1, <3>2, <3>3, <4>3, <5>1
        <4>5. CASE a \notin W
          <5>1. f.task[a] = e.task[a]
            BY <1>2, <4>3, <4>5
          <5> QED BY <3>1, <3>2, <3>3, <4>3, <5>1
        <4> QED BY <4>4, <4>5
      <3>4. f.task[c].aw = a
        BY <3>1 DEF a
      <3> QED BY <3>1, <3>2, <3>3, <3>4
    <2> QED BY <2>1, <2>2
  <1>6. Awaits(f)
    BY <1>5 DEF Awaits
  <1>7. Runs(f, r)
    <2> SUFFICES ASSUME r # 0
                 PROVE  /\ r \in f.live /\ f.task[r].status = "ready"
                        /\ f.task[r].aw = 0 /\ ~f.task[r].fatal
      BY DEF Runs
    <2>1. r \in e.live /\ r \in f.live \ W
      BY <1>1, <1>2 DEF Runs
    <2> QED BY <1>1, <1>2, <2>1 DEF Runs
  <1>8. InQueue(f) = Waiting(f, r)
    <2>1. \A c \in f.live : c \notin W => f.task[c] = e.task[c]
      BY <1>2
    <2>2. W \subseteq f.live
      BY <1>2
    <2> QED BY <1>1, <1>2, <2>1, <2>2 DEF Waiting
  <1> QED BY <1>3, <1>4, <1>6, <1>7, <1>8 DEF Good

\* A set with the parents of its members, and with the running task.
Above(e, K, r) ==
    /\ r \in K \cup {0}
    /\ \A c \in K : c \in 1 .. e.seq /\ e.task[c].parent \in K \cup {0}

LEMMA CancelTaskKeeps ==
    ASSUME NEW e, Good(e, running), Calm(e), MaxTasks < Threshold, Cancels # {},
           NEW K, Above(e, K, running), NEW t \in Tid, t \notin K \/ t = running
    PROVE  /\ Good(CancelTask(e, t), running) /\ Calm(CancelTask(e, t))
           /\ Above(CancelTask(e, t), K, running)
  <1> DEFINE x == e.task[t]
             r == running
             T == [e.task EXCEPT ![t].aw = 0]
             d == [e EXCEPT !.task[t].aw = 0]
             D == Descendants(d, t)
             cut == Teardown(d, t)
             f == CancelTask(e, t)
             p == x.parent
  <1>1. /\ e \in Engine /\ Ordered(e) /\ Family(e) /\ Awaits(e) /\ Runs(e, r)
        /\ Queues(e) /\ InQueue(e) = Waiting(e, r)
    BY DEF Good
  <1>2. /\ e.task \in [Tid -> Record] /\ e.pq \in Seq(Tid) /\ e.live \in SUBSET Tid
        /\ e.live \subseteq 1 .. e.seq /\ x \in Record
    BY <1>1, EngineFields DEF Ordered
  <1>3. f = IF t \notin e.live \/ x.status = "done" \/ t = r THEN e
            ELSE IF x.status = "suspended" THEN PushReady(TaskFree(cut, x.aw), t)
            ELSE IF p # 0 /\ cut.task[p].aw = t
                 THEN TaskFree(PushReady([cut EXCEPT !.task[p].aw = 0], p), t)
            ELSE TaskFree(cut, t)
    BY DEF CancelTask
  <1>4. CASE t \notin e.live \/ x.status = "done" \/ t = r
    <2>1. f = e
      BY <1>3, <1>4
    <2> HIDE DEF f
    <2> QED BY <2>1 DEF f
  <1>5. CASE ~(t \notin e.live \/ x.status = "done" \/ t = r)
    <2> HIDE DEF f
    <2>1. t \in e.live /\ x.status # "done" /\ t # r /\ t \notin K /\ t # 0
      BY <1>2, <1>5, AsyncAssumption DEF Tid
    <2>2. /\ T \in [Tid -> Record]
          /\ \A c \in Tid : /\ T[c].prio = e.task[c].prio /\ T[c].parent = e.task[c].parent
                            /\ T[c].status = e.task[c].status /\ T[c].fatal = e.task[c].fatal
                            /\ c # t => T[c] = e.task[c]
          /\ T[t].aw = 0
      <3>1. 0 \in 0 .. MaxTasks
        BY AsyncAssumption
      <3>2. \A c \in Tid : e.task[c] \in Record
        BY <1>2
      <3>3. [x EXCEPT !.aw = 0] \in Record
        BY <1>2, <3>1, RecordAw
      <3>4. T = [e.task EXCEPT ![t] = [x EXCEPT !.aw = 0]]
        OBVIOUS
      <3>5. /\ [x EXCEPT !.aw = 0].prio = x.prio /\ [x EXCEPT !.aw = 0].parent = x.parent
            /\ [x EXCEPT !.aw = 0].status = x.status /\ [x EXCEPT !.aw = 0].fatal = x.fatal
            /\ [x EXCEPT !.aw = 0].aw = 0
        BY <1>2 DEF Record
      <3> DEFINE y == [x EXCEPT !.aw = 0]
      <3> HIDE DEF y, T
      <3>6. T = [e.task EXCEPT ![t] = y]
        BY <3>4 DEF y
      <3>7. y \in Record /\ y.prio = x.prio /\ y.parent = x.parent /\ y.status = x.status
            /\ y.fatal = x.fatal /\ y.aw = 0
        BY <3>3, <3>5 DEF y
      <3> QED BY <1>2, <3>2, <3>6, <3>7
    <2>3. d = [e EXCEPT !.task = T]
      OBVIOUS
    <2> HIDE DEF d, T
    <2>4. Retasked(e, d) /\ d.task = T
      BY <1>1, <2>2, <2>3, Retask
    <2>5. /\ d \in Engine /\ Queues(d) /\ InQueue(d) = InQueue(e) /\ Calm(d)
          /\ d.live = e.live /\ d.seq = e.seq
      <3>1. d \in Engine /\ d.live = e.live /\ d.seq = e.seq /\ Calm(d)
        BY <2>4 DEF Retasked, SameTasks, Calm
      <3>2. d.rr = e.rr /\ d.pq = e.pq /\ \A c \in Tid : d.task[c].prio = e.task[c].prio
        BY <2>2, <2>4 DEF Retasked
      <3> QED BY <1>1, <1>2, <3>1, <3>2, QueuesSame
    <2>6. Ordered(d) /\ Rooted(d)
      <3>1. Ordered(d)
        BY <1>1, <2>2, <2>4, <2>5 DEF Ordered
      <3>2. Rooted(d)
        BY <1>1, <1>2, <2>2, <2>4, <2>5 DEF Rooted, Family
      <3> QED BY <3>1, <3>2
    <2>7. \A c \in InQueue(d) : d.task[c].status = "ready"
      BY <1>1, <1>2, <2>2, <2>4, <2>5 DEF Waiting
    <2>8. Torn(d, D, cut)
      BY <2>5, <2>6, <2>7, TeardownIs
    <2>9. /\ D \subseteq e.live
          /\ \A c \in D : c > t /\ e.task[c].parent \in D \cup {t}
          /\ \A c \in e.live : e.task[c].parent \in D \cup {t} => c \in D
      <3>1. /\ D \subseteq d.live
            /\ \A c \in D : c > t /\ d.task[c].parent \in D \cup {t}
            /\ \A c \in d.live : d.task[c].parent \in D \cup {t} => c \in D
        BY <2>5, <2>6, DescendantsAre
      <3> HIDE DEF D
      <3> QED BY <1>2, <2>2, <2>4, <2>5, <3>1
    <2>10. r \notin D
      <3> SUFFICES ASSUME r \in D PROVE FALSE
        OBVIOUS
      <3>1. t \in Ancestors(d, r) /\ r \in Tid /\ r # 0
        BY <1>2, <2>9, AsyncAssumption DEF Descendants, Tid
      <3>2. \A c \in K : c \in 1 .. d.seq /\ d.task[c].parent \in K \cup {0}
        <4>1. \A c \in K : c \in 1 .. e.seq /\ e.task[c].parent \in K \cup {0}
          BY DEF Above
        <4>2. \A c \in 1 .. e.seq : c \in Tid
          BY <1>1, OrderedFields
        <4> QED BY <2>2, <2>4, <2>5, <4>1, <4>2
      <3>3. r \in K \cup {0}
        BY DEF Above
      <3>4. Ancestors(d, r) \subseteq K
        BY <2>5, <2>6, <3>2, <3>3, AncestorsWithin
      <3> QED BY <2>1, <3>1, <3>4
    <2> HIDE DEF D, cut
    <2>11. t \notin D
      <3>1. t \in Int
        BY DEF Tid
      <3> QED BY <2>9, <3>1
    <2>12. /\ cut \in Engine /\ Queues(cut) /\ Calm(cut) /\ cut.task = T /\ cut.live = e.live \ D
           /\ cut.seq = e.seq /\ cut.gone = e.gone /\ InQueue(cut) = InQueue(e) \ D
      BY <2>4, <2>5, <2>8, Retask DEF Torn, Retasked, SameTasks
    <2>13. /\ x.aw # 0 =>
                /\ x.aw \in e.live /\ e.task[x.aw].parent = t
                /\ \/ x.status = "suspended" /\ e.task[x.aw].status # "done"
                   \/ x.status = "ready" /\ e.task[x.aw].status = "done"
           /\ x.status = "suspended" => x.aw # 0
           /\ x.fatal => x.aw = 0
      BY <1>1, <2>1 DEF Awaits
    \* What remains to be shown of f in each case.
    <2> DEFINE Fine(X, W) == /\ f \in Engine /\ Queues(f) /\ Calm(f) /\ Cut(e, X, W, f)
                             /\ W \subseteq e.live \ X /\ r \notin X \cup W
                             /\ \A c \in e.live : e.task[c].parent \in X \cup W => c \in X
                             /\ \A c \in X : e.task[c].parent \in X \cup W \cup {0}
                             /\ \A c \in W : e.task[c].status = "suspended"
    <2>14. ASSUME NEW X, NEW W, Fine(X, W) PROVE Good(f, r) /\ Calm(f) /\ Above(f, K, r)
      <3>1. Good(f, r)
        BY <2>14, CutIsGood
      <3>2. f.seq = e.seq /\ \A c \in Tid : f.task[c].parent = e.task[c].parent
        BY <2>14 DEF Cut
      <3>3. \A c \in 1 .. e.seq : c \in Tid
        BY <1>1, OrderedFields
      <3>4. Above(f, K, r)
        BY <3>2, <3>3 DEF Above
      <3> QED BY <2>14, <3>1, <3>4
    <2>15. CASE x.status = "suspended"
      <3> DEFINE a == x.aw
                 g == TaskFree(cut, a)
      <3>1. a \in D /\ a \notin cut.live /\ a \in 0 .. MaxTasks
        BY <1>2, <2>9, <2>12, <2>13, <2>15, RecordFields
      <3>2. g = [cut EXCEPT !.reread = @ \cup {a}]
        BY <3>1 DEF TaskFree
      <3> HIDE DEF g, a
      <3>3. /\ g \in Engine /\ g.task = T /\ g.live = e.live \ D /\ g.seq = e.seq
            /\ g.rr = cut.rr /\ g.pq = cut.pq /\ g.mode = cut.mode
        BY <2>12, <3>1, <3>2 DEF Engine
      <3>4. Queues(g) /\ InQueue(g) = InQueue(e) \ D
        BY <2>12, <3>3, EngineFields, QueuesSame
      <3>5. Calm(g)
        BY <2>12, <3>3 DEF Calm
      <3>6. t \notin InQueue(g)
        BY <1>1, <2>15, <3>4 DEF Waiting
      <3>7. f = PushReady(g, t)
        BY <1>3, <1>5, <2>15 DEF f, g, a
      <3>8. Pushed(g, f, t)
        BY <3>3, <3>4, <3>6, <3>7, PushReadyIs
      <3>9. /\ f \in Engine /\ Queues(f) /\ Calm(f) /\ f.live = e.live \ D /\ f.seq = e.seq
            /\ f.task = [T EXCEPT ![t].status = "ready"] /\ InQueue(f) = (InQueue(e) \ D) \cup {t}
        BY <3>3, <3>4, <3>5, <3>8 DEF Pushed, SameTasks, StaysCalm
      <3>10. /\ \A c \in Tid : f.task[c].parent = e.task[c].parent
             /\ \A c \in Tid \ {t} : f.task[c] = e.task[c]
             /\ f.task[t].status = "ready" /\ f.task[t].aw = 0 /\ ~f.task[t].fatal
        <4>1. T[t] \in Record /\ T[t].parent = e.task[t].parent /\ T[t].aw = 0 /\ ~T[t].fatal
          BY <2>2, <2>13, <2>15
        <4>2. f.task[t] = [T[t] EXCEPT !.status = "ready"]
          BY <2>2, <3>9
        <4>3. \A c \in Tid \ {t} : f.task[c] = T[c] /\ T[c] = e.task[c]
          BY <2>2, <3>9
        <4>4. /\ f.task[t].parent = e.task[t].parent /\ f.task[t].status = "ready"
              /\ f.task[t].aw = 0 /\ ~f.task[t].fatal
          BY <4>1, <4>2 DEF Record
        <4> QED BY <4>3, <4>4
      <3>11. Cut(e, D, {t}, f)
        BY <1>2, <3>9, <3>10 DEF Cut
      <3>12. Fine(D, {t})
        BY <2>1, <2>9, <2>10, <2>11, <2>15, <3>9, <3>11
      <3> HIDE DEF Fine
      <3> QED BY <2>14, <3>12 DEF f
    <2>16. CASE x.status # "suspended" /\ p # 0
      <3> DEFINE U == [T EXCEPT ![p].aw = 0]
                 g == [cut EXCEPT !.task[p].aw = 0]
                 h == PushReady(g, p)
      <3>1. p \in e.live /\ e.task[p].aw = t /\ p \in Tid
        BY <1>1, <1>2, <2>1, <2>16 DEF Family
      <3>2. p < t /\ p \in Int /\ t \in Int
        BY <1>1, <3>1 DEF Ordered, Tid
      <3>3. p # t /\ p \notin D
        <4>1. \A c \in D : c > t
          BY <2>9
        <4> HIDE DEF p
        <4> QED BY <3>2, <4>1
      <3>4. e.task[p].status = "suspended" /\ ~e.task[p].fatal /\ p # r
        <4>1. /\ \/ e.task[p].status = "suspended" /\ x.status # "done"
                 \/ e.task[p].status = "ready" /\ x.status = "done"
              /\ ~e.task[p].fatal
          BY <1>1, <2>1, <3>1 DEF Awaits
        <4>2. p # r
          BY <1>1, <2>1, <2>16, <3>1 DEF Runs
        <4> QED BY <2>1, <4>1, <4>2
      <3> HIDE DEF p
      <3>5. /\ U \in [Tid -> Record]
            /\ \A c \in Tid : U[c].prio = T[c].prio /\ (c # p => U[c] = T[c])
            /\ U[p].aw = 0 /\ U[p].parent = e.task[p].parent /\ ~U[p].fatal
        <4>1. T[p] \in Record /\ 0 \in 0 .. MaxTasks /\ T[p].parent = e.task[p].parent /\ ~T[p].fatal
          BY <2>2, <3>1, <3>4, AsyncAssumption
        <4>2. [T[p] EXCEPT !.aw = 0] \in Record /\ [T[p] EXCEPT !.aw = 0].prio = T[p].prio
          BY <4>1, RecordAw
        <4>3. /\ [T[p] EXCEPT !.aw = 0].aw = 0 /\ ~[T[p] EXCEPT !.aw = 0].fatal
              /\ [T[p] EXCEPT !.aw = 0].parent = e.task[p].parent
          BY <4>1 DEF Record
        <4> DEFINE y == [T[p] EXCEPT !.aw = 0]
        <4>4. U = [T EXCEPT ![p] = y]
          OBVIOUS
        <4> HIDE DEF y, U
        <4>5. /\ y \in Record /\ y.prio = T[p].prio /\ y.aw = 0 /\ ~y.fatal
              /\ y.parent = e.task[p].parent
          BY <4>2, <4>3 DEF y
        <4> QED BY <2>2, <3>1, <4>4, <4>5
      <3>6. g = [cut EXCEPT !.task = U]
        BY <2>12
      <3> HIDE DEF g, U
      <3>7. Retasked(cut, g) /\ g.task = U
        BY <2>12, <3>5, <3>6, Retask
      <3>8. /\ g \in Engine /\ Queues(g) /\ InQueue(g) = InQueue(e) \ D /\ Calm(g)
            /\ g.live = e.live \ D /\ g.seq = e.seq
        <4>1. g \in Engine /\ g.live = e.live \ D /\ g.seq = e.seq /\ Calm(g)
          BY <2>12, <3>7 DEF Retasked, SameTasks, Calm
        <4>2. g.rr = cut.rr /\ g.pq = cut.pq /\ \A c \in Tid : g.task[c].prio = cut.task[c].prio
          BY <2>12, <3>5, <3>7 DEF Retasked
        <4>3. cut.pq \in Seq(Tid)
          BY <2>12, EngineFields
        <4> QED BY <2>12, <4>1, <4>2, <4>3, QueuesSame
      <3>9. p \notin InQueue(g)
        BY <1>1, <3>4, <3>8 DEF Waiting
      <3> HIDE DEF h
      <3>10. Pushed(g, h, p)
        BY <3>1, <3>8, <3>9, PushReadyIs DEF h
      <3>11. /\ h \in Engine /\ Queues(h) /\ Calm(h) /\ h.live = e.live \ D /\ h.seq = e.seq
             /\ h.task = [U EXCEPT ![p].status = "ready"] /\ InQueue(h) = (InQueue(e) \ D) \cup {p}
        BY <3>7, <3>8, <3>10 DEF Pushed, SameTasks, StaysCalm
      <3>12. /\ h.task \in [Tid -> Record]
             /\ \A c \in Tid : h.task[c].parent = e.task[c].parent
             /\ \A c \in Tid \ {p, t} : h.task[c] = e.task[c]
             /\ h.task[p].status = "ready" /\ h.task[p].aw = 0 /\ ~h.task[p].fatal
             /\ h.task[t].status = "ready"
        <4>1. U[p] \in Record
          BY <3>1, <3>5
        <4>2. h.task[p] = [U[p] EXCEPT !.status = "ready"]
          BY <3>1, <3>5, <3>11
        <4>3. \A c \in Tid \ {p} : h.task[c] = T[c]
          BY <3>5, <3>11
        <4>4. /\ h.task[p].parent = e.task[p].parent /\ h.task[p].status = "ready"
              /\ h.task[p].aw = 0 /\ ~h.task[p].fatal
          BY <3>5, <4>1, <4>2 DEF Record
        <4>5. h.task \in [Tid -> Record]
          BY <3>11, EngineFields
        <4>6. h.task[t].status = x.status
          BY <2>2, <3>3, <4>3
        <4>7. x.status = "ready"
          BY <1>2, <2>1, <2>16, RecordFields
        <4> QED BY <2>2, <4>3, <4>4, <4>5, <4>6, <4>7
      <3>13. f = TaskFree(h, t)
        <4>1. cut.task[p].aw = t
          BY <2>2, <2>12, <3>1, <3>3
        <4> QED BY <1>3, <1>5, <2>16, <4>1 DEF f, g, h, p
      <3>14. t \in h.live
        BY <2>1, <2>11, <3>11
      <3>15. Freed(h, f, t)
        BY <3>11, <3>13, <3>14, TaskFreeIs
      <3>16. Children(h, t) = {}
        <4>1. \A c \in h.live : c \in e.live /\ c \notin D /\ h.task[c].parent = e.task[c].parent
          BY <1>2, <3>11, <3>12
        <4>2. \A c \in h.live : h.task[c].parent # t
          BY <2>9, <4>1
        <4> QED BY <4>2 DEF Children
      <3>17. f.task = h.task
        <4>1. f.task = [c \in Tid |-> h.task[c]]
          BY <3>15, <3>16 DEF Freed
        <4> QED BY <3>12, <4>1
      <3>18. /\ f \in Engine /\ Queues(f) /\ Calm(f) /\ f.live = e.live \ (D \cup {t})
             /\ f.seq = e.seq /\ InQueue(f) = ((InQueue(e) \ D) \cup {p}) \ {t}
        BY <3>11, <3>12, <3>15 DEF Freed
      <3>19. InQueue(f) = (InQueue(e) \ (D \cup {t})) \cup {p}
        BY <3>3, <3>18
      <3>20. Cut(e, D \cup {t}, {p}, f)
        BY <1>2, <3>12, <3>17, <3>18, <3>19 DEF Cut
      <3>21. \A c \in e.live : e.task[c].parent = p => c = t
        <4>1. p # 0
          BY <2>16 DEF p
        <4> QED BY <1>1, <3>1, <4>1 DEF Family
      <3>22. Fine(D \cup {t}, {p})
        <4>1. \A c \in e.live : e.task[c].parent \in (D \cup {t}) \cup {p} => c \in D \cup {t}
          BY <2>9, <3>21
        <4>2. \A c \in D \cup {t} : e.task[c].parent \in (D \cup {t}) \cup {p} \cup {0}
          BY <2>9 DEF p
        <4>3. {p} \subseteq e.live \ (D \cup {t}) /\ r \notin (D \cup {t}) \cup {p}
          BY <2>1, <2>10, <3>1, <3>3, <3>4
        <4> QED BY <3>4, <3>18, <3>20, <4>1, <4>2, <4>3
      <3> HIDE DEF Fine
      <3> QED BY <2>14, <3>22 DEF f
    <2>17. CASE x.status # "suspended" /\ p = 0
      <3>1. f = TaskFree(cut, t)
        BY <1>3, <1>5, <2>17 DEF f
      <3>2. t \in cut.live /\ x.status = "ready"
        BY <1>2, <2>1, <2>11, <2>12, <2>17, RecordFields
      <3>3. Freed(cut, f, t)
        BY <2>12, <3>1, <3>2, TaskFreeIs
      <3>4. Children(cut, t) = {}
        <4>1. \A c \in cut.live : c \in e.live /\ c \notin D /\ cut.task[c].parent = e.task[c].parent
          BY <1>2, <2>2, <2>12
        <4>2. \A c \in cut.live : cut.task[c].parent # t
          BY <2>9, <4>1
        <4> QED BY <4>2 DEF Children
      <3>5. f.task = T
        <4>1. f.task = [c \in Tid |-> T[c]]
          BY <2>12, <3>3, <3>4 DEF Freed
        <4> QED BY <2>2, <4>1
      <3>6. /\ f \in Engine /\ Queues(f) /\ Calm(f) /\ f.live = e.live \ (D \cup {t})
            /\ f.seq = e.seq /\ InQueue(f) = InQueue(e) \ (D \cup {t})
        <4>1. cut.task[t].status = "ready"
          BY <1>2, <2>1, <2>2, <2>12, <3>2
        <4> QED BY <2>12, <3>3, <4>1 DEF Freed
      <3>7. Cut(e, D \cup {t}, {}, f)
        <4>1. \A c \in f.live : f.task[c] = e.task[c]
          BY <1>2, <2>2, <3>5, <3>6
        <4> QED BY <2>2, <3>5, <3>6, <4>1 DEF Cut
      <3>8. Fine(D \cup {t}, {})
        <4>1. \A c \in e.live : e.task[c].parent \in D \cup {t} => c \in D \cup {t}
          BY <2>9
        <4>2. \A c \in D \cup {t} : e.task[c].parent \in (D \cup {t}) \cup {0}
          BY <2>9, <2>17
        <4>3. r \notin D \cup {t}
          BY <2>1, <2>10
        <4> QED BY <3>6, <3>7, <4>1, <4>2, <4>3
      <3> HIDE DEF Fine
      <3> QED BY <2>14, <3>8 DEF f
    <2> QED BY <2>15, <2>16, <2>17 DEF f
  <1> QED BY <1>4, <1>5

\* What the invariant says does not depend on the contexts.
LEMMA GoodSame ==
    ASSUME NEW e, NEW r, Good(e, r), NEW f \in Engine,
           f.task = e.task, f.seq = e.seq, f.live = e.live, f.rr = e.rr, f.pq = e.pq,
           f.reread = e.reread, StaysCalm(e, f)
    PROVE  Good(f, r)
  <1>1. /\ Ordered(f) /\ Family(f) /\ Awaits(f) /\ Runs(f, r) /\ Waiting(f, r) = Waiting(e, r)
    BY DEF Good, Ordered, Family, Awaits, Runs, Waiting
  <1>2. Queues(f) /\ InQueue(f) = InQueue(e)
    BY DEF Good, Queues, InQueue, Heaped, Less
  <1> QED BY <1>1, <1>2 DEF Good, StaysCalm

LEMMA CancelCtxKeeps ==
    ASSUME NEW e, Good(e, running), Calm(e), MaxTasks < Threshold, Cancels # {},
           NEW K, Above(e, K, running), NEW c \in Ctxs, Range(e.list[c]) \cap K \subseteq {running}
    PROVE  Good(CancelCtx(e, c), running)
  <1> DEFINE r == running
             tasks == e.list[c]
             n == Len(tasks)
             base == [e EXCEPT !.gone = @ \cup {c}]
             G == {f \in Engine : Good(f, r) /\ Calm(f) /\ Above(f, K, r)}
             S == [k \in 0 .. n |-> G]
             step == [p \in (1 .. n) \X G |-> CancelTask(p[2], tasks[p[1]])]
             Turns(g) == [k \in 0 .. n |-> IF k = 0 THEN base ELSE CancelTask(g[k - 1], tasks[k])]
             C == CHOOSE g : g = Turns(g)
  <1>1. e \in Engine /\ c \in CtxId
    BY DEF Good, CtxId
  <1>2. tasks \in Seq(Tid) /\ n \in Nat
    BY <1>1, EngineFields
  <1>3. \A k \in 1 .. n : tasks[k] \in Tid /\ (tasks[k] \notin K \/ tasks[k] = r)
    <2>1. DOMAIN tasks = 1 .. n
      BY <1>2, LenProperties
    <2>2. \A k \in 1 .. n : tasks[k] \in Tid /\ tasks[k] \in Range(tasks)
      BY <1>2, <2>1 DEF Range
    <2> HIDE DEF tasks, n
    <2> QED BY <2>2 DEF tasks
  <1>4. base \in G
    <2>1. /\ base \in Engine /\ base.task = e.task /\ base.seq = e.seq /\ base.live = e.live
          /\ base.rr = e.rr /\ base.pq = e.pq /\ base.reread = e.reread /\ base.mode = e.mode
      BY <1>1 DEF Engine
    <2> HIDE DEF base
    <2>2. Calm(base) /\ StaysCalm(e, base) /\ Above(base, K, r)
      BY <2>1 DEF Calm, StaysCalm, Above
    <2>3. Good(base, r)
      BY <2>1, <2>2, GoodSame
    <2> QED BY <2>1, <2>2, <2>3
  <1>5. ASSUME NEW k \in 1 .. n, NEW f \in G PROVE CancelTask(f, tasks[k]) \in G
    <2>1. tasks[k] \in Tid /\ (tasks[k] \notin K \/ tasks[k] = r)
      BY <1>3
    <2> DEFINE t == tasks[k]
    <2> HIDE DEF t, tasks, n
    <2>2. Good(f, r) /\ Calm(f) /\ Above(f, K, r) /\ t \in Tid /\ (t \notin K \/ t = r)
      BY <1>5, <2>1 DEF t
    <2>3. /\ Good(CancelTask(f, t), r) /\ Calm(CancelTask(f, t)) /\ Above(CancelTask(f, t), K, r)
      BY <2>2, CancelTaskKeeps
    <2>4. CancelTask(f, t) \in Engine
      BY <2>3 DEF Good
    <2>5. CancelTask(f, t) \in G
      BY <2>3, <2>4
    <2> HIDE DEF G
    <2> QED BY <2>5 DEF t
  <1> HIDE DEF G, base, tasks, n
  <1>6. base \in S[0] /\ n \in 0 .. n /\ 0 \in 0 .. n
    BY <1>2, <1>4
  <1>7. ASSUME NEW k \in 1 .. n PROVE S[k] = G /\ S[k - 1] = G /\ k - 1 \in 0 .. n
    BY <1>2
  <1> HIDE DEF S
  <1>8. PICK g : Iteration(n, S, step, base, g)
    <2>1. \A k \in 1 .. n : \A f \in S[k - 1] : step[<<k, f>>] \in S[k]
      BY <1>5, <1>7
    <2> HIDE DEF step
    <2> QED BY <1>2, <1>6, <2>1, LoopExists
  <1>9. g = Turns(g)
    <2>1. \A k \in 0 .. n : k # 0 => step[<<k, g[k - 1]>>] = CancelTask(g[k - 1], tasks[k])
      <3> SUFFICES ASSUME NEW k \in 1 .. n
                   PROVE  step[<<k, g[k - 1]>>] = CancelTask(g[k - 1], tasks[k])
        <4> HIDE DEF step
        <4> QED BY <1>2
      <3>1. g[k - 1] \in S[k - 1]
        BY <1>7, <1>8 DEF Iteration
      <3>2. g[k - 1] \in G
        BY <1>7, <3>1
      <3> QED BY <3>2
    <2> HIDE DEF step
    <2>2. \A k \in 0 .. n : g[k] = IF k = 0 THEN base ELSE CancelTask(g[k - 1], tasks[k])
      BY <1>8, <2>1 DEF Iteration
    <2>3. g = [k \in 0 .. n |-> g[k]]
      BY <1>8 DEF Iteration
    <2> QED BY <2>2, <2>3
  <1> HIDE DEF Turns
  <1>10. C = Turns(C)
    BY <1>9
  <1>11. CancelCtx(e, c) = [C[n] EXCEPT !.list[c] = <<>>]
    BY DEF CancelCtx, Turns, base, n, tasks
  <1> HIDE DEF C
  <1>12. C[n] \in S[n]
    <2>1. \A k \in 0 .. n : C[k] = IF k = 0 THEN base ELSE CancelTask(C[k - 1], tasks[k])
      BY <1>10 DEF Turns
    <2>2. \A k \in 1 .. n : C[k] = CancelTask(C[k - 1], tasks[k])
      BY <1>2, <2>1
    <2>3. C[0] \in S[0] /\ \A k \in 1 .. n : C[k - 1] \in S[k - 1] => C[k] \in S[k]
      BY <1>5, <1>6, <1>7, <2>1, <2>2
    <2> QED BY <1>2, <2>3, LoopKeeps
  <1>13. C[n] \in G
    <2>1. n = 0 \/ n \in 1 .. n
      BY <1>2
    <2> QED BY <1>6, <1>12, <2>1 DEF S
  <1>14. Good(C[n], r) /\ C[n] \in Engine /\ Calm(C[n])
    BY <1>13 DEF G
  <1> DEFINE h == C[n]
             q == [h EXCEPT !.list[c] = <<>>]
  <1>15. /\ q \in Engine /\ q.task = h.task /\ q.seq = h.seq /\ q.live = h.live
         /\ q.rr = h.rr /\ q.pq = h.pq /\ q.reread = h.reread /\ q.mode = h.mode
    <2> HIDE DEF h
    <2>1. h \in Engine
      BY <1>14 DEF h
    <2> DEFINE L == [h.list EXCEPT ![c] = <<>>]
    <2>2. L \in [CtxId -> Seq(Tid)]
      <3>1. h.list \in [CtxId -> Seq(Tid)] /\ <<>> \in Seq(Tid)
        BY <2>1, EngineFields, EmptySeq
      <3> QED BY <1>1, <3>1
    <2>3. q = [h EXCEPT !.list = L]
      OBVIOUS
    <2> HIDE DEF L, q
    <2> QED BY <2>1, <2>2, <2>3 DEF Engine
  <1> HIDE DEF q, h
  <1>16. Good(h, r) /\ StaysCalm(h, q)
    BY <1>14, <1>15 DEF StaysCalm, Calm, h
  <1>17. Good(q, r)
    BY <1>15, <1>16, GoodSame
  <1> QED BY <1>11, <1>17 DEF q, h

----------------------------------------------------------------------------
(* A new task *)

LEMMA LeastPrioIs ==
    ASSUME NEW S \in SUBSET (0 .. 2), S # {}
    PROVE  LeastPrio(S) \in 0 .. 2
  <1>1. S \in SUBSET Nat
    OBVIOUS
  <1>2. \E n \in S : \A m \in S : n <= m
    BY <1>1, LeastNatural
  <1>3. LeastPrio(S) \in S
    BY <1>2 DEF LeastPrio
  <1> QED BY <1>3

\* f is e with the task t, ready, as a child of p.
Joined(e, f, t, p) ==
    /\ f \in Engine /\ Queues(f) /\ t = e.seq + 1 /\ t \in Tid
    /\ f.seq = t /\ f.live = e.live \cup {t} /\ f.reread = e.reread
    /\ \A c \in Tid \ {t} : f.task[c] = e.task[c]
    /\ f.task[t].status = "ready" /\ f.task[t].aw = 0 /\ f.task[t].parent = p
    /\ InQueue(f) = InQueue(e) \cup {t}
    /\ StaysCalm(e, f)

LEMMA RegisterIs ==
    ASSUME NEW e \in Engine, Ordered(e), Queues(e), InQueue(e) \subseteq e.live,
           e.seq < MaxTasks, NEW p \in {0} \cup e.live, NEW c \in CtxId, NEW act \in Acts,
           NEW prio \in Prios
    PROVE  Joined(e, Register(e, p, c, act, prio), e.seq + 1, p)
  <1> DEFINE t == e.seq + 1
             kin == Ancestors(e, p)
             prios == {prio, 1} \cup {e.task[a].prio : a \in {p} \ {0}}
             fatal == c \in e.gone \/ \E a \in kin : e.task[a].act = act
             x == [NoTask EXCEPT !.prio = LeastPrio(prios), !.parent = p, !.ctx = c,
                                 !.act = act, !.fatal = fatal]
             T == [e.task EXCEPT ![t] = x]
             L == [e.list EXCEPT ![c] = <<t>> \o @]
             d == [e EXCEPT !.seq = t, !.live = @ \cup {t}, !.list[c] = <<t>> \o @, !.task[t] = x]
             f == Register(e, p, c, act, prio)
  <1>1. /\ e.seq \in Nat /\ MaxTasks \in Nat /\ t \in Tid /\ t \in 0 .. MaxTasks
        /\ e.live \subseteq 1 .. e.seq /\ t \notin e.live /\ p \in 0 .. MaxTasks /\ p \in 0 .. e.seq
    <2>1. e.seq \in 0 .. MaxTasks /\ MaxTasks \in Nat /\ e.live \subseteq 1 .. e.seq
      BY EngineFields, AsyncAssumption DEF Ordered
    <2> QED BY <2>1 DEF Tid
  <1>2. f = PushReady(d, t)
    BY DEF Register
  <1>3. x \in Record /\ x.parent = p /\ x.status = "ready" /\ x.aw = 0
    <2>1. prios \in SUBSET (0 .. 2) /\ prios # {}
      <3>1. e.task \in [Tid -> Record] /\ e.live \in SUBSET Tid
        BY EngineFields
      <3>2. \A a \in {p} \ {0} : e.task[a].prio \in 0 .. 2
        BY <3>1, RecordFields
      <3>3. prio \in 0 .. 2 /\ 1 \in 0 .. 2
        BY AsyncAssumption
      <3> QED BY <3>2, <3>3
    <2>2. LeastPrio(prios) \in 0 .. 2
      BY <2>1, LeastPrioIs
    <2>3. fatal \in BOOLEAN /\ 0 \in 0 .. MaxTasks
      BY <1>1
    <2> HIDE DEF fatal, prios
    <2> QED BY <1>1, <2>2, <2>3 DEF NoTask, Record
  <1> HIDE DEF x, f, t
  <1>4. T \in [Tid -> Record] /\ T[t] = x /\ \A a \in Tid \ {t} : T[a] = e.task[a]
    BY <1>1, <1>3, EngineFields
  <1>5. L \in [CtxId -> Seq(Tid)]
    <2>1. e.list[c] \in Seq(Tid) /\ <<t>> \in Seq(Tid)
      BY <1>1, EngineFields
    <2>2. <<t>> \o e.list[c] \in Seq(Tid)
      BY <2>1, ConcatProperties
    <2> QED BY <2>2, EngineFields
  <1>6. d = [e EXCEPT !.seq = t, !.live = e.live \cup {t}, !.list = L, !.task = T]
    OBVIOUS
  <1>7. /\ d \in Engine /\ d.seq = t /\ d.live = e.live \cup {t} /\ d.task = T
        /\ d.rr = e.rr /\ d.pq = e.pq /\ d.mode = e.mode /\ d.reread = e.reread
    <2>1. e.live \cup {t} \in SUBSET Tid
      BY <1>1, EngineFields
    <2> HIDE DEF T, L, d
    <2> QED BY <1>1, <1>4, <1>5, <1>6, <2>1 DEF Engine
  <1> HIDE DEF d
  <1>8. Queues(d) /\ InQueue(d) = InQueue(e)
    <2>1. \A a \in Elements(e.pq) : a \in Tid /\ a # t
      BY <1>1, EngineFields DEF InQueue
    <2>2. \A a \in Elements(e.pq) : d.task[a].prio = e.task[a].prio
      BY <1>4, <1>7, <2>1
    <2> QED BY <1>7, <2>2, EngineFields, QueuesSameOn
  <1>9. t \notin InQueue(d)
    BY <1>1, <1>8
  <1>10. Pushed(d, f, t)
    BY <1>1, <1>2, <1>7, <1>8, <1>9, PushReadyIs DEF d
  <1>11. /\ f \in Engine /\ Queues(f) /\ f.seq = t /\ f.live = e.live \cup {t}
         /\ f.reread = e.reread /\ InQueue(f) = InQueue(e) \cup {t}
         /\ f.task = [T EXCEPT ![t].status = "ready"]
    BY <1>7, <1>8, <1>10 DEF Pushed, SameTasks
  <1>12. StaysCalm(e, f)
    BY <1>7, <1>10 DEF Pushed, StaysCalm, Calm
  <1>13. /\ \A a \in Tid \ {t} : f.task[a] = e.task[a]
         /\ f.task[t].status = "ready" /\ f.task[t].aw = 0 /\ f.task[t].parent = p
    <2>1. f.task[t] = [x EXCEPT !.status = "ready"]
      BY <1>1, <1>4, <1>11
    <2>2. \A a \in Tid \ {t} : f.task[a] = T[a]
      BY <1>4, <1>11
    <2> QED BY <1>3, <1>4, <2>1, <2>2 DEF Record
  <1> QED BY <1>1, <1>11, <1>12, <1>13 DEF Joined, f, t

\* A task without a parent joins the others.
LEMMA StartKeeps ==
    ASSUME NEW e, NEW r, Good(e, r), NEW f, NEW t, Joined(e, f, t, 0), r # t
    PROVE  Good(f, r)
  <1>1. /\ e \in Engine /\ Ordered(e) /\ Family(e) /\ Awaits(e) /\ Runs(e, r)
        /\ InQueue(e) = Waiting(e, r)
    BY DEF Good
  <1>2. /\ f \in Engine /\ Queues(f) /\ t = e.seq + 1 /\ t \in Tid
        /\ f.seq = t /\ f.live = e.live \cup {t} /\ f.reread = e.reread
        /\ \A c \in Tid \ {t} : f.task[c] = e.task[c]
        /\ f.task[t].status = "ready" /\ f.task[t].aw = 0 /\ f.task[t].parent = 0
        /\ InQueue(f) = InQueue(e) \cup {t}
    BY DEF Joined
  <1>3. e.seq \in Nat /\ e.live \subseteq 1 .. e.seq /\ e.live \subseteq Tid /\ t \notin e.live /\ t # 0
    <2>1. e.seq \in Nat /\ e.live \subseteq 1 .. e.seq
      BY <1>1, OrderedFields
    <2> QED BY <1>1, <1>2, <2>1, EngineFields
  <1>4. \A c \in e.live : c # t /\ c \in Tid /\ f.task[c] = e.task[c] /\ c \in f.live
    BY <1>2, <1>3
  <1>5. Ordered(f)
    <2>1. f.live \subseteq 1 .. f.seq
      BY <1>2, <1>3
    <2>2. \A c \in Tid : f.task[c].parent < c
      BY <1>1, <1>2, <1>3 DEF Ordered
    <2> QED BY <2>1, <2>2 DEF Ordered
  <1>6. Family(f)
    BY <1>1, <1>2, <1>4 DEF Family
  <1>7. Awaits(f)
    <2> SUFFICES ASSUME NEW c \in f.live
                 PROVE  /\ f.task[c].aw # 0 =>
                           /\ f.task[c].aw \in f.live /\ f.task[f.task[c].aw].parent = c
                           /\ \/ /\ f.task[c].status = "suspended"
                                 /\ f.task[f.task[c].aw].status # "done"
                              \/ /\ f.task[c].status = "ready"
                                 /\ f.task[f.task[c].aw].status = "done"
                        /\ f.task[c].status = "suspended" => f.task[c].aw # 0
                        /\ f.task[c].status = "done" => f.task[c].parent # 0
                        /\ f.task[c].fatal => f.task[c].aw = 0
      BY DEF Awaits
    <2>1. CASE c = t
      BY <1>2, <2>1
    <2>2. CASE c # t
      <3>1. c \in e.live
        BY <1>2, <2>2
      <3> QED BY <1>1, <1>4, <3>1 DEF Awaits
    <2> QED BY <2>1, <2>2
  <1>8. Runs(f, r)
    BY <1>1, <1>4 DEF Runs
  <1>9. InQueue(f) = Waiting(f, r)
    BY <1>1, <1>2, <1>4 DEF Waiting
  <1>10. (MaxTasks < Threshold => Calm(f)) /\ (Cancels = {} => f.reread = {})
    BY <1>2 DEF Good, Joined, StaysCalm
  <1> QED BY <1>2, <1>5, <1>6, <1>7, <1>8, <1>9, <1>10 DEF Good

\* The running task suspends on the task that joins as its child.
LEMMA AwaitKeeps ==
    ASSUME NEW e, NEW r \in Tid, Good(e, r), NEW d, NEW t, Joined(e, d, t, r)
    PROVE  Good([d EXCEPT !.task[r].aw = t, !.task[r].status = "suspended"], 0)
  <1> DEFINE y == [d.task[r] EXCEPT !.aw = t, !.status = "suspended"]
             T == [d.task EXCEPT ![r] = y]
             f == [d EXCEPT !.task[r].aw = t, !.task[r].status = "suspended"]
  <1>1. /\ e \in Engine /\ Ordered(e) /\ Family(e) /\ Awaits(e) /\ Runs(e, r)
        /\ InQueue(e) = Waiting(e, r) /\ r # 0
    BY AsyncAssumption DEF Good, Tid
  <1>2. /\ d \in Engine /\ Queues(d) /\ t = e.seq + 1 /\ t \in Tid
        /\ d.seq = t /\ d.live = e.live \cup {t} /\ d.reread = e.reread
        /\ \A c \in Tid \ {t} : d.task[c] = e.task[c]
        /\ d.task[t].status = "ready" /\ d.task[t].aw = 0 /\ d.task[t].parent = r
        /\ InQueue(d) = InQueue(e) \cup {t}
    BY DEF Joined
  <1>3. /\ e.seq \in Nat /\ e.live \subseteq 1 .. e.seq /\ e.live \subseteq Tid
        /\ t \notin e.live /\ t # 0
    <2>1. e.seq \in Nat /\ e.live \subseteq 1 .. e.seq
      BY <1>1, OrderedFields
    <2> QED BY <1>1, <1>2, <2>1, EngineFields
  <1>4. r \in e.live /\ r # t /\ e.task[r].status = "ready" /\ e.task[r].aw = 0 /\ ~e.task[r].fatal
    BY <1>1, <1>3 DEF Runs
  <1>5. /\ y \in Record /\ y.aw = t /\ y.status = "suspended" /\ ~y.fatal
        /\ y.parent = e.task[r].parent /\ y.prio = e.task[r].prio
    <2>1. d.task[r] \in Record /\ d.task[r] = e.task[r] /\ t \in 0 .. MaxTasks
      <3>1. d.task \in [Tid -> Record]
        BY <1>2, EngineFields
      <3>2. t \in 0 .. MaxTasks
        BY <1>2, AsyncAssumption DEF Tid
      <3> QED BY <1>2, <1>4, <3>1, <3>2
    <2> DEFINE x == d.task[r]
    <2> HIDE DEF x
    <2>2. x \in Record /\ ~x.fatal /\ x.parent = e.task[r].parent /\ x.prio = e.task[r].prio
      BY <1>4, <2>1 DEF x
    <2>3. /\ [x EXCEPT !.aw = t, !.status = "suspended"] \in Record
          /\ [x EXCEPT !.aw = t, !.status = "suspended"].aw = t
          /\ [x EXCEPT !.aw = t, !.status = "suspended"].status = "suspended"
          /\ [x EXCEPT !.aw = t, !.status = "suspended"].fatal = x.fatal
          /\ [x EXCEPT !.aw = t, !.status = "suspended"].parent = x.parent
          /\ [x EXCEPT !.aw = t, !.status = "suspended"].prio = x.prio
      BY <2>1, <2>2 DEF Record
    <2> QED BY <2>2, <2>3 DEF x
  <1> HIDE DEF y
  <1>6. T \in [Tid -> Record] /\ T[r] = y /\ \A c \in Tid \ {r} : T[c] = d.task[c]
    BY <1>2, <1>5, EngineFields
  <1>7. f = [d EXCEPT !.task = T]
    <2>1. d.task \in [Tid -> Record]
      BY <1>2, EngineFields
    <2>2. [[d.task EXCEPT ![r].aw = t] EXCEPT ![r].status = "suspended"] = T
      BY <2>1 DEF y
    <2> HIDE DEF T
    <2> QED BY <1>2, <2>2 DEF Engine
  <1> HIDE DEF T, f
  <1>8. Retasked(d, f) /\ f.task = T
    BY <1>2, <1>6, <1>7, Retask
  <1>9. /\ f \in Engine /\ f.seq = t /\ f.live = e.live \cup {t} /\ f.reread = e.reread
        /\ f.rr = d.rr /\ f.pq = d.pq /\ f.mode = d.mode
    BY <1>2, <1>8 DEF Retasked, SameTasks
  <1>10. /\ \A c \in e.live \ {r} : f.task[c] = e.task[c] /\ c # t
         /\ \A c \in Tid \ {t} : f.task[c].parent = e.task[c].parent
         /\ f.task[r].parent = e.task[r].parent /\ f.task[r].aw = t /\ f.task[r].status = "suspended"
         /\ ~f.task[r].fatal
         /\ f.task[t].status = "ready" /\ f.task[t].aw = 0 /\ f.task[t].parent = r
    BY <1>2, <1>3, <1>4, <1>5, <1>6, <1>8
  <1>11. Queues(f) /\ InQueue(f) = InQueue(e) \cup {t}
    <2>1. \A c \in Tid : f.task[c].prio = d.task[c].prio
      BY <1>2, <1>4, <1>5, <1>6, <1>8
    <2> QED BY <1>2, <1>9, <2>1, EngineFields, QueuesSame
  <1>12. Ordered(f)
    <2>1. f.live \subseteq 1 .. f.seq
      BY <1>2, <1>3, <1>9
    <2>2. ASSUME NEW c \in Tid PROVE f.task[c].parent < c
      <3>1. CASE c = t
        BY <1>2, <1>3, <1>4, <1>10, <3>1
      <3>2. CASE c # t
        BY <1>1, <1>10, <3>2 DEF Ordered
      <3> QED BY <3>1, <3>2
    <2> QED BY <2>1, <2>2 DEF Ordered
  <1>13. Family(f)
    <2> SUFFICES ASSUME NEW c \in f.live, f.task[c].parent # 0
                 PROVE  f.task[c].parent \in f.live /\ f.task[f.task[c].parent].aw = c
      BY DEF Family
    <2>1. CASE c = t
      BY <1>4, <1>9, <1>10, <2>1
    <2>2. CASE c # t
      <3> DEFINE p == e.task[c].parent
      <3>1. c \in e.live /\ f.task[c].parent = p
        BY <1>3, <1>9, <1>10, <2>2
      <3>2. p \in e.live /\ e.task[p].aw = c /\ c # 0
        BY <1>1, <1>3, <3>1 DEF Family
      <3>3. p # r
        BY <1>4, <3>2
      <3> QED BY <1>9, <1>10, <3>1, <3>2, <3>3
    <2> QED BY <2>1, <2>2
  <1>14. Awaits(f)
    <2> SUFFICES ASSUME NEW c \in f.live
                 PROVE  /\ f.task[c].aw # 0 =>
                           /\ f.task[c].aw \in f.live /\ f.task[f.task[c].aw].parent = c
                           /\ \/ /\ f.task[c].status = "suspended"
                                 /\ f.task[f.task[c].aw].status # "done"
                              \/ /\ f.task[c].status = "ready"
                                 /\ f.task[f.task[c].aw].status = "done"
                        /\ f.task[c].status = "suspended" => f.task[c].aw # 0
                        /\ f.task[c].status = "done" => f.task[c].parent # 0
                        /\ f.task[c].fatal => f.task[c].aw = 0
      BY DEF Awaits
    <2>1. CASE c = t
      BY <1>10, <2>1
    <2>2. CASE c = r
      <3>1. f.task[c].aw = t /\ t \in f.live
        BY <1>9, <1>10, <2>2
      <3> QED BY <1>3, <1>10, <2>2, <3>1
    <2>3. CASE c # t /\ c # r
      <3> DEFINE a == e.task[c].aw
      <3>1. c \in e.live /\ f.task[c] = e.task[c]
        BY <1>9, <1>10, <2>3
      <3>2. /\ a # 0 => /\ a \in e.live /\ e.task[a].parent = c
                        /\ \/ e.task[c].status = "suspended" /\ e.task[a].status # "done"
                           \/ e.task[c].status = "ready" /\ e.task[a].status = "done"
            /\ e.task[c].status = "suspended" => a # 0
            /\ e.task[c].status = "done" => e.task[c].parent # 0
            /\ e.task[c].fatal => a = 0
        BY <1>1, <3>1 DEF Awaits
      <3> HIDE DEF a
      <3>3. ASSUME a # 0
            PROVE  /\ a \in f.live /\ f.task[a].parent = c
                   /\ \/ f.task[c].status = "suspended" /\ f.task[a].status # "done"
                      \/ f.task[c].status = "ready" /\ f.task[a].status = "done"
        <4>1. a \in e.live /\ a \in Tid /\ a # t /\ e.task[a].parent = c
          BY <1>3, <3>2, <3>3
        <4>2. a \in f.live /\ f.task[a].parent = c
          BY <1>9, <1>10, <4>1
        <4>3. f.task[a].status # "done" <=> e.task[a].status # "done"
          BY <1>4, <1>10, <4>1
        <4> QED BY <3>1, <3>2, <3>3, <4>2, <4>3
      <3>4. f.task[c].aw = a
        BY <3>1 DEF a
      <3> QED BY <3>1, <3>2, <3>3, <3>4
    <2> QED BY <2>1, <2>2, <2>3
  <1>15. Runs(f, 0)
    BY DEF Runs
  <1>16. InQueue(f) = Waiting(f, 0)
    <2>1. \A c \in e.live : c # 0
      BY <1>3
    <2> QED BY <1>1, <1>3, <1>4, <1>9, <1>10, <1>11, <2>1 DEF Waiting
  <1>17. (MaxTasks < Threshold => Calm(f)) /\ (Cancels = {} => f.reread = {})
    BY <1>9 DEF Good, Joined, StaysCalm, Calm
  <1> QED BY <1>9, <1>11, <1>12, <1>13, <1>14, <1>15, <1>16, <1>17 DEF Good, f

----------------------------------------------------------------------------
(* The end of a phase *)

\* What Awaits says of one task.
AwaitsAt(e, c) ==
    /\ e.task[c].aw # 0 =>
         /\ e.task[c].aw \in e.live /\ e.task[e.task[c].aw].parent = c
         /\ \/ e.task[c].status = "suspended" /\ e.task[e.task[c].aw].status # "done"
            \/ e.task[c].status = "ready" /\ e.task[e.task[c].aw].status = "done"
    /\ e.task[c].status = "suspended" => e.task[c].aw # 0
    /\ e.task[c].status = "done" => e.task[c].parent # 0
    /\ e.task[c].fatal => e.task[c].aw = 0

LEMMA AwaitsAtAll ==
    ASSUME NEW e
    PROVE  Awaits(e) <=> \A c \in e.live : AwaitsAt(e, c)
  BY DEF Awaits, AwaitsAt

\* A task that did not change awaits as before if the child did not, or not
\* between done and not done.
LEMMA AwaitsAtSame ==
    ASSUME NEW e, NEW f, NEW c, AwaitsAt(e, c), f.task[c] = e.task[c],
           e.task[c].aw # 0 => LET a == e.task[c].aw
                               IN /\ a \in f.live /\ f.task[a].parent = e.task[a].parent
                                  /\ (f.task[a].status = "done") <=> (e.task[a].status = "done")
    PROVE  AwaitsAt(f, c)
  <1> DEFINE a == e.task[c].aw
  <1>1. f.task[c].aw = a
    OBVIOUS
  <1>2. CASE a = 0
    BY <1>1, <1>2 DEF AwaitsAt
  <1>3. CASE a # 0
    <2>1. a \in f.live /\ f.task[a].parent = c
      BY <1>3 DEF AwaitsAt
    <2>2. f.task[a].status = "done" <=> e.task[a].status = "done"
      BY <1>3
    <2>3. \/ e.task[c].status = "suspended" /\ e.task[a].status # "done"
          \/ e.task[c].status = "ready" /\ e.task[a].status = "done"
      BY <1>3 DEF AwaitsAt
    <2> HIDE DEF a
    <2> QED BY <1>1, <1>3, <2>1, <2>2, <2>3 DEF AwaitsAt, a
  <1> QED BY <1>2, <1>3

\* The running task finishes. It is freed, or its parent is woken to collect it.
LEMMA FinishKeeps ==
    ASSUME NEW e, NEW t \in Tid, Good(e, t)
    PROVE  Good(Finish(e, t), 0)
  <1> DEFINE x == e.task[t]
             y == [x EXCEPT !.status = "done"]
             T == [e.task EXCEPT ![t] = y]
             d == [e EXCEPT !.task[t].status = "done"]
             p == x.parent
             f == Finish(e, t)
  <1>1. /\ e \in Engine /\ Ordered(e) /\ Family(e) /\ Awaits(e) /\ Runs(e, t)
        /\ Queues(e) /\ InQueue(e) = Waiting(e, t) /\ t # 0
    BY AsyncAssumption DEF Good, Tid
  <1>2. /\ e.task \in [Tid -> Record] /\ e.pq \in Seq(Tid) /\ e.live \in SUBSET Tid
        /\ e.live \subseteq 1 .. e.seq /\ x \in Record
    BY <1>1, EngineFields DEF Ordered
  <1>3. t \in e.live /\ x.status = "ready" /\ x.aw = 0 /\ ~x.fatal
    BY <1>1 DEF Runs
  <1>4. /\ y \in Record /\ y.prio = x.prio /\ y.status = "done" /\ y.aw = 0 /\ ~y.fatal
        /\ y.parent = p
    <2>1. y \in Record /\ y.prio = x.prio
      BY <1>2, RecordStatus
    <2> HIDE DEF x
    <2>2. y.status = "done" /\ y.aw = 0 /\ ~y.fatal /\ y.parent = p
      BY <1>2, <1>3 DEF Record
    <2> QED BY <2>1, <2>2
  <1>5. d = [e EXCEPT !.task = T]
    OBVIOUS
  <1> HIDE DEF x, y, f, d
  <1>6. /\ T \in [Tid -> Record] /\ T[t] = y /\ \A c \in Tid \ {t} : T[c] = e.task[c]
    BY <1>2, <1>4
  <1> HIDE DEF T
  <1>7. Retasked(e, d) /\ d.task = T
    BY <1>1, <1>5, <1>6, Retask
  <1>8. /\ d \in Engine /\ Queues(d) /\ InQueue(d) = InQueue(e)
        /\ d.live = e.live /\ d.seq = e.seq /\ d.reread = e.reread /\ (Calm(e) => Calm(d))
    <2>1. d \in Engine /\ d.live = e.live /\ d.seq = e.seq /\ d.reread = e.reread
          /\ (Calm(e) => Calm(d))
      BY <1>7 DEF Retasked, SameTasks, Calm
    <2>2. d.rr = e.rr /\ d.pq = e.pq /\ \A c \in Tid : d.task[c].prio = e.task[c].prio
      BY <1>4, <1>6, <1>7 DEF Retasked, x
    <2> QED BY <1>1, <1>2, <2>1, <2>2, QueuesSame
  <1>9. t \notin InQueue(e)
    BY <1>1 DEF Waiting
  <1>10. \A c \in e.live : e.task[c].parent # t
    <2>1. \A c \in e.live : c # 0
      BY <1>2
    <2> QED BY <1>1, <1>3, <2>1 DEF Family, x
  <1>11. f = IF p # 0 /\ e.task[p].aw = t
             THEN IF e.task[p].status = "suspended" THEN PushReady(d, p) ELSE d
             ELSE TaskFree(d, t)
    BY DEF Finish, f, d, x
  <1>12. CASE p # 0
    <2>1. p \in e.live /\ e.task[p].aw = t /\ p \in Tid
      BY <1>1, <1>2, <1>3, <1>12 DEF Family, x
    <2>2. p < t /\ p \in Int /\ t \in Int
      BY <1>1, <2>1 DEF Ordered, Tid, x
    <2>3. p # t
      <3> HIDE DEF p
      <3> QED BY <2>2
    <2>4. e.task[p].status = "suspended" /\ ~e.task[p].fatal
      <3>1. AwaitsAt(e, p)
        BY <1>1, <2>1, AwaitsAtAll
      <3>2. e.task[p].aw # 0 /\ e.task[e.task[p].aw].status = "ready"
        BY <1>1, <1>3, <2>1 DEF x
      <3> QED BY <3>1, <3>2 DEF AwaitsAt
    <2> HIDE DEF p
    <2>5. f = PushReady(d, p)
      BY <1>11, <1>12, <2>1, <2>4
    <2>6. p \notin InQueue(d)
      BY <1>1, <1>8, <2>4 DEF Waiting
    <2>7. Pushed(d, f, p)
      BY <1>8, <2>1, <2>5, <2>6, PushReadyIs
    <2>8. /\ f \in Engine /\ Queues(f) /\ f.live = e.live /\ f.seq = e.seq /\ f.reread = e.reread
          /\ f.task = [T EXCEPT ![p].status = "ready"]
          /\ InQueue(f) = InQueue(e) \cup {p} /\ StaysCalm(e, f)
      BY <1>7, <1>8, <2>7 DEF Pushed, SameTasks, StaysCalm
    <2>9. /\ f.task[p].status = "ready" /\ f.task[p].aw = t /\ ~f.task[p].fatal
          /\ f.task[p].parent = e.task[p].parent
          /\ f.task[t] = y /\ \A c \in Tid \ {p, t} : f.task[c] = e.task[c]
      <3>1. T[p] \in Record /\ T[p] = e.task[p]
        BY <1>6, <2>1, <2>3
      <3>2. f.task[p] = [T[p] EXCEPT !.status = "ready"]
        BY <1>6, <2>1, <2>8
      <3>3. \A c \in Tid \ {p} : f.task[c] = T[c]
        BY <1>6, <2>8
      <3>4. /\ f.task[p].status = "ready" /\ f.task[p].aw = t /\ ~f.task[p].fatal
            /\ f.task[p].parent = e.task[p].parent
        BY <2>1, <2>4, <3>1, <3>2 DEF Record
      <3> QED BY <1>6, <2>1, <2>3, <3>3, <3>4
    <2>10. \A c \in Tid : f.task[c].parent = e.task[c].parent
      BY <1>4, <2>9 DEF p, x
    <2>11. Ordered(f)
      BY <1>1, <2>8, <2>10 DEF Ordered
    <2>12. Family(f)
      <3>1. \A c \in e.live : f.task[c].aw = e.task[c].aw
        BY <1>2, <1>3, <1>4, <2>1, <2>9 DEF x
      <3> QED BY <1>1, <1>2, <2>8, <2>10, <3>1 DEF Family
    <2>13. Awaits(f)
      <3> SUFFICES ASSUME NEW c \in f.live PROVE AwaitsAt(f, c)
        BY AwaitsAtAll
      <3>1. CASE c = p
        <4>1. f.task[t].parent = p /\ f.task[t].status = "done" /\ t \in f.live
          BY <1>3, <1>4, <2>8, <2>9
        <4> QED BY <2>9, <3>1, <4>1 DEF AwaitsAt
      <3>2. CASE c = t
        BY <1>4, <1>12, <2>9, <3>2 DEF AwaitsAt
      <3>3. CASE c # p /\ c # t
        <4> DEFINE a == e.task[c].aw
        <4>1. AwaitsAt(e, c) /\ f.task[c] = e.task[c]
          BY <1>1, <1>2, <2>8, <2>9, <3>3, AwaitsAtAll
        <4>2. ASSUME a # 0
              PROVE  /\ a \in f.live /\ f.task[a].parent = e.task[a].parent
                     /\ f.task[a].status = "done" <=> e.task[a].status = "done"
          <5>1. a \in e.live /\ e.task[a].parent = c /\ a \in Tid
            BY <1>2, <4>1, <4>2 DEF AwaitsAt
          <5> HIDE DEF a
          <5>2. a # t
            BY <3>3, <5>1 DEF p, x
          <5>3. f.task[a].status = "done" <=> e.task[a].status = "done"
            BY <2>4, <2>9, <5>1, <5>2
          <5> QED BY <2>8, <2>10, <5>1, <5>3
        <4> QED BY <4>1, <4>2, AwaitsAtSame
      <3> QED BY <3>1, <3>2, <3>3
    <2>14. InQueue(f) = Waiting(f, 0)
      <3>1. \A c \in e.live : c # 0
        BY <1>2
      <3> QED BY <1>1, <1>2, <1>3, <1>4, <2>1, <2>3, <2>8, <2>9, <3>1 DEF Waiting
    <2>15. (MaxTasks < Threshold => Calm(f)) /\ (Cancels = {} => f.reread = {})
      BY <2>8 DEF Good, StaysCalm
    <2>16. Runs(f, 0)
      BY DEF Runs
    <2> QED BY <2>8, <2>11, <2>12, <2>13, <2>14, <2>15, <2>16 DEF Good, f
  <1>13. CASE p = 0
    <2>1. f = TaskFree(d, t)
      BY <1>11, <1>13
    <2>2. t \in d.live /\ d.task[t].status = "done"
      BY <1>3, <1>4, <1>6, <1>7, <1>8
    <2>3. Freed(d, f, t)
      BY <1>8, <2>1, <2>2, TaskFreeIs
    <2>4. f.task = T
      <3>1. \A c \in e.live : T[c].parent # t
        <4>1. T[t].parent # t
          BY <1>1, <1>4, <1>6, <1>13
        <4> QED BY <1>2, <1>6, <1>10, <4>1
      <3>2. Children(d, t) = {}
        BY <1>7, <1>8, <3>1 DEF Children
      <3>3. f.task = [c \in Tid |-> T[c]]
        BY <1>7, <2>3, <3>2 DEF Freed
      <3> QED BY <1>6, <3>3
    <2>5. /\ f \in Engine /\ Queues(f) /\ f.live = e.live \ {t} /\ f.seq = e.seq
          /\ f.reread = e.reread /\ InQueue(f) = InQueue(e) /\ (Calm(e) => Calm(f))
      BY <1>8, <2>2, <2>3 DEF Freed
    <2>6. \A c \in f.live : f.task[c] = e.task[c]
      BY <1>2, <1>6, <2>4, <2>5
    <2>7. Ordered(f)
      <3>1. \A c \in Tid : f.task[c].parent = e.task[c].parent
        BY <1>4, <1>6, <2>4 DEF x
      <3> QED BY <1>1, <2>5, <3>1 DEF Ordered
    <2>8. Family(f)
      BY <1>1, <1>10, <2>5, <2>6 DEF Family
    <2>9. Awaits(f)
      <3> SUFFICES ASSUME NEW c \in f.live PROVE AwaitsAt(f, c)
        BY AwaitsAtAll
      <3> DEFINE a == e.task[c].aw
      <3>1. AwaitsAt(e, c) /\ f.task[c] = e.task[c] /\ c # 0
        BY <1>1, <1>2, <2>5, <2>6, AwaitsAtAll
      <3>2. ASSUME a # 0
            PROVE  /\ a \in f.live /\ f.task[a].parent = e.task[a].parent
                   /\ f.task[a].status = "done" <=> e.task[a].status = "done"
        <4>1. a \in e.live /\ e.task[a].parent = c
          BY <3>1, <3>2 DEF AwaitsAt
        <4> HIDE DEF a
        <4>2. a # t
          BY <1>13, <3>1, <4>1 DEF x
        <4>3. f.task[a] = e.task[a] /\ a \in f.live
          BY <2>5, <2>6, <4>1, <4>2
        <4> QED BY <4>3
      <3> QED BY <3>1, <3>2, AwaitsAtSame
    <2>10. InQueue(f) = Waiting(f, 0)
      <3>1. \A c \in e.live : c # 0
        BY <1>2
      <3> QED BY <1>1, <2>5, <2>6, <3>1 DEF Waiting
    <2>11. (MaxTasks < Threshold => Calm(f)) /\ (Cancels = {} => f.reread = {})
      BY <2>5 DEF Good
    <2>12. Runs(f, 0)
      BY DEF Runs
    <2> QED BY <2>5, <2>7, <2>8, <2>9, <2>10, <2>11, <2>12 DEF Good, f
  <1> QED BY <1>12, <1>13

----------------------------------------------------------------------------
(* The turn of a task *)

\* f is e without the task t in its queue.
Dequeued(e, f, t) ==
    /\ f \in Engine /\ SameTasks(e, f) /\ f.task = e.task /\ Queues(f)
    /\ t \in InQueue(e) /\ InQueue(f) = InQueue(e) \ {t}
    /\ StaysCalm(e, f)

LEMMA DequeueIs ==
    ASSUME NEW e \in Engine, Queues(e), Ready(e) # <<>>
    PROVE  Dequeued(e, Dequeue(e), Head(Ready(e)))
  <1> DEFINE t == Head(Ready(e))
             f == Dequeue(e)
  <1>1. /\ e.rr \in Seq(Tid) /\ e.pq \in Seq(Tid) /\ Once(e.rr) /\ Once(e.pq)
        /\ Elements(e.rr) \cap Elements(e.pq) = {} /\ Heaped(e, e.pq)
    BY EngineFields DEF Queues
  <1>2. CASE e.mode = "RR"
    <2> DEFINE q == Tail(e.rr)
    <2>1. t = Head(e.rr) /\ e.rr # <<>> /\ f = [e EXCEPT !.rr = q]
      BY <1>2 DEF Ready, Dequeue
    <2>2. /\ q \in Seq(Tid) /\ Once(q) /\ Elements(q) = Elements(e.rr) \ {t}
          /\ t \in Elements(e.rr)
      <3>1. e.rr \in Seq(Tid) /\ Once(e.rr) /\ e.rr # <<>>
        BY <1>1, <2>1
      <3> HIDE DEF t
      <3> QED BY <2>1, <3>1, TailOnce
    <2> HIDE DEF q, t, f
    <2>3. /\ f \in Engine /\ SameTasks(e, f) /\ f.task = e.task /\ f.rr = q /\ f.pq = e.pq
          /\ f.mode = e.mode
      BY <2>1, <2>2 DEF Engine, SameTasks
    <2>4. Queues(f)
      <3>1. Heaped(f, f.pq)
        BY <1>1, <2>3 DEF Heaped, Less
      <3> QED BY <1>1, <2>2, <2>3, <3>1 DEF Queues
    <2>5. t \in InQueue(e) /\ InQueue(f) = InQueue(e) \ {t}
      BY <1>1, <2>2, <2>3 DEF InQueue
    <2> QED BY <2>3, <2>4, <2>5 DEF Dequeued, StaysCalm, Calm, f, t
  <1>3. CASE e.mode # "RR"
    <2>1. t = Head(e.pq) /\ e.pq # <<>> /\ f = PqPop(e)
      BY <1>3 DEF Ready, Dequeue
    <2>2. /\ t \in Elements(e.pq)
          /\ \E q \in Seq(Tid) :
                /\ f = [e EXCEPT !.pq = q]
                /\ Once(q) /\ Elements(q) = Elements(e.pq) \ {t} /\ Heaped(e, q)
      BY <2>1, PqPopHeap
    <2> HIDE DEF t, f
    <2>3. PICK q \in Seq(Tid) :
              /\ f = [e EXCEPT !.pq = q]
              /\ Once(q) /\ Elements(q) = Elements(e.pq) \ {t} /\ Heaped(e, q)
      BY <2>2
    <2>4. /\ f \in Engine /\ SameTasks(e, f) /\ f.task = e.task /\ f.rr = e.rr /\ f.pq = q
      BY <2>3 DEF Engine, SameTasks
    <2>5. Queues(f)
      <3>1. Heaped(f, f.pq)
        BY <2>3, <2>4 DEF Heaped, Less
      <3> QED BY <1>1, <2>3, <2>4, <3>1 DEF Queues
    <2>6. t \in InQueue(e) /\ InQueue(f) = InQueue(e) \ {t}
      BY <1>1, <2>2, <2>3, <2>4 DEF InQueue
    <2> QED BY <1>3, <2>4, <2>5, <2>6 DEF Dequeued, StaysCalm, Calm, f, t
  <1> QED BY <1>2, <1>3

\* f is e, where nothing runs, with the turn of t begun: only what t awaits is
\* not yet as it is for a running task.
Taken(e, f, t) ==
    /\ f \in Engine /\ Queues(f) /\ SameTasks(e, f) /\ f.task = e.task
    /\ t \in e.live /\ e.task[t].status = "ready" /\ InQueue(f) = Waiting(f, t)
    /\ StaysCalm(e, f)

LEMMA TurnBegins ==
    ASSUME NEW e, Good(e, 0), Ready(e) # <<>>
    PROVE  Taken(e, Dequeue(e), Head(Ready(e)))
  <1> DEFINE t == Head(Ready(e))
             f == Dequeue(e)
  <1>1. e \in Engine /\ Queues(e) /\ InQueue(e) = Waiting(e, 0)
    BY DEF Good
  <1>2. Dequeued(e, f, t)
    BY <1>1, DequeueIs
  <1> HIDE DEF t, f
  <1>3. t \in e.live /\ e.task[t].status = "ready"
    BY <1>1, <1>2 DEF Dequeued, Waiting
  <1>4. InQueue(f) = Waiting(f, t)
    <2>1. \A c \in e.live : c # 0
      BY <1>1, EngineFields, AsyncAssumption DEF Tid
    <2> QED BY <1>1, <1>2, <2>1 DEF Dequeued, SameTasks, Waiting
  <1> QED BY <1>2, <1>3, <1>4 DEF Dequeued, Taken, t, f

\* A task that awaits nothing and may run is running.
LEMMA TakenIsGood ==
    ASSUME NEW e, Good(e, 0), NEW d, NEW t, Taken(e, d, t), NEW f \in Engine,
           Queues(f), InQueue(f) = InQueue(d), f.live = d.live, f.seq = d.seq,
           f.reread = d.reread, Calm(d) => Calm(f),
           \A c \in e.live \ {t} : f.task[c] = e.task[c],
           \A c \in Tid : f.task[c].parent = e.task[c].parent,
           f.task[t].status = "ready", f.task[t].aw = 0, ~f.task[t].fatal,
           e.task[t].aw = 0
    PROVE  Good(f, t)
  <1>1. /\ e \in Engine /\ Ordered(e) /\ Family(e) /\ Awaits(e) /\ e.live \in SUBSET Tid
    BY EngineFields DEF Good
  <1>2. /\ d.live = e.live /\ d.seq = e.seq /\ d.reread = e.reread /\ d.task = e.task
        /\ t \in e.live /\ e.task[t].status = "ready" /\ InQueue(d) = Waiting(d, t)
        /\ StaysCalm(e, d)
    BY DEF Taken, SameTasks
  <1>3. Ordered(f)
    BY <1>1, <1>2 DEF Ordered
  <1>4. Family(f)
    <2>1. \A c \in e.live : f.task[c].aw = e.task[c].aw
      OBVIOUS
    <2> QED BY <1>1, <1>2, <2>1 DEF Family
  <1>5. Awaits(f)
    <2> SUFFICES ASSUME NEW c \in f.live PROVE AwaitsAt(f, c)
      BY AwaitsAtAll
    <2>1. CASE c = t
      BY <2>1 DEF AwaitsAt
    <2>2. CASE c # t
      <3> DEFINE a == e.task[c].aw
      <3>1. AwaitsAt(e, c) /\ f.task[c] = e.task[c]
        BY <1>1, <1>2, <2>2, AwaitsAtAll
      <3>2. ASSUME a # 0
            PROVE  /\ a \in f.live /\ f.task[a].parent = e.task[a].parent
                   /\ f.task[a].status = "done" <=> e.task[a].status = "done"
        <4>1. a \in e.live /\ a \in Tid
          BY <1>1, <3>1, <3>2 DEF AwaitsAt
        <4> HIDE DEF a
        <4>2. f.task[a].status = "done" <=> e.task[a].status = "done"
          BY <1>2, <4>1
        <4> QED BY <1>2, <4>1, <4>2
      <3> QED BY <3>1, <3>2, AwaitsAtSame
    <2> QED BY <2>1, <2>2
  <1>6. Runs(f, t)
    BY <1>2 DEF Runs
  <1>7. InQueue(f) = Waiting(f, t)
    BY <1>2 DEF Waiting
  <1>8. (MaxTasks < Threshold => Calm(f)) /\ (Cancels = {} => f.reread = {})
    BY <1>2 DEF Good, StaysCalm
  <1> QED BY <1>3, <1>4, <1>5, <1>6, <1>7, <1>8 DEF Good

\* A task that must not run finishes at once: it never awaited anything.
LEMMA FatalTurn ==
    ASSUME NEW e, Good(e, 0), NEW d, NEW t, Taken(e, d, t), d.task[t].fatal
    PROVE  t \in Tid /\ Good([d EXCEPT !.task[t].fatal = FALSE], t)
  <1> DEFINE x == e.task[t]
             y == [x EXCEPT !.fatal = FALSE]
             T == [e.task EXCEPT ![t] = y]
             f == [d EXCEPT !.task[t].fatal = FALSE]
  <1>1. /\ e \in Engine /\ Awaits(e) /\ e.live \in SUBSET Tid /\ e.task \in [Tid -> Record]
    BY EngineFields DEF Good
  <1>2. /\ d \in Engine /\ Queues(d) /\ d.task = e.task /\ d.live = e.live
        /\ t \in e.live /\ t \in Tid /\ x.status = "ready" /\ x \in Record
    BY <1>1 DEF Taken, SameTasks
  <1>3. x.aw = 0
    BY <1>1, <1>2 DEF Awaits
  <1>4. f = [d EXCEPT !.task = T]
    BY <1>2
  <1>5. /\ y \in Record /\ y.prio = x.prio /\ y.status = "ready" /\ y.aw = 0 /\ ~y.fatal
        /\ y.parent = x.parent
    <2>1. y \in Record /\ y.prio = x.prio
      BY <1>2, RecordFatal
    <2> HIDE DEF x
    <2>2. y.status = "ready" /\ y.aw = 0 /\ ~y.fatal /\ y.parent = x.parent
      BY <1>2, <1>3 DEF Record
    <2> QED BY <2>1, <2>2
  <1> HIDE DEF x, y, f
  <1>6. T \in [Tid -> Record] /\ T[t] = y /\ \A c \in Tid \ {t} : T[c] = e.task[c]
    BY <1>1, <1>2, <1>5
  <1> HIDE DEF T
  <1>7. Retasked(d, f) /\ f.task = T
    BY <1>2, <1>4, <1>6, Retask
  <1>8. Queues(f) /\ InQueue(f) = InQueue(d)
    <2>1. f.rr = d.rr /\ f.pq = d.pq /\ \A c \in Tid : f.task[c].prio = d.task[c].prio
      BY <1>2, <1>5, <1>6, <1>7 DEF Retasked, x
    <2> QED BY <1>2, <2>1, EngineFields, QueuesSame
  <1>9. /\ f \in Engine /\ f.live = d.live /\ f.seq = d.seq /\ f.reread = d.reread
        /\ (Calm(d) => Calm(f))
    BY <1>7 DEF Retasked, SameTasks, Calm
  <1>10. /\ \A c \in e.live \ {t} : f.task[c] = e.task[c]
         /\ \A c \in Tid : f.task[c].parent = e.task[c].parent
         /\ f.task[t].status = "ready" /\ f.task[t].aw = 0 /\ ~f.task[t].fatal
    BY <1>1, <1>5, <1>6, <1>7 DEF x
  <1>11. e.task[t].aw = 0
    BY <1>3 DEF x
  <1>12. Good(f, t)
    BY <1>8, <1>9, <1>10, <1>11, TakenIsGood
  <1> QED BY <1>2, <1>12 DEF f

\* Any other task first collects the child it awaited, which is done.
LEMMA CollectTurn ==
    ASSUME NEW e, Good(e, 0), NEW d, NEW t, Taken(e, d, t), ~d.task[t].fatal
    PROVE  t \in Tid /\ Good(AwaitResult(d, t), t)
  <1> DEFINE x == e.task[t]
             a == x.aw
             y == [x EXCEPT !.aw = 0]
             T == [e.task EXCEPT ![t] = y]
             g == TaskFree(d, a)
             f == AwaitResult(d, t)
  <1>1. /\ e \in Engine /\ Ordered(e) /\ Family(e) /\ Awaits(e) /\ e.live \in SUBSET Tid
        /\ e.task \in [Tid -> Record]
    BY EngineFields DEF Good
  <1>2. /\ d \in Engine /\ Queues(d) /\ d.task = e.task /\ d.live = e.live /\ d.seq = e.seq
        /\ d.reread = e.reread /\ InQueue(d) = Waiting(d, t) /\ StaysCalm(e, d)
        /\ t \in e.live /\ t \in Tid /\ t # 0 /\ x.status = "ready" /\ x \in Record /\ ~x.fatal
    BY <1>1, AsyncAssumption DEF Taken, SameTasks, Tid
  <1>3. f = IF a = 0 THEN d ELSE [g EXCEPT !.task[t].aw = 0]
    BY <1>2 DEF AwaitResult
  <1>4. CASE a = 0
    <2>1. f = d
      BY <1>3, <1>4
    <2>2. Good(d, t)
      BY <1>2, <1>4, TakenIsGood
    <2> HIDE DEF f
    <2> QED BY <1>2, <2>1, <2>2 DEF f
  <1>5. CASE a # 0
    <2>1. a \in e.live /\ e.task[a].parent = t /\ e.task[a].status = "done" /\ a # t
      <3>1. AwaitsAt(e, t)
        BY <1>1, <1>2, AwaitsAtAll
      <3> QED BY <1>2, <1>5, <3>1 DEF AwaitsAt
    <2>2. e.task[a].aw = 0
      <3>1. AwaitsAt(e, a)
        BY <1>1, <2>1, AwaitsAtAll
      <3> HIDE DEF a
      <3> QED BY <2>1, <3>1 DEF AwaitsAt
    <2>3. y \in Record /\ y.prio = x.prio /\ y.aw = 0 /\ y.status = "ready" /\ ~y.fatal
          /\ y.parent = x.parent
      <3>1. 0 \in 0 .. MaxTasks
        BY AsyncAssumption
      <3>2. y \in Record /\ y.prio = x.prio
        BY <1>2, <3>1, RecordAw
      <3> HIDE DEF x
      <3>3. y.aw = 0 /\ y.status = "ready" /\ ~y.fatal /\ y.parent = x.parent
        BY <1>2 DEF Record
      <3> QED BY <3>2, <3>3
    <2> HIDE DEF x, y, g, f, a
    <2>4. T \in [Tid -> Record] /\ T[t] = y /\ \A c \in Tid \ {t} : T[c] = e.task[c]
      BY <1>1, <1>2, <2>3
    <2>5. Freed(d, g, a)
      BY <1>2, <2>1, TaskFreeIs DEF g
    <2>6. \A c \in e.live : e.task[c].parent # a /\ c # 0
      <3>1. \A c \in e.live : c # 0
        BY <1>1, AsyncAssumption DEF Tid
      <3> QED BY <1>1, <1>5, <2>2, <3>1 DEF Family
    <2>7. g.task = e.task
      <3>1. Children(d, a) = {}
        BY <1>2, <2>6 DEF Children
      <3>2. g.task = [c \in Tid |-> e.task[c]]
        BY <1>2, <2>5, <3>1 DEF Freed
      <3> QED BY <1>1, <3>2
    <2>8. /\ g \in Engine /\ Queues(g) /\ g.live = e.live \ {a} /\ g.seq = e.seq
          /\ g.reread = e.reread /\ InQueue(g) = InQueue(d) /\ StaysCalm(e, g)
      BY <1>2, <2>1, <2>5 DEF Freed, StaysCalm
    <2>9. f = [g EXCEPT !.task = T]
      <3>1. f = [g EXCEPT !.task[t].aw = 0]
        BY <1>3, <1>5
      <3>2. [g EXCEPT !.task[t].aw = 0] = [g EXCEPT !.task = [g.task EXCEPT ![t].aw = 0]]
        OBVIOUS
      <3>3. [e.task EXCEPT ![t].aw = 0] = T
        BY <1>1, <1>2 DEF T, y, x
      <3> QED BY <2>7, <3>1, <3>2, <3>3
    <2> HIDE DEF T
    <2>10. Retasked(g, f) /\ f.task = T
      BY <2>4, <2>8, <2>9, Retask
    <2>11. Queues(f) /\ InQueue(f) = InQueue(d)
      <3>1. f.rr = g.rr /\ f.pq = g.pq /\ \A c \in Tid : f.task[c].prio = g.task[c].prio
        BY <1>2, <2>3, <2>4, <2>7, <2>10 DEF Retasked, x
      <3> QED BY <2>8, <3>1, EngineFields, QueuesSame
    <2>12. /\ f \in Engine /\ f.live = e.live \ {a} /\ f.seq = e.seq /\ f.reread = e.reread
           /\ StaysCalm(e, f)
      BY <2>8, <2>10 DEF Retasked, SameTasks, Calm, StaysCalm
    <2>13. /\ \A c \in Tid \ {t} : f.task[c] = e.task[c]
           /\ \A c \in Tid : f.task[c].parent = e.task[c].parent
           /\ f.task[t].status = "ready" /\ f.task[t].aw = 0 /\ ~f.task[t].fatal
      BY <2>3, <2>4, <2>10 DEF x
    <2>14. Ordered(f)
      BY <1>1, <2>12, <2>13 DEF Ordered
    <2>15. Family(f)
      <3> SUFFICES ASSUME NEW c \in f.live, f.task[c].parent # 0
                   PROVE  f.task[c].parent \in f.live /\ f.task[f.task[c].parent].aw = c
        BY DEF Family
      <3> DEFINE p == e.task[c].parent
      <3>1. c \in e.live /\ c # a /\ f.task[c].parent = p
        BY <1>1, <2>12, <2>13
      <3>2. p \in e.live /\ e.task[p].aw = c
        BY <1>1, <3>1 DEF Family
      <3>3. p # t /\ p # a /\ p \in Tid
        BY <1>1, <2>6, <3>1, <3>2 DEF a, x
      <3> QED BY <2>12, <2>13, <3>1, <3>2, <3>3
    <2>16. Awaits(f)
      <3> SUFFICES ASSUME NEW c \in f.live PROVE AwaitsAt(f, c)
        BY AwaitsAtAll
      <3>1. CASE c = t
        BY <2>13, <3>1 DEF AwaitsAt
      <3>2. CASE c # t
        <4> DEFINE b == e.task[c].aw
        <4>1. AwaitsAt(e, c) /\ f.task[c] = e.task[c]
          BY <1>1, <2>12, <2>13, <3>2, AwaitsAtAll
        <4>2. ASSUME b # 0
              PROVE  /\ b \in f.live /\ f.task[b].parent = e.task[b].parent
                     /\ f.task[b].status = "done" <=> e.task[b].status = "done"
          <5>1. b \in e.live /\ e.task[b].parent = c /\ b \in Tid
            BY <1>1, <4>1, <4>2 DEF AwaitsAt
          <5> HIDE DEF b
          <5>2. b # a
            BY <2>1, <3>2, <5>1
          <5>3. f.task[b].status = "done" <=> e.task[b].status = "done"
            BY <1>2, <2>13, <5>1 DEF x
          <5> QED BY <2>12, <2>13, <5>1, <5>2, <5>3
        <4> QED BY <4>1, <4>2, AwaitsAtSame
      <3> QED BY <3>1, <3>2
    <2>17. Runs(f, t)
      BY <1>2, <2>1, <2>12, <2>13 DEF Runs
    <2>18. InQueue(f) = Waiting(f, t)
      <3>1. \A c \in e.live \ {t} : f.task[c] = e.task[c]
        BY <1>1, <2>13
      <3> QED BY <1>2, <2>1, <2>11, <2>12, <3>1 DEF Waiting
    <2>19. (MaxTasks < Threshold => Calm(f)) /\ (Cancels = {} => f.reread = {})
      BY <2>12 DEF Good, StaysCalm
    <2> QED BY <1>2, <2>11, <2>12, <2>14, <2>15, <2>16, <2>17, <2>18, <2>19 DEF Good, f
  <1> QED BY <1>4, <1>5

----------------------------------------------------------------------------
(* The steps of the program *)

LEMMA AdjustKeeps ==
    ASSUME NEW e, NEW r, Good(e, r)
    PROVE  Good(AdjustMode(e), r)
  <1>1. e \in Engine /\ Queues(e)
    BY DEF Good
  <1>2. Adjusted(e, AdjustMode(e))
    BY <1>1, AdjustIs
  <1> DEFINE f == AdjustMode(e)
  <1> HIDE DEF f
  <1>3. /\ f \in Engine /\ f.task = e.task /\ f.seq = e.seq /\ f.live = e.live /\ f.rr = e.rr
        /\ f.pq = e.pq /\ f.reread = e.reread /\ StaysCalm(e, f)
    BY <1>2 DEF Adjusted, SameTasks, f
  <1>4. Good(f, r)
    BY <1>3, GoodSame
  <1> QED BY <1>4 DEF f

\* The running task and its ancestors.
LEMMA AncestorsAbove ==
    ASSUME NEW e, NEW r, Good(e, r)
    PROVE  Above(e, Ancestors(e, r), r)
  <1>1. e \in Engine /\ Ordered(e) /\ Runs(e, r)
    BY DEF Good
  <1>2. e.seq \in Nat /\ e.live \subseteq 1 .. e.seq
    BY <1>1, OrderedFields
  <1>3. r \in 0 .. e.seq
    <2>1. CASE r = 0
      BY <1>2, <2>1
    <2>2. CASE r # 0
      BY <1>1, <1>2, <2>2 DEF Runs
    <2> QED BY <2>1, <2>2
  <1>4. \A x \in Ancestors(e, r) : x \in 1 .. r /\ e.task[x].parent \in Ancestors(e, r) \cup {0}
    BY <1>1, <1>3, AncestorsLine
  <1>5. \A x \in Ancestors(e, r) : x \in 1 .. e.seq
    BY <1>2, <1>3, <1>4
  <1>6. r \in Ancestors(e, r) \cup {0}
    <2>1. CASE r = 0
      BY <2>1
    <2>2. CASE r # 0
      <3>1. r \in 1 .. e.seq
        BY <1>2, <1>3, <2>2
      <3>2. Ancestors(e, r) = {r} \cup Ancestors(e, e.task[r].parent)
        BY <1>1, <3>1, AncestorsAre
      <3> QED BY <3>2
    <2> QED BY <2>1, <2>2
  <1> QED BY <1>4, <1>5, <1>6 DEF Above

\* A careful program that cancels never leaves the round-robin mode, and cancels
\* no task that awaits the canceller.
LEMMA MayCancelIs ==
    ASSUME Careful, Inv, NEW S, MayCancel(S)
    PROVE  /\ Cancels # {} /\ MaxTasks < Threshold /\ Calm(eng)
           /\ S \cap Ancestors(eng, running) \subseteq {running}
  <1>1. Cancels # {}
    BY DEF MayCancel
  <1>2. "kin" \notin Cancels /\ MaxTasks < Threshold
    BY <1>1 DEF Careful
  <1>3. Calm(eng)
    BY <1>2 DEF Inv, Good
  <1>4. S \cap Ancestors(eng, running) \subseteq {running}
    <2>1. CASE pc = "main"
      <3>1. running = 0
        BY <2>1 DEF Inv
      <3>2. eng \in Engine /\ Ordered(eng)
        BY DEF Inv, Good
      <3>3. Ancestors(eng, 0) = {}
        BY <3>2, AncestorsAre
      <3> QED BY <3>1, <3>3
    <2>2. CASE pc # "main"
      BY <1>2, <2>2 DEF MayCancel
    <2> QED BY <2>1, <2>2
  <1> QED BY <1>1, <1>2, <1>3, <1>4

\* Nothing waits when the engine is calm and there is nothing to pop.
LEMMA NothingWaits ==
    ASSUME NEW e, NEW r, Good(e, r), Calm(e), Ready(e) = <<>>
    PROVE  Waiting(e, r) = {}
  <1>1. e.rr = <<>> /\ e.pq = <<>>
    BY DEF Calm, Ready
  <1>2. Elements(e.rr) = {} /\ Elements(e.pq) = {}
    BY <1>1 DEF Elements
  <1> QED BY <1>2 DEF Good, InQueue

LEMMA InitialInv ==
    ASSUME Init
    PROVE  Inv
  <1>1. /\ eng.task = [t \in Tid |-> NoTask] /\ eng.seq = 0 /\ eng.live = {}
        /\ eng.list = [c \in CtxId |-> <<>>] /\ eng.rr = <<>> /\ eng.pq = <<>>
        /\ eng.mode = "RR" /\ eng.samples = 0 /\ eng.gone = {} /\ eng.reread = {}
        /\ pc = "main" /\ running = 0
    BY DEF Init
  <1>2. NoTask \in Record /\ NoTask.parent = 0 /\ 0 \in 0 .. MaxTasks
    BY AsyncAssumption DEF NoTask, Record, CtxId
  <1>3. eng \in Engine
    <2>1. <<>> \in Seq(Tid)
      BY EmptySeq
    <2> QED BY <1>2, <2>1 DEF Init, Engine
  <1>4. Ordered(eng)
    <2>1. \A t \in Tid : eng.task[t].parent < t
      BY <1>1, <1>2, AsyncAssumption DEF Tid
    <2> QED BY <1>1, <2>1 DEF Ordered
  <1>5. Family(eng) /\ Awaits(eng) /\ Runs(eng, running)
    BY <1>1 DEF Family, Awaits, Runs
  <1>6. Elements(eng.rr) = {} /\ Elements(eng.pq) = {}
    BY <1>1 DEF Elements
  <1>7. Queues(eng)
    BY <1>1 DEF Queues, Once, Heaped, Elements
  <1>8. InQueue(eng) = Waiting(eng, running)
    BY <1>1, <1>6 DEF InQueue, Waiting
  <1>9. Good(eng, running)
    BY <1>1, <1>3, <1>4, <1>5, <1>7, <1>8 DEF Good, Calm
  <1> QED BY <1>1, <1>2, <1>9 DEF Inv

LEMMA StepKeepsInv ==
    ASSUME Careful, Inv, Next
    PROVE  Inv'
  <1>1. Good(eng, running)
    BY DEF Inv
  <1>2. /\ eng \in Engine /\ Ordered(eng) /\ Queues(eng) /\ Runs(eng, running)
        /\ InQueue(eng) = Waiting(eng, running) /\ InQueue(eng) \subseteq eng.live
        /\ eng.live \in SUBSET Tid /\ eng.live \subseteq 1 .. eng.seq /\ eng.seq \in Nat
    BY <1>1, EngineFields, OrderedFields DEF Good, Waiting
  <1>3. /\ pc \in {"main", "drain", "step", "done", "exit"} /\ running \in 0 .. MaxTasks
        /\ (running # 0 <=> pc = "step") /\ 0 \in 0 .. MaxTasks
    BY AsyncAssumption DEF Inv
  <1>4. CASE Start
    <2>1. PICK c \in CtxId, a \in Acts, p \in Prios : eng' = Register(eng, 0, c, a, p)
      BY <1>4 DEF Start
    <2>2. eng.seq < MaxTasks /\ 0 \in {0} \cup eng.live
      BY <1>4 DEF Start
    <2>3. Joined(eng, eng', eng.seq + 1, 0)
      BY <1>2, <2>1, <2>2, RegisterIs
    <2>4. running # eng.seq + 1
      <3>1. CASE running = 0
        BY <1>2, <3>1
      <3>2. CASE running # 0
        BY <1>2, <3>2 DEF Runs
      <3> QED BY <3>1, <3>2
    <2>5. Good(eng', running)
      BY <1>1, <2>3, <2>4, StartKeeps
    <2>6. running' = running /\ pc' = pc /\ pc # "done"
      BY <1>4 DEF Start, InBody
    <2> QED BY <1>3, <2>5, <2>6 DEF Inv
  <1>5. CASE Cancel
    <2>1. PICK t \in eng.live : MayCancel({t}) /\ eng' = CancelTask(eng, t)
      BY <1>5 DEF Cancel
    <2>2. /\ Cancels # {} /\ MaxTasks < Threshold /\ Calm(eng)
          /\ {t} \cap Ancestors(eng, running) \subseteq {running}
      BY <2>1, MayCancelIs
    <2>3. t \in Tid /\ (t \notin Ancestors(eng, running) \/ t = running)
      BY <1>2, <2>1, <2>2
    <2>4. Above(eng, Ancestors(eng, running), running)
      BY <1>1, AncestorsAbove
    <2>5. Good(eng', running)
      BY <1>1, <2>1, <2>2, <2>3, <2>4, CancelTaskKeeps
    <2>6. running' = running /\ pc' = pc /\ pc # "done"
      BY <1>5 DEF Cancel, InBody
    <2> QED BY <1>3, <2>5, <2>6 DEF Inv
  <1>6. CASE CancelContext
    <2>1. PICK c \in Ctxs \ eng.gone :
              MayCancel(Range(eng.list[c])) /\ eng' = CancelCtx(eng, c)
      BY <1>6 DEF CancelContext
    <2>2. /\ Cancels # {} /\ MaxTasks < Threshold /\ Calm(eng)
          /\ Range(eng.list[c]) \cap Ancestors(eng, running) \subseteq {running}
      BY <2>1, MayCancelIs
    <2>3. Above(eng, Ancestors(eng, running), running)
      BY <1>1, AncestorsAbove
    <2>4. Good(eng', running)
      BY <1>1, <2>1, <2>2, <2>3, CancelCtxKeeps
    <2>5. running' = running /\ pc' = pc /\ pc # "done"
      BY <1>6 DEF CancelContext, InBody
    <2> QED BY <1>3, <2>4, <2>5 DEF Inv
  <1>7. CASE EndMain
    <2>1. /\ eng' = eng /\ running' = running /\ pc # "step"
          /\ pc' \in {"drain", "exit"}
      BY <1>7 DEF EndMain
    <2> QED BY <1>1, <1>3, <2>1 DEF Inv
  <1>8. CASE Stop
    <2>1. running' = running /\ pc' = "done" /\ running = 0
      BY <1>3, <1>8 DEF Stop
    <2>2. CASE eng.live = {} /\ eng' = eng
      <3>1. Waiting(eng, running) = {}
        BY <2>2 DEF Waiting
      <3> QED BY <1>1, <1>3, <2>1, <2>2, <3>1 DEF Inv
    <2>3. CASE Ready(Popped) = <<>> /\ eng' = Popped
      <3>1. Good(eng', running) /\ Ready(eng') = <<>>
        BY <1>1, <2>3, AdjustKeeps DEF Popped
      <3>2. Calm(eng') => Waiting(eng', running) = {}
        BY <3>1, NothingWaits
      <3> QED BY <1>3, <2>1, <3>1, <3>2 DEF Inv
    <2> QED BY <1>8, <2>2, <2>3 DEF Stop
  <1>9. CASE Pop
    <2> DEFINE t == Head(Ready(Popped))
               e == Dequeue(Popped)
    <2>1. running = 0 /\ Good(Popped, 0)
      BY <1>1, <1>3, <1>9, AdjustKeeps DEF Pop, Popped
    <2>2. Taken(Popped, e, t)
      BY <1>9, <2>1, TurnBegins DEF Pop
    <2>3. IF e.task[t].fatal
          THEN eng' = Finish([e EXCEPT !.task[t].fatal = FALSE], t) /\ pc' = pc /\ running' = running
          ELSE eng' = AwaitResult(e, t) /\ running' = t /\ pc' = "step"
      BY <1>9 DEF Pop
    <2> HIDE DEF t, e
    <2>4. CASE e.task[t].fatal
      <3>1. t \in Tid /\ Good([e EXCEPT !.task[t].fatal = FALSE], t)
        BY <2>1, <2>2, <2>4, FatalTurn
      <3>2. Good(eng', 0)
        BY <2>3, <2>4, <3>1, FinishKeeps
      <3>3. pc' = pc /\ running' = running /\ pc = "drain"
        BY <1>9, <2>3, <2>4 DEF Pop
      <3> QED BY <1>3, <2>1, <3>2, <3>3 DEF Inv
    <2>5. CASE ~e.task[t].fatal
      <3>1. t \in Tid /\ Good(AwaitResult(e, t), t)
        BY <2>1, <2>2, <2>5, CollectTurn
      <3>2. t # 0 /\ t \in 0 .. MaxTasks
        BY <3>1, AsyncAssumption DEF Tid
      <3> QED BY <2>3, <2>5, <3>1, <3>2 DEF Inv
    <2> QED BY <2>4, <2>5
  <1>10. CASE Await
    <2>1. PICK c \in CtxId, a \in Acts, p \in Prios :
              eng' = [Register(eng, running, c, a, p) EXCEPT
                        !.task[running].aw = eng.seq + 1, !.task[running].status = "suspended"]
      BY <1>10 DEF Await
    <2>2. pc = "step" /\ eng.seq < MaxTasks /\ pc' = "drain" /\ running' = 0
      BY <1>10 DEF Await
    <2>3. running \in eng.live /\ running \in Tid
      BY <1>2, <1>3, <2>2 DEF Runs
    <2> DEFINE d == Register(eng, running, c, a, p)
    <2>4. Joined(eng, d, eng.seq + 1, running)
      BY <1>2, <2>2, <2>3, RegisterIs
    <2> HIDE DEF d
    <2>5. eng' = [d EXCEPT !.task[running].aw = eng.seq + 1, !.task[running].status = "suspended"]
      BY <2>1 DEF d
    <2>6. Good(eng', 0)
      BY <1>1, <2>3, <2>4, <2>5, AwaitKeeps
    <2> QED BY <1>3, <2>2, <2>6 DEF Inv
  <1>11. CASE Return
    <2>1. pc = "step" /\ eng' = Finish(eng, running) /\ pc' = "drain" /\ running' = 0
      BY <1>11 DEF Return
    <2>2. running \in Tid
      BY <1>2, <1>3, <2>1 DEF Runs
    <2>3. Good(eng', 0)
      BY <1>1, <2>1, <2>2, FinishKeeps
    <2> QED BY <1>3, <2>1, <2>3 DEF Inv
  <1> QED BY <1>4, <1>5, <1>6, <1>7, <1>8, <1>9, <1>10, <1>11 DEF Next

\* What a careful program can rely on: the parents, the awaited tasks and the
\* ready queues agree with each other in every state.
THEOREM Invariance ==
    ASSUME Careful
    PROVE  Spec => []Inv
  <1>1. Inv /\ [Next]_vars => Inv'
    <2> SUFFICES ASSUME Inv, [Next]_vars PROVE Inv'
      OBVIOUS
    <2>1. CASE Next
      BY <2>1, StepKeepsInv
    <2>2. CASE UNCHANGED vars
      BY <2>2 DEF vars, Inv
    <2> QED BY <2>1, <2>2
  <1> QED BY <1>1, InitialInv, PTL DEF Spec

----------------------------------------------------------------------------
(* The properties *)

\* The queues, the records and the running step stay in their domains: the ids
\* of plant_async_register never pass the number of spawned tasks.
THEOREM TypeCorrect ==
    ASSUME Careful
    PROVE  Spec => []TypeOK
  <1>1. Inv => TypeOK
    <2> SUFFICES ASSUME Inv PROVE TypeOK
      OBVIOUS
    <2>1. eng \in Engine /\ eng.live \subseteq 1 .. eng.seq
      BY DEF Inv, Good, Ordered
    <2>2. \A t \in Tid : eng.task[t].status \in {"ready", "suspended", "done"}
      BY <2>1, EngineFields, RecordFields
    <2> QED BY <2>1, <2>2, EngineFields DEF Inv, TypeOK
  <1> QED BY <1>1, Invariance, PTL

\* No wake-up is lost between plant_async_finish and plant_async_await_result,
\* whatever the program spawns and cancels and however often the mode switches:
\* a suspended task waits for a live child that has not finished, and a finished
\* one is kept only for a parent that is awake.
THEOREM AwaitsAreMatched ==
    ASSUME Careful
    PROVE  Spec => []AwaitMatched
  <1>1. Inv => AwaitMatched
    <2> SUFFICES ASSUME Inv, NEW t \in eng.live
                 PROVE  LET a == eng.task[t].aw
                        IN /\ eng.task[t].status = "suspended" =>
                                a \in eng.live /\ eng.task[a].parent = t /\ eng.task[a].status # "done"
                           /\ eng.task[t].status = "done" =>
                                \E p \in eng.live : eng.task[p].aw = t /\ eng.task[p].status = "ready"
      BY DEF AwaitMatched
    <2>1. Family(eng) /\ Awaits(eng) /\ \A c \in eng.live : c # 0
      <3>1. eng \in Engine
        BY DEF Inv, Good
      <3>2. \A c \in eng.live : c # 0
        BY <3>1, EngineFields, AsyncAssumption DEF Tid
      <3> QED BY <3>2 DEF Inv, Good
    <2>2. AwaitsAt(eng, t)
      BY <2>1, AwaitsAtAll
    <2>3. ASSUME eng.task[t].status = "done"
          PROVE  \E p \in eng.live : eng.task[p].aw = t /\ eng.task[p].status = "ready"
      <3> DEFINE p == eng.task[t].parent
      <3>1. p # 0
        BY <2>2, <2>3 DEF AwaitsAt
      <3>2. p \in eng.live /\ eng.task[p].aw = t
        BY <2>1, <3>1 DEF Family
      <3>3. AwaitsAt(eng, p)
        BY <2>1, <3>2, AwaitsAtAll
      <3> HIDE DEF p
      <3>4. eng.task[p].status = "ready"
        BY <2>1, <2>3, <3>2, <3>3 DEF AwaitsAt
      <3> QED BY <3>2, <3>4
    <2> QED BY <2>2, <2>3 DEF AwaitsAt
  <1> QED BY <1>1, Invariance, PTL

\* The tasks of a queue that has no repetition are its elements.
LEMMA RangeIs ==
    ASSUME NEW s \in Seq(Tid)
    PROVE  Range(s) = Elements(s)
  BY LenProperties DEF Range, Elements

\* Neither plant_cancel_task nor the end of a phase frees a task that is queued
\* or running: plant_pop_ready never returns a freed record.
THEOREM ScheduledAreLive ==
    ASSUME Careful
    PROVE  Spec => []ScheduledIsLive
  <1>1. Inv => ScheduledIsLive
    <2> SUFFICES ASSUME Inv PROVE ScheduledIsLive
      OBVIOUS
    <2>1. /\ eng \in Engine /\ InQueue(eng) = Waiting(eng, running) /\ Runs(eng, running)
      BY DEF Inv, Good
    <2>2. Range(eng.rr) \cup Range(eng.pq) = InQueue(eng)
      BY <2>1, EngineFields, RangeIs DEF InQueue
    <2>3. InQueue(eng) \subseteq eng.live
      BY <2>1 DEF Waiting
    <2> QED BY <2>1, <2>2, <2>3 DEF ScheduledIsLive, QueuesLive, RunningIsLive, Runs
  <1> QED BY <1>1, Invariance, PTL

\* A list without repetition has an element at one place.
LEMMA PlacesOf ==
    ASSUME NEW s \in Seq(Tid), Once(s), NEW t
    PROVE  Cardinality({i \in DOMAIN s : s[i] = t}) = IF t \in Elements(s) THEN 1 ELSE 0
  <1> DEFINE I == {i \in DOMAIN s : s[i] = t}
  <1>1. DOMAIN s = 1 .. Len(s)
    BY LenProperties
  <1>2. CASE t \in Elements(s)
    <2>1. PICK i \in 1 .. Len(s) : s[i] = t
      BY <1>2 DEF Elements
    <2>2. I = {i}
      BY <1>1, <2>1 DEF Once
    <2> HIDE DEF I
    <2>3. Cardinality(I) = 1
      BY <2>2, FS_Singleton
    <2> QED BY <1>2, <2>3 DEF I
  <1>3. CASE t \notin Elements(s)
    <2>1. I = {}
      BY <1>1, <1>3 DEF Elements
    <2> HIDE DEF I
    <2>2. Cardinality(I) = 0
      BY <2>1, FS_EmptySet
    <2> QED BY <1>3, <2>2 DEF I
  <1> QED BY <1>2, <1>3

\* A mode switch leaves the queued tasks where they are, and yet no task is in
\* both queues, or twice in one: a ready task waits in exactly one place.
THEOREM TasksArePlacedOnce ==
    ASSUME Careful
    PROVE  Spec => []PlacedOnce
  <1>1. Inv => PlacedOnce
    <2> SUFFICES ASSUME Inv, NEW t \in eng.live
                 PROVE  Occurs(t) = IF eng.task[t].status = "ready" /\ t # running THEN 1 ELSE 0
      BY DEF PlacedOnce
    <2>1. /\ eng \in Engine /\ InQueue(eng) = Waiting(eng, running)
          /\ Once(eng.rr) /\ Once(eng.pq) /\ Elements(eng.rr) \cap Elements(eng.pq) = {}
      BY DEF Inv, Good, Queues
    <2>2. eng.rr \in Seq(Tid) /\ eng.pq \in Seq(Tid)
      BY <2>1, EngineFields
    <2> DEFINE m == Cardinality({i \in DOMAIN eng.rr : eng.rr[i] = t})
               n == Cardinality({i \in DOMAIN eng.pq : eng.pq[i] = t})
    <2>3. m = IF t \in Elements(eng.rr) THEN 1 ELSE 0
      BY <2>1, <2>2, PlacesOf
    <2>4. n = IF t \in Elements(eng.pq) THEN 1 ELSE 0
      BY <2>1, <2>2, PlacesOf
    <2>5. Occurs(t) = m + n
      BY DEF Occurs
    <2> HIDE DEF m, n
    <2>6. t \in InQueue(eng) <=> eng.task[t].status = "ready" /\ t # running
      BY <2>1 DEF Waiting
    <2>7. t \in InQueue(eng) <=> t \in Elements(eng.rr) \/ t \in Elements(eng.pq)
      BY DEF InQueue
    <2>8. m + n = IF t \in InQueue(eng) THEN 1 ELSE 0
      BY <2>1, <2>3, <2>4, <2>7
    <2> QED BY <2>5, <2>6, <2>8
  <1> QED BY <1>1, Invariance, PTL

\* plant_pq_push and plant_pq_pop restore the order of the heap: no task is
\* before one that is more urgent above it.
THEOREM PqStaysHeap ==
    ASSUME Careful
    PROVE  Spec => []PqIsHeap
  <1>1. Inv => PqIsHeap
    <2> SUFFICES ASSUME Inv, NEW i \in DOMAIN eng.pq \ {1}
                 PROVE  Less(eng, eng.pq[i \div 2], eng.pq[i])
      BY DEF PqIsHeap
    <2>1. eng \in Engine /\ Heaped(eng, eng.pq)
      BY DEF Inv, Good, Queues
    <2>2. eng.pq \in Seq(Tid)
      BY <2>1, EngineFields
    <2>3. DOMAIN eng.pq = 1 .. Len(eng.pq) /\ Len(eng.pq) \in Nat
      BY <2>2, LenProperties
    <2>4. i \in 2 .. Len(eng.pq)
      BY <2>3
    <2> QED BY <2>1, <2>4 DEF Heaped
  <1> QED BY <1>1, Invariance, PTL

\* A program that cancels nothing never has a record read after it was freed.
THEOREM RecordsAreFreedOnce ==
    ASSUME Cancels = {}
    PROVE  Spec => []FreedOnce
  <1>1. Careful
    BY DEF Careful
  <1>2. Inv => FreedOnce
    BY DEF Inv, Good, FreedOnce
  <1> QED BY <1>1, <1>2, Invariance, PTL

\* In the round-robin mode plant_async_drain returns with no task left: were one
\* left, the youngest would wait in the queue, await an older task, or be done
\* with its parent in the queue.
THEOREM DrainsComplete ==
    ASSUME Careful, MaxTasks < Threshold
    PROVE  Spec => []DrainCompletes
  <1>1. Inv => DrainCompletes
    <2> SUFFICES ASSUME Inv, pc = "done", eng.live # {} PROVE FALSE
      BY DEF DrainCompletes
    <2>1. /\ eng \in Engine /\ Ordered(eng) /\ Family(eng) /\ Awaits(eng)
          /\ Calm(eng) /\ running = 0 /\ Waiting(eng, running) = {}
      BY DEF Inv, Good
    <2>2. eng.live \in SUBSET Tid /\ MaxTasks \in Nat
      BY <2>1, EngineFields, AsyncAssumption
    <2>3. PICK t \in eng.live : \A c \in eng.live : c <= t
      <3> DEFINE S == {n \in Nat : MaxTasks - n \in eng.live}
      <3>1. S \in SUBSET Nat /\ S # {}
        <4>1. PICK c \in eng.live : TRUE
          OBVIOUS
        <4>2. MaxTasks - c \in Nat /\ MaxTasks - (MaxTasks - c) = c
          BY <2>2 DEF Tid
        <4>3. MaxTasks - c \in S
          BY <4>2
        <4> QED BY <4>3
      <3>2. PICK n \in S : \A m \in S : n <= m
        <4> HIDE DEF S
        <4> QED BY <3>1, LeastNatural
      <3>3. ASSUME NEW c \in eng.live PROVE c <= MaxTasks - n
        <4>1. MaxTasks - c \in Nat /\ MaxTasks - (MaxTasks - c) = c /\ c \in Int
          BY <2>2 DEF Tid
        <4>2. MaxTasks - c \in S
          BY <4>1
        <4>3. n <= MaxTasks - c /\ n \in Nat
          BY <3>2, <4>2
        <4> QED BY <2>2, <4>1, <4>3
      <3> QED BY <3>2, <3>3
    <2>4. AwaitsAt(eng, t) /\ t # 0 /\ t \in Tid /\ eng.task[t].status # "ready"
      <3>1. t # 0 /\ t \in Tid
        BY <2>2, AsyncAssumption DEF Tid
      <3>2. eng.task[t].status # "ready"
        BY <2>1, <3>1 DEF Waiting
      <3> QED BY <2>1, <3>1, <3>2, AwaitsAtAll
    <2>5. CASE eng.task[t].status = "suspended"
      <3> DEFINE a == eng.task[t].aw
      <3>1. a \in eng.live /\ eng.task[a].parent = t
        BY <2>4, <2>5 DEF AwaitsAt
      <3>2. t < a /\ a <= t /\ a \in Int /\ t \in Int
        BY <2>1, <2>2, <2>3, <3>1 DEF Ordered, Tid
      <3> HIDE DEF a
      <3> QED BY <3>2
    <2>6. CASE eng.task[t].status = "done"
      <3> DEFINE p == eng.task[t].parent
      <3>1. p \in eng.live /\ eng.task[p].aw = t
        BY <2>1, <2>4, <2>6 DEF Family, AwaitsAt
      <3>2. AwaitsAt(eng, p) /\ p # 0
        BY <2>1, <2>2, <3>1, AwaitsAtAll, AsyncAssumption DEF Tid
      <3> HIDE DEF p
      <3>3. eng.task[p].status = "ready"
        BY <2>4, <2>6, <3>1, <3>2 DEF AwaitsAt
      <3> QED BY <2>1, <3>1, <3>2, <3>3 DEF Waiting
    <2>7. eng.task[t] \in Record
      BY <2>1, <2>4, EngineFields
    <2> QED BY <2>4, <2>5, <2>6, <2>7, RecordFields
  <1> QED BY <1>1, Invariance, PTL
=============================================================================
