---------------------------- MODULE Memory_proofs ----------------------------
(***************************************************************************)
(* Proofs about the memory of a program, for any sizes. FastHeap and its   *)
(* AuditRing: the audit chain tells exactly which events were tampered     *)
(* with, and a FAST action's memory is its own until the action returns.   *)
(* StringPool: a program that copies no string pointer reads every string  *)
(* as it was built, and FREE gives back what malloc or the slab gave, once.*)
(***************************************************************************)
EXTENDS FastHeap, StringPool, ProofLemmas

----------------------------------------------------------------------------
(* FastHeap and AuditRing *)

\* What the ring holds: the events of FastHeap and the links of their chain.
Kinds == {"none", "MODE_ENTER", "FAST_ESCALATE", "FAST_SHRINK"}
Link == Seq(Nat \X Kinds \X BOOLEAN)
Slot == [seq : Nat, kind : Kinds, flipped : BOOLEAN, chain : Link]
Ring == [slots : [0 .. AuditCap - 1 -> Slot], head : 0 .. AuditCap - 1,
         count : 0 .. AuditCap, overflow : Nat, seq : Nat, chain : Link, evicted : Link]

\* The k-th newest event of the ring, from 1, and the link it follows.
Back(r, k) == IF k <= r.head THEN r.head - k ELSE r.head - k + AuditCap
Newest(r, k) == r.slots[Back(r, k)]
Follows(r, k) == IF k < r.count THEN Newest(r, k + 1).chain ELSE r.evicted

\* Every event's link was made from the link before it and the event as it was
\* logged; the events of F, and no others, have changed since.
Chained(r, F) ==
    /\ r \in Ring /\ F \subseteq 0 .. r.seq - 1 /\ r.count <= r.seq
    /\ r.count < AuditCap => r.evicted = Genesis
    /\ r.chain = Follows(r, 0)
    /\ \A k \in 1 .. r.count :
          /\ Newest(r, k).seq = r.seq - k
          /\ Newest(r, k).flipped <=> (r.seq - k) \in F
          /\ Newest(r, k).chain = Hash(Follows(r, k), r.seq - k, Newest(r, k).kind, FALSE)

\* Positions of the ring are distinct.
LEMMA BackIsSlot ==
    ASSUME NEW r \in Ring, NEW k \in 1 .. AuditCap
    PROVE  /\ Back(r, k) \in 0 .. AuditCap - 1
           /\ \A j \in 1 .. AuditCap : Back(r, j) = Back(r, k) => j = k
           /\ Back(r, AuditCap) = r.head
           /\ Newest(r, k) \in Slot
  <1>1. r.head \in 0 .. AuditCap - 1 /\ r.slots \in [0 .. AuditCap - 1 -> Slot]
    BY DEF Ring
  <1>2. Back(r, k) \in 0 .. AuditCap - 1
    BY <1>1, AuditAssumption DEF Back
  <1>3. \A j \in 1 .. AuditCap : Back(r, j) = Back(r, k) => j = k
    BY <1>1, AuditAssumption DEF Back
  <1>4. Back(r, AuditCap) = r.head
    BY <1>1, AuditAssumption DEF Back
  <1> QED BY <1>1, <1>2, <1>3, <1>4 DEF Newest

\* A link tells its last event and the link before it.
LEMMA HashInjective ==
    ASSUME NEW a \in Link, NEW b \in Link, NEW s \in Nat, NEW t \in Nat, NEW k \in Kinds,
           NEW l \in Kinds, NEW f \in BOOLEAN, NEW g \in BOOLEAN
    PROVE  /\ Hash(a, s, k, f) \in Link
           /\ Hash(a, s, k, f) = Hash(a, s, k, g) => f = g
  <1> DEFINE E == Nat \X Kinds \X BOOLEAN
             x == <<s, k, f>>
             y == <<s, k, g>>
  <1>1. x \in E /\ y \in E /\ (x = y => f = g)
    OBVIOUS
  <1> HIDE DEF E, x, y
  <1>2. a \in Seq(E)
    BY DEF Link, E
  <1>3. /\ Append(a, x) \in Seq(E) /\ Append(a, x)[Len(a) + 1] = x
        /\ Append(a, y) \in Seq(E) /\ Append(a, y)[Len(a) + 1] = y
    BY <1>1, <1>2, AppendProperties
  <1> QED BY <1>1, <1>3 DEF Hash, Link, E, x, y

\* plant_audit_log keeps the chain, whatever was tampered with before.
LEMMA LogChained ==
    ASSUME NEW r, NEW F, Chained(r, F), NEW kind \in Kinds
    PROVE  Chained(Log(r, kind), F)
  <1> USE AuditAssumption
  <1> DEFINE n == AuditCap
             link == Hash(r.chain, r.seq, kind, FALSE)
             e == [seq |-> r.seq, kind |-> kind, flipped |-> FALSE, chain |-> link]
             q == Log(r, kind)
  <1>r. r \in Ring /\ F \subseteq 0 .. r.seq - 1
    BY DEF Chained
  <1>0. /\ r.slots \in [0 .. n - 1 -> Slot] /\ r.head \in 0 .. n - 1 /\ r.count \in 0 .. n
        /\ r.overflow \in Nat /\ r.seq \in Nat /\ r.chain \in Link /\ r.evicted \in Link
    BY <1>r DEF Ring
  <1>1. link \in Link /\ e \in Slot
    BY <1>0, HashInjective DEF Slot
  <1> DEFINE slots == [r.slots EXCEPT ![r.head] = e]
             head == (r.head + 1) % n
             count == IF r.count < n THEN r.count + 1 ELSE r.count
             over == IF r.count < n THEN r.overflow ELSE r.overflow + 1
             evicted == IF r.count = n THEN r.slots[r.head].chain ELSE r.evicted
  <1>q. q = [slots |-> slots, head |-> head, count |-> count, overflow |-> over,
             seq |-> r.seq + 1, chain |-> link, evicted |-> evicted]
    <2>1. q = [r EXCEPT !.evicted = evicted, !.slots = slots, !.chain = link,
                        !.seq = r.seq + 1, !.head = head, !.count = count, !.overflow = over]
      BY <1>r DEF Log, Ring
    <2> HIDE DEF q, slots, head, count, over, evicted, link
    <2> QED BY <1>r, <2>1 DEF Ring
  <1>2. /\ q.slots = slots /\ q.head = head /\ q.count = count /\ q.overflow = over
        /\ q.seq = r.seq + 1 /\ q.chain = link /\ q.evicted = evicted
    <2> HIDE DEF q, slots, head, count, over, evicted, link
    <2> QED BY <1>q
  <1> HIDE DEF link, e, q
  <1>h. head = IF r.head + 1 < n THEN r.head + 1 ELSE 0
    <2> DEFINE a == r.head + 1
    <2>1. a \in 0 .. 2 * n - 1 /\ n \in Nat \ {0} /\ a <= n
      BY <1>0
    <2> HIDE DEF a, n
    <2>2. a % n = IF a < n THEN a ELSE a - n
      BY <2>1, ModOnce
    <2> QED BY <2>1, <2>2 DEF a
  <1>c. head \in 0 .. n - 1 /\ count \in 0 .. n /\ over \in Nat /\ r.seq + 1 \in Nat
    <2>1. count \in 0 .. n /\ over \in Nat /\ r.seq + 1 \in Nat
      BY <1>0
    <2> HIDE DEF head, count, over
    <2>2. n \in Nat \ {0} /\ r.head \in 0 .. n - 1
      BY <1>0
    <2> HIDE DEF n
    <2>3. head \in 0 .. n - 1
      BY <1>h, <2>2
    <2> QED BY <2>1, <2>3
  <1>3. q \in Ring
    <2>1. slots \in [0 .. n - 1 -> Slot]
      BY <1>0, <1>1
    <2>2. evicted \in Link
      BY <1>0, <1>1 DEF Slot
    <2> HIDE DEF slots, head, count, over, evicted
    <2> QED BY <1>q, <1>c, <1>1, <2>1, <2>2 DEF Ring
  <1> HIDE DEF head, over, slots
  <1>4. Back(q, 1) = r.head /\ \A k \in 1 .. n - 1 : Back(q, k + 1) = Back(r, k)
    <2>1. q.head = IF r.head + 1 < n THEN r.head + 1 ELSE 0
      BY <1>2, <1>h
    <2>2. ASSUME NEW h \in 0 .. n - 1, NEW g, q.head = g, r.head = h,
                 g = IF h + 1 < n THEN h + 1 ELSE 0
          PROVE  /\ Back(q, 1) = h
                 /\ \A k \in 1 .. n - 1 : Back(q, k + 1) = Back(r, k)
      BY <2>2 DEF Back
    <2> QED BY <1>0, <2>1, <2>2
  <1>5. Newest(q, 1) = e
    BY <1>0, <1>2, <1>4 DEF Newest, slots
  <1>6. \A k \in 1 .. n - 1 : Newest(q, k + 1) = Newest(r, k)
    <2> SUFFICES ASSUME NEW k \in 1 .. n - 1 PROVE Newest(q, k + 1) = Newest(r, k)
      OBVIOUS
    <2>1. k \in 1 .. n /\ n \in 1 .. n /\ k # n
      OBVIOUS
    <2>2. Back(r, k) # r.head /\ Back(r, k) \in 0 .. n - 1
      BY <1>r, <2>1, BackIsSlot
    <2> QED BY <1>0, <1>2, <1>4, <2>2 DEF Newest, slots
  <1>7. r.count = n => r.slots[r.head] = Newest(r, n)
    BY <1>r, BackIsSlot DEF Newest
  <1>8. /\ r.count <= r.seq /\ (r.count < n => r.evicted = Genesis)
        /\ r.chain = Follows(r, 0)
    BY DEF Chained
  <1>9. \A k \in 1 .. r.count :
          /\ Newest(r, k).seq = r.seq - k
          /\ Newest(r, k).flipped <=> (r.seq - k) \in F
          /\ Newest(r, k).chain = Hash(Follows(r, k), r.seq - k, Newest(r, k).kind, FALSE)
    BY DEF Chained
  <1>10. Follows(q, 1) = r.chain
    <2>1. CASE q.count = 1
      <3>1. CASE r.count = 0
        BY <1>0, <1>2, <1>8, <2>1, <3>1 DEF Follows
      <3>2. CASE r.count = n
        <4>1. q.evicted = Newest(r, n).chain
          BY <1>2, <1>7, <3>2
        <4>2. n = 1
          BY <1>0, <1>2, <2>1, <3>2
        <4> QED BY <1>8, <2>1, <3>2, <4>1, <4>2 DEF Follows
      <3> QED BY <1>0, <1>2, <2>1, <3>1, <3>2
    <2>2. CASE q.count # 1
      <3>1. q.count > 1 /\ r.count > 0 /\ 1 \in 1 .. n - 1
        BY <1>0, <1>2, <2>2
      <3>2. Newest(q, 1 + 1) = Newest(r, 1)
        BY <1>6, <3>1
      <3> QED BY <1>8, <3>1, <3>2 DEF Follows
    <2> QED BY <2>1, <2>2
  <1>11. ASSUME NEW k \in 1 .. q.count - 1 PROVE Follows(q, k + 1) = Follows(r, k)
    <2>1. k \in 1 .. n - 1 /\ k <= r.count /\ k \in Nat
      BY <1>0, <1>2
    <2>2. CASE k + 1 < q.count
      <3>1. k + 1 \in 1 .. n - 1 /\ k < r.count
        BY <1>0, <1>2, <2>1, <2>2
      <3>2. Newest(q, (k + 1) + 1) = Newest(r, k + 1)
        BY <1>6, <3>1
      <3> QED BY <2>2, <3>1, <3>2 DEF Follows
    <2>3. CASE k + 1 = q.count
      <3>1. CASE r.count < n
        <4>1. k = r.count /\ q.evicted = r.evicted
          BY <1>0, <1>2, <2>1, <2>3, <3>1
        <4> QED BY <2>3, <4>1 DEF Follows
      <3>2. CASE r.count = n
        <4>1. k + 1 = n /\ k < r.count /\ q.evicted = Newest(r, n).chain
          BY <1>0, <1>2, <1>7, <2>1, <2>3, <3>2
        <4> QED BY <2>3, <4>1 DEF Follows
      <3> QED BY <1>0, <3>1, <3>2
    <2> QED BY <1>0, <1>2, <2>1, <2>2, <2>3
  <1>12. ASSUME NEW k \in 1 .. q.count
         PROVE  /\ Newest(q, k).seq = q.seq - k
                /\ Newest(q, k).flipped <=> (q.seq - k) \in F
                /\ Newest(q, k).chain = Hash(Follows(q, k), q.seq - k, Newest(q, k).kind, FALSE)
    <2>1. CASE k = 1
      <3>1. q.seq - k = r.seq
        BY <1>0, <1>2, <2>1
      <3>2. r.seq \notin F
        BY <1>0, <1>r
      <3>3. e.seq = r.seq /\ e.kind = kind /\ e.chain = link /\ e.flipped = FALSE
        BY DEF e
      <3>4. link = Hash(r.chain, r.seq, kind, FALSE)
        BY DEF link
      <3> QED BY <1>5, <1>10, <2>1, <3>1, <3>2, <3>3, <3>4
    <2>2. CASE k # 1
      <3> DEFINE j == k - 1
      <3>1. /\ j \in 1 .. q.count - 1 /\ j \in 1 .. r.count /\ j \in 1 .. n - 1
            /\ k = j + 1 /\ q.seq - k = r.seq - j
        <4>1. k \in 2 .. count /\ q.count = count /\ count - 1 <= r.count /\ count <= n
          BY <1>0, <1>2, <1>c, <2>2
        <4>2. q.seq = r.seq + 1
          BY <1>2
        <4>3. q.count \in Nat /\ j = k - 1 /\ r.seq \in Nat
          BY <1>0, <1>c, <4>1
        <4> HIDE DEF count, j
        <4>4. j \in 1 .. q.count - 1 /\ k = j + 1
          BY <4>1, <4>3
        <4>5. j \in 1 .. r.count /\ j \in 1 .. n - 1
          BY <1>0, <4>1, <4>3
        <4>6. q.seq - k = r.seq - j
          BY <4>1, <4>2, <4>3
        <4> QED BY <4>4, <4>5, <4>6
      <3> HIDE DEF j
      <3>2. Follows(q, k) = Follows(r, j) /\ Newest(q, k) = Newest(r, j)
        BY <1>6, <1>11, <3>1
      <3> QED BY <1>9, <3>1, <3>2
    <2> QED BY <2>1, <2>2
  <1>13. q.chain = Follows(q, 0)
    <2>1. q.count > 0
      BY <1>0, <1>2
    <2> QED BY <1>2, <1>5, <2>1 DEF Follows, e
  <1>14. /\ F \subseteq 0 .. q.seq - 1 /\ q.count <= q.seq
         /\ q.count < n => q.evicted = Genesis
    BY <1>0, <1>r, <1>2, <1>8
  <1> QED BY <1>3, <1>12, <1>13, <1>14 DEF Chained, q

\* plant_audit_tamper changes the newest event and no link.
LEMMA TamperChained ==
    ASSUME NEW r, NEW F, Chained(r, F), r.count > 0, NEW G,
           G = IF r.seq - 1 \in F THEN F \ {r.seq - 1} ELSE F \cup {r.seq - 1}
    PROVE  Chained(Tamper(r), G)
  <1> USE AuditAssumption
  <1> DEFINE n == AuditCap
             q == Tamper(r)
             b == (r.head - 1 + n) % n
  <1>r. r \in Ring /\ F \subseteq 0 .. r.seq - 1
    BY DEF Chained
  <1>0. /\ r.slots \in [0 .. n - 1 -> Slot] /\ r.head \in 0 .. n - 1 /\ r.count \in 1 .. n
        /\ r.seq \in Nat
    BY <1>r DEF Ring
  <1>b. b = Back(r, 1) /\ b \in 0 .. n - 1
    <2> DEFINE a == r.head - 1 + n
    <2>1. a \in 0 .. 2 * n - 1 /\ n \in Nat \ {0}
      BY <1>0
    <2> HIDE DEF a, n
    <2>2. a % n = IF a < n THEN a ELSE a - n
      BY <2>1, ModOnce
    <2>3. b = IF a < n THEN a ELSE a - n
      BY <2>2 DEF a
    <2> HIDE DEF b
    <2> QED BY <1>0, <2>3 DEF Back, a, n
  <1> DEFINE e == [r.slots[b] EXCEPT !.flipped = ~@]
  <1>1. /\ q.slots = [r.slots EXCEPT ![b] = e] /\ q.head = r.head /\ q.count = r.count
        /\ q.seq = r.seq /\ q.chain = r.chain /\ q.evicted = r.evicted
        /\ q \in Ring
    <2>1. q = [r EXCEPT !.slots = [r.slots EXCEPT ![b] = e]]
      BY <1>0, <1>r DEF Tamper, Ring
    <2>2. r.slots[b] \in Slot
      BY <1>0, <1>b
    <2>3. e \in Slot
      BY <2>2 DEF Slot
    <2> HIDE DEF e, b, q
    <2> DEFINE s == [r.slots EXCEPT ![b] = e]
    <2>4. s \in [0 .. n - 1 -> Slot]
      BY <1>0, <2>3
    <2> HIDE DEF s
    <2> QED BY <1>r, <2>1, <2>4 DEF Ring, s
  <1>e. /\ e.seq = r.slots[b].seq /\ e.kind = r.slots[b].kind /\ e.chain = r.slots[b].chain
        /\ e.flipped <=> ~r.slots[b].flipped
    <2>1. r.slots[b] \in Slot
      BY <1>0, <1>b
    <2> QED BY <2>1 DEF Slot
  <1> HIDE DEF e, b, q
  <1>2. \A k \in 1 .. n : Back(q, k) = Back(r, k)
    BY <1>1 DEF Back
  <1>3. ASSUME NEW k \in 1 .. n
        PROVE  /\ Newest(q, k).seq = Newest(r, k).seq /\ Newest(q, k).kind = Newest(r, k).kind
               /\ Newest(q, k).chain = Newest(r, k).chain
               /\ Newest(q, k).flipped <=> IF k = 1 THEN ~Newest(r, k).flipped
                                                    ELSE Newest(r, k).flipped
    <2>1. CASE k = 1
      <3>1. Newest(q, k) = e /\ Newest(r, k) = r.slots[b]
        BY <1>0, <1>b, <1>1, <1>2, <2>1 DEF Newest
      <3> QED BY <1>e, <2>1, <3>1
    <2>2. CASE k # 1
      <3>1. 1 \in 1 .. n /\ Back(r, k) # Back(r, 1) /\ Back(r, k) \in 0 .. n - 1
        BY <1>r, <2>2, BackIsSlot
      <3>2. Newest(q, k) = Newest(r, k)
        BY <1>0, <1>b, <1>1, <1>2, <3>1 DEF Newest
      <3> QED BY <2>2, <3>2
    <2> QED BY <2>1, <2>2
  <1>4. \A k \in 0 .. n : k <= r.count => Follows(q, k) = Follows(r, k)
    <2> SUFFICES ASSUME NEW k \in 0 .. n, k <= r.count PROVE Follows(q, k) = Follows(r, k)
      OBVIOUS
    <2>1. k < r.count => k + 1 \in 1 .. n
      BY <1>0
    <2> QED BY <1>1, <1>3, <2>1 DEF Follows
  <1>5. ASSUME NEW k \in 1 .. q.count
        PROVE  /\ Newest(q, k).seq = q.seq - k
               /\ Newest(q, k).flipped <=> (q.seq - k) \in G
               /\ Newest(q, k).chain = Hash(Follows(q, k), q.seq - k, Newest(q, k).kind, FALSE)
    <2>1. k \in 1 .. n /\ k \in 1 .. r.count /\ k \in 0 .. n /\ k <= r.count
      BY <1>0, <1>1
    <2>2. /\ Newest(r, k).seq = r.seq - k
          /\ Newest(r, k).flipped <=> (r.seq - k) \in F
          /\ Newest(r, k).chain = Hash(Follows(r, k), r.seq - k, Newest(r, k).kind, FALSE)
      BY <2>1 DEF Chained
    <2>3. (r.seq - k) \in G <=> IF k = 1 THEN (r.seq - k) \notin F ELSE (r.seq - k) \in F
      BY <1>0, <2>1
    <2> QED BY <1>1, <1>3, <1>4, <2>1, <2>2, <2>3
  <1>6. q.chain = Follows(q, 0)
    BY <1>0, <1>1, <1>4 DEF Chained
  <1>7. G \subseteq 0 .. q.seq - 1 /\ q.count <= q.seq /\ (q.count < n => q.evicted = Genesis)
    <2>1. r.count <= r.seq /\ (r.count < n => r.evicted = Genesis)
      BY DEF Chained
    <2>2. r.seq - 1 \in 0 .. r.seq - 1
      BY <1>0, <2>1
    <2> QED BY <1>r, <1>1, <2>1, <2>2
  <1> QED BY <1>1, <1>5, <1>6, <1>7 DEF Chained, q

\* The verifier walks the ring from the oldest event to the newest.
LEMMA NthIsNewest ==
    ASSUME NEW r, r \in Ring, r.count > 0, NEW i \in 0 .. r.count - 1
    PROVE  /\ r.count - i \in 1 .. r.count
           /\ Nth(r, i) = Newest(r, r.count - i)
           /\ i > 0 => Nth(r, i - 1) = Newest(r, (r.count - i) + 1)
  <1> USE AuditAssumption
  <1> DEFINE n == AuditCap
             h == r.head
             c == r.count
             b == Base(r)
  <1>1. h \in 0 .. n - 1 /\ c \in 1 .. n /\ n \in Nat \ {0}
    BY DEF Ring
  <1>2. b = IF h >= c THEN h - c ELSE h - c + n
    BY DEF Base
  <1>3. \A j \in 0 .. c - 1 : Back(r, c - j) = IF c - j <= h THEN h - (c - j) ELSE h - (c - j) + n
    BY DEF Back
  <1> HIDE DEF h, c, b, n
  <1>4. ASSUME NEW j \in 0 .. c - 1
        PROVE  (b + j) % n = Back(r, c - j)
    <2>1. b + j \in 0 .. 2 * n - 1
      BY <1>1, <1>2
    <2> DEFINE a == b + j
    <2>a. a = b + j
      OBVIOUS
    <2>2. a \in 0 .. 2 * n - 1
      BY <2>1
    <2> HIDE DEF a
    <2>3. a % n = IF a < n THEN a ELSE a - n
      BY <1>1, <2>2, ModOnce
    <2>4. (IF a < n THEN a ELSE a - n) = IF c - j <= h THEN h - (c - j) ELSE h - (c - j) + n
      BY <1>1, <1>2, <2>a
    <2> QED BY <1>3, <2>a, <2>3, <2>4
  <1>5. \A j \in 0 .. c - 1 : Nth(r, j) = Newest(r, c - j)
    BY <1>4 DEF Nth, Newest, b, n
  <1>6. i \in 0 .. c - 1
    BY DEF c
  <1>7. i > 0 => i - 1 \in 0 .. c - 1 /\ c - (i - 1) = (c - i) + 1
    BY <1>1, <1>6
  <1>8. i > 0 => Nth(r, i - 1) = Newest(r, (c - i) + 1)
    BY <1>5, <1>7
  <1>9. c - i \in 1 .. c
    BY <1>1, <1>6
  <1> QED BY <1>5, <1>6, <1>8, <1>9 DEF c

\* plant_audit_chain_verify finds the events that changed and no others.
LEMMA BrokenIsChanged ==
    ASSUME NEW r, NEW F, Chained(r, F)
    PROVE  {i \in 0 .. r.count - 1 : Nth(r, i).seq \in F} = Broken(r)
  <1> USE AuditAssumption
  <1>1. ASSUME NEW i \in 0 .. r.count - 1
        PROVE  Nth(r, i).seq \in F <=>
                   Nth(r, i).chain # Hash(Before(r, i), Nth(r, i).seq, Nth(r, i).kind,
                                          Nth(r, i).flipped)
    <2>0. r \in Ring /\ r.count \in 0 .. AuditCap /\ r.evicted \in Link /\ r.seq \in Nat
      BY DEF Chained, Ring
    <2>1. r.count > 0
      BY <2>0
    <2> DEFINE k == r.count - i
               e == Newest(r, k)
               p == Follows(r, k)
    <2>2. /\ k \in 1 .. r.count /\ Nth(r, i) = e
          /\ i > 0 => Nth(r, i - 1) = Newest(r, k + 1)
      BY <2>0, <2>1, NthIsNewest
    <2>k. (i > 0 <=> k < r.count) /\ k \in 1 .. AuditCap
      BY <2>0
    <2> HIDE DEF k
    <2>3. e \in Slot /\ (k < r.count => Newest(r, k + 1) \in Slot)
      <3>1. k < r.count => k + 1 \in 1 .. AuditCap
        BY <2>0, <2>2
      <3> QED BY <2>0, <2>k, <3>1, BackIsSlot
    <2>4. Before(r, i) = p
      <3>1. r.count < AuditCap => r.evicted = Genesis
        BY DEF Chained
      <3>2. CASE i > 0
        BY <2>2, <2>k, <3>2 DEF Before, Follows
      <3>3. CASE ~(i > 0)
        BY <2>0, <2>k, <3>1, <3>3 DEF Before, Follows
      <3> QED BY <3>2, <3>3
    <2>5. p \in Link
      BY <2>0, <2>3 DEF Follows, Slot
    <2>6. /\ e.seq = r.seq - k /\ (e.flipped <=> (r.seq - k) \in F)
          /\ e.chain = Hash(p, r.seq - k, e.kind, FALSE)
      BY <2>2 DEF Chained
    <2>7. e.seq \in Nat /\ e.kind \in Kinds /\ e.flipped \in BOOLEAN
      BY <2>3 DEF Slot
    <2> HIDE DEF e, p
    <2>8. Hash(p, e.seq, e.kind, FALSE) = Hash(p, e.seq, e.kind, e.flipped) => FALSE = e.flipped
      BY <2>5, <2>7, HashInjective
    <2>9. e.flipped <=> e.chain # Hash(p, e.seq, e.kind, e.flipped)
      <3>1. CASE e.flipped = TRUE
        BY <2>6, <2>8, <3>1
      <3>2. CASE e.flipped = FALSE
        BY <2>6, <3>2
      <3> QED BY <2>7, <3>1, <3>2
    <2> QED BY <2>2, <2>4, <2>6, <2>9
  <1>2. {i \in 0 .. r.count - 1 : Nth(r, i).seq \in F} \subseteq Broken(r)
    BY <1>1 DEF Broken
  <1>3. Broken(r) \subseteq {i \in 0 .. r.count - 1 : Nth(r, i).seq \in F}
    BY <1>1 DEF Broken
  <1> QED BY <1>2, <1>3

LEMMA EmptyChained == Chained(EmptyRing, {})
  <1> USE AuditAssumption
  <1>1. <<>> \in Link
    BY DEF Link
  <1>2. NoEvent \in Slot
    BY <1>1 DEF NoEvent, Slot, Kinds, Genesis
  <1>3. EmptyRing \in Ring
    BY <1>1, <1>2 DEF EmptyRing, Ring, Genesis
  <1>4. EmptyRing.count = 0 /\ EmptyRing.seq = 0 /\ EmptyRing.evicted = Genesis
        /\ EmptyRing.chain = Genesis
    BY DEF EmptyRing
  <1> HIDE DEF EmptyRing
  <1> QED BY <1>3, <1>4 DEF Chained, Follows

\* Every step logs, evicts or tampers as the chain expects.
LEMMA RingChained == FastSpec => []Chained(ring, flipped)
  <1>1. FastInit => Chained(ring, flipped)
    BY EmptyChained DEF FastInit
  <1>2. Chained(ring, flipped) /\ [FastNext]_fvars => Chained(ring, flipped)'
    <2> SUFFICES ASSUME Chained(ring, flipped), [FastNext]_fvars PROVE Chained(ring, flipped)'
      OBVIOUS
    <2>k. {"MODE_ENTER", "FAST_ESCALATE", "FAST_SHRINK"} \subseteq Kinds
      BY DEF Kinds
    <2>r. ASSUME Reset, UNCHANGED flipped PROVE Chained(ring, flipped)'
      BY <2>k, <2>r, LogChained DEF Reset
    <2>1. CASE Enter
      BY <2>k, <2>1, LogChained DEF Enter, Entered
    <2>2. CASE FastReset
      BY <2>2, <2>r DEF FastReset
    <2>3. CASE Exit
      BY <2>3, <2>r DEF Exit
    <2>4. CASE Storm
      BY <2>4 DEF Storm
    <2>5. CASE TamperEvent
      <3>1. /\ ring.count > 0 /\ ring' = Tamper(ring)
            /\ flipped' = IF ring.seq - 1 \in flipped THEN flipped \ {ring.seq - 1}
                          ELSE flipped \cup {ring.seq - 1}
        BY <2>5 DEF TamperEvent
      <3> QED BY <3>1, TamperChained
    <2>6. ASSUME NEW n \in Sizes, FastAlloc(n) PROVE Chained(ring, flipped)'
      <3>1. flipped' = flipped /\ (ring' = ring \/ ring' = Log(ring, "FAST_ESCALATE"))
        BY <2>6 DEF FastAlloc
      <3> QED BY <2>k, <3>1, LogChained
    <2>7. CASE UNCHANGED fvars
      BY <2>7 DEF fvars
    <2> QED BY <2>1, <2>2, <2>3, <2>4, <2>5, <2>6, <2>7 DEF FastNext
  <1> QED BY <1>1, <1>2, PTL DEF FastSpec

\* Tampering is found, and nothing else: over any run of the heap, with events
\* logged, evicted and tampered with, plant_audit_chain_verify names exactly the
\* events of the ring that differ from what plant_audit_log hashed.
THEOREM AuditFindsTampering == FastSpec => []AuditVerifies
  <1>1. Chained(ring, flipped) => AuditVerifies
    BY BrokenIsChanged DEF AuditVerifies
  <1> QED BY <1>1, RingChained, PTL

\* The heap's numbers stay within its limits, and the escalated blocks within
\* their array.
Typed ==
    /\ fast \in [size : 1 .. Limit, used : 0 .. Limit, peak : 0 .. Limit,
                 escalated : BOOLEAN, cycles : 0 .. LowScopes - 1, gen : Nat]
    /\ fast.used <= fast.size /\ fast.used <= fast.peak
    /\ esc \subseteq malloced /\ IsFiniteSet(esc) /\ Cardinality(esc) <= EscMax
    /\ held \subseteq Placement /\ kept \subseteq held
    /\ open \in Seq(Nat) /\ taken \in Nat /\ entered \in Nat

\* The ways the heap's record is updated, over any domains.
LEMMA HeapUpdates ==
    ASSUME NEW A, NEW B, NEW C, NEW D, NEW E, NEW G,
           NEW f \in [size : A, used : B, peak : C, escalated : D, cycles : E, gen : G],
           NEW a \in A, NEW b \in B, NEW c \in C, NEW d \in D, NEW e \in E, NEW g \in G
    PROVE  /\ [f EXCEPT !.peak = c, !.used = b, !.gen = g, !.size = a, !.cycles = e] =
                 [size |-> a, used |-> b, peak |-> c, escalated |-> f.escalated,
                  cycles |-> e, gen |-> g]
           /\ [f EXCEPT !.used = b, !.peak = c] =
                 [size |-> f.size, used |-> b, peak |-> c, escalated |-> f.escalated,
                  cycles |-> f.cycles, gen |-> f.gen]
           /\ [f EXCEPT !.peak = c, !.used = b] =
                 [size |-> f.size, used |-> b, peak |-> c, escalated |-> f.escalated,
                  cycles |-> f.cycles, gen |-> f.gen]
           /\ [f EXCEPT !.escalated = d] =
                 [size |-> f.size, used |-> f.used, peak |-> f.peak, escalated |-> d,
                  cycles |-> f.cycles, gen |-> f.gen]
           /\ f.size \in A /\ f.used \in B /\ f.peak \in C /\ f.escalated \in D
           /\ f.cycles \in E /\ f.gen \in G
  <1>1. /\ f.size \in A /\ f.used \in B /\ f.peak \in C /\ f.escalated \in D
        /\ f.cycles \in E /\ f.gen \in G
    OBVIOUS
  <1> DEFINE H == [size : A, used : B, peak : C, escalated : D, cycles : E, gen : G]
  <1>u. ASSUME NEW h \in H
        PROVE  /\ [h EXCEPT !.used = b] = [size |-> h.size, used |-> b, peak |-> h.peak,
                     escalated |-> h.escalated, cycles |-> h.cycles, gen |-> h.gen]
               /\ [h EXCEPT !.used = b] \in H
    OBVIOUS
  <1>p. ASSUME NEW h \in H
        PROVE  /\ [h EXCEPT !.peak = c] = [size |-> h.size, used |-> h.used, peak |-> c,
                     escalated |-> h.escalated, cycles |-> h.cycles, gen |-> h.gen]
               /\ [h EXCEPT !.peak = c] \in H
    OBVIOUS
  <1>2. [f EXCEPT !.peak = c, !.used = b, !.gen = g, !.size = a, !.cycles = e] =
           [size |-> a, used |-> b, peak |-> c, escalated |-> f.escalated,
            cycles |-> e, gen |-> g]
    <2> DEFINE r == [f EXCEPT !.peak = c]
               s == [r EXCEPT !.used = b]
               t == [s EXCEPT !.gen = g]
               u == [t EXCEPT !.size = a]
    <2>1. r \in H /\ r.size = f.size /\ r.escalated = f.escalated /\ r.cycles = f.cycles
          /\ r.peak = c
      BY <1>p
    <2> HIDE DEF r
    <2>2. s \in H /\ s.size = f.size /\ s.escalated = f.escalated /\ s.cycles = f.cycles
          /\ s.peak = c /\ s.used = b
      BY <1>u, <2>1
    <2> HIDE DEF s
    <2>3. t \in H /\ t.escalated = f.escalated /\ t.cycles = f.cycles
          /\ t.peak = c /\ t.used = b /\ t.gen = g
      BY <2>2
    <2> HIDE DEF t
    <2>4. u \in H /\ u.escalated = f.escalated /\ u.size = a
          /\ u.peak = c /\ u.used = b /\ u.gen = g
      BY <2>3
    <2> HIDE DEF u
    <2>5. [u EXCEPT !.cycles = e] =
             [size |-> a, used |-> b, peak |-> c, escalated |-> f.escalated,
              cycles |-> e, gen |-> g]
      BY <2>4
    <2> QED BY <2>5, Zenon DEF r, s, t, u
  <1>3. [f EXCEPT !.used = b, !.peak = c] =
           [size |-> f.size, used |-> b, peak |-> c, escalated |-> f.escalated,
            cycles |-> f.cycles, gen |-> f.gen]
    <2> DEFINE r == [f EXCEPT !.used = b]
    <2>1. /\ r \in H /\ r.size = f.size /\ r.escalated = f.escalated /\ r.cycles = f.cycles
          /\ r.used = b /\ r.gen = f.gen
      BY <1>u
    <2> HIDE DEF r
    <2>2. [r EXCEPT !.peak = c] =
             [size |-> f.size, used |-> b, peak |-> c, escalated |-> f.escalated,
              cycles |-> f.cycles, gen |-> f.gen]
      BY <1>p, <2>1
    <2> QED BY <2>2, Zenon DEF r
  <1>4. [f EXCEPT !.peak = c, !.used = b] =
           [size |-> f.size, used |-> b, peak |-> c, escalated |-> f.escalated,
            cycles |-> f.cycles, gen |-> f.gen]
    <2> DEFINE r == [f EXCEPT !.peak = c]
    <2>1. /\ r \in H /\ r.size = f.size /\ r.escalated = f.escalated /\ r.cycles = f.cycles
          /\ r.peak = c /\ r.gen = f.gen
      BY <1>p
    <2> HIDE DEF r
    <2>2. [r EXCEPT !.used = b] =
             [size |-> f.size, used |-> b, peak |-> c, escalated |-> f.escalated,
              cycles |-> f.cycles, gen |-> f.gen]
      BY <1>u, <2>1
    <2> QED BY <2>2, Zenon DEF r
  <1>5. [f EXCEPT !.escalated = d] =
           [size |-> f.size, used |-> f.used, peak |-> f.peak, escalated |-> d,
            cycles |-> f.cycles, gen |-> f.gen]
    OBVIOUS
  <1> QED BY <1>1, <1>2, <1>3, <1>4, <1>5

\* A request is rounded up to the alignment.
LEMMA RoundUpCovers ==
    ASSUME NEW n \in Nat
    PROVE  RoundUp(n) \in Nat /\ n <= RoundUp(n)
  <1> DEFINE q == (n + Align - 1) \div Align
             r == (n + Align - 1) % Align
  <1>1. Align \in Nat /\ Align > 0 /\ n + Align - 1 \in Nat
    BY FastAssumption
  <1>2. q \in Nat /\ r \in 0 .. Align - 1 /\ n + Align - 1 = Align * q + r
    BY <1>1
  <1>3. RoundUp(n) = q * Align
    BY DEF RoundUp
  <1> HIDE DEF q, r
  <1>4. q * Align = Align * q /\ q * Align \in Int
    BY <1>1, <1>2
  <1> QED BY <1>1, <1>2, <1>3, <1>4

\* Growing keeps the contents and never goes past the limit.
LEMMA GrownTyped ==
    ASSUME Typed, NEW need \in Nat, NEW f \in Grown(fast, need)
    PROVE  /\ f \in [size : 1 .. Limit, used : 0 .. Limit, peak : 0 .. Limit,
                     escalated : BOOLEAN, cycles : 0 .. LowScopes - 1, gen : Nat]
           /\ f.used = fast.used /\ f.peak = fast.peak /\ fast.size <= f.size
           /\ f.cycles = fast.cycles
           /\ f.gen = fast.gen \/ f.gen = fast.gen + 1
  <1> USE FastAssumption
  <1>1. fast \in [size : 1 .. Limit, used : 0 .. Limit, peak : 0 .. Limit,
                  escalated : BOOLEAN, cycles : 0 .. LowScopes - 1, gen : Nat]
    BY DEF Typed
  <1>2. \A g \in Relocated(fast) : g \in Nat /\ (g = fast.gen \/ g = fast.gen + 1)
    BY <1>1 DEF Relocated
  <1>3. Doubled(fast) \in 1 .. Limit /\ fast.size <= Doubled(fast)
    BY <1>1 DEF Doubled
  <1>4. CASE fast.used + need > fast.size /\ fast.size < Limit
    <2>1. PICK g \in Relocated(fast) : f = [fast EXCEPT !.size = Doubled(fast), !.gen = g]
      BY <1>4 DEF Grown
    <2> QED BY <1>1, <1>2, <1>3, <2>1
  <1>5. CASE ~(fast.used + need > fast.size /\ fast.size < Limit)
    <2>1. f = fast
      BY <1>5 DEF Grown
    <2> QED BY <1>1, <1>5, <2>1
  <1> QED BY <1>4, <1>5

\* A reset empties the heap, and may halve it.
LEMMA ResetTyped ==
    ASSUME Typed, NEW f \in AfterReset(fast)
    PROVE  /\ f \in [size : 1 .. Limit, used : 0 .. Limit, peak : 0 .. Limit,
                     escalated : BOOLEAN, cycles : 0 .. LowScopes - 1, gen : Nat]
           /\ f.used = 0
           /\ f.gen = fast.gen \/ f.gen = fast.gen + 1
  <1> USE FastAssumption
  <1>1. fast \in [size : 1 .. Limit, used : 0 .. Limit, peak : 0 .. Limit,
                  escalated : BOOLEAN, cycles : 0 .. LowScopes - 1, gen : Nat]
    BY DEF Typed
  <1> DEFINE size == IF Shrinks(fast) THEN fast.size \div 2 ELSE fast.size
             cycles == IF LowPressure(fast) /\ ~Shrinks(fast) THEN fast.cycles + 1 ELSE 0
  <1>2. PICK g \in (IF Shrinks(fast) THEN Relocated(fast) ELSE {fast.gen}) :
           f = [fast EXCEPT !.peak = Peak(fast), !.used = 0, !.gen = g,
                            !.size = size, !.cycles = cycles]
    BY DEF AfterReset
  <1>3. g \in Nat /\ (g = fast.gen \/ g = fast.gen + 1)
    BY <1>1 DEF Relocated
  <1>4. size \in 1 .. Limit
    BY <1>1 DEF Shrinks, LowPressure
  <1>5. cycles \in 0 .. LowScopes - 1
    BY <1>1 DEF Shrinks
  <1>6. Peak(fast) \in 0 .. Limit
    BY <1>1 DEF Peak
  <1> DEFINE peak == Peak(fast)
  <1> HIDE DEF size, cycles, peak
  <1>7. f = [fast EXCEPT !.peak = peak, !.used = 0, !.gen = g,
                         !.size = size, !.cycles = cycles]
    BY <1>2 DEF peak
  <1>8. /\ f \in [size : 1 .. Limit, used : 0 .. Limit, peak : 0 .. Limit,
                  escalated : BOOLEAN, cycles : 0 .. LowScopes - 1, gen : Nat]
        /\ f.used = 0 /\ f.size = size /\ f.gen = g
    <2>1. f = [size |-> size, used |-> 0, peak |-> peak, escalated |-> fast.escalated,
               cycles |-> cycles, gen |-> g]
      <3>1. peak \in 0 .. Limit /\ 0 \in 0 .. Limit
        BY <1>6 DEF peak
      <3> QED BY <1>1, <1>3, <1>4, <1>5, <1>7, <3>1, HeapUpdates
    <2> QED BY <1>1, <1>3, <1>4, <1>5, <1>6, <2>1 DEF peak
  <1> QED BY <1>3, <1>4, <1>8

LEMMA TypedInit == FastInit => Typed
  <1> SUFFICES ASSUME FastInit PROVE Typed
    OBVIOUS
  <1> USE FastAssumption DEF FastInit
  <1>1. IsFiniteSet({}) /\ Cardinality({}) = 0
    BY FS_EmptySet
  <1>2. fast \in [size : 1 .. Limit, used : 0 .. Limit, peak : 0 .. Limit,
                  escalated : BOOLEAN, cycles : 0 .. LowScopes - 1, gen : Nat]
    OBVIOUS
  <1>3. open \in Seq(Nat)
    OBVIOUS
  <1> QED BY <1>1, <1>2, <1>3 DEF Typed

LEMMA TypedKept == Typed /\ [FastNext]_fvars => Typed'
  <1> SUFFICES ASSUME Typed, [FastNext]_fvars PROVE Typed'
    OBVIOUS
  <1> USE FastAssumption
  <1>t. /\ open \in Seq(Nat) /\ Len(open) \in Nat
        /\ \A i \in 1 .. Len(open) : open[i] \in Nat
    BY LenProperties, ElementOfSeq DEF Typed
  <1>s. \A k \in 0 .. Len(open) : SubSeq(open, 1, k) \in Seq(Nat)
    BY <1>t
  <1>r. ASSUME Reset
        PROVE  /\ fast' \in [size : 1 .. Limit, used : 0 .. Limit, peak : 0 .. Limit,
                             escalated : BOOLEAN, cycles : 0 .. LowScopes - 1, gen : Nat]
               /\ fast'.used <= fast'.size /\ fast'.used <= fast'.peak
               /\ esc' \subseteq malloced' /\ IsFiniteSet(esc') /\ Cardinality(esc') <= EscMax
               /\ kept' = {}
    <2>1. /\ fast' \in [size : 1 .. Limit, used : 0 .. Limit, peak : 0 .. Limit,
                        escalated : BOOLEAN, cycles : 0 .. LowScopes - 1, gen : Nat]
          /\ fast'.used = 0
      BY <1>r, ResetTyped DEF Reset
    <2>2. esc' = {} /\ IsFiniteSet({}) /\ Cardinality({}) = 0 /\ kept' = {}
      BY <1>r, FS_EmptySet DEF Reset
    <2> QED BY <2>1, <2>2
  <1>1. CASE Enter
    <2>1. /\ fast' = [fast EXCEPT !.peak = Peak(fast), !.used = 0]
          /\ entered' = entered + 1 /\ open' = Append(open, entered')
          /\ UNCHANGED <<esc, held, malloced, taken>> /\ kept' \subseteq kept
      BY <1>1 DEF Enter, Entered
    <2>2. Peak(fast) \in 0 .. Limit
      BY DEF Typed, Peak
    <2>3. /\ fast' \in [size : 1 .. Limit, used : 0 .. Limit, peak : 0 .. Limit,
                        escalated : BOOLEAN, cycles : 0 .. LowScopes - 1, gen : Nat]
          /\ fast'.used <= fast'.size /\ fast'.used <= fast'.peak
      <3> DEFINE peak == Peak(fast)
      <3>1. fast.used <= peak
        BY DEF Peak, Typed
      <3> HIDE DEF peak
      <3>2. fast' = [size |-> fast.size, used |-> 0, peak |-> peak,
                     escalated |-> fast.escalated, cycles |-> fast.cycles, gen |-> fast.gen]
        <4>1. peak \in 0 .. Limit /\ 0 \in 0 .. Limit
          BY <2>2 DEF peak
        <4>2. fast' = [fast EXCEPT !.peak = peak, !.used = 0]
          BY <2>1 DEF peak
        <4> QED BY <4>1, <4>2, HeapUpdates DEF Typed
      <3> QED BY <2>2, <3>2 DEF Typed, peak
    <2>4. open' \in Seq(Nat) /\ entered' \in Nat
      <3>1. entered' \in Nat
        <4>1. entered \in Nat
          BY Zenon DEF Typed
        <4>2. entered' = entered + 1
          BY <2>1, Zenon
        <4> QED BY <4>1, <4>2
      <3>2. ASSUME NEW x \in Nat PROVE Append(open, x) \in Seq(Nat)
        BY <1>t
      <3> QED BY <2>1, <3>1, <3>2
    <2> QED BY <2>1, <2>3, <2>4 DEF Typed
  <1>2. CASE FastReset
    BY <1>2, <1>r DEF FastReset, Typed
  <1>3. CASE Exit
    <2>1. open' = SubSeq(open, 1, Len(open) - 1) /\ open # <<>>
      BY <1>3 DEF Exit
    <2>2. Len(open) - 1 \in 0 .. Len(open)
      BY <1>t, <2>1
    <2>3. open' \in Seq(Nat)
      BY <1>s, <2>1, <2>2
    <2> QED BY <1>3, <1>r, <2>3 DEF Exit, Typed
  <1>4. CASE Storm
    <2>1. open' \in Seq(Nat)
      BY <1>4, <1>t, <1>s DEF Storm
    <2> QED BY <1>4, <2>1 DEF Storm, Typed
  <1>5. CASE TamperEvent
    BY <1>5 DEF TamperEvent, history, Typed
  <1>6. ASSUME NEW n \in Sizes, FastAlloc(n) PROVE Typed'
    <2> DEFINE need == RoundUp(n)
               scope == open[Len(open)]
    <2>1. n \in Nat /\ need \in Nat /\ n <= need
      BY RoundUpCovers
    <2>2. scope \in Nat /\ taken' = taken + 1 /\ taken' \in Nat
      <3>1. open # <<>> /\ taken' = taken + 1
        BY <1>6 DEF FastAlloc
      <3>2. Len(open) \in 1 .. Len(open)
        BY <1>t, <3>1
      <3> QED BY <1>t, <3>1, <3>2 DEF Typed
    <2> HIDE DEF need, scope
    <2> DEFINE placed(f, b) == [id |-> taken', scope |-> scope, bump |-> b, gen |-> f.gen,
                                at |-> IF b THEN f.used ELSE 0, len |-> n]
               block == [id |-> taken', len |-> need]
    <2>3. PICK f \in Grown(fast, need) :
            \/ /\ f.used + need <= f.size
               /\ fast' = [f EXCEPT !.used = @ + need,
                                    !.peak = IF f.used + need > @ THEN f.used + need ELSE @]
               /\ held' = held \cup {placed(f, TRUE)} /\ kept' = kept \cup {placed(f, TRUE)}
               /\ UNCHANGED <<esc, malloced, ring>>
            \/ /\ f.used + need > f.size
               /\ fast' = [f EXCEPT !.escalated = TRUE]
               /\ malloced' = malloced \cup {block}
               /\ esc' = IF Cardinality(esc) < EscMax THEN esc \cup {block} ELSE esc
               /\ held' = held \cup {placed(f, FALSE)} /\ kept' = kept \cup {placed(f, FALSE)}
      BY <1>6 DEF FastAlloc, need, scope
    <2>4. /\ f \in [size : 1 .. Limit, used : 0 .. Limit, peak : 0 .. Limit,
                    escalated : BOOLEAN, cycles : 0 .. LowScopes - 1, gen : Nat]
          /\ f.used = fast.used /\ f.peak = fast.peak /\ fast.size <= f.size
      BY <2>1, <2>3, GrownTyped
    <2>5. /\ fast' \in [size : 1 .. Limit, used : 0 .. Limit, peak : 0 .. Limit,
                        escalated : BOOLEAN, cycles : 0 .. LowScopes - 1, gen : Nat]
          /\ fast'.used <= fast'.size /\ fast'.used <= fast'.peak
      <3>1. CASE /\ f.used + need <= f.size
                 /\ fast' = [f EXCEPT !.used = @ + need,
                                      !.peak = IF f.used + need > @ THEN f.used + need ELSE @]
        <4> DEFINE b == f.used + need
                   c == IF b > f.peak THEN b ELSE f.peak
        <4>1. b \in 0 .. Limit /\ c \in 0 .. Limit /\ b <= f.size /\ b <= c
          BY <2>1, <2>4, <3>1
        <4>2. fast' = [f EXCEPT !.used = b, !.peak = c]
          BY <2>4, <3>1
        <4> HIDE DEF b, c
        <4>3. fast' = [size |-> f.size, used |-> b, peak |-> c, escalated |-> f.escalated,
                       cycles |-> f.cycles, gen |-> f.gen]
          BY <2>4, <4>1, <4>2, HeapUpdates
        <4> QED BY <2>4, <4>1, <4>3
      <3>2. CASE fast' = [f EXCEPT !.escalated = TRUE]
        <4>1. fast' = [size |-> f.size, used |-> f.used, peak |-> f.peak, escalated |-> TRUE,
                       cycles |-> f.cycles, gen |-> f.gen]
          BY <2>4, <3>2, HeapUpdates
        <4> QED BY <2>4, <4>1 DEF Typed
      <3> QED BY <2>3, <3>1, <3>2
    <2>6. held' \subseteq Placement /\ kept' \subseteq held'
      <3>1. held \subseteq Placement /\ kept \subseteq held
        BY DEF Typed
      <3>2. ASSUME NEW b \in BOOLEAN PROVE placed(f, b) \in Placement
        <4>1. (IF b THEN f.used ELSE 0) \in Nat
          BY <2>4
        <4> QED BY <2>1, <2>2, <2>4, <4>1 DEF Placement
      <3> DEFINE p == placed(f, TRUE)
                 q == placed(f, FALSE)
      <3>4. p \in Placement /\ q \in Placement
        BY <3>2
      <3>5. \/ held' = held \cup {p} /\ kept' = kept \cup {p}
            \/ held' = held \cup {q} /\ kept' = kept \cup {q}
        BY <2>3
      <3> HIDE DEF p, q
      <3> QED BY <3>1, <3>4, <3>5
    <2>7. esc' \subseteq malloced' /\ IsFiniteSet(esc') /\ Cardinality(esc') <= EscMax
      <3>1. esc \subseteq malloced /\ IsFiniteSet(esc) /\ Cardinality(esc) \in Nat
            /\ Cardinality(esc) <= EscMax
        BY FS_CardinalityType DEF Typed
      <3> DEFINE b == [id |-> taken', len |-> need]
      <3>2. /\ IsFiniteSet(esc \cup {b})
            /\ Cardinality(esc \cup {b}) = Cardinality(esc)
               \/ Cardinality(esc \cup {b}) = Cardinality(esc) + 1
        BY <3>1, FS_AddElement
      <3> HIDE DEF b
      <3>3. CASE UNCHANGED <<esc, malloced>>
        BY <3>1, <3>3
      <3>4. CASE /\ malloced' = malloced \cup {b}
                 /\ esc' = IF Cardinality(esc) < EscMax THEN esc \cup {b} ELSE esc
        BY <3>1, <3>2, <3>4
      <3> QED BY <2>3, <3>3, <3>4 DEF b
    <2>8. UNCHANGED <<open, entered>>
      BY <1>6 DEF FastAlloc
    <2> QED BY <2>2, <2>5, <2>6, <2>7, <2>8 DEF Typed
  <1>7. CASE UNCHANGED fvars
    BY <1>7 DEF fvars, history, Typed
  <1> QED BY <1>1, <1>2, <1>3, <1>4, <1>5, <1>6, <1>7 DEF FastNext

\* The heap's bounds, in any program (plant_fast_grow, plant_fast_reset,
\* g_fast_esc).
THEOREM TypeCorrect == FastSpec => []FastTypeOK
  <1>1. Typed /\ Chained(ring, flipped) => FastTypeOK
    BY DEF Typed, FastTypeOK, Chained, Ring
  <1>2. FastSpec => []Typed
    BY TypedInit, TypedKept, PTL DEF FastSpec
  <1> QED BY <1>1, <1>2, RingChained, PTL

\* What nobody rewound lies, while the heap stays where it is, below the cursor
\* in the order it was given out; what malloc gave is not freed.
Own ==
    /\ \A a \in kept : a.id <= taken
    /\ \A a \in kept : a.bump => a.gen <= fast.gen
    /\ \A a \in kept : a.bump /\ a.gen = fast.gen => a.at + a.len <= fast.used
    /\ \A a \in kept : ~a.bump => \E blk \in malloced : blk.id = a.id
    /\ \A a, b \in kept :
          a.bump /\ b.bump /\ a.gen = fast.gen /\ b.gen = fast.gen /\ a.id < b.id =>
              a.at + a.len <= b.at

\* The fields of what is kept are numbers.
LEMMA KeptFields ==
    ASSUME Typed
    PROVE  /\ taken \in Nat /\ fast.gen \in Nat /\ fast.used \in Nat
           /\ \A a \in kept : /\ a.id \in Nat /\ a.gen \in Nat /\ a.at \in Nat /\ a.len \in Nat
                              /\ a.bump \in BOOLEAN
  <1>1. kept \subseteq Placement
    BY DEF Typed
  <1>2. taken \in Nat /\ fast.gen \in Nat /\ fast.used \in Nat
    BY FastAssumption DEF Typed
  <1> QED BY <1>1, <1>2 DEF Placement

\* A bump allocation x, at the cursor of the heap where it lies now.
LEMMA OwnBumped ==
    ASSUME Typed, Own, NEW x \in Placement, NEW u \in Nat, NEW g \in Nat,
           kept' = kept \cup {x}, malloced' = malloced, taken' = taken + 1,
           x.id = taken + 1, x.bump, fast'.gen = g, fast'.used = u, x.gen = g,
           x.at = fast.used, x.at + x.len <= u, fast.used <= u,
           g = fast.gen \/ g = fast.gen + 1
    PROVE  Own'
  <1>0. /\ taken \in Nat /\ fast.gen \in Nat /\ fast.used \in Nat
        /\ \A a \in kept : /\ a.id \in Nat /\ a.gen \in Nat /\ a.at \in Nat /\ a.len \in Nat
                           /\ a.bump \in BOOLEAN
    BY KeptFields
  <1>x. x.at \in Nat /\ x.len \in Nat
    BY DEF Placement
  <1>1. ASSUME NEW a \in kept
        PROVE  /\ a.id <= taken
               /\ a.bump => a.gen <= fast.gen
               /\ a.bump /\ a.gen = fast.gen => a.at + a.len <= fast.used
               /\ ~a.bump => \E blk \in malloced : blk.id = a.id
    BY DEF Own
  <1>2. ASSUME NEW a \in kept, a.bump, a.gen = fast'.gen PROVE a.gen = fast.gen
    BY <1>0, <1>1, <1>2
  <1>3. \A a \in kept' : a.id <= taken'
    BY <1>0, <1>1
  <1>4. \A a \in kept' : a.bump => a.gen <= fast'.gen
    <2> SUFFICES ASSUME NEW a \in kept', a.bump PROVE a.gen <= g
      OBVIOUS
    <2>1. CASE a = x
      BY <2>1
    <2>2. CASE a \in kept
      BY <1>0, <1>1, <2>2
    <2> QED BY <2>1, <2>2
  <1>5. \A a \in kept' : a.bump /\ a.gen = fast'.gen => a.at + a.len <= fast'.used
    <2> SUFFICES ASSUME NEW a \in kept', a.bump, a.gen = fast'.gen PROVE a.at + a.len <= u
      OBVIOUS
    <2>1. CASE a = x
      BY <2>1
    <2>2. CASE a \in kept
      <3>1. a.at + a.len <= fast.used
        BY <1>1, <1>2, <2>2
      <3> QED BY <1>0, <2>2, <3>1
    <2> QED BY <2>1, <2>2
  <1>6. \A a \in kept' : ~a.bump => \E blk \in malloced' : blk.id = a.id
    BY <1>1
  <1>7. ASSUME NEW a \in kept', NEW b \in kept', a.bump, b.bump,
               a.gen = fast'.gen, b.gen = fast'.gen, a.id < b.id
        PROVE  a.at + a.len <= b.at
    <2>1. a \in kept
      <3>1. CASE a = x
        <4>1. b.id <= taken + 1
          BY <1>3
        <4> QED BY <1>0, <1>7, <3>1, <4>1
      <3> QED BY <3>1
    <2>2. a.gen = fast.gen
      BY <1>2, <1>7, <2>1
    <2>3. CASE b = x
      BY <1>1, <1>7, <2>1, <2>2, <2>3
    <2>4. CASE b \in kept
      <3>1. b.gen = fast.gen
        BY <1>2, <1>7, <2>4
      <3> QED BY <1>7, <2>1, <2>2, <2>4, <3>1 DEF Own
    <2> QED BY <2>3, <2>4
  <1> QED BY <1>3, <1>4, <1>5, <1>6, <1>7 DEF Own

\* An allocation x that malloc served, in a heap that may have moved.
LEMMA OwnEscalated ==
    ASSUME Typed, Own, NEW x \in Placement, NEW g \in Nat, NEW blk \in malloced',
           kept' = kept \cup {x}, malloced \subseteq malloced', taken' = taken + 1,
           x.id = taken + 1, ~x.bump, blk.id = x.id, fast'.gen = g,
           fast'.used = fast.used, g = fast.gen \/ g = fast.gen + 1
    PROVE  Own'
  <1>0. /\ taken \in Nat /\ fast.gen \in Nat /\ fast.used \in Nat
        /\ \A a \in kept : /\ a.id \in Nat /\ a.gen \in Nat /\ a.at \in Nat /\ a.len \in Nat
                           /\ a.bump \in BOOLEAN
    BY KeptFields
  <1>1. ASSUME NEW a \in kept
        PROVE  /\ a.id <= taken
               /\ a.bump => a.gen <= fast.gen
               /\ a.bump /\ a.gen = fast.gen => a.at + a.len <= fast.used
               /\ ~a.bump => \E c \in malloced : c.id = a.id
    BY DEF Own
  <1>2. ASSUME NEW a \in kept, a.bump, a.gen = fast'.gen PROVE a.gen = fast.gen
    BY <1>0, <1>1, <1>2
  <1>3. \A a \in kept' : a.id <= taken'
    BY <1>0, <1>1
  <1>4. ASSUME NEW a \in kept', a.bump PROVE a \in kept /\ a.gen <= g
    BY <1>0, <1>1, <1>4
  <1>5. \A a \in kept' : a.bump /\ a.gen = fast'.gen => a.at + a.len <= fast'.used
    BY <1>1, <1>2, <1>4
  <1>6. \A a \in kept' : ~a.bump => \E c \in malloced' : c.id = a.id
    BY <1>1
  <1>7. ASSUME NEW a \in kept', NEW b \in kept', a.bump, b.bump,
               a.gen = fast'.gen, b.gen = fast'.gen, a.id < b.id
        PROVE  a.at + a.len <= b.at
    <2>1. a \in kept /\ b \in kept /\ a.gen = fast.gen /\ b.gen = fast.gen
      BY <1>2, <1>4, <1>7
    <2> QED BY <1>7, <2>1 DEF Own
  <1> QED BY <1>3, <1>4, <1>5, <1>6, <1>7 DEF Own

LEMMA OwnKept == Typed /\ Own /\ [FastNext]_fvars => Own'
  <1> SUFFICES ASSUME Typed, Own, [FastNext]_fvars PROVE Own'
    OBVIOUS
  <1>0. /\ taken \in Nat /\ fast.gen \in Nat /\ fast.used \in Nat
        /\ \A a \in kept : /\ a.id \in Nat /\ a.gen \in Nat /\ a.at \in Nat /\ a.len \in Nat
                           /\ a.bump \in BOOLEAN
    BY KeptFields
  <1>r. ASSUME kept' = {} PROVE Own'
    BY <1>r DEF Own
  <1>1. CASE Enter
    <2>1. kept' = {a \in kept : ~a.bump} /\ malloced' = malloced /\ taken' = taken
      BY <1>1 DEF Enter, Entered
    <2>2. \A a \in kept' : a \in kept /\ ~a.bump
      BY <2>1
    <2>3. \A a \in kept : a.id <= taken /\ (~a.bump => \E blk \in malloced : blk.id = a.id)
      BY DEF Own
    <2> QED BY <2>1, <2>2, <2>3 DEF Own
  <1>2. CASE FastReset
    BY <1>2, <1>r DEF FastReset, Reset
  <1>3. CASE Exit
    BY <1>3, <1>r DEF Exit, Reset
  <1>4. CASE Storm
    <2>1. kept' \subseteq kept /\ fast' = fast /\ malloced' = malloced /\ taken' = taken
      BY <1>4 DEF Storm
    <2> QED BY <2>1 DEF Own
  <1>5. ASSUME UNCHANGED <<fast, kept, malloced, taken>> PROVE Own'
    BY <1>5, Zenon DEF Own
  <1>6. ASSUME NEW n \in Sizes, FastAlloc(n) PROVE Own'
    <2> DEFINE need == RoundUp(n)
               scope == open[Len(open)]
    <2>1. n \in Nat /\ need \in Nat /\ n <= need
      BY RoundUpCovers, FastAssumption
    <2> HIDE DEF need, scope
    <2> DEFINE placed(f, b) == [id |-> taken', scope |-> scope, bump |-> b, gen |-> f.gen,
                                at |-> IF b THEN f.used ELSE 0, len |-> n]
               block == [id |-> taken', len |-> need]
    <2>2. taken' = taken + 1
      BY <1>6 DEF FastAlloc
    <2>3. PICK f \in Grown(fast, need) :
            \/ /\ f.used + need <= f.size
               /\ fast' = [f EXCEPT !.used = @ + need,
                                    !.peak = IF f.used + need > @ THEN f.used + need ELSE @]
               /\ kept' = kept \cup {placed(f, TRUE)} /\ held' = held \cup {placed(f, TRUE)}
               /\ malloced' = malloced
            \/ /\ fast' = [f EXCEPT !.escalated = TRUE]
               /\ malloced' = malloced \cup {block}
               /\ kept' = kept \cup {placed(f, FALSE)} /\ held' = held \cup {placed(f, FALSE)}
      BY <1>6 DEF FastAlloc, need, scope
    <2>4. /\ f \in [size : 1 .. Limit, used : 0 .. Limit, peak : 0 .. Limit,
                    escalated : BOOLEAN, cycles : 0 .. LowScopes - 1, gen : Nat]
          /\ f.used = fast.used /\ (f.gen = fast.gen \/ f.gen = fast.gen + 1)
          /\ f.gen \in Nat
      BY <2>1, <2>3, GrownTyped
    <2>5. held' \subseteq Placement
      BY TypedKept DEF Typed
    <2>6. CASE /\ f.used + need <= f.size
               /\ fast' = [f EXCEPT !.used = @ + need,
                                    !.peak = IF f.used + need > @ THEN f.used + need ELSE @]
               /\ kept' = kept \cup {placed(f, TRUE)} /\ held' = held \cup {placed(f, TRUE)}
               /\ malloced' = malloced
      <3> DEFINE x == placed(f, TRUE)
                 u == fast.used + need
      <3>1. fast'.used = u /\ fast'.gen = f.gen
        <4> DEFINE b == f.used + need
                   c == IF b > f.peak THEN b ELSE f.peak
        <4>1. b \in 0 .. Limit /\ c \in 0 .. Limit
          <5>1. f.used \in Nat /\ f.peak \in 0 .. Limit /\ f.size \in 1 .. Limit
                /\ need \in Nat /\ f.used + need <= f.size /\ Limit \in Nat
            BY <2>1, <2>4, <2>6, FastAssumption
          <5> QED BY <5>1
        <4>2. fast' = [f EXCEPT !.used = b, !.peak = c]
          BY <2>4, <2>6
        <4> HIDE DEF b, c
        <4>3. fast' = [size |-> f.size, used |-> b, peak |-> c, escalated |-> f.escalated,
                       cycles |-> f.cycles, gen |-> f.gen]
          BY <2>4, <4>1, <4>2, HeapUpdates
        <4> QED BY <2>4, <4>3 DEF b
      <3>2. /\ x.id = taken + 1 /\ x.bump /\ x.gen = f.gen /\ x.at = fast.used /\ x.len = n
        BY <2>2, <2>4
      <3>3. x \in Placement
        BY <2>5, <2>6
      <3>4. kept' = kept \cup {x} /\ malloced' = malloced
        BY <2>6
      <3>5. u \in Nat /\ fast.used + n <= u /\ fast.used <= u
        BY <1>0, <2>1
      <3> HIDE DEF x, u
      <3> QED BY <2>2, <2>4, <3>1, <3>2, <3>3, <3>4, <3>5, OwnBumped
    <2>7. CASE /\ fast' = [f EXCEPT !.escalated = TRUE]
               /\ malloced' = malloced \cup {block}
               /\ kept' = kept \cup {placed(f, FALSE)} /\ held' = held \cup {placed(f, FALSE)}
      <3> DEFINE x == placed(f, FALSE)
      <3>1. fast'.used = fast.used /\ fast'.gen = f.gen
        <4>1. fast' = [size |-> f.size, used |-> f.used, peak |-> f.peak, escalated |-> TRUE,
                       cycles |-> f.cycles, gen |-> f.gen]
          BY <2>4, <2>7, HeapUpdates
        <4> QED BY <2>4, <4>1
      <3>2. x.id = taken + 1 /\ ~x.bump /\ block.id = x.id
        BY <2>2
      <3>3. x \in Placement
        BY <2>5, <2>7
      <3>4. kept' = kept \cup {x} /\ malloced \subseteq malloced' /\ block \in malloced'
        BY <2>7
      <3> HIDE DEF x, block
      <3> QED BY <2>2, <2>4, <3>1, <3>2, <3>3, <3>4, OwnEscalated
    <2> HIDE DEF placed, block
    <2> QED BY <2>3, <2>6, <2>7
  <1>7. CASE TamperEvent
    BY <1>5, <1>7 DEF TamperEvent, history
  <1>8. CASE UNCHANGED fvars
    BY <1>5, <1>8 DEF fvars, history
  <1> QED BY <1>1, <1>2, <1>3, <1>4, <1>6, <1>7, <1>8 DEF FastNext

\* What plant_fast_alloc_raw gave stays the holder's own until an entry or a
\* reset rewinds the heap or realloc moves it, through growth, escalation,
\* nested FAST actions and storms.
THEOREM IntactThroughout == FastSpec => []IntactUntilRewind
  <1>1. FastInit => Own
    BY DEF FastInit, Own
  <1>2. Typed /\ Own => IntactUntilRewind
    <2> SUFFICES ASSUME Typed, Own PROVE IntactUntilRewind
      OBVIOUS
    <2>1. ASSUME NEW a \in kept, a.bump, a.gen = fast.gen, NEW b \in kept, b.bump,
                 b.gen = a.gen, a.id # b.id
          PROVE  Apart(a, b)
      <3>1. a.id \in Nat /\ b.id \in Nat
        BY KeptFields
      <3>2. CASE a.id < b.id
        BY <2>1, <3>2 DEF Own, Apart
      <3>3. CASE b.id < a.id
        BY <2>1, <3>3 DEF Own, Apart
      <3> QED BY <2>1, <3>1, <3>2, <3>3
    <2>2. \A a \in kept : /\ a.bump /\ a.gen = fast.gen => a.at + a.len <= fast.used
                          /\ ~a.bump => \E blk \in malloced : blk.id = a.id
      BY DEF Own
    <2> QED BY <2>1, <2>2 DEF IntactUntilRewind
  <1> QED BY <1>1, <1>2, OwnKept, TypedInit, TypedKept, PTL DEF FastSpec

\* Every block taken from malloc is on the list, or found it full.
Listed == malloced \subseteq esc \cup unlisted

LEMMA ListedKept ==
    Typed /\ Listed /\ EmptyAfterReturn /\ [FastNext]_fvars => Listed' /\ EmptyAfterReturn'
  <1> SUFFICES ASSUME Typed, Listed, EmptyAfterReturn, [FastNext]_fvars
               PROVE  Listed' /\ EmptyAfterReturn'
    OBVIOUS
  <1>1. CASE Enter
    <2>1. open' = Append(open, entered') /\ UNCHANGED <<esc, malloced, unlisted>>
      BY <1>1 DEF Enter, Entered
    <2>2. open' # <<>>
      BY <2>1 DEF Typed
    <2> QED BY <2>1, <2>2 DEF Listed, EmptyAfterReturn
  <1>r. ASSUME Reset, unlisted' = unlisted
        PROVE  Listed' /\ malloced' \subseteq unlisted' /\ fast'.used = 0
    <2>1. fast'.used = 0
      BY <1>r, ResetTyped DEF Reset
    <2>2. malloced' = malloced \ esc
      BY <1>r DEF Reset
    <2> QED BY <1>r, <2>1, <2>2 DEF Listed
  <1>2. CASE FastReset
    <2>1. open # <<>> /\ open' = open
      BY <1>2 DEF FastReset
    <2> QED BY <1>2, <1>r, <2>1 DEF FastReset, EmptyAfterReturn
  <1>3. CASE Exit
    BY <1>3, <1>r DEF Exit, EmptyAfterReturn
  <1>4. CASE Storm
    BY <1>4 DEF Storm, Listed, EmptyAfterReturn
  <1>5. CASE TamperEvent \/ UNCHANGED fvars
    <2>1. UNCHANGED <<fast, esc, open, malloced, unlisted, stormed>>
      BY <1>5 DEF TamperEvent, fvars, history
    <2> QED BY <2>1 DEF Listed, EmptyAfterReturn
  <1>6. ASSUME NEW n \in Sizes, FastAlloc(n) PROVE Listed' /\ EmptyAfterReturn'
    <2> DEFINE block == [id |-> taken', len |-> RoundUp(n)]
    <2>1. open # <<>> /\ open' = open
      BY <1>6 DEF FastAlloc
    <2>2. \/ UNCHANGED <<esc, malloced, unlisted>>
          \/ /\ malloced' = malloced \cup {block}
             /\ \/ esc' = esc \cup {block} /\ unlisted' = unlisted
                \/ esc' = esc /\ unlisted' = unlisted \cup {block}
      BY <1>6 DEF FastAlloc
    <2> HIDE DEF block
    <2>3. Listed'
      BY <2>2 DEF Listed
    <2> QED BY <2>1, <2>3 DEF EmptyAfterReturn
  <1> QED BY <1>1, <1>2, <1>3, <1>4, <1>5, <1>6 DEF FastNext

\* A FAST action's return leaves the heap empty, whatever it and the actions it
\* called did and whatever earlier storms left behind: only blocks that found
\* the list of escalated blocks full stay allocated.
THEOREM EmptyAfterReturns == FastSpec => []EmptyAfterReturn
  <1>1. FastInit => Listed /\ EmptyAfterReturn
    BY DEF FastInit, Listed, EmptyAfterReturn
  <1> QED BY <1>1, ListedKept, TypedInit, TypedKept, PTL DEF FastSpec

----------------------------------------------------------------------------
(* StringPool *)

StringKinds == {"null", "slab", "heap", "tagged", "digit", "double"}
Value == [kind : StringKinds, at : Nat]
Block == [link : 0 .. Blocks, text : Nat]

\* Every variable stays in its domain.
StrTyped ==
    /\ mem \in [1 .. Blocks -> Block] /\ free \in 0 .. Blocks
    /\ live \in Int /\ bal \in Int
    /\ dbl \in [0 .. DblSlots - 1 -> Nat] /\ dblIdx \in 0 .. DblSlots - 1
    /\ chunks \subseteq Nat
    /\ strs \in [Vars -> Value] /\ meant \in [Vars -> Nat]
    /\ \A v \in Vars : strs[v].kind = "slab" => strs[v].at \in 1 .. Blocks
    /\ texts \in Nat /\ doubles \in Nat /\ crashed \in BOOLEAN

\* s lists the free blocks in the order of their links, and no variable holds
\* one of them.
FreeList(s) ==
    /\ s \in Seq(1 .. Blocks)
    /\ \A i, j \in 1 .. Len(s) : s[i] = s[j] => i = j
    /\ free = IF Len(s) = 0 THEN 0 ELSE s[1]
    /\ \A i \in 1 .. Len(s) : mem[s[i]].link = IF i < Len(s) THEN s[i + 1] ELSE 0
    /\ \A i \in 1 .. Len(s) : \A v \in Vars : strs[v].kind = "slab" => strs[v].at # s[i]

\* No two variables share a block or a chunk, and each block and chunk holds
\* the text its variable was given.
Owned ==
    /\ ~crashed /\ \A v \in Vars : meant[v] <= texts
    /\ \A c \in chunks : c <= texts
    /\ \A v \in Vars :
          /\ strs[v].kind = "slab" => mem[strs[v].at].text = meant[v]
          /\ strs[v].kind \in {"heap", "tagged"} =>
                strs[v].at \in chunks /\ strs[v].at = meant[v]
    /\ \A v, w \in Vars :
          /\ strs[v].kind = "slab" /\ strs[w].kind = "slab" /\ strs[v].at = strs[w].at => v = w
          /\ /\ strs[v].kind \in {"heap", "tagged"} /\ strs[w].kind \in {"heap", "tagged"}
             /\ strs[v].at = strs[w].at
             => v = w

\* While there are no more decimals than slots, each has its own.
Decimals ==
    /\ doubles <= MaxDoubles /\ (doubles < DblSlots => dblIdx = doubles)
    /\ \A v \in Vars :
          strs[v].kind = "double" => strs[v].at < doubles /\ dbl[strs[v].at] = meant[v]

USE DEF StringKinds

LEMMA StrTypedInit == StrInit => StrTyped
  <1> SUFFICES ASSUME StrInit PROVE StrTyped
    OBVIOUS
  <1> USE StringAssumption DEF StrInit
  <1>1. mem \in [1 .. Blocks -> Block] /\ free \in 0 .. Blocks
    BY DEF SlabInit, Block
  <1>2. dbl \in [0 .. DblSlots - 1 -> Nat] /\ dblIdx \in 0 .. DblSlots - 1
    OBVIOUS
  <1>3. Null \in Value /\ Null.kind # "slab"
    BY DEF Null, Value
  <1>4. strs \in [Vars -> Value] /\ \A v \in Vars : strs[v].kind # "slab"
    BY <1>3
  <1>5. meant \in [Vars -> Nat] /\ chunks \subseteq Nat
    OBVIOUS
  <1>6. live \in Int /\ bal \in Int /\ texts \in Nat /\ doubles \in Nat
    OBVIOUS
  <1>8. crashed \in BOOLEAN
    OBVIOUS
  <1>7. \A v \in Vars : strs[v].kind = "slab" => strs[v].at \in 1 .. Blocks
    BY <1>4
  <1> QED BY <1>1, <1>2, <1>4, <1>5, <1>6, <1>7, <1>8, Zenon DEF StrTyped

\* What a variable is given by the builders of strings.
LEMMA GiveSets ==
    ASSUME StrTyped, NEW v \in Vars, NEW kind \in StringKinds, NEW at \in Nat, Give(v, kind, at)
    PROVE  /\ texts' = texts + 1 /\ texts' \in Nat /\ ~crashed
           /\ strs' \in [Vars -> Value] /\ meant' \in [Vars -> Nat]
           /\ strs'[v].kind = kind /\ strs'[v].at = at /\ meant'[v] = texts + 1
           /\ \A w \in Vars : w # v => strs'[w] = strs[w] /\ meant'[w] = meant[w]
  <1> DEFINE x == [kind |-> kind, at |-> at]
  <1>1. x \in Value /\ x.kind = kind /\ x.at = at
    BY DEF Value
  <1>2. /\ texts' = texts + 1 /\ ~crashed /\ strs' = [strs EXCEPT ![v] = x]
        /\ meant' = [meant EXCEPT ![v] = texts + 1]
    BY DEF Give
  <1> HIDE DEF x
  <1>3. strs \in [Vars -> Value] /\ meant \in [Vars -> Nat] /\ texts \in Nat
    BY DEF StrTyped
  <1> QED BY <1>1, <1>2, <1>3

\* plant_str_slab_alloc pops the head of the free list.
LEMMA SlabAllocSets ==
    ASSUME StrTyped, free # 0, SlabAlloc
    PROVE  /\ mem' \in [1 .. Blocks -> Block] /\ free \in 1 .. Blocks
           /\ free' = mem[free].link /\ free' \in 0 .. Blocks /\ live' \in Int
           /\ mem'[free].text = texts + 1
           /\ \A b \in 1 .. Blocks : b # free => mem'[b] = mem[b]
  <1> DEFINE x == [link |-> 0, text |-> texts + 1]
  <1>1. x \in Block /\ x.text = texts + 1
    BY StringAssumption DEF Block, StrTyped
  <1>2. mem' = [mem EXCEPT ![free] = x] /\ free' = mem[free].link /\ live' = live + 1
    BY DEF SlabAlloc
  <1> HIDE DEF x
  <1>3. mem \in [1 .. Blocks -> Block] /\ free \in 1 .. Blocks /\ live \in Int
    BY StringAssumption DEF StrTyped
  <1>4. mem[free].link \in 0 .. Blocks
    BY <1>3 DEF Block
  <1> QED BY <1>1, <1>2, <1>3, <1>4

\* plant_slab_free pushes a block.
LEMMA SlabFreeSets ==
    ASSUME StrTyped, NEW b \in 1 .. Blocks, SlabFree(b)
    PROVE  /\ mem' \in [1 .. Blocks -> Block] /\ free' = b /\ live' \in Int
           /\ mem'[b].link = free
           /\ \A c \in 1 .. Blocks : c # b => mem'[c] = mem[c]
  <1> DEFINE x == [link |-> free, text |-> 0]
  <1>1. x \in Block /\ x.link = free
    BY DEF Block, StrTyped
  <1>2. mem' = [mem EXCEPT ![b] = x] /\ free' = b /\ live' = live - 1
    BY DEF SlabFree
  <1> HIDE DEF x
  <1>3. mem \in [1 .. Blocks -> Block] /\ live \in Int
    BY DEF StrTyped
  <1> QED BY <1>1, <1>2, <1>3

\* The six ways a step that copies nothing changes the pool: v is given a block
\* of the slab, a chunk, a digit or a decimal, or loses a block or another value.
Steps(v) ==
    \/ /\ free # 0 /\ Give(v, "slab", free) /\ SlabAlloc /\ bal' \in Int
       /\ UNCHANGED <<chunks, dbl, dblIdx, doubles, crashed>>
    \/ /\ \E kind \in {"heap", "tagged"} : Give(v, kind, texts + 1)
       /\ chunks' = chunks \cup {texts + 1} /\ bal' \in Int
       /\ UNCHANGED <<mem, free, live, dbl, dblIdx, doubles, crashed>>
    \/ /\ Give(v, "digit", texts + 1)
       /\ UNCHANGED <<mem, free, live, bal, dbl, dblIdx, chunks, doubles, crashed>>
    \/ FromDouble(v)
    \/ FreeVar(v) /\ strs[v].kind = "slab"
    \/ FreeVar(v) /\ strs[v].kind # "slab"

LEMMA StepsAre ==
    ASSUME StrTyped, StrNext
    PROVE  \E v \in Vars : Steps(v) \/ \E w \in Vars : Copy(v, w)
  <1>b. bal \in Int /\ SmallLen \in Int /\ LargeLen \in Int
    BY DEF StrTyped, SmallLen, LargeLen
  <1>1. ASSUME NEW v \in Vars, NEW len \in {SmallLen, LargeLen}, Cat(v, len) PROVE Steps(v)
    <2>1. bal' \in Int
      BY <1>1, <1>b DEF Cat
    <2> QED BY <1>1, <2>1 DEF Cat, Steps
  <1>2. ASSUME NEW v \in Vars, NEW single \in BOOLEAN, FromDigit(v, single) PROVE Steps(v)
    <2>1. CASE single
      BY <1>2, <2>1 DEF FromDigit, Steps
    <2>2. CASE ~single
      BY <1>2, <2>2, <1>b DEF FromDigit, Steps
    <2> QED BY <2>1, <2>2
  <1>3. ASSUME NEW v \in Vars, FromDouble(v) \/ FreeVar(v) PROVE Steps(v)
    BY <1>3 DEF Steps
  <1> QED BY <1>1, <1>2, <1>3 DEF StrNext

\* FREE of a value clears the variable.
LEMMA FreeVarSets ==
    ASSUME StrTyped, NEW v \in Vars, FreeVar(v)
    PROVE  /\ strs' \in [Vars -> Value] /\ meant' \in [Vars -> Nat]
           /\ strs'[v].kind = "null" /\ meant'[v] = 0
           /\ \A w \in Vars : w # v => strs'[w] = strs[w] /\ meant'[w] = meant[w]
           /\ ~crashed /\ (strs[v].kind \in {"digit", "double"} => FreesStatic)
           /\ UNCHANGED <<dbl, dblIdx, texts, doubles>>
  <1>1. Null \in Value /\ Null.kind = "null"
    BY DEF Null, Value
  <1>2. strs' = [strs EXCEPT ![v] = Null] /\ meant' = [meant EXCEPT ![v] = 0]
    BY DEF FreeVar
  <1>3. strs \in [Vars -> Value] /\ meant \in [Vars -> Nat]
    BY DEF StrTyped
  <1>4. ~crashed /\ (strs[v].kind \in {"digit", "double"} => FreesStatic)
        /\ UNCHANGED <<dbl, dblIdx, texts, doubles>>
    BY DEF FreeVar
  <1> QED BY <1>1, <1>2, <1>3, <1>4

LEMMA StrTypedKept == StrTyped /\ [StrNext]_svars => StrTyped'
  <1> SUFFICES ASSUME StrTyped, [StrNext]_svars PROVE StrTyped'
    OBVIOUS
  <1> USE StringAssumption
  <1>k. \A k \in {"slab", "heap", "tagged", "digit", "double"} : k \in StringKinds
    OBVIOUS
  <1>t. texts + 1 \in Nat
    BY DEF StrTyped
  <1>1. ASSUME NEW v \in Vars, free # 0, Give(v, "slab", free), SlabAlloc, bal' \in Int,
               UNCHANGED <<chunks, dbl, dblIdx, doubles, crashed>>
        PROVE  StrTyped'
    <2>1. free \in Nat
      BY DEF StrTyped
    <2>2. /\ texts' \in Nat /\ strs' \in [Vars -> Value] /\ meant' \in [Vars -> Nat]
          /\ strs'[v].at = free /\ \A w \in Vars : w # v => strs'[w] = strs[w]
      BY <1>1, <1>k, <2>1, GiveSets
    <2>3. /\ mem' \in [1 .. Blocks -> Block] /\ free' \in 0 .. Blocks /\ live' \in Int
          /\ free \in 1 .. Blocks
      BY <1>1, SlabAllocSets
    <2>4. \A w \in Vars : strs'[w].kind = "slab" => strs'[w].at \in 1 .. Blocks
      BY <2>2, <2>3 DEF StrTyped
    <2> QED BY <1>1, <2>2, <2>3, <2>4 DEF StrTyped
  <1>2. ASSUME NEW v \in Vars, NEW k \in {"heap", "tagged", "digit"}, Give(v, k, texts + 1),
               chunks' = chunks \/ chunks' = chunks \cup {texts + 1}, bal' \in Int,
               UNCHANGED <<mem, free, live, dbl, dblIdx, doubles, crashed>>
        PROVE  StrTyped'
    <2>2. /\ texts' \in Nat /\ strs' \in [Vars -> Value] /\ meant' \in [Vars -> Nat]
          /\ strs'[v].kind = k /\ \A w \in Vars : w # v => strs'[w] = strs[w]
      BY <1>2, <1>k, <1>t, GiveSets
    <2>3. \A w \in Vars : strs'[w].kind = "slab" => strs'[w].at \in 1 .. Blocks
      BY <2>2 DEF StrTyped
    <2>4. chunks' \subseteq Nat
      BY <1>2, <1>t DEF StrTyped
    <2> QED BY <1>2, <2>2, <2>3, <2>4 DEF StrTyped
  <1>3. ASSUME NEW v \in Vars, FromDouble(v) PROVE StrTyped'
    <2>1. dblIdx \in Nat /\ Give(v, "double", dblIdx)
      BY <1>3 DEF StrTyped, FromDouble
    <2>2. /\ texts' \in Nat /\ strs' \in [Vars -> Value] /\ meant' \in [Vars -> Nat]
          /\ strs'[v].kind = "double" /\ \A w \in Vars : w # v => strs'[w] = strs[w]
      BY <1>k, <2>1, GiveSets
    <2>3. \A w \in Vars : strs'[w].kind = "slab" => strs'[w].at \in 1 .. Blocks
      BY <2>2 DEF StrTyped
    <2>4. dbl' \in [0 .. DblSlots - 1 -> Nat] /\ dblIdx' \in 0 .. DblSlots - 1
      <3>1. dbl' = [dbl EXCEPT ![dblIdx] = texts + 1] /\ dblIdx' = (dblIdx + 1) % DblSlots
        BY <1>3 DEF FromDouble
      <3>2. dblIdx + 1 \in Nat /\ dbl \in [0 .. DblSlots - 1 -> Nat]
        BY DEF StrTyped
      <3>3. \A n \in Nat : n % DblSlots \in 0 .. DblSlots - 1
        OBVIOUS
      <3>4. dblIdx' \in 0 .. DblSlots - 1
        BY <3>1, <3>2, <3>3
      <3>5. dbl' \in [0 .. DblSlots - 1 -> Nat]
        BY <1>t, <3>1, <3>2
      <3> QED BY <3>4, <3>5
    <2>5. doubles' \in Nat /\ UNCHANGED <<mem, free, live, bal, chunks, crashed>>
      BY <1>3 DEF FromDouble, StrTyped
    <2> QED BY <2>2, <2>3, <2>4, <2>5 DEF StrTyped
  <1>4. ASSUME NEW v \in Vars, FreeVar(v) PROVE StrTyped'
    <2>1. /\ strs' \in [Vars -> Value] /\ meant' \in [Vars -> Nat]
          /\ strs'[v].kind = "null" /\ \A w \in Vars : w # v => strs'[w] = strs[w]
          /\ UNCHANGED <<dbl, dblIdx, texts, doubles>>
      BY <1>4, FreeVarSets
    <2>2. \A w \in Vars : strs'[w].kind = "slab" => strs'[w].at \in 1 .. Blocks
      BY <2>1 DEF StrTyped
    <2>3. CASE strs[v].kind = "slab"
      <3>1. strs[v].at \in 1 .. Blocks /\ SlabFree(strs[v].at) /\ bal' = bal - BlockLen
            /\ UNCHANGED <<chunks, crashed>>
        BY <1>4, <2>3 DEF FreeVar, StrTyped
      <3>2. mem' \in [1 .. Blocks -> Block] /\ free' \in 0 .. Blocks /\ live' \in Int
        BY <3>1, SlabFreeSets
      <3> QED BY <2>1, <2>2, <3>1, <3>2 DEF StrTyped, BlockLen
    <2>4. CASE strs[v].kind # "slab"
      <3>1. chunks' \subseteq chunks /\ crashed' \in BOOLEAN /\ UNCHANGED <<mem, free, live, bal>>
        BY <1>4, <2>4 DEF FreeVar
      <3> QED BY <2>1, <2>2, <3>1 DEF StrTyped
    <2> QED BY <2>3, <2>4
  <1>5. ASSUME NEW v \in Vars, NEW w \in Vars, Copy(v, w) PROVE StrTyped'
    <2>1. strs' = [strs EXCEPT ![v] = strs[w]] /\ meant' = [meant EXCEPT ![v] = meant[w]]
          /\ UNCHANGED <<mem, free, live, bal, dbl, dblIdx, chunks, texts, doubles, crashed>>
      BY <1>5 DEF Copy
    <2>2. strs' \in [Vars -> Value] /\ meant' \in [Vars -> Nat]
          /\ \A u \in Vars : strs'[u] = strs[u] \/ strs'[u] = strs[w]
      BY <2>1 DEF StrTyped
    <2> QED BY <2>1, <2>2 DEF StrTyped
  <1>6. CASE UNCHANGED svars
    BY <1>6 DEF svars, StrTyped
  <1>7. ASSUME NEW v \in Vars, Steps(v) PROVE StrTyped'
    <2>b. bal \in Int
      BY DEF StrTyped
    <2> QED BY <1>1, <1>2, <1>3, <1>4, <1>7, <2>b DEF Steps
  <1>8. CASE StrNext
    BY <1>5, <1>7, <1>8, StepsAre
  <1> QED BY <1>6, <1>8

\* Blocks, slots and counters stay in range, in any program.
THEOREM StrTypeCorrect == StrSpec => []StrTypeOK
  <1>1. StrTyped => StrTypeOK
    BY DEF StrTyped, StrTypeOK, Block, Value
  <1> QED BY <1>1, StrTypedInit, StrTypedKept, PTL DEF StrSpec

\* The free list stays one that ends: a block leaves it at its head, and one
\* that comes back was held by one variable.
LEMMA FreeListKept ==
    ASSUME StrTyped, Owned, ~FreesStatic, NEW v \in Vars, Steps(v), NEW s, FreeList(s)
    PROVE  \E t : FreeList(t)'
  <1> DEFINE n == Len(s)
  <1>s. /\ s \in Seq(1 .. Blocks) /\ n \in Nat /\ \A i \in 1 .. n : s[i] \in 1 .. Blocks
        /\ \A i, j \in 1 .. n : s[i] = s[j] => i = j
        /\ free = IF n = 0 THEN 0 ELSE s[1]
        /\ \A i \in 1 .. n : mem[s[i]].link = IF i < n THEN s[i + 1] ELSE 0
    BY LenProperties, ElementOfSeq DEF FreeList
  <1>v. \A i \in 1 .. n : \A w \in Vars : strs[w].kind = "slab" => strs[w].at # s[i]
    BY DEF FreeList
  <1> HIDE DEF n
  <1>same. ASSUME UNCHANGED <<mem, free>>, strs'[v].kind # "slab",
                  \A w \in Vars : w # v => strs'[w] = strs[w]
           PROVE  FreeList(s)'
    BY <1>same, <1>s, <1>v DEF FreeList, n
  <1>1. CASE /\ free # 0 /\ Give(v, "slab", free) /\ SlabAlloc
    <2> DEFINE t == Tail(s)
    <2>1. n \in Nat \ {0} /\ free = s[1] /\ free \in 1 .. Blocks
      BY <1>1, <1>s
    <2>2. s # <<>>
      BY <2>1, EmptySeq DEF n
    <2>3. /\ t \in Seq(1 .. Blocks) /\ Len(t) = n - 1
          /\ \A i \in 1 .. n - 1 : t[i] = s[i + 1]
      BY <1>s, <2>2, HeadTailProperties DEF n
    <2> HIDE DEF t
    <2>4. /\ free' = mem[free].link
          /\ \A b \in 1 .. Blocks : b # free => mem'[b] = mem[b]
      BY <1>1, SlabAllocSets
    <2>5. strs'[v].at = free /\ \A w \in Vars : w # v => strs'[w] = strs[w]
      BY <1>1, <2>1, GiveSets
    <2>6. \A i, j \in 1 .. Len(t) : t[i] = t[j] => i = j
      <3> SUFFICES ASSUME NEW i \in 1 .. n - 1, NEW j \in 1 .. n - 1, t[i] = t[j] PROVE i = j
        BY <2>3
      <3>1. s[i + 1] = s[j + 1] /\ i + 1 \in 1 .. n /\ j + 1 \in 1 .. n
        BY <1>s, <2>3
      <3>2. i + 1 = j + 1
        BY <1>s, <3>1
      <3> QED BY <3>2
    <2>7. \A i \in 1 .. n - 1 : t[i] # free /\ t[i] \in 1 .. Blocks
      <3> SUFFICES ASSUME NEW i \in 1 .. n - 1 PROVE t[i] # free /\ t[i] \in 1 .. Blocks
        OBVIOUS
      <3>1. i + 1 \in 1 .. n /\ 1 \in 1 .. n /\ i + 1 # 1
        BY <1>s
      <3>2. s[i + 1] # s[1]
        BY <1>s, <3>1
      <3> QED BY <1>s, <2>1, <2>3, <3>1, <3>2
    <2>8. free' = IF Len(t) = 0 THEN 0 ELSE t[1]
      <3>1. 1 \in 1 .. n
        BY <2>1
      <3>2. free' = IF 1 < n THEN s[1 + 1] ELSE 0
        BY <1>s, <2>1, <2>4, <3>1
      <3> QED BY <2>1, <2>3, <3>2
    <2>9. \A i \in 1 .. Len(t) : mem'[t[i]].link = IF i < Len(t) THEN t[i + 1] ELSE 0
      <3> SUFFICES ASSUME NEW i \in 1 .. n - 1
                   PROVE  mem'[t[i]].link = IF i < n - 1 THEN t[i + 1] ELSE 0
        BY <2>3
      <3>1. mem'[t[i]] = mem[s[i + 1]] /\ i + 1 \in 1 .. n
        <4>1. i + 1 \in 1 .. n
          BY <1>s
        <4>2. t[i] = s[i + 1] /\ t[i] # free /\ t[i] \in 1 .. Blocks
          BY <2>3, <2>7
        <4> QED BY <2>4, <4>1, <4>2
      <3>2. mem[s[i + 1]].link = IF i + 1 < n THEN s[(i + 1) + 1] ELSE 0
        BY <1>s, <3>1
      <3>3. i < n - 1 => t[i + 1] = s[(i + 1) + 1]
        BY <2>1, <2>3
      <3> QED BY <2>1, <3>1, <3>2, <3>3
    <2>10. \A i \in 1 .. Len(t) : \A w \in Vars : strs'[w].kind = "slab" => strs'[w].at # t[i]
      <3> SUFFICES ASSUME NEW i \in 1 .. n - 1, NEW w \in Vars, strs'[w].kind = "slab"
                   PROVE  strs'[w].at # t[i]
        BY <2>3
      <3>1. CASE w = v
        BY <2>5, <2>7, <3>1
      <3>2. CASE w # v
        <4>1. i + 1 \in 1 .. n /\ t[i] = s[i + 1]
          BY <2>1, <2>3
        <4> QED BY <1>v, <2>5, <3>2, <4>1
      <3> QED BY <3>1, <3>2
    <2> QED BY <2>3, <2>6, <2>8, <2>9, <2>10 DEF FreeList
  <1>2. CASE FreeVar(v) /\ strs[v].kind = "slab"
    <2> DEFINE b == strs[v].at
               t == <<b>> \o s
    <2>1. b \in 1 .. Blocks /\ SlabFree(b)
      BY <1>2 DEF FreeVar, StrTyped
    <2>2. /\ free' = b /\ mem'[b].link = free
          /\ \A c \in 1 .. Blocks : c # b => mem'[c] = mem[c]
      BY <2>1, SlabFreeSets
    <2>3. strs'[v].kind = "null" /\ \A w \in Vars : w # v => strs'[w] = strs[w]
      BY <1>2, FreeVarSets
    <2>u. \A w \in Vars : strs[w].kind = "slab" /\ w # v => strs[w].at # b
      BY <1>2 DEF Owned
    <2>b. \A i \in 1 .. n : s[i] # b
      BY <1>2, <1>v
    <2> HIDE DEF b
    <2>4. /\ t \in Seq(1 .. Blocks) /\ Len(t) = n + 1 /\ t[1] = b
          /\ \A i \in 2 .. n + 1 : t[i] = s[i - 1]
      <3>1. <<b>> \in Seq(1 .. Blocks) /\ Len(<<b>>) = 1 /\ <<b>>[1] = b
        BY <2>1
      <3>2. /\ t \in Seq(1 .. Blocks) /\ Len(t) = 1 + n
            /\ \A i \in 1 .. Len(<<b>>) + Len(s) :
                  t[i] = IF i <= Len(<<b>>) THEN <<b>>[i] ELSE s[i - Len(<<b>>)]
        BY <1>s, <3>1, ConcatProperties DEF n
      <3> HIDE DEF t
      <3>3. \A i \in 1 .. 1 + n : t[i] = IF i <= 1 THEN b ELSE s[i - 1]
        <4> SUFFICES ASSUME NEW i \in 1 .. 1 + n PROVE t[i] = IF i <= 1 THEN b ELSE s[i - 1]
          OBVIOUS
        <4>1. t[i] = IF i <= 1 THEN <<b>>[i] ELSE s[i - 1]
          BY <3>1, <3>2 DEF n
        <4>2. i <= 1 => i = 1
          BY <1>s
        <4> QED BY <3>1, <4>1, <4>2
      <3> QED BY <1>s, <3>2, <3>3
    <2> HIDE DEF t
    <2>5. \A i \in 2 .. n + 1 : i - 1 \in 1 .. n /\ t[i] = s[i - 1] /\ t[i] # b
                                /\ t[i] \in 1 .. Blocks
      BY <1>s, <2>4, <2>b
    <2>6. \A i, j \in 1 .. Len(t) : t[i] = t[j] => i = j
      <3> SUFFICES ASSUME NEW i \in 1 .. n + 1, NEW j \in 1 .. n + 1, t[i] = t[j] PROVE i = j
        BY <2>4
      <3>1. CASE i = 1 \/ j = 1
        <4>1. i # 1 => i \in 2 .. n + 1
          BY <1>s
        <4>2. j # 1 => j \in 2 .. n + 1
          BY <1>s
        <4> QED BY <2>4, <2>5, <3>1, <4>1, <4>2
      <3>2. CASE i # 1 /\ j # 1
        <4>1. i \in 2 .. n + 1 /\ j \in 2 .. n + 1
          BY <1>s, <3>2
        <4>2. i - 1 = j - 1
          BY <1>s, <2>5, <4>1
        <4> QED BY <4>1, <4>2
      <3> QED BY <3>1, <3>2
    <2>8. free' = IF Len(t) = 0 THEN 0 ELSE t[1]
      BY <1>s, <2>2, <2>4
    <2>9. \A i \in 1 .. Len(t) : mem'[t[i]].link = IF i < Len(t) THEN t[i + 1] ELSE 0
      <3> SUFFICES ASSUME NEW i \in 1 .. n + 1
                   PROVE  mem'[t[i]].link = IF i < n + 1 THEN t[i + 1] ELSE 0
        BY <2>4
      <3>1. CASE i = 1
        <4>1. n # 0 => 2 \in 2 .. n + 1 /\ t[2] = s[1]
          <5>1. n # 0 => 2 \in 2 .. n + 1 /\ 2 - 1 = 1
            BY <1>s
          <5> QED BY <2>5, <5>1
        <4> QED BY <1>s, <2>2, <2>4, <3>1, <4>1
      <3>2. CASE i # 1
        <4>1. i \in 2 .. n + 1 /\ i - 1 \in 1 .. n
          BY <1>s, <3>2
        <4>2. mem'[t[i]] = mem[s[i - 1]]
          BY <2>2, <2>5, <4>1
        <4>3. mem[s[i - 1]].link = IF i - 1 < n THEN s[(i - 1) + 1] ELSE 0
          BY <1>s, <4>1
        <4>4. i < n + 1 => t[i + 1] = s[(i - 1) + 1]
          <5>1. i < n + 1 => i + 1 \in 2 .. n + 1 /\ (i + 1) - 1 = (i - 1) + 1
            BY <1>s, <4>1
          <5> QED BY <2>5, <5>1
        <4> QED BY <1>s, <4>1, <4>2, <4>3, <4>4
      <3> QED BY <3>1, <3>2
    <2>10. \A i \in 1 .. Len(t) : \A w \in Vars : strs'[w].kind = "slab" => strs'[w].at # t[i]
      <3> SUFFICES ASSUME NEW i \in 1 .. n + 1, NEW w \in Vars, strs'[w].kind = "slab"
                   PROVE  strs'[w].at # t[i]
        BY <2>4
      <3>1. w # v /\ strs'[w] = strs[w]
        BY <2>3
      <3>2. CASE i = 1
        BY <2>4, <2>u, <3>1, <3>2
      <3>3. CASE i # 1
        <4>1. i \in 2 .. n + 1
          BY <1>s, <3>3
        <4> QED BY <1>v, <2>5, <3>1, <4>1
      <3> QED BY <3>2, <3>3
    <2> QED BY <2>4, <2>6, <2>8, <2>9, <2>10 DEF FreeList
  <1>t. texts + 1 \in Nat /\ dblIdx \in Nat
    BY DEF StrTyped
  <1>3. ASSUME NEW k \in {"heap", "tagged", "digit"}, Give(v, k, texts + 1), UNCHANGED <<mem, free>>
        PROVE  FreeList(s)'
    <2>1. strs'[v].kind = k /\ \A w \in Vars : w # v => strs'[w] = strs[w]
      BY <1>3, <1>t, GiveSets
    <2> QED BY <1>3, <1>same, <2>1
  <1>4. CASE FromDouble(v)
    <2>1. Give(v, "double", dblIdx) /\ UNCHANGED <<mem, free>>
      BY <1>4 DEF FromDouble
    <2>2. strs'[v].kind = "double" /\ \A w \in Vars : w # v => strs'[w] = strs[w]
      BY <1>t, <2>1, GiveSets
    <2> QED BY <1>same, <2>1, <2>2
  <1>5. CASE FreeVar(v) /\ strs[v].kind # "slab"
    <2>1. strs'[v].kind = "null" /\ \A w \in Vars : w # v => strs'[w] = strs[w]
      BY <1>5, FreeVarSets
    <2>2. UNCHANGED <<mem, free>>
      BY <1>5 DEF FreeVar
    <2> QED BY <1>same, <2>1, <2>2
  <1> QED BY <1>1, <1>2, <1>3, <1>4, <1>5 DEF Steps

\* Every block and chunk stays with the one variable that was given it.
LEMMA OwnedKept ==
    ASSUME StrTyped, Owned, ~FreesStatic, NEW v \in Vars, Steps(v), NEW s, FreeList(s)
    PROVE  Owned'
  <1>t. /\ texts + 1 \in Nat /\ texts \in Nat /\ dblIdx \in Nat
        /\ mem \in [1 .. Blocks -> Block] /\ chunks \subseteq Nat
        /\ \A w \in Vars : strs[w] \in Value /\ meant[w] \in Nat
        /\ \A w \in Vars : strs[w].kind = "slab" => strs[w].at \in 1 .. Blocks
    BY DEF StrTyped
  <1>m. ~crashed /\ (\A w \in Vars : meant[w] <= texts) /\ \A c \in chunks : c <= texts
    BY DEF Owned
  <1>o. \A w \in Vars :
          /\ strs[w].kind = "slab" => mem[strs[w].at].text = meant[w]
          /\ strs[w].kind \in {"heap", "tagged"} =>
                strs[w].at \in chunks /\ strs[w].at = meant[w]
    BY DEF Owned
  <1>d. \A u, w \in Vars :
          /\ strs[u].kind = "slab" /\ strs[w].kind = "slab" /\ strs[u].at = strs[w].at => u = w
          /\ /\ strs[u].kind \in {"heap", "tagged"} /\ strs[w].kind \in {"heap", "tagged"}
             /\ strs[u].at = strs[w].at
             => u = w
    BY DEF Owned
  <1>1. CASE /\ free # 0 /\ Give(v, "slab", free) /\ SlabAlloc
             /\ UNCHANGED <<chunks, dbl, dblIdx, doubles, crashed>>
    <2>1. free = s[1] /\ 1 \in 1 .. Len(s) /\ free \in Nat
      BY <1>1, LenProperties DEF FreeList, StrTyped
    <2>2. /\ texts' = texts + 1 /\ strs'[v].kind = "slab" /\ strs'[v].at = free
          /\ meant'[v] = texts + 1
          /\ \A w \in Vars : w # v => strs'[w] = strs[w] /\ meant'[w] = meant[w]
      BY <1>1, <2>1, GiveSets
    <2>3. /\ mem'[free].text = texts + 1
          /\ \A b \in 1 .. Blocks : b # free => mem'[b] = mem[b]
      BY <1>1, SlabAllocSets
    <2>4. \A w \in Vars : strs[w].kind = "slab" => strs[w].at # free
      BY <2>1 DEF FreeList
    <2>5. ASSUME NEW w \in Vars
          PROVE  /\ meant'[w] <= texts'
                 /\ strs'[w].kind = "slab" => mem'[strs'[w].at].text = meant'[w]
                 /\ strs'[w].kind \in {"heap", "tagged"} =>
                       strs'[w].at \in chunks' /\ strs'[w].at = meant'[w]
      <3>1. CASE w = v
        BY <1>t, <2>2, <2>3, <3>1
      <3>2. CASE w # v
        <4>1. strs'[w] = strs[w] /\ meant'[w] = meant[w] /\ meant[w] <= texts /\ meant[w] \in Nat
          BY <1>t, <1>m, <2>2, <3>2
        <4>2. strs[w].kind = "slab" => mem'[strs[w].at] = mem[strs[w].at]
          BY <1>t, <2>3, <2>4
        <4> QED BY <1>1, <1>t, <1>o, <2>2, <4>1, <4>2
      <3> QED BY <3>1, <3>2
    <2>6. ASSUME NEW u \in Vars, NEW w \in Vars
          PROVE  /\ strs'[u].kind = "slab" /\ strs'[w].kind = "slab" /\ strs'[u].at = strs'[w].at
                    => u = w
                 /\ /\ strs'[u].kind \in {"heap", "tagged"} /\ strs'[w].kind \in {"heap", "tagged"}
                    /\ strs'[u].at = strs'[w].at
                    => u = w
      <3>1. CASE u = v \/ w = v
        BY <2>2, <2>4, <3>1
      <3>2. CASE u # v /\ w # v
        BY <1>d, <2>2, <3>2
      <3> QED BY <3>1, <3>2
    <2>7. \A c \in chunks' : c <= texts'
      BY <1>1, <1>t, <1>m, <2>2
    <2> QED BY <1>1, <1>m, <2>5, <2>6, <2>7 DEF Owned
  <1>2. ASSUME NEW k \in {"heap", "tagged", "digit", "double"}, NEW at \in Nat, Give(v, k, at),
               k \in {"heap", "tagged"} => at = texts + 1 /\ texts + 1 \in chunks',
               chunks' = chunks \/ chunks' = chunks \cup {texts + 1},
               UNCHANGED <<mem, crashed>>
        PROVE  Owned'
    <2>2. /\ texts' = texts + 1 /\ strs'[v].kind = k /\ strs'[v].at = at
          /\ meant'[v] = texts + 1
          /\ \A w \in Vars : w # v => strs'[w] = strs[w] /\ meant'[w] = meant[w]
      BY <1>2, GiveSets
    <2>4. \A w \in Vars : strs[w].kind \in {"heap", "tagged"} => strs[w].at # texts + 1
      BY <1>t, <1>m, <1>o
    <2>5. ASSUME NEW w \in Vars
          PROVE  /\ meant'[w] <= texts'
                 /\ strs'[w].kind = "slab" => mem'[strs'[w].at].text = meant'[w]
                 /\ strs'[w].kind \in {"heap", "tagged"} =>
                       strs'[w].at \in chunks' /\ strs'[w].at = meant'[w]
      <3>1. CASE w = v
        BY <1>2, <1>t, <2>2, <3>1
      <3>2. CASE w # v
        <4>1. strs'[w] = strs[w] /\ meant'[w] = meant[w] /\ meant[w] <= texts /\ meant[w] \in Nat
          BY <1>t, <1>m, <2>2, <3>2
        <4> QED BY <1>2, <1>t, <1>o, <2>2, <4>1
      <3> QED BY <3>1, <3>2
    <2>6. ASSUME NEW u \in Vars, NEW w \in Vars
          PROVE  /\ strs'[u].kind = "slab" /\ strs'[w].kind = "slab" /\ strs'[u].at = strs'[w].at
                    => u = w
                 /\ /\ strs'[u].kind \in {"heap", "tagged"} /\ strs'[w].kind \in {"heap", "tagged"}
                    /\ strs'[u].at = strs'[w].at
                    => u = w
      <3>1. CASE u = v \/ w = v
        BY <1>2, <2>2, <2>4, <3>1
      <3>2. CASE u # v /\ w # v
        BY <1>d, <2>2, <3>2
      <3> QED BY <3>1, <3>2
    <2>7. ASSUME NEW c \in chunks' PROVE c <= texts'
      <3>1. texts' = texts + 1 /\ texts \in Nat
        BY <1>t, <2>2
      <3>2. CASE c = texts + 1
        BY <3>1, <3>2
      <3>3. CASE c \in chunks
        <4>1. c \in Nat /\ c <= texts
          BY <1>t, <1>m, <3>3
        <4> QED BY <3>1, <4>1
      <3> QED BY <1>2, <3>2, <3>3
    <2> QED BY <1>2, <1>m, <2>5, <2>6, <2>7 DEF Owned
  <1>3. CASE FromDouble(v)
    <2>1. Give(v, "double", dblIdx) /\ UNCHANGED <<mem, crashed, chunks>>
      BY <1>3 DEF FromDouble
    <2> QED BY <1>2, <1>t, <2>1
  <1>4. CASE FreeVar(v)
    <2>1. /\ strs'[v].kind = "null" /\ meant'[v] = 0 /\ texts' = texts
          /\ \A w \in Vars : w # v => strs'[w] = strs[w] /\ meant'[w] = meant[w]
          /\ strs[v].kind \notin {"digit", "double"}
      BY <1>4, FreeVarSets
    <2>2. strs[v].kind \in {"slab", "heap", "tagged"}
      <3>1. strs[v].kind # "null" /\ strs[v].kind \in StringKinds
        BY <1>4, <1>t DEF FreeVar, Value
      <3> QED BY <2>1, <3>1
    <2>3. /\ crashed' = FALSE /\ chunks' \subseteq chunks
          /\ \A w \in Vars : w # v =>
               /\ strs[w].kind = "slab" => mem'[strs[w].at] = mem[strs[w].at]
               /\ strs[w].kind \in {"heap", "tagged"} => strs[w].at \in chunks'
      <3>1. CASE strs[v].kind = "slab"
        <4>1. strs[v].at \in 1 .. Blocks /\ SlabFree(strs[v].at) /\ UNCHANGED <<chunks, crashed>>
          BY <1>4, <1>t, <3>1 DEF FreeVar
        <4>2. \A c \in 1 .. Blocks : c # strs[v].at => mem'[c] = mem[c]
          BY <4>1, SlabFreeSets
        <4>3. crashed' = FALSE
          BY <1>m, <4>1 DEF StrTyped
        <4> QED BY <1>t, <1>o, <1>d, <3>1, <4>1, <4>2, <4>3
      <3>2. CASE strs[v].kind \in {"heap", "tagged"}
        <4>1. /\ chunks' = chunks \ {strs[v].at} /\ UNCHANGED mem
              /\ crashed' = ~(strs[v].kind \in {"heap", "tagged"} /\ strs[v].at \in chunks)
          BY <1>4, <3>2 DEF FreeVar
        <4>2. strs[v].at \in chunks
          BY <1>o, <3>2
        <4> QED BY <1>o, <1>d, <3>2, <4>1, <4>2
      <3> QED BY <2>2, <3>1, <3>2
    <2>4. ASSUME NEW w \in Vars
          PROVE  /\ meant'[w] <= texts'
                 /\ strs'[w].kind = "slab" => mem'[strs'[w].at].text = meant'[w]
                 /\ strs'[w].kind \in {"heap", "tagged"} =>
                       strs'[w].at \in chunks' /\ strs'[w].at = meant'[w]
      <3>1. CASE w = v
        BY <1>t, <2>1, <3>1
      <3>2. CASE w # v
        <4>1. strs'[w] = strs[w] /\ meant'[w] = meant[w]
          BY <2>1, <3>2
        <4> QED BY <1>m, <1>o, <2>1, <2>3, <3>2, <4>1
      <3> QED BY <3>1, <3>2
    <2>5. ASSUME NEW u \in Vars, NEW w \in Vars
          PROVE  /\ strs'[u].kind = "slab" /\ strs'[w].kind = "slab" /\ strs'[u].at = strs'[w].at
                    => u = w
                 /\ /\ strs'[u].kind \in {"heap", "tagged"} /\ strs'[w].kind \in {"heap", "tagged"}
                    /\ strs'[u].at = strs'[w].at
                    => u = w
      BY <1>d, <2>1
    <2>6. \A c \in chunks' : c <= texts'
      BY <1>m, <2>1, <2>3
    <2> QED BY <2>3, <2>4, <2>5, <2>6 DEF Owned
  <1>5. ASSUME NEW k \in {"heap", "tagged"}, Give(v, k, texts + 1),
               chunks' = chunks \cup {texts + 1}, UNCHANGED <<mem, crashed>>
        PROVE  Owned'
    BY <1>2, <1>5, <1>t
  <1>6. ASSUME Give(v, "digit", texts + 1), UNCHANGED <<mem, chunks, crashed>> PROVE Owned'
    BY <1>2, <1>6, <1>t
  <1> QED BY <1>1, <1>3, <1>4, <1>5, <1>6 DEF Steps

\* The rotating slots have not come round while decimals are fewer than slots.
LEMMA DecimalsKept ==
    ASSUME StrTyped, Decimals, MaxDoubles <= DblSlots, NEW v \in Vars, Steps(v)
    PROVE  Decimals'
  <1> USE StringAssumption
  <1>t. /\ texts + 1 \in Nat /\ dblIdx \in 0 .. DblSlots - 1 /\ doubles \in Nat
        /\ dbl \in [0 .. DblSlots - 1 -> Nat]
        /\ \A w \in Vars : strs[w] \in Value /\ strs[w].at \in Nat
    BY DEF StrTyped, Value
  <1>d. /\ doubles <= MaxDoubles /\ (doubles < DblSlots => dblIdx = doubles)
        /\ \A w \in Vars :
             strs[w].kind = "double" => strs[w].at < doubles /\ dbl[strs[w].at] = meant[w]
    BY DEF Decimals
  <1>same. ASSUME UNCHANGED <<dbl, dblIdx, doubles>>, strs'[v].kind # "double",
                  \A w \in Vars : w # v => strs'[w] = strs[w] /\ meant'[w] = meant[w]
           PROVE  Decimals'
    BY <1>same, <1>d DEF Decimals
  <1>1. ASSUME NEW k \in {"slab", "heap", "tagged", "digit"}, NEW at \in Nat, Give(v, k, at),
               UNCHANGED <<dbl, dblIdx, doubles>>
        PROVE  Decimals'
    <2>1. /\ strs'[v].kind = k
          /\ \A w \in Vars : w # v => strs'[w] = strs[w] /\ meant'[w] = meant[w]
      BY <1>1, GiveSets
    <2> QED BY <1>same, <1>1, <2>1
  <1>2. CASE FreeVar(v)
    <2>1. /\ strs'[v].kind = "null" /\ UNCHANGED <<dbl, dblIdx, doubles>>
          /\ \A w \in Vars : w # v => strs'[w] = strs[w] /\ meant'[w] = meant[w]
      BY <1>2, FreeVarSets
    <2> QED BY <1>same, <2>1
  <1>3. CASE FromDouble(v)
    <2>1. /\ doubles < MaxDoubles /\ doubles' = doubles + 1 /\ Give(v, "double", dblIdx)
          /\ dbl' = [dbl EXCEPT ![dblIdx] = texts + 1] /\ dblIdx' = (dblIdx + 1) % DblSlots
      BY <1>3 DEF FromDouble
    <2>2. dblIdx = doubles /\ dblIdx \in Nat /\ doubles + 1 <= MaxDoubles
      BY <1>t, <1>d, <2>1
    <2>3. /\ strs'[v].kind = "double" /\ strs'[v].at = dblIdx /\ meant'[v] = texts + 1
          /\ \A w \in Vars : w # v => strs'[w] = strs[w] /\ meant'[w] = meant[w]
      BY <2>1, <2>2, GiveSets
    <2>4. doubles + 1 < DblSlots => (doubles + 1) % DblSlots = doubles + 1
      <3> DEFINE d == doubles + 1
      <3>1. d \in Nat
        BY <1>t
      <3> HIDE DEF d
      <3>2. d < DblSlots => d % DblSlots = d
        BY <3>1
      <3> QED BY <3>2 DEF d
    <2>5. doubles' < DblSlots => dblIdx' = doubles'
      BY <2>1, <2>2, <2>4
    <2>6. ASSUME NEW w \in Vars, strs'[w].kind = "double"
          PROVE  strs'[w].at < doubles' /\ dbl'[strs'[w].at] = meant'[w]
      <3>1. CASE w = v
        BY <1>t, <2>1, <2>2, <2>3, <3>1
      <3>2. CASE w # v
        <4>1. strs'[w] = strs[w] /\ meant'[w] = meant[w] /\ strs[w].at < doubles
              /\ dbl[strs[w].at] = meant[w] /\ strs[w].at \in Nat
          BY <1>t, <1>d, <2>3, <2>6, <3>2
        <4>2. strs[w].at \in 0 .. DblSlots - 1 /\ strs[w].at # dblIdx
          BY <1>t, <2>1, <2>2, <4>1
        <4> QED BY <1>t, <2>1, <4>1, <4>2
      <3> QED BY <3>1, <3>2
    <2> QED BY <2>1, <2>2, <2>5, <2>6 DEF Decimals
  <1>4. free \in Nat
    BY DEF StrTyped
  <1> QED BY <1>1, <1>2, <1>3, <1>4, <1>t DEF Steps

LEMMA OwnedInit == StrInit => Owned /\ (\E s : FreeList(s)) /\ Decimals
  <1> SUFFICES ASSUME StrInit PROVE Owned /\ (\E s : FreeList(s)) /\ Decimals
    OBVIOUS
  <1> USE StringAssumption DEF StrInit
  <1>1. \A v \in Vars : strs[v].kind = "null" /\ meant[v] = 0
    BY DEF Null
  <1>2. Owned
    BY <1>1 DEF Owned
  <1>3. Decimals
    BY <1>1 DEF Decimals
  <1> DEFINE s == [i \in 1 .. Blocks |-> Blocks - i + 1]
  <1>4. s \in Seq(1 .. Blocks) /\ Len(s) = Blocks
    <2>1. \A i \in 1 .. Blocks : Blocks - i + 1 \in 1 .. Blocks
      OBVIOUS
    <2>2. s \in Seq(1 .. Blocks)
      BY <2>1, IsASeq
    <2> QED BY <2>2
  <1>5. \A i \in 1 .. Blocks : s[i] = Blocks - i + 1 /\ s[i] \in 1 .. Blocks
    OBVIOUS
  <1> HIDE DEF s
  <1>6. \A i, j \in 1 .. Len(s) : s[i] = s[j] => i = j
    BY <1>4, <1>5
  <1>7. free = IF Len(s) = 0 THEN 0 ELSE s[1]
    BY <1>4, <1>5
  <1>8. \A i \in 1 .. Len(s) : mem[s[i]].link = IF i < Len(s) THEN s[i + 1] ELSE 0
    <2> SUFFICES ASSUME NEW i \in 1 .. Blocks
                 PROVE  mem[s[i]].link = IF i < Blocks THEN s[i + 1] ELSE 0
      BY <1>4
    <2>1. mem[s[i]].link = Blocks - i
      BY <1>5 DEF SlabInit
    <2>2. i < Blocks => i + 1 \in 1 .. Blocks
      OBVIOUS
    <2> QED BY <1>5, <2>1, <2>2
  <1>9. FreeList(s)
    BY <1>1, <1>4, <1>6, <1>7, <1>8 DEF FreeList
  <1> QED BY <1>2, <1>3, <1>9

LEMMA OwnedStays ==
    ASSUME ~Aliases, ~FreesStatic
    PROVE  StrSpec => [](StrTyped /\ Owned /\ \E s : FreeList(s))
  <1>1. StrTyped /\ (Owned /\ \E s : FreeList(s)) /\ [StrNext]_svars
           => (Owned /\ \E s : FreeList(s))'
    <2> SUFFICES ASSUME StrTyped, Owned, NEW s, FreeList(s), [StrNext]_svars
                 PROVE  (Owned /\ \E t : FreeList(t))'
      OBVIOUS
    <2>1. CASE UNCHANGED svars
      BY <2>1 DEF svars, Owned, FreeList
    <2>2. CASE StrNext
      <3>1. PICK v \in Vars : Steps(v)
        BY <2>2, StepsAre DEF Copy
      <3>2. (\E t : FreeList(t)') /\ Owned'
        BY <3>1, FreeListKept, OwnedKept
      <3> QED BY <3>2
    <2> QED BY <2>1, <2>2
  <1> QED BY <1>1, StrTypedInit, StrTypedKept, OwnedInit, PTL DEF StrSpec

\* FREE hands to free only what malloc returned, and once (plant_mem_free), in
\* programs that free no digit or decimal and copy no string pointer.
THEOREM FreesAreSound ==
    ASSUME ~Aliases, ~FreesStatic
    PROVE  StrSpec => []FreesSound
  <1>1. Owned => FreesSound
    BY DEF Owned, FreesSound
  <1> QED BY <1>1, OwnedStays, PTL

\* A string reads as it was built until its variable is given another or freed:
\* the slab's free list, the heap strings and the slots of decimals never
\* overwrite it, in programs that copy no string pointer, free no digit or
\* decimal, and build no more decimals than there are slots.
THEOREM TextStays ==
    ASSUME ~Aliases, ~FreesStatic, MaxDoubles <= DblSlots
    PROVE  StrSpec => []TextKept
  <1>1. StrTyped /\ Decimals /\ [StrNext]_svars => Decimals'
    <2> SUFFICES ASSUME StrTyped, Decimals, [StrNext]_svars PROVE Decimals'
      OBVIOUS
    <2>1. CASE UNCHANGED svars
      BY <2>1 DEF svars, Decimals
    <2>2. CASE StrNext
      <3>1. PICK v \in Vars : Steps(v)
        BY <2>2, StepsAre DEF Copy
      <3> QED BY <3>1, DecimalsKept
    <2> QED BY <2>1, <2>2
  <1>2. Owned /\ Decimals => TextKept
    <2> SUFFICES ASSUME Owned, Decimals, NEW v \in Vars PROVE ReadText(v) = meant[v]
      BY DEF TextKept
    <2>1. CASE strs[v].kind = "slab"
      BY <2>1 DEF Owned, ReadText
    <2>2. CASE strs[v].kind = "double"
      BY <2>2 DEF Decimals, ReadText
    <2>3. CASE strs[v].kind \in {"heap", "tagged"}
      BY <2>3 DEF Owned, ReadText
    <2>4. CASE strs[v].kind \notin {"slab", "double", "heap", "tagged"}
      BY <2>4 DEF ReadText
    <2> QED BY <2>1, <2>2, <2>3, <2>4
  <1> QED BY <1>1, <1>2, StrTypedInit, StrTypedKept, OwnedInit, OwnedStays, PTL DEF StrSpec
==============================================================================
