----------------------------- MODULE Data_proofs -----------------------------
(***************************************************************************)
(* Proofs about the data a program keeps, for any values and any sizes:    *)
(* the ARC heap (ArcHeap and DistHeap, which runs on it), the five         *)
(* containers (Collections), the list built-ins (Lists), the indices of    *)
(* tensors (Tensors), and pivots and transposes of matrices (LinAlg). The  *)
(* heap's invariant is stated for a heap g and the retains k clients hold  *)
(* on it, so that each operator on heaps gets one lemma and                *)
(* plant_arc_alloc, which composes three of them, needs no more. Every     *)
(* probe of a table ends, and what programs see of the containers is what  *)
(* Containers promises. Each loop of a list built-in has the invariant of  *)
(* its turns. The offset of a tensor's coordinates and the coordinates of  *)
(* an element undo each other, and every loop reads inside its operands.   *)
(***************************************************************************)
EXTENDS DistHeap, Collections, Lists, ProofLemmas

----------------------------------------------------------------------------
(* ArcHeap and DistHeap *)

\* Clients never use again an entry that waits in the deferred queue, or the
\* pressure never stays in the band in which evictions are deferred.
NoRequeue == "queued" \notin CacheHits \/ \A p \in Pressures : p < 80 \/ p >= 90

\* What the drop, the sweep and the eviction preserve.
HeapInv(g, k) ==
    /\ g \in Heaps
    /\ IsFiniteSet(g.edges)
    /\ k \in [Obj -> Nat]
    /\ \A o \in Obj \ g.objs : k[o] = 0
    /\ \A o \in g.objs : g.refs[o] = k[o] + g.inEdges[o]
    /\ \A o \in g.objs : Cardinality(LiveIn(g, o)) <= g.inEdges[o]
    /\ \A e \in g.edges : e.p \in g.objs /\ (e.p \notin g.deferred => e.c \in g.objs)
    /\ g.deferred \subseteq g.objs
    /\ \A o \in g.deferred : g.refs[o] = 0
    /\ "queued" \in CacheHits => g.deferred = {}

\* Only a lease keeps an object whose count is zero.
Leased(g) == \A o \in g.objs : g.refs[o] = 0 => g.lease[o] > 0

\* A heap between two client calls.
Sound(g, k) == HeapInv(g, k) /\ Leased(g) /\ g.pending = g.deferred

\* The objects of D have no holder, and no edge that will be followed again
\* leads into D from outside.
Closed(g, k, D) ==
    /\ D \subseteq g.objs
    /\ \A o \in D : k[o] = 0
    /\ \A e \in g.edges : e.c \in D /\ e.p \notin g.deferred => e.p \in D

----------------------------------------------------------------------------
(* Reachability *)

\* What contains the roots and is closed under links contains all that is reached.
LEMMA ReachLeast ==
    ASSUME NEW E \in SUBSET Edges, NEW R \in SUBSET Obj, NEW S \in SUBSET Obj,
           R \subseteq S, \A e \in E : e.p \in S => e.c \in S
    PROVE  Reach(E, R) \subseteq S
  BY DEF Reach

\* The mark phase marks its roots.
LEMMA ReachBase ==
    ASSUME NEW E, NEW R \in SUBSET Obj
    PROVE  R \subseteq Reach(E, R)
  BY DEF Reach

\* The mark phase follows every link of a marked object.
LEMMA ReachStep ==
    ASSUME NEW E \in SUBSET Edges, NEW R, NEW e \in E, e.p \in Reach(E, R)
    PROVE  e.c \in Reach(E, R)
  BY DEF Reach, Edges

\* What is held, and what it leads to, is allocated and not deferred.
LEMMA ReachLive ==
    ASSUME NEW g, NEW k, HeapInv(g, k)
    PROVE  Reach(g.edges, {o \in Obj : k[o] > 0}) \subseteq g.objs \ g.deferred
  <1> DEFINE S == g.objs \ g.deferred
             R == {o \in Obj : k[o] > 0}
  <1>1. g.edges \in SUBSET Edges /\ S \in SUBSET Obj /\ R \in SUBSET Obj
    BY DEF HeapInv, Heaps
  <1>2. R \subseteq S
    <2> SUFFICES ASSUME NEW o \in Obj, k[o] > 0 PROVE o \in S
      OBVIOUS
    <2>1. o \in g.objs
      BY DEF HeapInv
    <2>2. g.refs[o] > 0
      BY <2>1 DEF HeapInv, Heaps
    <2> QED BY <2>1, <2>2 DEF HeapInv
  <1>3. ASSUME NEW e \in g.edges, e.p \in S PROVE e.c \in S
    <2>1. e.c \in g.objs /\ e \in LiveIn(g, e.c)
      BY <1>3 DEF HeapInv, LiveIn
    <2>2. IsFiniteSet(LiveIn(g, e.c))
      BY FS_Subset DEF HeapInv, LiveIn
    <2>3. Cardinality(LiveIn(g, e.c)) \in Nat /\ Cardinality(LiveIn(g, e.c)) # 0
      BY <2>1, <2>2, FS_CardinalityType, FS_EmptySet
    <2>4. g.refs[e.c] > 0
      BY <2>1, <2>3 DEF HeapInv, Heaps
    <2> QED BY <2>1, <2>4 DEF HeapInv
  <1> HIDE DEF S, R
  <1>4. Reach(g.edges, R) \subseteq S
    BY <1>1, <1>2, <1>3, ReachLeast
  <1> QED BY <1>4 DEF S, R

----------------------------------------------------------------------------
(* Heap operators *)

\* A zero count means no holder and no edge that will be followed again.
LEMMA ZeroIsFree ==
    ASSUME NEW g, NEW k, HeapInv(g, k), NEW o \in g.objs, g.refs[o] = 0
    PROVE  /\ k[o] = 0 /\ g.inEdges[o] = 0
           /\ \A e \in g.edges : e.c = o => e.p \in g.deferred
  <1>0. k[o] \in Nat /\ g.inEdges[o] \in Nat
    BY DEF HeapInv, Heaps
  <1>1. k[o] = 0 /\ g.inEdges[o] = 0
    BY <1>0 DEF HeapInv
  <1>2. IsFiniteSet(LiveIn(g, o))
    BY FS_Subset DEF HeapInv, LiveIn
  <1>3. Cardinality(LiveIn(g, o)) = 0
    BY <1>1, <1>2, FS_CardinalityType DEF HeapInv
  <1>4. LiveIn(g, o) = {}
    BY <1>2, <1>3, FS_EmptySet
  <1> QED BY <1>1, <1>4 DEF LiveIn

\* plant_arc_destroy leaves the records of the objects it spares alone.
LEMMA DestroyFields ==
    ASSUME NEW g \in Heaps, NEW D
    PROVE  /\ Destroy(g, D) \in Heaps
           /\ Destroy(g, D).objs = g.objs \ D
           /\ Destroy(g, D).edges = {e \in g.edges : e.p \notin D}
           /\ Destroy(g, D).deferred = g.deferred \ D
           /\ Destroy(g, D).pending = g.pending
           /\ \A o \in Obj \ D : /\ Destroy(g, D).refs[o] = g.refs[o]
                                 /\ Destroy(g, D).inEdges[o] = g.inEdges[o]
                                 /\ Destroy(g, D).lease[o] = g.lease[o]
  BY DEF Destroy, Heaps, Cleared

\* Destroying objects that nothing outside leads to keeps the heap's invariant,
\* when what clients held on them is given up.
LEMMA DestroyUnheld ==
    ASSUME NEW g, NEW k, HeapInv(g, k), NEW D, D \subseteq g.objs,
           \A e \in g.edges : e.c \in D /\ e.p \notin g.deferred => e.p \in D,
           NEW i \in [Obj -> Nat], \A o \in D : i[o] = 0, \A o \in Obj \ D : i[o] = k[o]
    PROVE  HeapInv(Destroy(g, D), i)
  <1> DEFINE d == Destroy(g, D)
  <1>0. g \in Heaps /\ g.objs \in SUBSET Obj
    BY DEF HeapInv, Heaps
  <1>1. /\ d \in Heaps /\ d.objs = g.objs \ D
        /\ d.edges = {e \in g.edges : e.p \notin D}
        /\ d.deferred = g.deferred \ D
        /\ \A o \in d.objs : /\ o \in g.objs /\ o \in Obj /\ i[o] = k[o]
                             /\ d.refs[o] = g.refs[o] /\ d.inEdges[o] = g.inEdges[o]
                             /\ d.lease[o] = g.lease[o]
    BY <1>0, DestroyFields DEF Heaps
  <1> HIDE DEF d
  <1>2. IsFiniteSet(d.edges)
    BY <1>1, FS_Subset DEF HeapInv
  <1>3. \A o \in Obj \ d.objs : i[o] = 0
    BY <1>1 DEF HeapInv
  <1>4. \A o \in d.objs : d.refs[o] = i[o] + d.inEdges[o]
    BY <1>1 DEF HeapInv
  <1>5. ASSUME NEW o \in d.objs PROVE Cardinality(LiveIn(d, o)) <= d.inEdges[o]
    <2>1. LiveIn(d, o) \subseteq LiveIn(g, o)
      BY <1>1 DEF LiveIn
    <2>2. IsFiniteSet(LiveIn(g, o))
      BY FS_Subset DEF HeapInv, LiveIn
    <2>3. Cardinality(LiveIn(d, o)) <= Cardinality(LiveIn(g, o))
          /\ Cardinality(LiveIn(g, o)) \in Nat /\ Cardinality(LiveIn(d, o)) \in Nat
      BY <2>1, <2>2, FS_Subset, FS_CardinalityType
    <2>4. Cardinality(LiveIn(g, o)) <= g.inEdges[o] /\ g.inEdges[o] \in Nat
      BY <1>1, <1>5 DEF HeapInv, Heaps
    <2> QED BY <1>1, <1>5, <2>3, <2>4
  <1>6. \A e \in d.edges : e.p \in d.objs /\ (e.p \notin d.deferred => e.c \in d.objs)
    BY <1>1 DEF HeapInv
  <1>7. d.deferred \subseteq d.objs /\ (\A o \in d.deferred : d.refs[o] = 0)
    BY <1>1 DEF HeapInv
  <1>9. "queued" \in CacheHits => d.deferred = {}
    BY <1>1 DEF HeapInv
  <1>10. HeapInv(d, i)
    BY <1>1, <1>2, <1>3, <1>4, <1>5, <1>6, <1>7, <1>9 DEF HeapInv
  <1> QED BY <1>10 DEF d

\* Destroying objects nobody holds or leads to keeps the heap's invariant.
LEMMA DestroyKeepsInv ==
    ASSUME NEW g, NEW k, HeapInv(g, k), NEW D, Closed(g, k, D)
    PROVE  HeapInv(Destroy(g, D), k)
  <1>1. k \in [Obj -> Nat]
    BY DEF HeapInv
  <1> QED BY <1>1, DestroyUnheld DEF Closed

\* Objects whose count is zero can always be destroyed together with garbage
\* that is closed; a set of zero-count objects is closed by itself.
LEMMA ZeroIsClosed ==
    ASSUME NEW g, NEW k, HeapInv(g, k), NEW D, D \subseteq g.objs,
           \A o \in D : g.refs[o] = 0
    PROVE  Closed(g, k, D)
  <1>1. \A o \in D : k[o] = 0 /\ \A e \in g.edges : e.c = o => e.p \in g.deferred
    BY ZeroIsFree
  <1> QED BY <1>1 DEF Closed

\* What a collection sweeps is held by nobody and led to by nothing it keeps.
LEMMA GcClosed ==
    ASSUME NEW g, NEW k, HeapInv(g, k), g.pending = g.deferred, NEW t \in Nat
    PROVE  Closed(g, k, GcSweep(g, t) \cup GcDrain(g, t))
  <1> DEFINE D == GcSweep(g, t) \cup GcDrain(g, t)
             M == Reach(g.edges, Roots(g))
  <1>0. g \in Heaps /\ g.edges \in SUBSET Edges
    BY DEF HeapInv, Heaps
  <1>a. Roots(g) \in SUBSET Obj /\ Roots(g) \subseteq M
    <2>1. Roots(g) \in SUBSET Obj
      BY <1>0 DEF Roots, Heaps
    <2> QED BY <2>1, ReachBase
  <1>1. D \subseteq g.objs
    BY DEF GcSweep, GcDrain, HeapInv
  <1>2. \A o \in D : o \notin M \/ g.refs[o] = 0
    BY DEF GcSweep, GcDrain, HeapInv, LeaseDead
  <1>3. ASSUME NEW o \in D PROVE k[o] = 0
    <2>1. CASE g.refs[o] = 0
      BY <2>1, <1>1, ZeroIsFree
    <2>2. CASE o \notin M
      <3>1. ~(g.refs[o] - g.inEdges[o] > 0)
        BY <2>2, <1>1, <1>a DEF Roots
      <3>2. g.refs[o] = k[o] + g.inEdges[o] /\ g.inEdges[o] \in Nat /\ k[o] \in Nat
        BY <1>1 DEF HeapInv, Heaps
      <3> QED BY <3>1, <3>2
    <2> QED BY <1>2, <2>1, <2>2
  <1>4. ASSUME NEW e \in g.edges, e.c \in D, e.p \notin g.deferred PROVE e.p \in D
    <2>1. g.refs[e.c] # 0
      BY <1>4, <1>1, ZeroIsFree
    <2>2. e.c \notin M
      BY <1>4, <2>1, <1>2
    <2>3. e.p \notin M
      BY <2>2, <1>0, ReachStep
    <2>4. e.p \in g.objs \ g.deferred
      BY <1>4 DEF HeapInv
    <2> QED BY <2>3, <2>4 DEF GcSweep
  <1> QED BY <1>1, <1>3, <1>4 DEF Closed

\* The zero-ref objects that survive a destruction keep their leases.
LEMMA DestroyKeepsLeased ==
    ASSUME NEW g \in Heaps, NEW D, NEW o, \A x \in g.objs \ {o} : g.refs[x] = 0 => g.lease[x] > 0,
           o \in g.objs \ D /\ g.refs[o] = 0 => g.lease[o] > 0
    PROVE  Leased(Destroy(g, D))
  <1>1. g.objs \in SUBSET Obj
    BY DEF Heaps
  <1>2. \A x \in g.objs \ D : g.refs[x] = 0 => g.lease[x] > 0
    OBVIOUS
  <1> QED BY <1>1, <1>2, DestroyFields DEF Leased

\* The heap's invariant does not depend on the deferred queue.
LEMMA PendingIrrelevant ==
    ASSUME NEW g, NEW k, HeapInv(g, k), NEW S \in SUBSET Obj
    PROVE  /\ HeapInv([g EXCEPT !.pending = S], k)
           /\ [g EXCEPT !.pending = S].pending = S
           /\ [g EXCEPT !.pending = S].deferred = g.deferred
           /\ [g EXCEPT !.pending = S].objs = g.objs
  <1> DEFINE f == [g EXCEPT !.pending = S]
  <1>1. /\ f \in Heaps /\ f.objs = g.objs /\ f.refs = g.refs /\ f.inEdges = g.inEdges
        /\ f.edges = g.edges /\ f.lease = g.lease /\ f.deferred = g.deferred
        /\ f.pending = S
    BY DEF HeapInv, Heaps
  <1> HIDE DEF f
  <1>2. \A o : LiveIn(f, o) = LiveIn(g, o)
    BY <1>1 DEF LiveIn
  <1>3. HeapInv(f, k)
    BY <1>1, <1>2 DEF HeapInv
  <1> QED BY <1>1, <1>3 DEF f

\* Making the queue exactly the flagged objects makes a heap sound.
LEMMA PendingSound ==
    ASSUME NEW g, NEW k, HeapInv(g, k), Leased(g), NEW S \in SUBSET Obj, S = g.deferred
    PROVE  Sound([g EXCEPT !.pending = S], k)
  <1> DEFINE f == [g EXCEPT !.pending = S]
  <1>1. f.objs = g.objs /\ f.refs = g.refs /\ f.lease = g.lease
        /\ f.pending = S /\ f.deferred = g.deferred
    BY DEF HeapInv, Heaps
  <1>2. HeapInv(f, k)
    BY PendingIrrelevant
  <1> HIDE DEF f
  <1>3. Sound(f, k)
    BY <1>1, <1>2 DEF Sound, Leased
  <1> QED BY <1>3 DEF f

\* Queueing zero-ref objects for a later eviction.
LEMMA DeferSound ==
    ASSUME NEW g, NEW k, HeapInv(g, k), Leased(g), g.pending = g.deferred,
           "queued" \notin CacheHits,
           NEW Q, Q \subseteq g.objs, \A o \in Q : g.refs[o] = 0
    PROVE  Sound([g EXCEPT !.pending = @ \cup Q, !.deferred = @ \cup Q], k)
  <1> DEFINE f == [g EXCEPT !.pending = @ \cup Q, !.deferred = @ \cup Q]
  <1>1. /\ f \in Heaps /\ f.objs = g.objs /\ f.refs = g.refs /\ f.inEdges = g.inEdges
        /\ f.edges = g.edges /\ f.lease = g.lease /\ f.deferred = g.deferred \cup Q
        /\ f.pending = g.pending \cup Q
    BY DEF HeapInv, Heaps
  <1> HIDE DEF f
  <1>2. ASSUME NEW o \in f.objs PROVE Cardinality(LiveIn(f, o)) <= f.inEdges[o]
    <2>1. LiveIn(f, o) \subseteq LiveIn(g, o)
      BY <1>1 DEF LiveIn
    <2>2. IsFiniteSet(LiveIn(g, o))
      BY FS_Subset DEF HeapInv, LiveIn
    <2>3. Cardinality(LiveIn(f, o)) <= Cardinality(LiveIn(g, o))
          /\ Cardinality(LiveIn(g, o)) \in Nat /\ Cardinality(LiveIn(f, o)) \in Nat
      BY <2>1, <2>2, FS_Subset, FS_CardinalityType
    <2>4. Cardinality(LiveIn(g, o)) <= g.inEdges[o] /\ g.inEdges[o] \in Nat
      BY <1>1, <1>2 DEF HeapInv, Heaps
    <2> QED BY <1>1, <1>2, <2>3, <2>4
  <1>3. HeapInv(f, k)
    BY <1>1, <1>2 DEF HeapInv
  <1>4. Sound(f, k)
    BY <1>1, <1>3 DEF Sound, Leased
  <1> QED BY <1>4 DEF f

\* plant_arc_gc keeps a heap sound.
LEMMA GcSound ==
    ASSUME NEW g, NEW k, Sound(g, k), NEW t \in Nat
    PROVE  Sound(Gc(g, t), k)
  <1> DEFINE D == GcSweep(g, t) \cup GcDrain(g, t)
             d == Destroy(g, D)
             P == g.pending \ GcDrain(g, t)
  <1>1. HeapInv(d, k)
    BY GcClosed, DestroyKeepsInv DEF Sound
  <1>2. d.pending = g.pending /\ d.deferred = g.deferred \ D
    BY DestroyFields DEF HeapInv, Sound
  <1>3. d.deferred = P
    BY <1>2 DEF GcSweep, Sound
  <1>4. P \in SUBSET Obj
    BY DEF HeapInv, Heaps, Sound
  <1>5. Gc(g, t) = [d EXCEPT !.pending = P]
    BY <1>2 DEF Gc
  <1>6. Leased(d)
    BY DestroyKeepsLeased DEF Sound, Leased, HeapInv
  <1> HIDE DEF d, P
  <1> QED BY <1>1, <1>3, <1>4, <1>5, <1>6, PendingSound

\* plant_lease_evict keeps a heap sound in each of its pressure bands.
LEMMA EvictSound ==
    ASSUME NoRequeue, NEW g, NEW k, Sound(g, k), NEW t \in Nat, NEW p \in Pressures,
           p \in Nat, NEW Q \in SUBSET NearExpiry(g, t)
    PROVE  Sound(Evict(g, p, t, Q), k)
  <1>0. g \in Heaps /\ HeapInv(g, k) /\ g.pending = g.deferred /\ g.objs \in SUBSET Obj
    BY DEF Sound, HeapInv, Heaps
  <1>1. CASE p < 80
    BY <1>1 DEF Evict
  <1>2. CASE p >= 90
    <2> DEFINE D == ZeroRefLeased(g) \cup g.pending
               d == Destroy(g, D)
    <2>1. Closed(g, k, D)
      BY <1>0, ZeroIsClosed DEF ZeroRefLeased, HeapInv
    <2>2. HeapInv(d, k)
      BY <1>0, <2>1, DestroyKeepsInv
    <2>3. Leased(d)
      BY <1>0, DestroyKeepsLeased DEF Sound, Leased
    <2>4. d.deferred = {}
      BY <1>0, DestroyFields
    <2>5. Evict(g, p, t, Q) = [d EXCEPT !.pending = {}]
      BY <1>2 DEF Evict
    <2> HIDE DEF d
    <2> QED BY <2>2, <2>3, <2>4, <2>5, PendingSound
  <1>3. CASE p >= 80 /\ p < 90
    <2> DEFINE D == Expired(g, t)
               d == Destroy(g, D)
    <2>0. D \subseteq g.objs \ g.deferred /\ \A o \in D : g.refs[o] = 0
      BY DEF Expired, ZeroRefLeased
    <2>1. Closed(g, k, D)
      BY <1>0, <2>0, ZeroIsClosed
    <2>2. HeapInv(d, k)
      BY <1>0, <2>1, DestroyKeepsInv
    <2>3. Leased(d)
      BY <1>0, DestroyKeepsLeased DEF Sound, Leased
    <2>4. d.deferred = g.deferred /\ d.pending = g.pending /\ d.objs = g.objs \ D
      <3>1. /\ d.deferred = g.deferred \ D /\ d.pending = g.pending
            /\ d.objs = g.objs \ D
        BY <1>0, DestroyFields
      <3> QED BY <2>0, <3>1
    <2>5. Q \subseteq d.objs /\ \A o \in Q : d.refs[o] = 0
      <3>1. Q \subseteq g.objs \ D /\ \A o \in Q : g.refs[o] = 0
        BY DEF NearExpiry, ZeroRefLeased
      <3> QED BY <1>0, <2>4, <3>1, DestroyFields
    <2>6. "queued" \notin CacheHits
      BY <1>3 DEF NoRequeue
    <2>7. Evict(g, p, t, Q) = [d EXCEPT !.pending = @ \cup Q, !.deferred = @ \cup Q]
      BY <1>3 DEF Evict
    <2> HIDE DEF d, D
    <2>8. Sound([d EXCEPT !.pending = @ \cup Q, !.deferred = @ \cup Q], k)
      BY <1>0, <2>2, <2>3, <2>4, <2>5, <2>6, DeferSound
    <2> QED BY <2>7, <2>8
  <1> QED BY <1>1, <1>2, <1>3

\* plant_arc_drop of an object whose count just reached zero.
LEMMA DropSound ==
    ASSUME NEW g, NEW k, HeapInv(g, k), g.pending = g.deferred, NEW t \in Nat,
           NEW o \in g.objs \ g.deferred, g.refs[o] = 0,
           \A x \in g.objs \ {o} : g.refs[x] = 0 => g.lease[x] > 0
    PROVE  Sound(Drop(g, o, t), k)
  <1>0. g \in Heaps /\ o \in Obj /\ g.lease[o] \in Nat
    BY DEF HeapInv, Heaps
  <1>1. CASE g.lease[o] > t
    <2>1. g.lease[o] > 0
      BY <1>0, <1>1
    <2> QED BY <1>1, <2>1 DEF Drop, Sound, Leased
  <1>2. CASE ~(g.lease[o] > t)
    <2> DEFINE d == Destroy(g, {o})
    <2>1. Closed(g, k, {o})
      BY ZeroIsClosed
    <2>2. HeapInv(d, k)
      BY <2>1, DestroyKeepsInv
    <2>3. Leased(d)
      BY <1>0, DestroyKeepsLeased
    <2>4. d.deferred = g.deferred \ {o} /\ d.pending = g.pending
      BY <1>0, DestroyFields
    <2>5. Drop(g, o, t) = d
      BY <1>2 DEF Drop
    <2> HIDE DEF d
    <2> QED BY <2>2, <2>3, <2>4, <2>5 DEF Sound
  <1> QED BY <1>1, <1>2

Recount(g, o, n) == [g EXCEPT !.refs[o] = n]
Rehold(k, o, j) == [k EXCEPT ![o] = j]

\* A retain or a release changes the count and the client's holds alike.
LEMMA RecountKeepsInv ==
    ASSUME NEW g, NEW k, HeapInv(g, k), NEW o \in g.objs \ g.deferred,
           NEW n \in Nat, NEW j \in Nat, n = j + g.inEdges[o],
           NEW f, f = Recount(g, o, n), NEW i, i = Rehold(k, o, j)
    PROVE  /\ HeapInv(f, i)
           /\ f.objs = g.objs /\ f.deferred = g.deferred /\ f.pending = g.pending
           /\ f.lease = g.lease /\ f.refs[o] = n
           /\ \A x \in g.objs \ {o} : f.refs[x] = g.refs[x]
  <1>1. /\ f \in Heaps /\ f.objs = g.objs /\ f.refs = [g.refs EXCEPT ![o] = n]
        /\ f.inEdges = g.inEdges /\ f.edges = g.edges /\ f.lease = g.lease
        /\ f.deferred = g.deferred /\ f.pending = g.pending
    BY DEF HeapInv, Heaps, Recount
  <1>2. /\ i \in [Obj -> Nat] /\ g.refs \in [Obj -> Nat] /\ g.objs \in SUBSET Obj
        /\ \A x \in Obj \ {o} : i[x] = k[x]
        /\ i[o] = j
    BY DEF HeapInv, Heaps, Rehold
  <1>3. \A x : LiveIn(f, x) = LiveIn(g, x)
    BY <1>1 DEF LiveIn
  <1>4. \A x \in Obj \ f.objs : i[x] = 0
    BY <1>1, <1>2 DEF HeapInv
  <1>5. \A x \in f.objs : f.refs[x] = i[x] + f.inEdges[x]
    BY <1>1, <1>2 DEF HeapInv
  <1>6. \A x \in f.deferred : f.refs[x] = 0
    BY <1>1, <1>2 DEF HeapInv
  <1>7. \A x \in f.objs : Cardinality(LiveIn(f, x)) <= f.inEdges[x]
    BY <1>1, <1>3 DEF HeapInv
  <1>8. HeapInv(f, i)
    BY <1>1, <1>2, <1>4, <1>5, <1>6, <1>7 DEF HeapInv
  <1> QED BY <1>1, <1>2, <1>8

\* A new object enters a sound heap with one reference and no links.
LEMMA InsertSound ==
    ASSUME NEW g, NEW k, Sound(g, k), NEW o \in Obj \ g.objs
    PROVE  Sound(Insert(g, o), [k EXCEPT ![o] = 1])
  <1> DEFINE f == Insert(g, o)
             i == [k EXCEPT ![o] = 1]
  <1>0. HeapInv(g, k) /\ g \in Heaps /\ k \in [Obj -> Nat]
    BY DEF Sound, HeapInv
  <1>1. /\ f \in Heaps /\ f.objs = g.objs \cup {o}
        /\ f.refs = [g.refs EXCEPT ![o] = 1]
        /\ f.inEdges = [g.inEdges EXCEPT ![o] = 0] /\ f.edges = g.edges
        /\ f.lease = [g.lease EXCEPT ![o] = 0]
        /\ f.deferred = g.deferred \ {o} /\ f.pending = g.pending
    BY <1>0 DEF Insert, Heaps
  <1>2. /\ i \in [Obj -> Nat] /\ i[o] = 1 /\ \A x \in Obj \ {o} : i[x] = k[x]
        /\ g.refs \in [Obj -> Nat] /\ g.inEdges \in [Obj -> Nat]
        /\ g.lease \in [Obj -> Nat] /\ g.objs \in SUBSET Obj
    BY <1>0 DEF Heaps
  <1>3. f.deferred = g.deferred
    BY <1>1 DEF Sound, HeapInv
  <1> HIDE DEF f, i
  <1>4. \A x : LiveIn(f, x) = LiveIn(g, x)
    BY <1>1, <1>3 DEF LiveIn
  <1>5. LiveIn(g, o) = {}
    BY <1>0 DEF LiveIn, HeapInv
  <1>6. \A x \in f.objs : Cardinality(LiveIn(f, x)) <= f.inEdges[x]
    <2>1. Cardinality(LiveIn(f, o)) <= f.inEdges[o]
      <3>1. LiveIn(f, o) = {} /\ Cardinality({}) = 0
        BY <1>4, <1>5, FS_EmptySet
      <3>2. f.inEdges[o] = 0
        BY <1>1, <1>2
      <3> QED BY <3>1, <3>2
    <2>2. \A x \in g.objs : Cardinality(LiveIn(f, x)) <= f.inEdges[x]
      BY <1>0, <1>1, <1>2, <1>4 DEF HeapInv
    <2> QED BY <1>1, <2>1, <2>2
  <1>7. \A x \in f.objs : f.refs[x] = i[x] + f.inEdges[x]
    BY <1>0, <1>1, <1>2 DEF HeapInv
  <1>8. \A x \in Obj \ f.objs : i[x] = 0
    BY <1>0, <1>1, <1>2 DEF HeapInv
  <1>9. f.deferred \subseteq f.objs /\ \A x \in f.deferred : f.refs[x] = 0
    <2>1. g.deferred \subseteq g.objs /\ o \notin g.deferred
          /\ \A x \in g.deferred : x \in Obj /\ g.refs[x] = 0
      BY <1>0, <1>2 DEF HeapInv
    <2> QED BY <1>1, <1>2, <1>3, <2>1
  <1>10. \A e \in f.edges : e.p \in f.objs /\ (e.p \notin f.deferred => e.c \in f.objs)
    BY <1>0, <1>1, <1>3 DEF HeapInv
  <1>11. Leased(f)
    BY <1>1, <1>2 DEF Sound, Leased
  <1>12. HeapInv(f, i)
    BY <1>0, <1>1, <1>2, <1>3, <1>6, <1>7, <1>8, <1>9, <1>10 DEF HeapInv
  <1>13. Sound(f, i)
    BY <1>1, <1>3, <1>11, <1>12 DEF Sound
  <1> QED BY <1>13 DEF f, i

\* plant_arc_link takes the reference its edge accounts for.
LEMMA AddEdgeSound ==
    ASSUME NEW g, NEW k, Sound(g, k), NEW e \in Edges, e \notin g.edges,
           e.p \in g.objs \ g.deferred, e.c \in g.objs \ g.deferred
    PROVE  Sound(AddEdge(g, e), k)
  <1> DEFINE f == AddEdge(g, e)
  <1>0. /\ HeapInv(g, k) /\ g \in Heaps /\ k \in [Obj -> Nat] /\ e.c \in Obj
        /\ g.refs \in [Obj -> Nat] /\ g.inEdges \in [Obj -> Nat] /\ g.objs \in SUBSET Obj
    BY DEF Sound, HeapInv, Edges, Heaps
  <1>1. /\ f \in Heaps /\ f.objs = g.objs
        /\ f.refs = [g.refs EXCEPT ![e.c] = @ + 1]
        /\ f.inEdges = [g.inEdges EXCEPT ![e.c] = @ + 1]
        /\ f.edges = g.edges \cup {e}
        /\ f.lease = g.lease /\ f.deferred = g.deferred /\ f.pending = g.pending
    <2>1. [g.refs EXCEPT ![e.c] = @ + 1] \in [Obj -> Nat]
          /\ [g.inEdges EXCEPT ![e.c] = @ + 1] \in [Obj -> Nat]
      BY <1>0
    <2>2. g.edges \cup {e} \in SUBSET Edges
      BY <1>0 DEF Heaps
    <2> QED BY <1>0, <2>1, <2>2 DEF AddEdge, Heaps
  <1> HIDE DEF f
  <1>2. IsFiniteSet(f.edges)
    <2>1. IsFiniteSet(g.edges)
      BY <1>0 DEF HeapInv
    <2>2. IsFiniteSet(g.edges \cup {e})
      BY <2>1, FS_AddElement
    <2> QED BY <1>1, <2>2
  <1>3. \A x \in g.objs : IsFiniteSet(LiveIn(g, x)) /\ Cardinality(LiveIn(g, x)) \in Nat
    BY <1>0, FS_Subset, FS_CardinalityType DEF HeapInv, LiveIn
  <1>4. ASSUME NEW x \in f.objs PROVE Cardinality(LiveIn(f, x)) <= f.inEdges[x]
    <2>0. Cardinality(LiveIn(g, x)) <= g.inEdges[x] /\ g.inEdges[x] \in Nat
      BY <1>0, <1>1, <1>4 DEF HeapInv
    <2>1. CASE x = e.c
      <3>1. LiveIn(f, x) = LiveIn(g, x) \cup {e}
        BY <1>1, <2>1 DEF LiveIn
      <3>2. Cardinality(LiveIn(f, x)) = Cardinality(LiveIn(g, x)) + 1
        BY <1>1, <1>3, <1>4, <3>1, FS_AddElement DEF LiveIn
      <3>3. f.inEdges[x] = g.inEdges[x] + 1
        BY <1>0, <1>1, <2>1
      <3> QED BY <1>1, <1>3, <1>4, <2>0, <3>2, <3>3
    <2>2. CASE x # e.c
      <3>1. LiveIn(f, x) = LiveIn(g, x)
        BY <1>1, <2>2 DEF LiveIn
      <3>2. f.inEdges[x] = g.inEdges[x]
        BY <1>0, <1>1, <1>4, <2>2
      <3> QED BY <2>0, <3>1, <3>2
    <2> QED BY <2>1, <2>2
  <1>5. \A x \in f.objs : f.refs[x] = k[x] + f.inEdges[x]
    BY <1>0, <1>1 DEF HeapInv
  <1>6. \A x \in f.deferred : f.refs[x] = 0
    BY <1>0, <1>1 DEF HeapInv
  <1>7. \A d \in f.edges : d.p \in f.objs /\ (d.p \notin f.deferred => d.c \in f.objs)
    BY <1>0, <1>1 DEF HeapInv
  <1>8. HeapInv(f, k)
    BY <1>0, <1>1, <1>2, <1>4, <1>5, <1>6, <1>7 DEF HeapInv
  <1>9. Leased(f)
    BY <1>0, <1>1 DEF Sound, Leased
  <1>10. Sound(f, k)
    BY <1>1, <1>8, <1>9 DEF Sound
  <1> QED BY <1>10 DEF f

\* plant_arc_unlink gives back the reference of the edge it removes.
LEMMA RemoveEdgeKeepsInv ==
    ASSUME NEW g, NEW k, HeapInv(g, k), NEW e \in g.edges, e.p \notin g.deferred
    PROVE  LET f == RemoveEdge(g, e)
           IN  /\ HeapInv(f, k)
               /\ e.c \in g.objs \ g.deferred /\ g.refs[e.c] \in Nat \ {0}
               /\ f.objs = g.objs /\ f.deferred = g.deferred /\ f.pending = g.pending
               /\ f.lease = g.lease /\ f.refs = [g.refs EXCEPT ![e.c] = @ - 1]
  <1> DEFINE f == RemoveEdge(g, e)
  <1>0. /\ g \in Heaps /\ k \in [Obj -> Nat] /\ e.c \in Obj
        /\ g.refs \in [Obj -> Nat] /\ g.inEdges \in [Obj -> Nat] /\ g.objs \in SUBSET Obj
    BY DEF HeapInv, Edges, Heaps
  <1>1. e.c \in g.objs /\ e \in LiveIn(g, e.c)
    BY DEF HeapInv, LiveIn
  <1>2. \A x \in g.objs : /\ IsFiniteSet(LiveIn(g, x)) /\ Cardinality(LiveIn(g, x)) \in Nat
                          /\ Cardinality(LiveIn(g, x)) <= g.inEdges[x]
    BY FS_Subset, FS_CardinalityType DEF HeapInv, LiveIn
  <1>3. Cardinality(LiveIn(g, e.c)) # 0
    BY <1>1, <1>2, FS_EmptySet
  <1>4. g.inEdges[e.c] \in Nat \ {0} /\ g.refs[e.c] \in Nat \ {0}
    BY <1>0, <1>1, <1>2, <1>3 DEF HeapInv
  <1>5. e.c \notin g.deferred
    BY <1>4 DEF HeapInv
  <1>6. /\ f.objs = g.objs
        /\ f.refs = [g.refs EXCEPT ![e.c] = @ - 1]
        /\ f.inEdges = [g.inEdges EXCEPT ![e.c] = @ - 1]
        /\ f.edges = g.edges \ {e}
        /\ f.lease = g.lease /\ f.deferred = g.deferred /\ f.pending = g.pending
    BY <1>0 DEF RemoveEdge, Heaps
  <1>7. f \in Heaps
    <2>1. [g.refs EXCEPT ![e.c] = @ - 1] \in [Obj -> Nat]
          /\ [g.inEdges EXCEPT ![e.c] = @ - 1] \in [Obj -> Nat]
      BY <1>0, <1>4
    <2>2. g.edges \ {e} \in SUBSET Edges
      BY <1>0 DEF Heaps
    <2> QED BY <1>0, <2>1, <2>2 DEF RemoveEdge, Heaps
  <1> HIDE DEF f
  <1>8. IsFiniteSet(f.edges)
    BY <1>6, FS_Subset DEF HeapInv
  <1>9. ASSUME NEW x \in f.objs PROVE Cardinality(LiveIn(f, x)) <= f.inEdges[x]
    <2>1. CASE x = e.c
      <3>1. LiveIn(f, x) = LiveIn(g, x) \ {e}
        BY <1>6, <2>1 DEF LiveIn
      <3>2. Cardinality(LiveIn(f, x)) = Cardinality(LiveIn(g, x)) - 1
        BY <1>1, <1>2, <2>1, <3>1, FS_RemoveElement
      <3>3. f.inEdges[x] = g.inEdges[x] - 1
        BY <1>0, <1>6, <2>1
      <3>4. Cardinality(LiveIn(g, x)) \in Nat /\ g.inEdges[x] \in Nat
            /\ Cardinality(LiveIn(g, x)) <= g.inEdges[x]
        BY <1>0, <1>1, <1>2, <2>1
      <3> QED BY <3>2, <3>3, <3>4
    <2>2. CASE x # e.c
      <3>1. LiveIn(f, x) = LiveIn(g, x)
        BY <1>6, <2>2 DEF LiveIn
      <3>2. f.inEdges[x] = g.inEdges[x]
        BY <1>0, <1>6, <1>9, <2>2
      <3> QED BY <1>2, <1>6, <1>9, <3>1, <3>2
    <2> QED BY <2>1, <2>2
  <1>10. \A x \in f.objs : f.refs[x] = k[x] + f.inEdges[x]
    BY <1>0, <1>4, <1>6 DEF HeapInv
  <1>11. \A x \in f.deferred : f.refs[x] = 0
    BY <1>0, <1>5, <1>6 DEF HeapInv
  <1>12. \A d \in f.edges : d.p \in f.objs /\ (d.p \notin f.deferred => d.c \in f.objs)
    BY <1>6 DEF HeapInv
  <1>13. HeapInv(f, k)
    BY <1>0, <1>6, <1>7, <1>8, <1>9, <1>10, <1>11, <1>12 DEF HeapInv
  <1> QED BY <1>1, <1>4, <1>5, <1>6, <1>13 DEF f

----------------------------------------------------------------------------
(* The inductive invariant *)

IInv == TypeOK /\ Sound(h, hold)

\* The empty heap satisfies the inductive invariant.
LEMMA InitIInv == Init => IInv
  <1> SUFFICES ASSUME Init PROVE IInv
    OBVIOUS
  <1> USE ArcAssumption
  <1>1. TypeOK
    BY DEF Init, TypeOK, Heaps
  <1>2. IsFiniteSet(h.edges)
    BY FS_EmptySet DEF Init
  <1>3. h.objs = {} /\ h.edges = {} /\ h.deferred = {} /\ h.pending = {}
        /\ hold = [o \in Obj |-> 0]
    BY DEF Init
  <1>4. HeapInv(h, hold)
    BY <1>1, <1>2, <1>3 DEF HeapInv, TypeOK
  <1> QED BY <1>1, <1>3, <1>4 DEF IInv, Sound, Leased

\* What a client can name or finds again through its lease is allocated and
\* not queued.
LEMMA UsableSound ==
    ASSUME IInv
    PROVE  /\ Usable \subseteq h.objs \ h.deferred
           /\ \A o \in Obj : CacheHit(o) => o \in h.objs \ h.deferred
  <1>1. HeapInv(h, hold)
    BY DEF IInv, Sound
  <1>2. Reach(h.edges, Held) \subseteq h.objs \ h.deferred
    BY <1>1, ReachLive DEF Held
  <1> QED BY <1>1, <1>2 DEF Usable, Kept, CacheHit, HeapInv

\* Every operation preserves the inductive invariant.
LEMMA StepIInv == NoRequeue /\ IInv /\ [Next]_vars => IInv'
  <1> SUFFICES ASSUME NoRequeue, IInv, [Next]_vars PROVE IInv'
    OBVIOUS
  <1> USE ArcAssumption
  <1>0. /\ h \in Heaps /\ allocs \in 0 .. (GcInterval - 1) /\ now \in 0 .. MaxTime
        /\ hold \in [Obj -> 0 .. MaxHolds] /\ Sound(h, hold) /\ HeapInv(h, hold)
        /\ now \in Nat /\ h.pending = h.deferred /\ h.objs \in SUBSET Obj
        /\ h.refs \in [Obj -> Nat] /\ h.inEdges \in [Obj -> Nat]
    BY DEF IInv, TypeOK, Sound, Heaps
  <1>r. \A o \in h.objs : h.refs[o] = hold[o] + h.inEdges[o]
    BY <1>0 DEF HeapInv
  <1>1. ASSUME NEW o \in Obj, Alloc(o) PROVE IInv'
    <2> DEFINE a == Insert(h, o)
               b == IF allocs' = 0 THEN Gc(a, now) ELSE a
               i == [hold EXCEPT ![o] = 1]
    <2>1. Sound(a, i)
      BY <1>0, <1>1, InsertSound DEF Alloc
    <2>2. Sound(b, i)
      BY <1>0, <2>1, GcSound
    <2>3. PICK p \in Pressures, Q \in QueueChoices(b, now) : h' = Evict(b, p, now, Q)
      BY <1>1 DEF Alloc
    <2>4. Q \in SUBSET NearExpiry(b, now) /\ p \in Nat
      BY DEF QueueChoices
    <2> HIDE DEF b, i
    <2>5. Sound(h', i)
      BY <1>0, <2>2, <2>3, <2>4, EvictSound
    <2>6. hold' = i /\ allocs' = (allocs + 1) % GcInterval /\ now' = now
      BY <1>1 DEF Alloc, i
    <2>7. h' \in Heaps
      BY <2>5 DEF Sound, HeapInv
    <2>8. allocs' \in 0 .. (GcInterval - 1)
      BY <1>0, <2>6
    <2>9. hold' \in [Obj -> 0 .. MaxHolds]
      BY <1>0, <2>6 DEF i
    <2> QED BY <1>0, <2>5, <2>6, <2>7, <2>8, <2>9 DEF IInv, TypeOK
  <1>2. ASSUME NEW o \in Obj, Retain(o) PROVE IInv'
    <2>1. o \in h.objs \ h.deferred
      BY <1>2, UsableSound DEF Retain
    <2> DEFINE n == h.refs[o] + 1
               j == hold[o] + 1
               f == Recount(h, o, n)
    <2>2. n \in Nat /\ j \in Nat /\ n = j + h.inEdges[o] /\ n > 0
      BY <1>0, <1>r, <2>1
    <2> DEFINE i == Rehold(hold, o, j)
    <2>f. f = Recount(h, o, n) /\ i = Rehold(hold, o, j)
      OBVIOUS
    <2> HIDE DEF n, j, f, i
    <2>3. HeapInv(f, i) /\ f.objs = h.objs /\ f.deferred = h.deferred
          /\ f.pending = h.pending /\ f.lease = h.lease /\ f.refs[o] = n
          /\ \A x \in h.objs \ {o} : f.refs[x] = h.refs[x]
      <3>1. HeapInv(h, hold) /\ o \in h.objs \ h.deferred /\ n \in Nat /\ j \in Nat
            /\ n = j + h.inEdges[o] /\ f = Recount(h, o, n) /\ i = Rehold(hold, o, j)
        BY <1>0, <2>f, <2>1, <2>2
      <3> QED BY <3>1, RecountKeepsInv
    <2>4. h' = f /\ hold' = i /\ UNCHANGED <<allocs, now>>
      BY <1>2 DEF Retain, Recount, Rehold, n, j, f, i
    <2>5. Leased(f)
      BY <1>0, <2>2, <2>3 DEF Sound, Leased
    <2>6. Sound(h', hold')
      BY <1>0, <2>3, <2>4, <2>5 DEF Sound
    <2>7. hold' \in [Obj -> 0 .. MaxHolds]
      BY <1>0, <1>2, <2>1 DEF Retain
    <2> QED BY <1>0, <2>4, <2>6, <2>7 DEF IInv, TypeOK, Sound, HeapInv
  <1>3. ASSUME NEW o \in Obj, Release(o) PROVE IInv'
    <2>1. o \in h.objs \ h.deferred
      BY <1>0, <1>3 DEF Release, HeapInv
    <2> DEFINE n == h.refs[o] - 1
               j == hold[o] - 1
               f == Recount(h, o, n)
    <2>2. n \in Nat /\ j \in Nat /\ n = j + h.inEdges[o]
      BY <1>0, <1>r, <1>3, <2>1 DEF Release
    <2>n. n = h.refs[o] - 1 /\ j = hold[o] - 1
      OBVIOUS
    <2> DEFINE i == Rehold(hold, o, j)
    <2>f. f = Recount(h, o, n) /\ i = Rehold(hold, o, j)
      OBVIOUS
    <2> HIDE DEF n, j, f, i
    <2>3. HeapInv(f, i) /\ f.objs = h.objs /\ f.deferred = h.deferred
          /\ f.pending = h.pending /\ f.lease = h.lease /\ f.refs[o] = n
          /\ \A x \in h.objs \ {o} : f.refs[x] = h.refs[x]
      <3>1. HeapInv(h, hold) /\ o \in h.objs \ h.deferred /\ n \in Nat /\ j \in Nat
            /\ n = j + h.inEdges[o] /\ f = Recount(h, o, n) /\ i = Rehold(hold, o, j)
        BY <1>0, <2>f, <2>1, <2>2
      <3> QED BY <3>1, RecountKeepsInv
    <2>4. h' = (IF h.refs[o] > 1 THEN f ELSE Drop(f, o, now))
          /\ hold' = i /\ UNCHANGED <<allocs, now>>
      BY <1>3, <2>n, <2>f DEF Release, Recount, Rehold
    <2>5. \A x \in f.objs \ {o} : f.refs[x] = 0 => f.lease[x] > 0
      BY <1>0, <2>3 DEF Sound, Leased
    <2>6. Sound(h', hold')
      <3>1. CASE h.refs[o] > 1
        <4>1. f.refs[o] > 0
          BY <1>0, <2>n, <2>1, <2>3, <3>1
        <4> QED BY <1>0, <2>3, <2>4, <2>5, <3>1, <4>1 DEF Sound, Leased
      <3>2. CASE ~(h.refs[o] > 1)
        <4>1. f.refs[o] = 0
          BY <1>0, <2>n, <2>1, <2>2, <2>3, <3>2
        <4>2. Sound(Drop(f, o, now), i)
          BY <1>0, <2>1, <2>3, <2>5, <4>1, DropSound
        <4> QED BY <2>4, <3>2, <4>2
      <3> QED BY <3>1, <3>2
    <2>7. hold' \in [Obj -> 0 .. MaxHolds]
      BY <1>0, <1>3, <2>n, <2>f, <2>2, <2>4 DEF Rehold
    <2> QED BY <1>0, <2>4, <2>6, <2>7 DEF IInv, TypeOK, Sound, HeapInv
  <1>4. ASSUME NEW p \in Obj, NEW q \in Obj, Link(p, q) PROVE IInv'
    <2>1. PICK k \in Edge : /\ \A e \in h.edges : e.cell # k
                            /\ h' = AddEdge(h, [cell |-> k, p |-> p, c |-> q])
      BY <1>4 DEF Link
    <2> DEFINE e == [cell |-> k, p |-> p, c |-> q]
    <2>2. p \in h.objs \ h.deferred /\ q \in h.objs \ h.deferred
      BY <1>4, UsableSound DEF Link
    <2>3. e \in Edges /\ e \notin h.edges
      BY <2>1 DEF Edges
    <2>4. Sound(h', hold)
      BY <1>0, <2>1, <2>2, <2>3, AddEdgeSound
    <2> QED BY <1>0, <1>4, <2>4 DEF Link, IInv, TypeOK, Sound, HeapInv
  <1>5. ASSUME NEW p \in Obj, NEW q \in Obj, Unlink(p, q) PROVE IInv'
    <2>1. PICK e \in h.edges :
             /\ e.p = p /\ e.c = q
             /\ h' = IF h.refs[q] > 1 THEN RemoveEdge(h, e) ELSE Drop(RemoveEdge(h, e), q, now)
      BY <1>5 DEF Unlink
    <2> DEFINE f == RemoveEdge(h, e)
    <2>2. p \in h.objs \ h.deferred
      BY <1>5, UsableSound DEF Unlink
    <2>3. HeapInv(f, hold) /\ q \in h.objs \ h.deferred /\ h.refs[q] \in Nat \ {0}
          /\ f.objs = h.objs /\ f.deferred = h.deferred /\ f.pending = h.pending
          /\ f.lease = h.lease /\ f.refs = [h.refs EXCEPT ![q] = @ - 1]
      BY <1>0, <2>1, <2>2, RemoveEdgeKeepsInv
    <2>4. h' = IF h.refs[q] > 1 THEN f ELSE Drop(f, q, now)
      BY <2>1
    <2> HIDE DEF f
    <2>5. \A x \in f.objs \ {q} : f.refs[x] = 0 => f.lease[x] > 0
      BY <1>0, <2>3 DEF Sound, Leased
    <2>6. Sound(h', hold)
      <3>1. CASE h.refs[q] > 1
        <4>1. f.refs[q] > 0
          BY <1>0, <2>3, <3>1
        <4> QED BY <1>0, <2>3, <2>4, <2>5, <3>1, <4>1 DEF Sound, Leased
      <3>2. CASE ~(h.refs[q] > 1)
        <4>1. f.refs[q] = 0
          BY <1>0, <2>3, <3>2
        <4>2. Sound(Drop(f, q, now), hold)
          BY <1>0, <2>3, <2>5, <4>1, DropSound
        <4> QED BY <2>4, <3>2, <4>2
      <3> QED BY <3>1, <3>2
    <2> QED BY <1>0, <1>5, <2>6 DEF Unlink, IInv, TypeOK, Sound, HeapInv
  <1>6. ASSUME NEW o \in Obj, NEW ms \in LeaseMs, Lease(o, ms) PROVE IInv'
    <2>1. /\ h' = [h EXCEPT !.lease[o] = now + ms] /\ now + ms \in Nat /\ now + ms > 0
          /\ UNCHANGED <<allocs, now, hold>>
      BY <1>0, <1>6 DEF Lease
    <2>2. /\ h' \in Heaps /\ h'.objs = h.objs /\ h'.refs = h.refs /\ h'.edges = h.edges
          /\ h'.inEdges = h.inEdges /\ h'.deferred = h.deferred /\ h'.pending = h.pending
          /\ h'.lease = [h.lease EXCEPT ![o] = now + ms]
      BY <1>0, <2>1 DEF Heaps
    <2>3. \A x : LiveIn(h', x) = LiveIn(h, x)
      BY <2>2 DEF LiveIn
    <2>4. HeapInv(h', hold)
      BY <1>0, <2>2, <2>3 DEF HeapInv
    <2>5. Leased(h')
      <3>1. h.lease \in [Obj -> Nat]
        BY <1>0 DEF Heaps
      <3> QED BY <1>0, <2>1, <2>2, <3>1 DEF Sound, Leased
    <2> QED BY <1>0, <2>1, <2>2, <2>4, <2>5 DEF IInv, TypeOK, Sound
  <1>7. ASSUME GcCycle PROVE IInv'
    <2>1. Sound(h', hold)
      BY <1>0, <1>7, GcSound DEF GcCycle
    <2> QED BY <1>0, <1>7, <2>1 DEF GcCycle, IInv, TypeOK, Sound, HeapInv
  <1>8. ASSUME LeaseEvict PROVE IInv'
    <2>1. PICK p \in Pressures, Q \in QueueChoices(h, now) : h' = Evict(h, p, now, Q)
      BY <1>8 DEF LeaseEvict
    <2>2. Q \in SUBSET NearExpiry(h, now) /\ p \in Nat
      BY DEF QueueChoices
    <2>3. Sound(h', hold)
      BY <1>0, <2>1, <2>2, EvictSound
    <2> QED BY <1>0, <1>8, <2>3 DEF LeaseEvict, IInv, TypeOK, Sound, HeapInv
  <1>9. ASSUME Tick PROVE IInv'
    BY <1>0, <1>9 DEF Tick, IInv, TypeOK
  <1>10. ASSUME UNCHANGED vars PROVE IInv'
    BY <1>0, <1>10 DEF vars, IInv, TypeOK
  <1> QED BY <1>1, <1>2, <1>3, <1>4, <1>5, <1>6, <1>7, <1>8, <1>9, <1>10 DEF Next

----------------------------------------------------------------------------
(* Theorems *)

\* The inductive invariant holds in every state, as long as no client revives
\* an entry that the 80-89% pressure band may have queued.
THEOREM Invariance == NoRequeue /\ Spec => []IInv
  <1> SUFFICES ASSUME NoRequeue PROVE Spec => []IInv
    OBVIOUS
  <1>1. Init => IInv
    BY InitIInv
  <1>2. IInv /\ [Next]_vars => IInv'
    BY StepIInv
  <1> QED BY <1>1, <1>2, PTL DEF Spec

\* The heap record and the counters keep their types.
THEOREM TypeCorrect == NoRequeue /\ Spec => []TypeOK
  <1>1. IInv => TypeOK
    BY DEF IInv
  <1> QED BY <1>1, Invariance, PTL

\* Reference counts never fall below what clients and live edges account for.
THEOREM CountsAccount == NoRequeue /\ Spec => []Accounting
  <1>1. IInv => Accounting
    BY DEF IInv, Sound, HeapInv, Accounting
  <1> QED BY <1>1, Invariance, PTL

\* No release, unlink, collection or eviction frees an object that a client
\* holds or can still reach.
THEOREM UsableNeverFreed == NoRequeue /\ Spec => []UsableIsLive
  <1>1. IInv => UsableIsLive
    BY UsableSound DEF UsableIsLive
  <1> QED BY <1>1, Invariance, PTL

\* The deferred queue never names a freed object, so draining it frees nothing
\* twice.
THEOREM QueueNeverDangles == NoRequeue /\ Spec => []QueueIsLive
  <1>1. IInv => QueueIsLive
    BY DEF IInv, Sound, HeapInv, QueueIsLive
  <1> QED BY <1>1, Invariance, PTL

\* The roots of a collection are the objects clients hold: counts left high by
\* destroyed parents do not make garbage look used.
LEMMA RootsAreHeld == ASSUME IInv PROVE Roots(h) = Held
  <1>1. /\ \A o \in h.objs : h.refs[o] = hold[o] + h.inEdges[o]
        /\ \A o \in Obj \ h.objs : hold[o] = 0
        /\ hold \in [Obj -> Nat] /\ h.inEdges \in [Obj -> Nat] /\ h.objs \in SUBSET Obj
    BY DEF IInv, Sound, HeapInv, Heaps
  <1>2. \A o \in h.objs : h.refs[o] - h.inEdges[o] = hold[o]
    BY <1>1
  <1>3. \A o \in Obj : o \in Roots(h) <=> o \in h.objs /\ hold[o] > 0
    BY <1>1, <1>2 DEF Roots
  <1>4. Roots(h) \subseteq Obj
    BY <1>1 DEF Roots
  <1> QED BY <1>1, <1>3, <1>4 DEF Held

\* A collection leaves nothing but what clients can reach and zero-ref objects
\* whose lease has not expired.
THEOREM GcLeavesNoGarbage == NoRequeue /\ Spec => GcCollectsGarbage
  <1>1. IInv /\ [Next]_vars
          => [GcCycle => \A o \in h'.objs \ Usable : h'.refs[o] = 0 /\ h'.lease[o] > now]_vars
    <2> SUFFICES ASSUME IInv, GcCycle, NEW o \in h'.objs, o \notin Usable
                 PROVE  h'.refs[o] = 0 /\ h'.lease[o] > now
      OBVIOUS
    <2> DEFINE D == GcSweep(h, now) \cup GcDrain(h, now)
               d == Destroy(h, D)
               P == h.pending \ GcDrain(h, now)
    <2>1. h \in Heaps /\ h.pending = h.deferred /\ HeapInv(h, hold)
      BY DEF IInv, Sound, HeapInv
    <2>2. h' = [d EXCEPT !.pending = P] /\ d.pending = h.pending
      BY <2>1, DestroyFields DEF GcCycle, Gc
    <2>3. /\ d \in Heaps /\ d.objs = h.objs \ D
          /\ \A x \in d.objs : d.refs[x] = h.refs[x] /\ d.lease[x] = h.lease[x]
      <3>1. d \in Heaps /\ d.objs = h.objs \ D
        BY <2>1, DestroyFields
      <3>2. \A x \in Obj \ D : d.refs[x] = h.refs[x] /\ d.lease[x] = h.lease[x]
        BY <2>1, DestroyFields
      <3>3. h.objs \subseteq Obj
        BY <2>1 DEF Heaps
      <3> HIDE DEF d, D
      <3> QED BY <3>1, <3>2, <3>3
    <2>4. /\ o \in h.objs \ D
          /\ h'.refs[o] = h.refs[o] /\ h'.lease[o] = h.lease[o]
      <3> HIDE DEF d, D, P
      <3> QED BY <2>2, <2>3 DEF Heaps
    <2>5. o \in h.deferred
      <3> SUFFICES ASSUME o \notin h.deferred PROVE FALSE
        OBVIOUS
      <3>1. o \in Reach(h.edges, Roots(h))
        BY <2>4 DEF GcSweep
      <3> QED BY <3>1, RootsAreHeld DEF Usable
    <2>6. h.refs[o] = 0 /\ ~(h.lease[o] <= now)
      BY <2>1, <2>4, <2>5 DEF HeapInv, GcDrain
    <2>7. h.lease[o] \in Nat /\ now \in Nat
      BY <2>1, <2>4, ArcAssumption DEF Heaps, IInv, TypeOK
    <2> QED BY <2>4, <2>6, <2>7
  <1> QED BY <1>1, Invariance, PTL DEF GcCollectsGarbage, Spec
----------------------------------------------------------------------------
(* DistHeap *)

\* Programs that lease only what nothing leads to.
Unshared(g) == \A o \in g.objs : g.lease[o] > 0 => g.inEdges[o] = 0

DInv == IInv /\ Unshared(h)

\* f is g less some objects; the others' records are the same.
Thinned(f, g) ==
    /\ f.objs \subseteq g.objs
    /\ \A o \in f.objs : /\ f.refs[o] = g.refs[o] /\ f.inEdges[o] = g.inEdges[o]
                         /\ f.lease[o] = g.lease[o]

LEMMA DestroyThins ==
    ASSUME NEW g \in Heaps, NEW D
    PROVE  Thinned(Destroy(g, D), g)
  <1>1. g.objs \in SUBSET Obj
    BY DEF Heaps
  <1> QED BY <1>1, DestroyFields DEF Thinned

LEMMA GcThins ==
    ASSUME NEW g \in Heaps, NEW t
    PROVE  Thinned(Gc(g, t), g)
  <1> DEFINE d == Destroy(g, GcSweep(g, t) \cup GcDrain(g, t))
  <1>1. d \in Heaps /\ Thinned(d, g)
    BY DestroyFields, DestroyThins
  <1>2. Gc(g, t) = [d EXCEPT !.pending = @ \ GcDrain(g, t)]
    BY DEF Gc
  <1> HIDE DEF d
  <1> QED BY <1>1, <1>2 DEF Thinned, Heaps

LEMMA EvictThins ==
    ASSUME NEW g \in Heaps, NEW p, NEW t, NEW Q
    PROVE  Thinned(Evict(g, p, t, Q), g)
  <1>1. CASE p < 80
    BY <1>1 DEF Evict, Thinned
  <1>2. CASE ~(p < 80) /\ p >= 90
    <2> DEFINE d == Destroy(g, ZeroRefLeased(g) \cup g.pending)
    <2>1. d \in Heaps /\ Thinned(d, g)
      BY DestroyFields, DestroyThins
    <2>2. Evict(g, p, t, Q) = [d EXCEPT !.pending = {}]
      BY <1>2 DEF Evict
    <2> HIDE DEF d
    <2> QED BY <2>1, <2>2 DEF Thinned, Heaps
  <1>3. CASE ~(p < 80) /\ ~(p >= 90)
    <2> DEFINE d == Destroy(g, Expired(g, t))
    <2>1. d \in Heaps /\ Thinned(d, g)
      BY DestroyFields, DestroyThins
    <2>2. Evict(g, p, t, Q) = [d EXCEPT !.pending = @ \cup Q, !.deferred = @ \cup Q]
      BY <1>3 DEF Evict
    <2> HIDE DEF d
    <2> QED BY <2>1, <2>2 DEF Thinned, Heaps
  <1> QED BY <1>1, <1>2, <1>3

\* plant_dist_evict: an object whose lease ran out goes whoever holds it, and
\* no link that will be followed again leads to it.
LEMMA DistEvictSound ==
    ASSUME NEW g, NEW k, Sound(g, k), Unshared(g), NEW D, NEW t \in Nat,
           \A o \in D : /\ o \in g.objs \ g.deferred
                        /\ g.refs[o] <= 0 \/ (g.lease[o] > 0 /\ g.lease[o] <= t),
           NEW i \in [Obj -> Nat],
           \A o \in D : g.lease[o] > 0 /\ g.lease[o] <= t => i[o] = 0,
           \A o \in Obj : i[o] = k[o] \/ (o \in D /\ i[o] = 0)
    PROVE  Sound(Destroy(g, D), i) /\ Unshared(Destroy(g, D))
  <1> DEFINE d == Destroy(g, D)
  <1>0. /\ HeapInv(g, k) /\ g \in Heaps /\ D \subseteq g.objs /\ g.objs \in SUBSET Obj
        /\ g.refs \in [Obj -> Nat] /\ g.inEdges \in [Obj -> Nat]
        /\ g.pending = g.deferred /\ Leased(g)
    BY DEF Sound, HeapInv, Heaps
  <1>1. ASSUME NEW o \in D
        PROVE  i[o] = 0 /\ \A e \in g.edges : e.c = o => e.p \in g.deferred
    <2>1. CASE g.refs[o] = 0
      <3>1. k[o] = 0 /\ \A e \in g.edges : e.c = o => e.p \in g.deferred
        BY <1>0, <2>1, ZeroIsFree
      <3> QED BY <1>0, <3>1
    <2>2. CASE g.refs[o] # 0
      <3>1. g.lease[o] > 0 /\ g.lease[o] <= t
        BY <1>0, <2>2
      <3>2. g.inEdges[o] = 0
        BY <1>0, <3>1 DEF Unshared
      <3>3. IsFiniteSet(LiveIn(g, o)) /\ Cardinality(LiveIn(g, o)) = 0
        <4>1. IsFiniteSet(LiveIn(g, o)) /\ Cardinality(LiveIn(g, o)) <= g.inEdges[o]
          BY <1>0, FS_Subset DEF HeapInv, LiveIn
        <4> QED BY <3>2, <4>1, FS_CardinalityType
      <3>4. LiveIn(g, o) = {}
        BY <3>3, FS_EmptySet
      <3> QED BY <3>1, <3>4 DEF LiveIn
    <2> QED BY <2>1, <2>2
  <1>2. HeapInv(d, i)
    BY <1>0, <1>1, DestroyUnheld
  <1>3. Leased(d)
    BY <1>0, DestroyKeepsLeased DEF Leased
  <1>4. d.deferred = g.deferred \ D /\ d.pending = g.pending
    BY <1>0, DestroyFields
  <1>5. Thinned(d, g)
    BY <1>0, DestroyThins
  <1> HIDE DEF d
  <1>6. d.pending = d.deferred
    BY <1>0, <1>4
  <1>7. Sound(d, i) /\ Unshared(d)
    BY <1>2, <1>3, <1>5, <1>6 DEF Sound, Unshared, Thinned
  <1> QED BY <1>7 DEF d

LEMMA DistAllocStep ==
    ASSUME NoRequeue, DInv, NEW o \in Obj, NEW key, DistAlloc(o, key)
    PROVE  DInv'
  <1> USE ArcAssumption
  <1> DEFINE a == Insert(h, o)
             b == IF allocs' = 0 THEN Gc(a, now) ELSE a
             i == [hold EXCEPT ![o] = 1]
  <1>0. /\ h \in Heaps /\ allocs \in 0 .. (GcInterval - 1) /\ now \in 0 .. MaxTime
        /\ hold \in [Obj -> 0 .. MaxHolds] /\ Sound(h, hold) /\ now \in Nat
        /\ h.objs \in SUBSET Obj /\ h.lease \in [Obj -> Nat] /\ h.inEdges \in [Obj -> Nat]
        /\ o \notin h.objs /\ Unshared(h)
    BY DEF DInv, IInv, TypeOK, Heaps, DistAlloc
  <1>1. Sound(a, i) /\ a \in Heaps
    BY <1>0, InsertSound DEF Sound, HeapInv
  <1>2. Sound(b, i) /\ Thinned(b, a) /\ b \in Heaps
    <2>1. Sound(b, i)
      BY <1>0, <1>1, GcSound
    <2>2. Thinned(b, a)
      BY <1>1, GcThins DEF Thinned
    <2> HIDE DEF a, b
    <2> QED BY <2>1, <2>2 DEF Sound, HeapInv
  <1>3. /\ a.objs = h.objs \cup {o}
        /\ a.lease = [h.lease EXCEPT ![o] = 0] /\ a.inEdges = [h.inEdges EXCEPT ![o] = 0]
    BY <1>0 DEF Insert, Heaps
  <1>4. PICK p \in Pressures, Q \in QueueChoices(b, now) :
           LET v == Evict(b, p, now, Q)
               filled == [bytes EXCEPT ![node'[o]] = @ + 1]
               gone == IF NodeCap > 0 /\ filled[node'[o]] > NodeCap
                      THEN Evictable(v, node', node'[o], now) ELSE {}
           IN /\ h' = Destroy(v, gone)
              /\ hold' = [x \in Obj |-> IF x = o THEN 1
                            ELSE IF x \in gone /\ h.lease[x] \in 1 .. now THEN 0 ELSE hold[x]]
    BY DEF DistAlloc
  <1> DEFINE v == Evict(b, p, now, Q)
  <1>5. PICK D : /\ D = {} \/ D = Evictable(v, node', node'[o], now)
                 /\ h' = Destroy(v, D)
                 /\ hold' = [x \in Obj |-> IF x = o THEN 1
                               ELSE IF x \in D /\ h.lease[x] \in 1 .. now THEN 0 ELSE hold[x]]
    <2> DEFINE filled == [bytes EXCEPT ![node'[o]] = @ + 1]
               gone == IF NodeCap > 0 /\ filled[node'[o]] > NodeCap
                      THEN Evictable(v, node', node'[o], now) ELSE {}
    <2>1. /\ h' = Destroy(v, gone)
          /\ hold' = [x \in Obj |-> IF x = o THEN 1
                        ELSE IF x \in gone /\ h.lease[x] \in 1 .. now THEN 0 ELSE hold[x]]
      BY <1>4
    <2>2. gone = {} \/ gone = Evictable(v, node', node'[o], now)
      OBVIOUS
    <2> HIDE DEF gone, v
    <2> QED BY <2>1, <2>2
  <1>6. Q \in SUBSET NearExpiry(b, now) /\ p \in Nat
    BY DEF QueueChoices
  <1>7. Sound(v, i) /\ Thinned(v, b)
    <2> HIDE DEF b, i
    <2> QED BY <1>0, <1>2, <1>6, EvictSound, EvictThins
  <1> HIDE DEF a, b, v
  <1>8. /\ v.objs \subseteq h.objs \cup {o} /\ v \in Heaps /\ v.objs \in SUBSET Obj
        /\ \A x \in v.objs : /\ v.lease[x] = a.lease[x] /\ v.inEdges[x] = a.inEdges[x]
    BY <1>2, <1>3, <1>7 DEF Thinned, Sound, HeapInv, Heaps
  <1>9. v.lease[o] = 0 \/ o \notin v.objs
    BY <1>0, <1>3, <1>8
  <1>10. Unshared(v)
    BY <1>0, <1>3, <1>8 DEF Unshared
  <1>11. ASSUME NEW x \in D
         PROVE  /\ x \in v.objs \ v.deferred
                /\ v.refs[x] <= 0 \/ (v.lease[x] > 0 /\ v.lease[x] <= now)
    BY <1>5 DEF Evictable
  <1>12. /\ hold' \in [Obj -> Nat] /\ hold' \in [Obj -> 0 .. MaxHolds]
    BY <1>0, <1>5
  <1>13. i \in [Obj -> Nat] /\ i[o] = 1 /\ \A x \in Obj \ {o} : i[x] = hold[x]
    BY <1>0
  <1>14. ASSUME NEW x \in D, v.lease[x] > 0 /\ v.lease[x] <= now PROVE hold'[x] = 0
    <2>1. x \in v.objs /\ x \in Obj /\ x # o
      BY <1>8, <1>9, <1>11, <1>14
    <2>2. v.lease[x] = h.lease[x] /\ h.lease[x] \in Nat
      BY <1>0, <1>3, <1>8, <2>1
    <2> QED BY <1>0, <1>5, <1>14, <2>1, <2>2
  <1>15. \A x \in Obj : hold'[x] = i[x] \/ (x \in D /\ hold'[x] = 0)
    BY <1>5, <1>13
  <1> HIDE DEF i
  <1>16. Sound(h', hold') /\ Unshared(h')
    <2>1. Sound(Destroy(v, D), hold') /\ Unshared(Destroy(v, D))
      BY <1>0, <1>7, <1>10, <1>11, <1>12, <1>14, <1>15, DistEvictSound
    <2> QED BY <1>5, <2>1
  <1>17. allocs' \in 0 .. (GcInterval - 1) /\ now' = now /\ h' \in Heaps
    <2>1. allocs' = (allocs + 1) % GcInterval /\ now' = now
      BY DEF DistAlloc
    <2>2. allocs' \in 0 .. (GcInterval - 1)
      BY <1>0, <2>1
    <2> QED BY <1>16, <2>1, <2>2 DEF Sound, HeapInv
  <1> QED BY <1>0, <1>12, <1>16, <1>17 DEF DInv, IInv, TypeOK

\* The other calls leave no leased object with a link to it.
LEMMA UnsharedStep ==
    ASSUME ~LinksLeased, DInv,
           \/ \E o \in Obj : Retain(o) \/ Release(o)
           \/ \E o \in Obj, ms \in LeaseMs : DistLease(o, ms)
           \/ \E p, v \in Obj : DistLink(p, v) \/ Unlink(p, v)
           \/ GcCycle \/ LeaseEvict \/ Tick \/ UNCHANGED vars
    PROVE  Unshared(h')
  <1>0. /\ h \in Heaps /\ h.objs \in SUBSET Obj /\ h.lease \in [Obj -> Nat]
        /\ h.inEdges \in [Obj -> Nat] /\ h.refs \in [Obj -> Nat] /\ Unshared(h)
        /\ HeapInv(h, hold)
    BY DEF DInv, IInv, TypeOK, Heaps, Sound
  <1>t. ASSUME NEW f, Thinned(f, h) PROVE Unshared(f)
    BY <1>0, <1>t DEF Thinned, Unshared
  <1>d. ASSUME NEW f, f \in Heaps, Unshared(f), NEW o, NEW t PROVE Unshared(Drop(f, o, t))
    BY <1>d, DestroyThins DEF Drop, Unshared, Thinned
  <1>1. ASSUME NEW o \in Obj, Retain(o) PROVE Unshared(h')
    BY <1>0, <1>1 DEF Retain, Unshared, Heaps
  <1>2. ASSUME NEW o \in Obj, Release(o) PROVE Unshared(h')
    <2> DEFINE f == [h EXCEPT !.refs[o] = @ - 1]
    <2>1. h.refs[o] - 1 \in Nat
      BY <1>0, <1>2 DEF Release
    <2>2. f \in Heaps /\ f.objs = h.objs /\ f.lease = h.lease /\ f.inEdges = h.inEdges
      BY <1>0, <2>1 DEF Heaps
    <2>3. h' = IF h.refs[o] > 1 THEN f ELSE Drop(f, o, now)
      BY <1>2 DEF Release
    <2> HIDE DEF f
    <2>4. Unshared(f)
      BY <1>0, <2>2 DEF Unshared
    <2> QED BY <1>d, <2>2, <2>3, <2>4
  <1>3. ASSUME NEW o \in Obj, NEW ms \in LeaseMs, DistLease(o, ms) PROVE Unshared(h')
    <2>1. h.inEdges[o] = 0 /\ h' = [h EXCEPT !.lease[o] = now + ms]
      BY <1>3 DEF DistLease, Lease
    <2>2. /\ h'.objs = h.objs /\ h'.inEdges = h.inEdges
          /\ \A x \in Obj \ {o} : h'.lease[x] = h.lease[x]
      BY <1>0, <2>1 DEF Heaps
    <2> QED BY <1>0, <2>1, <2>2 DEF Unshared
  <1>4. ASSUME NEW p \in Obj, NEW v \in Obj, DistLink(p, v) PROVE Unshared(h')
    <2>1. PICK k \in Edge : h' = AddEdge(h, [cell |-> k, p |-> p, c |-> v])
      BY <1>4 DEF DistLink, Link
    <2>2. ~(h.lease[v] > 0)
      BY <1>4 DEF DistLink
    <2>3. /\ h'.objs = h.objs /\ h'.lease = h.lease
          /\ \A x \in Obj \ {v} : h'.inEdges[x] = h.inEdges[x]
      BY <1>0, <2>1 DEF AddEdge, Heaps
    <2> QED BY <1>0, <2>2, <2>3 DEF Unshared
  <1>5. ASSUME NEW p \in Obj, NEW v \in Obj, Unlink(p, v) PROVE Unshared(h')
    <2>1. PICK e \in h.edges :
             /\ e.p = p /\ e.c = v
             /\ h' = IF h.refs[v] > 1 THEN RemoveEdge(h, e) ELSE Drop(RemoveEdge(h, e), v, now)
      BY <1>5 DEF Unlink
    <2> DEFINE f == RemoveEdge(h, e)
    <2>2. p \notin h.deferred
      BY <1>5, UsableSound DEF Unlink, DInv
    <2>3. HeapInv(f, hold) /\ f.objs = h.objs /\ f.lease = h.lease
      BY <1>0, <2>1, <2>2, RemoveEdgeKeepsInv
    <2>4. f.inEdges = [h.inEdges EXCEPT ![v] = @ - 1]
      BY <1>0, <2>1 DEF RemoveEdge, Heaps
    <2>5. h.inEdges[v] # 0
      <3>1. v \in h.objs /\ e \in LiveIn(h, v)
        BY <1>0, <2>1, <2>2 DEF HeapInv, LiveIn
      <3>2. /\ IsFiniteSet(LiveIn(h, v)) /\ Cardinality(LiveIn(h, v)) \in Nat
            /\ Cardinality(LiveIn(h, v)) <= h.inEdges[v]
        BY <1>0, <3>1, FS_Subset, FS_CardinalityType DEF HeapInv, LiveIn
      <3>3. Cardinality(LiveIn(h, v)) # 0
        BY <3>1, <3>2, FS_EmptySet
      <3> QED BY <1>0, <3>2, <3>3
    <2>6. h' = IF h.refs[v] > 1 THEN f ELSE Drop(f, v, now)
      BY <2>1
    <2> HIDE DEF f
    <2>7. Unshared(f)
      BY <1>0, <2>3, <2>4, <2>5 DEF Unshared
    <2> QED BY <1>d, <2>3, <2>6, <2>7 DEF HeapInv
  <1>6. ASSUME GcCycle PROVE Unshared(h')
    BY <1>0, <1>6, <1>t, GcThins DEF GcCycle
  <1>7. ASSUME LeaseEvict PROVE Unshared(h')
    BY <1>0, <1>7, <1>t, EvictThins DEF LeaseEvict
  <1>8. ASSUME Tick \/ UNCHANGED vars PROVE Unshared(h')
    BY <1>0, <1>8 DEF Tick, vars
  <1> QED BY <1>1, <1>2, <1>3, <1>4, <1>5, <1>6, <1>7, <1>8

\* The heap keeps its invariant under the calls of the distributed heap, in
\* programs that lease only objects nothing leads to.
THEOREM DistInvariance ==
    ASSUME NoRequeue, ~LinksLeased
    PROVE  DistSpec => []DInv
  <1>1. DistInit => DInv
    BY InitIInv DEF DistInit, DInv, Init, Unshared
  <1>2. DInv /\ [DistNext]_<<vars, distVars>> => DInv'
    <2> SUFFICES ASSUME DInv, [DistNext]_<<vars, distVars>> PROVE DInv'
      OBVIOUS
    <2>1. ASSUME NEW o \in Obj, NEW key \in Keys, DistAlloc(o, key) PROVE DInv'
      BY <2>1, DistAllocStep
    <2>2. ASSUME \/ \E o \in Obj : Retain(o) \/ Release(o)
                 \/ \E o \in Obj, ms \in LeaseMs : DistLease(o, ms)
                 \/ \E p, v \in Obj : DistLink(p, v) \/ Unlink(p, v)
                 \/ GcCycle \/ LeaseEvict \/ Tick \/ UNCHANGED vars
          PROVE  DInv'
      <3>1. Unshared(h')
        BY <2>2, UnsharedStep
      <3>2. [Next]_vars
        BY <2>2 DEF Next, DistLease, DistLink
      <3>3. IInv'
        BY <3>2, StepIInv DEF DInv
      <3> QED BY <3>1, <3>3 DEF DInv
    <2>3. ASSUME NEW o \in Obj, DistRelease(o) PROVE DInv'
      BY <2>2, <2>3 DEF DistRelease
    <2>4. ASSUME NEW n \in 1 .. MaxNodes, DistRestart(n) PROVE DInv'
      BY <2>2, <2>4 DEF DistRestart
    <2>5. CASE UNCHANGED <<vars, distVars>>
      BY <2>2, <2>5
    <2> QED BY <2>1, <2>2, <2>3, <2>4, <2>5 DEF DistNext
  <1> QED BY <1>1, <1>2, PTL DEF DistSpec

\* However full a node is, its evictions (plant_dist_evict) free no object that
\* a client holds and whose lease, if any, still runs.
THEOREM HeldStaysLive ==
    ASSUME NoRequeue, ~LinksLeased
    PROVE  DistSpec => []HeldUnexpiredIsLive
  <1>1. DInv => HeldUnexpiredIsLive
    BY DEF DInv, IInv, Sound, HeapInv, HeldUnexpiredIsLive
  <1> QED BY <1>1, DistInvariance, PTL

\* The evictions of the nodes leave the counts, the queue and what clients can
\* reach as the ARC heap alone does.
THEOREM DistKeepsHeap ==
    ASSUME NoRequeue, ~LinksLeased
    PROVE  DistSpec => [](Accounting /\ UsableIsLive /\ QueueIsLive)
  <1>1. DInv => Accounting /\ UsableIsLive /\ QueueIsLive
    BY UsableSound DEF DInv, IInv, Sound, HeapInv, Accounting, UsableIsLive, QueueIsLive
  <1> QED BY <1>1, DistInvariance, PTL

----------------------------------------------------------------------------
(* Collections *)

Marks == {Free, Tomb}

\* What a table holds, and where it has tombstones.
Contents(s) == {s[i] : i \in DOMAIN s} \ Marks
Tombs(s) == {i \in DOMAIN s : s[i] = Tomb}

\* The position after i steps from the hash of v.
At(hf, n, v, i) == (hf[v] + i) % n

\* From the hash of v to position p no slot is free.
Reaches(hf, s, n, v, p) ==
    \E i \in 0 .. n - 1 : At(hf, n, v, i) = p /\ \A j \in 0 .. i - 1 : s[At(hf, n, v, j)] # Free

\* A table of n slots: each value is in one slot, which its probe reaches.
Table(hf, s, n) ==
    /\ s \in [0 .. n - 1 -> Values \union Marks]
    /\ \A i, j \in 0 .. n - 1 : s[i] \in Values /\ s[i] = s[j] => i = j
    /\ \A p \in 0 .. n - 1 : s[p] \in Values => Reaches(hf, s, n, s[p], p)

\* A table with the values of C and tombstones at the positions of T.
Holding(hf, s, n, C, T) == Table(hf, s, n) /\ Contents(s) = C /\ Tombs(s) = T

Roomy(s, n) == \E i \in 0 .. n - 1 : s[i] = Free

Size == Nat \ {0}

LEMMA Capacity ==
    ASSUME NEW n \in Nat, NEW X, NEW s \in [0 .. n - 1 -> X]
    PROVE  DOMAIN s = 0 .. n - 1 /\ Cardinality(DOMAIN s) = n /\ IsFiniteSet(DOMAIN s)
  <1>1. IsFiniteSet(0 .. n - 1) /\ Cardinality(0 .. n - 1) = IF 0 > n - 1 THEN 0 ELSE (n - 1) - 0 + 1
    BY FS_Interval
  <1>2. (IF 0 > n - 1 THEN 0 ELSE (n - 1) - 0 + 1) = n
    OBVIOUS
  <1> QED BY <1>1, <1>2

LEMMA AtIsSlot ==
    ASSUME NEW hf \in [Values -> Nat], NEW n \in Size, NEW v \in Values, NEW i \in Nat
    PROVE  At(hf, n, v, i) \in 0 .. n - 1
  <1> DEFINE a == hf[v] + i
  <1>1. a \in Int
    OBVIOUS
  <1> HIDE DEF a
  <1>2. a % n \in 0 .. n - 1
    BY <1>1, Divided DEF Size
  <1> QED BY <1>2 DEF At, a

\* A probe ends at the first position from the hash of v whose slot is in
\* stops, if there is one anywhere.
LEMMA ProbeFinds ==
    ASSUME hash \in [Values -> Nat], NEW n \in Size, NEW X, NEW s \in [0 .. n - 1 -> X],
           NEW v \in Values, NEW stops, NEW p \in 0 .. n - 1, s[p] \in stops
    PROVE  \E i \in 0 .. n - 1 :
              /\ Probe(s, v, stops) = At(hash, n, v, i)
              /\ s[At(hash, n, v, i)] \in stops
              /\ \A j \in 0 .. i - 1 : s[At(hash, n, v, j)] \notin stops
  <1> DEFINE at(i) == At(hash, n, v, i)
             S == {i \in 0 .. n - 1 : s[at(i)] \in stops}
             First(i) == s[at(i)] \in stops /\ \A j \in 0 .. i - 1 : s[at(j)] \notin stops
  <1>1. S \in SUBSET Nat /\ S # {}
    <2>1. PICK i \in 0 .. n - 1 : (hash[v] + i) % n = p
      BY AroundTo DEF Size
    <2>2. i \in S
      BY <2>1 DEF At
    <2> QED BY <2>2
  <1>2. PICK i \in S : \A j \in S : i <= j
    BY <1>1, LeastNatural
  <1>3. First(i)
    <2>0. i \in 0 .. n - 1
      OBVIOUS
    <2>1. ASSUME NEW j \in 0 .. i - 1 PROVE s[at(j)] \notin stops
      <3>1. j \in 0 .. n - 1 /\ ~ (i <= j)
        BY <2>0 DEF Size
      <3>2. j \notin S
        BY <1>2, <3>1
      <3> HIDE DEF at
      <3> QED BY <3>1, <3>2
    <2>2. s[at(i)] \in stops
      BY <1>2
    <2> QED BY <2>1, <2>2
  <1>4. DOMAIN s = 0 .. n - 1 /\ Cardinality(DOMAIN s) = n
    BY Capacity DEF Size
  <1>5. Probe(s, v, stops) = at(CHOOSE k \in 0 .. n - 1 : First(k))
    BY <1>4 DEF Probe, At
  <1> DEFINE k0 == CHOOSE k \in 0 .. n - 1 : First(k)
  <1>6. k0 \in 0 .. n - 1 /\ First(k0)
    <2> HIDE DEF First, at
    <2> QED BY <1>2, <1>3
  <1> HIDE DEF k0
  <1> QED BY <1>5, <1>6 DEF k0

\* The slots with a value are as many as the values.
LEMMA HeldSlots ==
    ASSUME NEW hf, NEW n \in Size, NEW s, Table(hf, s, n)
    PROVE  LET H == {i \in 0 .. n - 1 : s[i] \in Values}
           IN IsFiniteSet(H) /\ IsFiniteSet(Contents(s)) /\ Cardinality(H) = Cardinality(Contents(s))
  <1> DEFINE H == {i \in 0 .. n - 1 : s[i] \in Values}
             f == [i \in H |-> s[i]]
  <1>1. s \in [0 .. n - 1 -> Values \union Marks] /\ DOMAIN s = 0 .. n - 1 /\ IsFiniteSet(0 .. n - 1)
    <2>1. s \in [0 .. n - 1 -> Values \union Marks]
      BY DEF Table
    <2> QED BY <2>1, Capacity DEF Size
  <1>2. IsFiniteSet(H) /\ H \subseteq 0 .. n - 1
    BY <1>1, FS_Subset
  <1>3. f \in Bijection(H, Contents(s))
    <2>1. Contents(s) = {s[i] : i \in H}
      BY <1>1, CollAssumption DEF Contents, Marks
    <2>2. \A i, j \in H : f[i] = f[j] => i = j
      BY DEF Table
    <2>3. f \in Surjection(H, Contents(s))
      BY <2>1 DEF Surjection
    <2> HIDE DEF f, H
    <2>4. f \in Injection(H, Contents(s))
      BY <2>2, <2>3 DEF Surjection, Injection, IsInjective
    <2> QED BY <2>3, <2>4 DEF Bijection
  <1>4. IsFiniteSet(Contents(s)) /\ Cardinality(Contents(s)) = Cardinality(H)
    <2>1. ExistsBijection(H, Contents(s))
      BY <1>3 DEF ExistsBijection
    <2> QED BY <1>2, <2>1, FS_Bijection
  <1> QED BY <1>2, <1>4

\* A table with fewer values and tombstones than slots has a free slot.
LEMMA FreeSlot ==
    ASSUME NEW hf, NEW n \in Size, NEW s, Table(hf, s, n),
           Cardinality(Contents(s)) + Cardinality(Tombs(s)) < n
    PROVE  Roomy(s, n)
  <1> DEFINE H == {i \in 0 .. n - 1 : s[i] \in Values}
  <1>1. s \in [0 .. n - 1 -> Values \union Marks] /\ DOMAIN s = 0 .. n - 1
        /\ IsFiniteSet(0 .. n - 1) /\ Cardinality(0 .. n - 1) = n
    <2>1. s \in [0 .. n - 1 -> Values \union Marks]
      BY DEF Table
    <2> QED BY <2>1, Capacity DEF Size
  <1>2. IsFiniteSet(H) /\ Cardinality(H) = Cardinality(Contents(s))
    BY HeldSlots
  <1>3. IsFiniteSet(Tombs(s)) /\ Tombs(s) \subseteq 0 .. n - 1
    BY <1>1, FS_Subset DEF Tombs
  <1>4. SUFFICES ASSUME \A i \in 0 .. n - 1 : s[i] # Free PROVE FALSE
    BY DEF Roomy
  <1>5. 0 .. n - 1 = H \union Tombs(s) /\ H \cap Tombs(s) = {}
    BY <1>1, <1>4, CollAssumption DEF Marks, Tombs
  <1>6. Cardinality(0 .. n - 1) = Cardinality(H) + Cardinality(Tombs(s)) - Cardinality(H \cap Tombs(s))
    <2> HIDE DEF H
    <2> QED BY <1>2, <1>3, <1>5, FS_Union
  <1>7. Cardinality(H \cap Tombs(s)) = 0
    BY <1>5, FS_EmptySet
  <1>8. Cardinality(H) \in Nat /\ Cardinality(Tombs(s)) \in Nat
    BY <1>2, <1>3, FS_CardinalityType
  <1> QED BY <1>1, <1>2, <1>6, <1>7, <1>8 DEF Size

\* A lookup stops at the value when the table has it, and at a free slot
\* when it has not.
LEMMA LookupFinds ==
    ASSUME hash \in [Values -> Nat], NEW n \in Size, NEW s, Table(hash, s, n), Roomy(s, n),
           NEW v \in Values
    PROVE  LET p == Probe(s, v, {Free, v})
           IN /\ p \in 0 .. n - 1
              /\ s[p] = IF v \in Contents(s) THEN v ELSE Free
              /\ Reaches(hash, s, n, v, p)
  <1> DEFINE p == Probe(s, v, {Free, v})
  <1>1. s \in [0 .. n - 1 -> Values \union Marks] /\ DOMAIN s = 0 .. n - 1
    BY DEF Table
  <1>2. PICK f \in 0 .. n - 1 : s[f] = Free
    BY DEF Roomy
  <1>3. PICK i \in 0 .. n - 1 :
            /\ p = At(hash, n, v, i)
            /\ s[At(hash, n, v, i)] \in {Free, v}
            /\ \A j \in 0 .. i - 1 : s[At(hash, n, v, j)] \notin {Free, v}
    BY <1>1, <1>2, ProbeFinds
  <1>4. p \in 0 .. n - 1
    BY <1>3, AtIsSlot
  <1>5. Reaches(hash, s, n, v, p)
    BY <1>3 DEF Reaches
  <1> HIDE DEF p
  <1>6. v \notin Contents(s) => s[p] = Free
    BY <1>1, <1>3, <1>4, CollAssumption DEF Contents, Marks
  <1>7. ASSUME v \in Contents(s) PROVE s[p] = v
    <2>1. PICK q \in 0 .. n - 1 : s[q] = v
      BY <1>1, <1>7 DEF Contents
    <2>2. PICK k \in 0 .. n - 1 :
              At(hash, n, v, k) = q /\ \A j \in 0 .. k - 1 : s[At(hash, n, v, j)] # Free
      BY <2>1 DEF Table, Reaches
    <2>3. i <= k
      <3>1. ASSUME k < i PROVE FALSE
        <4>1. k \in 0 .. i - 1
          BY <3>1
        <4> QED BY <1>3, <2>1, <2>2, <4>1
      <3> QED BY <3>1
    <2>4. CASE i = k
      BY <1>3, <2>1, <2>2, <2>4
    <2>5. CASE i # k
      <3>1. i \in 0 .. k - 1
        BY <2>3, <2>5
      <3> QED BY <1>3, <2>2, <3>1
    <2> QED BY <2>4, <2>5
  <1> QED BY <1>4, <1>5, <1>6, <1>7 DEF p

\* A new value goes into a slot that its probe reaches and that holds none.
LEMMA PutKeeps ==
    ASSUME NEW hf \in [Values -> Nat], NEW n \in Size, NEW s, Table(hf, s, n), NEW v \in Values,
           v \notin Contents(s), NEW p \in 0 .. n - 1, s[p] \in Marks, Reaches(hf, s, n, v, p),
           NEW t, t = [s EXCEPT ![p] = v]
    PROVE  Holding(hf, t, n, Contents(s) \union {v}, Tombs(s) \ {p})
  <1>1. s \in [0 .. n - 1 -> Values \union Marks] /\ DOMAIN s = 0 .. n - 1
    BY DEF Table
  <1>2. /\ t \in [0 .. n - 1 -> Values \union Marks] /\ DOMAIN t = 0 .. n - 1
        /\ \A i \in 0 .. n - 1 : t[i] = IF i = p THEN v ELSE s[i]
    BY <1>1
  <1>3. v \notin Marks /\ \A i \in 0 .. n - 1 : s[i] # v
    BY <1>1, CollAssumption DEF Contents, Marks
  <1>4. \A i, j \in 0 .. n - 1 : t[i] \in Values /\ t[i] = t[j] => i = j
    <2>1. \A i, j \in 0 .. n - 1 : s[i] \in Values /\ s[i] = s[j] => i = j
      BY DEF Table
    <2> QED BY <1>2, <1>3, <2>1
  <1>5. \A i \in 0 .. n - 1 : s[i] # Free => t[i] # Free
    BY <1>1, <1>2, <1>3 DEF Marks
  <1>6. \A q \in 0 .. n - 1 : t[q] \in Values => Reaches(hf, t, n, t[q], q)
    <2> SUFFICES ASSUME NEW q \in 0 .. n - 1, t[q] \in Values PROVE Reaches(hf, t, n, t[q], q)
      OBVIOUS
    <2>1. Reaches(hf, s, n, t[q], q)
      <3>1. CASE q = p
        BY <1>2, <3>1
      <3>2. CASE q # p
        BY <1>2, <3>2 DEF Table
      <3> QED BY <3>1, <3>2
    <2>2. t[q] \in Values /\ n \in Size
      OBVIOUS
    <2> QED BY <1>5, <2>1, <2>2, AtIsSlot DEF Reaches
  <1>7. Contents(t) = Contents(s) \union {v}
    BY <1>1, <1>2, <1>3 DEF Contents
  <1>8. Tombs(t) = Tombs(s) \ {p}
    BY <1>1, <1>2, <1>3 DEF Tombs, Marks
  <1>9. Table(hf, t, n)
    BY <1>2, <1>4, <1>6 DEF Table
  <1> QED BY <1>7, <1>8, <1>9 DEF Holding

\* A tombstone where a value was keeps the way to the others.
LEMMA BuryKeeps ==
    ASSUME NEW hf \in [Values -> Nat], NEW n \in Size, NEW s, Table(hf, s, n), NEW p \in 0 .. n - 1, s[p] \in Values,
           NEW t, t = [s EXCEPT ![p] = Tomb]
    PROVE  Holding(hf, t, n, Contents(s) \ {s[p]}, Tombs(s) \union {p})
  <1>1. s \in [0 .. n - 1 -> Values \union Marks] /\ DOMAIN s = 0 .. n - 1
    BY DEF Table
  <1>2. /\ t \in [0 .. n - 1 -> Values \union Marks] /\ DOMAIN t = 0 .. n - 1
        /\ \A i \in 0 .. n - 1 : t[i] = IF i = p THEN Tomb ELSE s[i]
    BY <1>1 DEF Marks
  <1>3. Tomb # Free /\ Tomb \notin Values
    BY CollAssumption DEF Tomb, Free
  <1>4. \A i, j \in 0 .. n - 1 : s[i] \in Values /\ s[i] = s[j] => i = j
    BY DEF Table
  <1>5. \A i \in 0 .. n - 1 : s[i] # Free => t[i] # Free
    BY <1>2, <1>3
  <1>6. \A i, j \in 0 .. n - 1 : t[i] \in Values /\ t[i] = t[j] => i = j
    BY <1>2, <1>3, <1>4
  <1>7. \A q \in 0 .. n - 1 : t[q] \in Values => Reaches(hf, t, n, t[q], q)
    <2> SUFFICES ASSUME NEW q \in 0 .. n - 1, t[q] \in Values PROVE Reaches(hf, t, n, t[q], q)
      OBVIOUS
    <2>1. Reaches(hf, s, n, t[q], q)
      BY <1>2, <1>3 DEF Table
    <2>2. t[q] \in Values /\ n \in Size
      OBVIOUS
    <2> QED BY <1>5, <2>1, <2>2, AtIsSlot DEF Reaches
  <1>8. Contents(t) = Contents(s) \ {s[p]}
    BY <1>1, <1>2, <1>3, <1>4, CollAssumption DEF Contents, Marks
  <1>9. Tombs(t) = Tombs(s) \union {p}
    BY <1>1, <1>2 DEF Tombs
  <1>10. Table(hf, t, n)
    BY <1>2, <1>6, <1>7 DEF Table
  <1> QED BY <1>8, <1>9, <1>10 DEF Holding

----------------------------------------------------------------------------
(* Rehashing *)

\* The values of the first i slots.
First(s, i) == {s[j] : j \in 0 .. i - 1} \ Marks

\* One turn of the loop of Rehashed.
Moved(s, i, t) ==
    IF s[i - 1] \in {Free, Tomb} THEN t ELSE [t EXCEPT ![Probe(t, s[i - 1], {Free})] = s[i - 1]]

\* The table after i turns.
Filling(hf, s, m, i, t) == Holding(hf, t, m, First(s, i), {})

LEMMA FirstGrows ==
    ASSUME NEW hf, NEW n \in Size, NEW s, Table(hf, s, n), NEW i \in 1 .. n
    PROVE  /\ s[i - 1] \in Marks => First(s, i) = First(s, i - 1)
           /\ s[i - 1] \notin Marks =>
                s[i - 1] \in Values \ First(s, i - 1) /\ First(s, i) = First(s, i - 1) \union {s[i - 1]}
           /\ IsFiniteSet(First(s, i - 1)) /\ Cardinality(First(s, i - 1)) \in 0 .. i - 1
  <1>1. s \in [0 .. n - 1 -> Values \union Marks]
        /\ \A j, k \in 0 .. n - 1 : s[j] \in Values /\ s[j] = s[k] => j = k
    BY DEF Table
  <1>2. i - 1 \in 0 .. n - 1 /\ i - 1 \in Nat
    BY DEF Size
  <1>3. \A j : j \in 0 .. i - 1 <=> j \in 0 .. (i - 1) - 1 \/ j = i - 1
    BY <1>2
  <1>4. First(s, i) = (First(s, i - 1) \union {s[i - 1]}) \ Marks
    BY <1>3 DEF First
  <1>5. First(s, i - 1) \cap Marks = {}
    BY DEF First
  <1>6. ASSUME s[i - 1] \notin Marks PROVE s[i - 1] \in Values \ First(s, i - 1)
    <2>1. s[i - 1] \in Values
      BY <1>1, <1>2, <1>6
    <2>2. ASSUME NEW j \in 0 .. (i - 1) - 1, s[j] = s[i - 1] PROVE FALSE
      <3>1. j \in 0 .. n - 1 /\ j # i - 1
        BY <1>2 DEF Size
      <3> QED BY <1>1, <1>2, <2>1, <2>2, <3>1
    <2> QED BY <2>1, <2>2 DEF First
  <1>7. IsFiniteSet(First(s, i - 1)) /\ Cardinality(First(s, i - 1)) \in 0 .. i - 1
    <2> DEFINE D == 0 .. (i - 1) - 1
               I == {s[j] : j \in D}
               m == i - 1
    <2>1. IsFiniteSet(D) /\ Cardinality(D) = m
      <3>1. m \in Nat
        BY <1>2
      <3>2. IsFiniteSet(0 .. m - 1) /\ Cardinality(0 .. m - 1) = IF 0 > m - 1 THEN 0 ELSE (m - 1) - 0 + 1
        BY FS_Interval
      <3> HIDE DEF m
      <3>3. Cardinality(0 .. m - 1) = m
        BY <3>1, <3>2
      <3> QED BY <3>2, <3>3 DEF m
    <2>2. IsFiniteSet(I) /\ Cardinality(I) <= Cardinality(D)
      <3>1. IsFiniteSet({s[j] : j \in D}) /\ Cardinality({s[j] : j \in D}) <= Cardinality(D)
        <4> DEFINE f == [j \in D |-> s[j]]
        <4>1. f \in Surjection(D, I)
          BY DEF Surjection
        <4> HIDE DEF f, I, D
        <4>2. IsFiniteSet(I) /\ Cardinality(I) <= Cardinality(D)
          BY <2>1, <4>1, FS_Surjection
        <4> QED BY <4>2 DEF I
      <3> QED BY <3>1
    <2>3. First(s, i - 1) \subseteq I
      BY DEF First
    <2> HIDE DEF I, D
    <2>4. IsFiniteSet(First(s, i - 1)) /\ Cardinality(First(s, i - 1)) <= Cardinality(I)
      BY <2>2, <2>3, FS_Subset
    <2>5. Cardinality(First(s, i - 1)) \in Nat /\ Cardinality(I) \in Nat
      BY <2>2, <2>4, FS_CardinalityType
    <2> HIDE DEF m
    <2>6. m \in Nat
      BY <1>2 DEF m
    <2>7. Cardinality(First(s, i - 1)) \in 0 .. m
      BY <2>1, <2>2, <2>4, <2>5, <2>6
    <2> QED BY <2>4, <2>7 DEF m
  <1> QED BY <1>4, <1>5, <1>6, <1>7

\* A turn finds a free slot, since the new table has more slots than the old.
LEMMA MovedKeeps ==
    ASSUME hash \in [Values -> Nat], NEW n \in Size, NEW s, Table(hash, s, n), NEW m \in Size, n <= m,
           NEW i \in 1 .. n, NEW t, Filling(hash, s, m, i - 1, t)
    PROVE  Filling(hash, s, m, i, Moved(s, i, t))
  <1> DEFINE v == s[i - 1]
  <1>1. CASE v \in Marks
    BY <1>1, FirstGrows DEF Filling, Holding, Moved, Marks
  <1>2. CASE v \notin Marks
    <2>1. v \in Values /\ v \notin Contents(t) /\ First(s, i) = Contents(t) \union {v}
      <3>1. Contents(t) = First(s, i - 1)
        BY DEF Filling, Holding
      <3>2. /\ v \in Values /\ v \notin First(s, i - 1)
            /\ First(s, i) = First(s, i - 1) \union {v}
        BY <1>2, FirstGrows
      <3> QED BY <3>1, <3>2
    <2>2. Cardinality(Contents(t)) \in 0 .. i - 1
      BY FirstGrows DEF Filling, Holding
    <2>3. Cardinality(Tombs(t)) = 0
      BY FS_EmptySet DEF Filling, Holding
    <2>4. Cardinality(Contents(t)) + Cardinality(Tombs(t)) < m
      BY <2>2, <2>3 DEF Size
    <2>5. PICK f \in 0 .. m - 1 : t[f] = Free
      BY <2>4, FreeSlot DEF Filling, Holding, Roomy
    <2> DEFINE p == Probe(t, v, {Free})
    <2>6. PICK k \in 0 .. m - 1 :
            /\ p = At(hash, m, v, k)
            /\ t[At(hash, m, v, k)] \in {Free}
            /\ \A j \in 0 .. k - 1 : t[At(hash, m, v, j)] \notin {Free}
      <3>1. t \in [0 .. m - 1 -> Values \union Marks]
        BY DEF Filling, Holding, Table
      <3> HIDE DEF v
      <3> QED BY <2>1, <2>5, <3>1, ProbeFinds
    <2>7. p \in 0 .. m - 1 /\ t[p] = Free /\ Reaches(hash, t, m, v, p)
      <3>1. p \in 0 .. m - 1
        BY <2>1, <2>6, AtIsSlot
      <3> HIDE DEF p, v
      <3> QED BY <2>6, <3>1 DEF Reaches
    <2> DEFINE u == [t EXCEPT ![p] = v]
    <2>8. Moved(s, i, t) = u
      BY <1>2 DEF Moved, Marks
    <2> HIDE DEF p, v
    <2>9. Table(hash, u, m) /\ Contents(u) = Contents(t) \union {v} /\ Tombs(u) = Tombs(t) \ {p}
      <3>1. Table(hash, t, m) /\ t[p] \in Marks /\ v \in Values /\ v \notin Contents(t)
            /\ p \in 0 .. m - 1 /\ Reaches(hash, t, m, v, p)
        BY <2>1, <2>7 DEF Filling, Holding, Marks
      <3>2. u = [t EXCEPT ![p] = v]
        OBVIOUS
      <3> HIDE DEF u
      <3>3. Holding(hash, u, m, Contents(t) \union {v}, Tombs(t) \ {p})
        BY <3>1, <3>2, PutKeeps
      <3> QED BY <3>3 DEF Holding
    <2> HIDE DEF u
    <2> QED BY <2>1, <2>8, <2>9 DEF Filling, Holding
  <1> QED BY <1>1, <1>2

\* A rehashed table holds the same values and no tombstone.
LEMMA RehashedKeeps ==
    ASSUME hash \in [Values -> Nat], NEW n \in Size, NEW s, Table(hash, s, n), NEW m \in Size, n <= m
    PROVE  Holding(hash, Rehashed(s, m), m, Contents(s), {})
  <1> DEFINE base == [j \in 0 .. m - 1 |-> Free]
             D == {t \in [0 .. m - 1 -> Values \union Marks] : TRUE}
             S == [i \in 0 .. n |-> {t \in D : Filling(hash, s, m, i, t)}]
             step == [x \in (1 .. n) \X D |-> Moved(s, x[1], x[2])]
             Turns(f) == [i \in 0 .. n |-> IF i = 0 THEN base ELSE Moved(s, i, f[i - 1])]
             C == CHOOSE f : f = Turns(f)
  <1>1. s \in [0 .. n - 1 -> Values \union Marks] /\ DOMAIN s = 0 .. n - 1 /\ Cardinality(DOMAIN s) = n
        /\ n \in Nat
    <2>1. s \in [0 .. n - 1 -> Values \union Marks]
      BY DEF Table
    <2> QED BY <2>1, Capacity DEF Size
  <1>2. base \in S[0]
    <2>1. base \in D
      BY DEF Marks
    <2>2. \A j \in 0 .. m - 1 : base[j] = Free
      OBVIOUS
    <2>3. DOMAIN base = 0 .. m - 1
      OBVIOUS
    <2>4. 0 \in 0 .. m - 1 /\ 0 \in 0 .. n /\ 0 .. 0 - 1 = {}
      BY <1>1 DEF Size
    <2> HIDE DEF base
    <2>5. Table(hash, base, m)
      <3>1. Free \notin Values
        BY CollAssumption
      <3> QED BY <2>1, <2>2, <3>1 DEF Table
    <2>6. Tombs(base) = {}
      BY <2>2, <2>3 DEF Tombs, Tomb, Free
    <2>7. Contents(base) = {} /\ First(s, 0) = {}
      BY <2>2, <2>3, <2>4 DEF Contents, Marks, First
    <2> QED BY <2>1, <2>4, <2>5, <2>6, <2>7 DEF Filling, Holding
  <1>3. ASSUME NEW i \in 1 .. n, NEW t \in S[i - 1]
        PROVE  Moved(s, i, t) \in S[i] /\ step[<<i, t>>] = Moved(s, i, t)
    <2>1. i - 1 \in 0 .. n /\ i \in 0 .. n
      BY <1>1
    <2>2. t \in D /\ Filling(hash, s, m, i - 1, t)
      BY <2>1
    <2>3. Filling(hash, s, m, i, Moved(s, i, t))
      BY <2>2, MovedKeeps
    <2>4. Moved(s, i, t) \in D
      BY <2>3 DEF Filling, Holding, Table
    <2> HIDE DEF D
    <2> QED BY <2>1, <2>2, <2>3, <2>4
  <1> HIDE DEF S, D, base
  <1>4. PICK f : Iteration(n, S, step, base, f)
    <2>1. \A i \in 1 .. n : \A t \in S[i - 1] : step[<<i, t>>] \in S[i]
      BY <1>3
    <2> HIDE DEF step
    <2> QED BY <1>1, <1>2, <2>1, LoopExists
  <1>5. f = Turns(f)
    <2>1. \A i \in 0 .. n : i # 0 => step[<<i, f[i - 1]>>] = Moved(s, i, f[i - 1])
      <3> SUFFICES ASSUME NEW i \in 1 .. n PROVE step[<<i, f[i - 1]>>] = Moved(s, i, f[i - 1])
        <4> HIDE DEF step
        <4> QED BY <1>1
      <3>1. i - 1 \in 0 .. n
        BY <1>1
      <3>2. f[i - 1] \in S[i - 1]
        BY <1>4, <3>1 DEF Iteration
      <3> QED BY <1>3, <3>2
    <2> HIDE DEF step
    <2>2. \A i \in 0 .. n : f[i] = IF i = 0 THEN base ELSE Moved(s, i, f[i - 1])
      BY <1>4, <2>1 DEF Iteration
    <2>3. f = [i \in 0 .. n |-> f[i]]
      BY <1>4 DEF Iteration
    <2> QED BY <2>2, <2>3
  <1> HIDE DEF Turns
  <1>6. C = Turns(C)
    BY <1>5
  <1>7. Rehashed(s, m) = C[n]
    BY <1>1 DEF Rehashed, Turns, base, Moved
  <1> HIDE DEF C
  <1>8. C[n] \in S[n]
    <2>1. \A i \in 0 .. n : C[i] = IF i = 0 THEN base ELSE Moved(s, i, C[i - 1])
      BY <1>6 DEF Turns
    <2>2. C[0] \in S[0]
      <3>1. 0 \in 0 .. n
        BY <1>1
      <3> QED BY <1>2, <2>1, <3>1
    <2>3. \A i \in 1 .. n : C[i - 1] \in S[i - 1] => C[i] \in S[i]
      <3> SUFFICES ASSUME NEW i \in 1 .. n, C[i - 1] \in S[i - 1] PROVE C[i] \in S[i]
        OBVIOUS
      <3>1. C[i] = Moved(s, i, C[i - 1])
        BY <1>1, <2>1
      <3> QED BY <1>3, <3>1
    <2> QED BY <1>1, <2>2, <2>3, LoopKeeps
  <1>9. Filling(hash, s, m, n, C[n])
    <2>1. n \in 0 .. n
      BY <1>1
    <2> QED BY <1>8, <2>1 DEF S
  <1>10. First(s, n) = Contents(s)
    BY <1>1 DEF First, Contents
  <1> QED BY <1>7, <1>9, <1>10 DEF Filling, Holding

----------------------------------------------------------------------------
(* Set *)

SetRecord(s) == [slots |-> s, count |-> Cardinality(Contents(s)), tombs |-> Cardinality(Tombs(s))]

\* The counters are right and leave a slot free.
SetOk(hf, r) ==
    \E n \in Size : \E s :
        /\ r = SetRecord(s) /\ Table(hf, s, n)
        /\ Cardinality(Contents(s)) + Cardinality(Tombs(s)) < n

Counted(s, n) ==
    /\ DOMAIN s = 0 .. n - 1 /\ Cardinality(DOMAIN s) = n
    /\ IsFiniteSet(Contents(s)) /\ IsFiniteSet(Tombs(s))
    /\ Cardinality(Contents(s)) \in Nat /\ Cardinality(Contents(s)) <= n
    /\ Cardinality(Tombs(s)) \in Nat
    /\ Contents(s) \subseteq Values

LEMMA TableCounts ==
    ASSUME NEW hf, NEW n \in Size, NEW s, Table(hf, s, n)
    PROVE  Counted(s, n)
  <1>1. s \in [0 .. n - 1 -> Values \union Marks]
    BY DEF Table
  <1>2. DOMAIN s = 0 .. n - 1 /\ Cardinality(DOMAIN s) = n /\ IsFiniteSet(DOMAIN s)
    BY <1>1, Capacity DEF Size
  <1>3. IsFiniteSet(Tombs(s)) /\ Tombs(s) \subseteq 0 .. n - 1
    BY <1>2, FS_Subset DEF Tombs
  <1> DEFINE H == {i \in 0 .. n - 1 : s[i] \in Values}
  <1>4. IsFiniteSet(H) /\ IsFiniteSet(Contents(s)) /\ Cardinality(H) = Cardinality(Contents(s))
    BY HeldSlots
  <1>5. H \subseteq DOMAIN s
    BY <1>2
  <1> HIDE DEF H
  <1>6. Cardinality(H) <= n /\ Cardinality(H) \in Nat
    BY <1>2, <1>4, <1>5, FS_Subset, FS_CardinalityType
  <1>7. Cardinality(Contents(s)) \in Nat /\ Cardinality(Contents(s)) <= n
    BY <1>4, <1>6
  <1>8. Contents(s) \subseteq Values
    BY <1>1, <1>2 DEF Contents
  <1> QED BY <1>2, <1>3, <1>4, <1>7, <1>8, FS_CardinalityType DEF Counted

LEMMA NewSetOk ==
    ASSUME NEW hf \in [Values -> Nat]
    PROVE  SetOk(hf, NewSet) /\ Contents(NewSet.slots) = {}
  <1> DEFINE s == [i \in 0 .. InitCap - 1 |-> Free]
  <1>1. InitCap \in Size /\ Free \notin Values /\ Free # Tomb
    BY CollAssumption DEF Size, Free, Tomb
  <1>2. DOMAIN s = 0 .. InitCap - 1 /\ \A i \in 0 .. InitCap - 1 : s[i] = Free
    OBVIOUS
  <1>3. s \in [0 .. InitCap - 1 -> Values \union Marks]
    BY DEF Marks
  <1>4. NewSet = [slots |-> s, count |-> 0, tombs |-> 0]
    BY DEF NewSet
  <1> HIDE DEF s
  <1>5. Table(hf, s, InitCap) /\ Contents(s) = {} /\ Tombs(s) = {}
    BY <1>1, <1>2, <1>3 DEF Table, Contents, Tombs, Marks
  <1>6. Cardinality(Contents(s)) = 0 /\ Cardinality(Tombs(s)) = 0
    BY <1>5, FS_EmptySet
  <1>7. NewSet = SetRecord(s)
    BY <1>4, <1>6 DEF SetRecord
  <1>8. Cardinality(Contents(s)) + Cardinality(Tombs(s)) < InitCap
    BY <1>1, <1>6 DEF Size
  <1> QED BY <1>1, <1>4, <1>5, <1>7, <1>8 DEF SetOk

LEMMA SetLookup ==
    ASSUME hash \in [Values -> Nat], SetOk(hash, c), NEW v \in Values
    PROVE  SetContains(v) <=> v \in Contents(c.slots)
  <1>0. PICK n \in Size : \E s :
            /\ c = SetRecord(s) /\ Table(hash, s, n)
            /\ Cardinality(Contents(s)) + Cardinality(Tombs(s)) < n
    BY DEF SetOk
  <1>1. PICK s :
            /\ c = SetRecord(s) /\ Table(hash, s, n)
            /\ Cardinality(Contents(s)) + Cardinality(Tombs(s)) < n
    BY <1>0
  <1>2. Roomy(s, n) /\ c.slots = s
    BY <1>1, FreeSlot DEF SetRecord
  <1>3. s[Probe(s, v, {Free, v})] = IF v \in Contents(s) THEN v ELSE Free
    BY <1>1, <1>2, LookupFinds
  <1>4. v # Free
    BY CollAssumption
  <1> QED BY <1>2, <1>3, <1>4 DEF SetContains

\* t is s with v put where p was.
PutAt(hf, n, s, v, p, t) ==
    /\ Table(hf, t, n) /\ Contents(t) = Contents(s) \union {v}
    /\ Cardinality(Contents(t)) = Cardinality(Contents(s)) + 1
    /\ Cardinality(Tombs(t)) = Cardinality(Tombs(s)) - (IF s[p] = Tomb THEN 1 ELSE 0)

\* A value put into a table that does not have it, at the first mark its
\* probe finds.
LEMMA SetPut ==
    ASSUME hash \in [Values -> Nat], NEW n \in Size, NEW s, Table(hash, s, n), NEW v \in Values,
           v \notin Contents(s), Cardinality(Contents(s)) + Cardinality(Tombs(s)) < n,
           NEW p, p = Probe(s, v, {Free, Tomb}), NEW t, t = [s EXCEPT ![p] = v]
    PROVE  PutAt(hash, n, s, v, p, t)
  <1>1. s \in [0 .. n - 1 -> Values \union Marks] /\ n \in Nat \ {0}
    BY DEF Table, Size
  <1>2. PICK f \in 0 .. n - 1 : s[f] = Free
    BY FreeSlot DEF Roomy
  <1>3. PICK i \in 0 .. n - 1 :
            /\ p = At(hash, n, v, i)
            /\ s[At(hash, n, v, i)] \in {Free, Tomb}
            /\ \A j \in 0 .. i - 1 : s[At(hash, n, v, j)] \notin {Free, Tomb}
    BY <1>1, <1>2, ProbeFinds
  <1>4. p \in 0 .. n - 1
    BY <1>3, AtIsSlot
  <1>5. s[p] \in Marks /\ Reaches(hash, s, n, v, p)
    BY <1>3 DEF Reaches, Marks
  <1>6. Holding(hash, t, n, Contents(s) \union {v}, Tombs(s) \ {p})
    BY <1>4, <1>5, PutKeeps
  <1>7. /\ IsFiniteSet(Contents(s)) /\ IsFiniteSet(Tombs(s)) /\ DOMAIN s = 0 .. n - 1
        /\ Cardinality(Contents(s)) \in Nat /\ Cardinality(Tombs(s)) \in Nat
    BY TableCounts DEF Counted
  <1>8. Cardinality(Contents(t)) = Cardinality(Contents(s)) + 1
    BY <1>6, <1>7, FS_AddElement DEF Holding
  <1>9. Cardinality(Tombs(t)) = Cardinality(Tombs(s)) - (IF s[p] = Tomb THEN 1 ELSE 0)
    <2>1. p \in Tombs(s) <=> s[p] = Tomb
      BY <1>4, <1>7 DEF Tombs
    <2>2. Tombs(t) = Tombs(s) \ {p}
      BY <1>6 DEF Holding
    <2>3. Cardinality(Tombs(s) \ {p}) =
            IF p \in Tombs(s) THEN Cardinality(Tombs(s)) - 1 ELSE Cardinality(Tombs(s))
      BY <1>7, FS_RemoveElement
    <2>4. Cardinality(Tombs(s)) - 0 = Cardinality(Tombs(s))
      BY <1>7
    <2> QED BY <2>1, <2>2, <2>3, <2>4
  <1> QED BY <1>6, <1>8, <1>9 DEF Holding, PutAt

LEMMA SetAddKeeps ==
    ASSUME hash \in [Values -> Nat], SetOk(hash, c), NEW v \in Values, SetAdd(v)
    PROVE  /\ SetOk(hash, c') /\ Contents(c'.slots) = Contents(c.slots) \union {v}
           /\ out' = <<"add", v, Text(v \notin Contents(c.slots))>>
  <1>0. PICK n \in Size : \E s :
            /\ c = SetRecord(s) /\ Table(hash, s, n)
            /\ Cardinality(Contents(s)) + Cardinality(Tombs(s)) < n
    BY DEF SetOk
  <1>1. PICK s :
            /\ c = SetRecord(s) /\ Table(hash, s, n)
            /\ Cardinality(Contents(s)) + Cardinality(Tombs(s)) < n
    BY <1>0
  <1>2. /\ c.slots = s /\ c.count = Cardinality(Contents(s)) /\ c.tombs = Cardinality(Tombs(s))
        /\ Cardinality(DOMAIN c.slots) = n /\ n \in Nat \ {0}
        /\ Cardinality(Contents(s)) \in Nat /\ Cardinality(Contents(s)) <= n /\ Cardinality(Tombs(s)) \in Nat
    BY <1>1, TableCounts DEF Counted, SetRecord, Size
  <1>3. SetContains(v) <=> v \in Contents(s)
    BY <1>2, SetLookup
  <1>4. out' = <<"add", v, Text(v \notin Contents(c.slots))>>
    BY <1>2, <1>3 DEF SetAdd
  <1>5. CASE SetContains(v)
    <2>1. c' = c
      BY <1>5 DEF SetAdd
    <2> QED BY <1>2, <1>3, <1>4, <1>5, <2>1
  <1>6. CASE ~SetContains(v)
    <2> DEFINE cap == Cardinality(DOMAIN c.slots)
               full == (c.count + c.tombs + 1) * 10 >= cap * 7
               grown == IF full THEN [c EXCEPT !.slots = Rehashed(c.slots, cap * 2), !.tombs = 0] ELSE c
               g == grown.slots
               p == Probe(g, v, {Free, Tomb})
               t == [g EXCEPT ![p] = v]
    <2>1. c' = [slots |-> t, count |-> grown.count + 1,
                tombs |-> grown.tombs - (IF g[p] = Tomb THEN 1 ELSE 0)]
      BY <1>6 DEF SetAdd
    <2>0. cap = n
      BY <1>2
    <2> HIDE DEF cap
    <2>2. \E m \in Size : /\ Table(hash, g, m) /\ Contents(g) = Contents(s)
                          /\ grown.count = Cardinality(Contents(g)) /\ grown.tombs = Cardinality(Tombs(g))
                          /\ Cardinality(Contents(g)) + Cardinality(Tombs(g)) + 1 < m
      <3>1. CASE full
        <4> DEFINE r == Rehashed(s, n * 2)
        <4>1. n * 2 \in Size /\ n <= n * 2
          BY <1>2 DEF Size
        <4>2. Holding(hash, r, n * 2, Contents(s), {})
          BY <1>1, <4>1, RehashedKeeps
        <4> HIDE DEF r
        <4>3. Table(hash, r, n * 2) /\ Contents(r) = Contents(s) /\ Tombs(r) = {} /\ Cardinality(Tombs(r)) = 0
          BY <4>2, FS_EmptySet DEF Holding
        <4>4. grown = [slots |-> r, count |-> Cardinality(Contents(s)), tombs |-> 0]
          BY <1>1, <1>2, <2>0, <3>1 DEF SetRecord, r
        <4> HIDE DEF full
        <4>5. Cardinality(Contents(s)) < n
          BY <1>1, <1>2
        <4>6. Cardinality(Contents(r)) + Cardinality(Tombs(r)) + 1 < n * 2
          BY <1>2, <4>3, <4>5
        <4> HIDE DEF grown
        <4> QED BY <4>1, <4>3, <4>4, <4>6
      <3>2. CASE ~full
        <4>1. c.count + c.tombs + 1 < n
          BY <1>2, <2>0, <3>2
        <4> QED BY <1>1, <1>2, <3>2, <4>1
      <3> QED BY <3>1, <3>2
    <2> HIDE DEF grown
    <2>3. PICK m \in Size : /\ Table(hash, g, m) /\ Contents(g) = Contents(s)
                            /\ grown.count = Cardinality(Contents(g)) /\ grown.tombs = Cardinality(Tombs(g))
                            /\ Cardinality(Contents(g)) + Cardinality(Tombs(g)) + 1 < m
      BY <2>2
    <2> HIDE DEF g
    <2>4. Cardinality(Contents(g)) \in Nat /\ Cardinality(Tombs(g)) \in Nat /\ m \in Nat
      BY <2>3, TableCounts DEF Counted, Size
    <2>5. /\ Table(hash, t, m) /\ Contents(t) = Contents(g) \union {v}
          /\ Cardinality(Contents(t)) = Cardinality(Contents(g)) + 1
          /\ Cardinality(Tombs(t)) = Cardinality(Tombs(g)) - (IF g[p] = Tomb THEN 1 ELSE 0)
      <3>1. Cardinality(Contents(g)) + Cardinality(Tombs(g)) < m /\ v \notin Contents(g)
        BY <1>3, <1>6, <2>3, <2>4
      <3>2. p = Probe(g, v, {Free, Tomb}) /\ t = [g EXCEPT ![p] = v]
        OBVIOUS
      <3> HIDE DEF t, p
      <3>3. PutAt(hash, m, g, v, p, t)
        BY <2>3, <3>1, <3>2, SetPut
      <3> QED BY <3>3 DEF PutAt
    <2> HIDE DEF t, p
    <2>6. c' = SetRecord(t)
      BY <2>1, <2>3, <2>5 DEF SetRecord
    <2>7. Cardinality(Contents(t)) + Cardinality(Tombs(t)) < m
      BY <2>3, <2>4, <2>5
    <2>8. c'.slots = t
      BY <2>1
    <2> QED BY <1>2, <1>4, <2>3, <2>5, <2>6, <2>7, <2>8 DEF SetOk
  <1> QED BY <1>5, <1>6

LEMMA SetRemoveKeeps ==
    ASSUME hash \in [Values -> Nat], SetOk(hash, c), NEW v \in Values, SetRemove(v)
    PROVE  /\ SetOk(hash, c') /\ Contents(c'.slots) = Contents(c.slots) \ {v}
           /\ out' = <<"remove", v, Text(v \in Contents(c.slots))>>
  <1>0. PICK n \in Size : \E s :
            /\ c = SetRecord(s) /\ Table(hash, s, n)
            /\ Cardinality(Contents(s)) + Cardinality(Tombs(s)) < n
    BY DEF SetOk
  <1>1. PICK s :
            /\ c = SetRecord(s) /\ Table(hash, s, n)
            /\ Cardinality(Contents(s)) + Cardinality(Tombs(s)) < n
    BY <1>0
  <1>2. c.slots = s /\ c.count = Cardinality(Contents(s)) /\ c.tombs = Cardinality(Tombs(s))
    BY <1>1 DEF SetRecord
  <1>3. SetContains(v) <=> v \in Contents(s)
    BY <1>2, SetLookup
  <1>4. out' = <<"remove", v, Text(v \in Contents(c.slots))>>
    BY <1>2, <1>3 DEF SetRemove, Text
  <1>5. CASE ~SetContains(v)
    <2>1. c' = c
      BY <1>5 DEF SetRemove
    <2> QED BY <1>2, <1>3, <1>4, <1>5, <2>1
  <1>6. CASE SetContains(v)
    <2> DEFINE p == Probe(s, v, {Free, v})
               t == [s EXCEPT ![p] = Tomb]
    <2>1. c' = [slots |-> t, count |-> c.count - 1, tombs |-> c.tombs + 1]
      BY <1>2, <1>6 DEF SetRemove, Removed
    <2>2. p \in 0 .. n - 1 /\ s[p] = v
      <3>1. Roomy(s, n)
        BY <1>1, FreeSlot
      <3> QED BY <1>1, <1>3, <1>6, <3>1, LookupFinds
    <2> HIDE DEF p
    <2>3. Holding(hash, t, n, Contents(s) \ {v}, Tombs(s) \union {p})
      <3>1. t = [s EXCEPT ![p] = Tomb]
        OBVIOUS
      <3> HIDE DEF t
      <3> QED BY <1>1, <2>2, <3>1, BuryKeeps
    <2>4. /\ IsFiniteSet(Contents(s)) /\ IsFiniteSet(Tombs(s)) /\ DOMAIN s = 0 .. n - 1 /\ n \in Nat
          /\ Cardinality(Contents(s)) \in Nat /\ Cardinality(Tombs(s)) \in Nat
      BY <1>1, TableCounts DEF Counted, Size
    <2>5. Tomb \notin Values /\ p \notin Tombs(s)
      BY <2>2, CollAssumption DEF Tombs
    <2> HIDE DEF t
    <2>6. Cardinality(Contents(t)) = Cardinality(Contents(s)) - 1
      BY <1>3, <1>6, <2>3, <2>4, FS_RemoveElement DEF Holding
    <2>7. Cardinality(Tombs(t)) = Cardinality(Tombs(s)) + 1
      BY <2>3, <2>4, <2>5, FS_AddElement DEF Holding
    <2>8. c' = SetRecord(t)
      BY <1>2, <2>1, <2>6, <2>7 DEF SetRecord
    <2>9. Cardinality(Contents(t)) + Cardinality(Tombs(t)) < n
      BY <1>1, <2>4, <2>6, <2>7
    <2>10. c'.slots = t /\ Table(hash, t, n) /\ Contents(t) = Contents(s) \ {v}
      BY <2>1, <2>3 DEF Holding
    <2> QED BY <1>2, <1>4, <2>8, <2>9, <2>10 DEF SetOk
  <1> QED BY <1>5, <1>6

LEMMA SetHasKeeps ==
    ASSUME hash \in [Values -> Nat], SetOk(hash, c), NEW v \in Values, SetHas(v)
    PROVE  c' = c /\ out' = <<"has", v, Text(v \in Contents(c.slots))>>
  BY SetLookup DEF SetHas, Text

----------------------------------------------------------------------------
(* MAP: the hash table *)

HashRecord(s, f) == [slots |-> s, value |-> f, count |-> Cardinality(Contents(s))]

\* A table without tombstones and with a free slot, and a value for every key.
HashTable(hf, s, f, n) ==
    /\ Table(hf, s, n) /\ Tombs(s) = {} /\ Cardinality(Contents(s)) < n
    /\ f \in [Values -> Values \union {NoValue}]

HashOk(hf, r) == \E n \in Size : \E s, f : r = HashRecord(s, f) /\ HashTable(hf, s, f, n)

HashView(r) == [k \in Contents(r.slots) |-> r.value[k]]

\* The view with k bound to v.
Bound(view, k, v) == [x \in DOMAIN view \union {k} |-> IF x = k THEN v ELSE view[x]]

LEMMA HashRoomy ==
    ASSUME NEW hf, NEW n \in Size, NEW s, NEW f, HashTable(hf, s, f, n)
    PROVE  Roomy(s, n) /\ Counted(s, n) /\ Table(hf, s, n)
  <1>1. Table(hf, s, n) /\ Tombs(s) = {} /\ Cardinality(Contents(s)) < n
    BY DEF HashTable
  <1>2. Counted(s, n)
    BY <1>1, TableCounts
  <1>3. Cardinality(Tombs(s)) = 0
    BY <1>1, FS_EmptySet
  <1>4. Cardinality(Contents(s)) + Cardinality(Tombs(s)) < n
    BY <1>1, <1>2, <1>3 DEF Counted
  <1>5. Roomy(s, n)
    BY <1>1, <1>4, FreeSlot
  <1> QED BY <1>1, <1>2, <1>5

LEMMA NewHashOk ==
    ASSUME NEW hf \in [Values -> Nat]
    PROVE  HashOk(hf, NewHash) /\ Contents(NewHash.slots) = {}
  <1> DEFINE s == [i \in 0 .. InitCap - 1 |-> Free]
             f == [k \in Values |-> NoValue]
  <1>1. InitCap \in Size /\ Free \notin Values /\ Free # Tomb
    BY CollAssumption DEF Size, Free, Tomb
  <1>2. DOMAIN s = 0 .. InitCap - 1 /\ \A i \in 0 .. InitCap - 1 : s[i] = Free
    OBVIOUS
  <1>3. s \in [0 .. InitCap - 1 -> Values \union Marks] /\ f \in [Values -> Values \union {NoValue}]
    BY DEF Marks
  <1>4. NewHash = [slots |-> s, value |-> f, count |-> 0]
    BY DEF NewHash
  <1> HIDE DEF s, f
  <1>5. Table(hf, s, InitCap) /\ Contents(s) = {} /\ Tombs(s) = {}
    BY <1>1, <1>2, <1>3 DEF Table, Contents, Tombs, Marks
  <1>6. Cardinality(Contents(s)) = 0
    BY <1>5, FS_EmptySet
  <1>7. NewHash = HashRecord(s, f)
    BY <1>4, <1>6 DEF HashRecord
  <1>8. HashTable(hf, s, f, InitCap)
    BY <1>1, <1>3, <1>5, <1>6 DEF HashTable, Size
  <1> QED BY <1>1, <1>4, <1>5, <1>7, <1>8 DEF HashOk

\* A table with the values of C and a slot for one value more.
RoomFor(s, f, n, C) == HashTable(hash, s, f, n) /\ Contents(s) = C /\ Cardinality(C) + 1 < n

LEMMA ThreeQuarters ==
    ASSUME NEW n \in Size
    PROVE  (n * 3) \div 4 \in Nat /\ (n * 3) \div 4 < n
  BY DEF Size

\* A table at three quarters doubles, so one more value leaves a slot free.
LEMMA HashGrows ==
    ASSUME hash \in [Values -> Nat], NEW n \in Size, NEW s, NEW f, HashTable(hash, s, f, n),
           NEW g, g = IF Cardinality(Contents(s)) >= (n * 3) \div 4 THEN Rehashed(s, n * 2) ELSE s
    PROVE  \E m \in Size : RoomFor(g, f, m, Contents(s))
  <1> DEFINE q == (n * 3) \div 4
             C == Contents(s)
  <1>1. q \in Nat /\ q < n
    BY ThreeQuarters
  <1>2. Table(hash, s, n) /\ Cardinality(C) \in Nat /\ Cardinality(C) < n
    BY HashRoomy DEF Counted, HashTable
  <1> HIDE DEF q, C
  <1>3. CASE Cardinality(C) >= q
    <2>1. g = Rehashed(s, n * 2)
      BY <1>3 DEF q, C
    <2> DEFINE m == n * 2
    <2>2. m \in Size /\ n <= m /\ Cardinality(C) + 1 < m
      BY <1>2 DEF Size
    <2> HIDE DEF m
    <2>3. Holding(hash, Rehashed(s, m), m, C, {})
      BY <1>2, <2>2, RehashedKeeps DEF C
    <2>4. Cardinality(C) < m
      BY <1>2, <2>2 DEF Size
    <2>5. g = Rehashed(s, m)
      BY <2>1 DEF m
    <2>6. f \in [Values -> Values \union {NoValue}]
      BY DEF HashTable
    <2>7. Table(hash, g, m) /\ Contents(g) = C /\ Tombs(g) = {}
      BY <2>3, <2>5 DEF Holding
    <2>8. HashTable(hash, g, f, m)
      BY <2>4, <2>6, <2>7 DEF HashTable
    <2> QED BY <2>2, <2>7, <2>8 DEF RoomFor, C
  <1>4. CASE ~ (Cardinality(C) >= q)
    <2>1. g = s
      BY <1>4 DEF q, C
    <2>2. Cardinality(C) + 1 < n
      BY <1>1, <1>2, <1>4 DEF Size
    <2> QED BY <2>1, <2>2 DEF RoomFor, C
  <1> QED BY <1>3, <1>4

LEMMA HashPutKeeps ==
    ASSUME hash \in [Values -> Nat], HashOk(hash, c), NEW k \in Values, NEW v \in Values, HashPut(k, v)
    PROVE  HashOk(hash, c') /\ HashView(c') = Bound(HashView(c), k, v) /\ out' = <<"put", k, v>>
  <1>0. PICK n \in Size : \E s, f : c = HashRecord(s, f) /\ HashTable(hash, s, f, n)
    BY DEF HashOk
  <1>1. PICK s, f : c = HashRecord(s, f) /\ HashTable(hash, s, f, n)
    BY <1>0
  <1> DEFINE C == Contents(s)
             g == IF Cardinality(C) >= (n * 3) \div 4 THEN Rehashed(s, n * 2) ELSE s
             p == Probe(g, k, {Free, k})
             t == [g EXCEPT ![p] = k]
             u == [f EXCEPT ![k] = v]
  <1>2. /\ c.slots = s /\ c.value = f /\ c.count = Cardinality(C) /\ Cardinality(DOMAIN c.slots) = n
        /\ Cardinality(C) \in Nat /\ IsFiniteSet(C) /\ f \in [Values -> Values \union {NoValue}]
    BY <1>1, HashRoomy DEF Counted, HashRecord, HashTable
  <1>3. c' = [slots |-> t, value |-> u, count |-> Cardinality(C) + (IF g[p] = Free THEN 1 ELSE 0)]
    BY <1>2 DEF HashPut
  <1> HIDE DEF C
  <1>4. PICK m \in Size : RoomFor(g, f, m, C)
    <2>1. g = IF Cardinality(Contents(s)) >= (n * 3) \div 4 THEN Rehashed(s, n * 2) ELSE s
      BY DEF C
    <2> HIDE DEF g
    <2>2. \E m \in Size : RoomFor(g, f, m, Contents(s))
      BY <1>1, <2>1, HashGrows
    <2> QED BY <2>2 DEF C
  <1> HIDE DEF g
  <1>5. HashTable(hash, g, f, m) /\ Contents(g) = C /\ Cardinality(C) + 1 < m
    BY <1>4 DEF RoomFor
  <1>6. Table(hash, g, m) /\ Tombs(g) = {} /\ Roomy(g, m)
    BY <1>5, HashRoomy DEF HashTable
  <1>7. p \in 0 .. m - 1 /\ g[p] = (IF k \in C THEN k ELSE Free) /\ Reaches(hash, g, m, k, p)
    BY <1>5, <1>6, LookupFinds
  <1>8. k # Free /\ DOMAIN g = 0 .. m - 1 /\ g \in [0 .. m - 1 -> Values \union Marks]
    BY <1>6, CollAssumption DEF Table
  <1> HIDE DEF p
  <1>9. /\ Table(hash, t, m) /\ Contents(t) = C \union {k} /\ Tombs(t) = {}
        /\ c'.count = Cardinality(C \union {k}) /\ Cardinality(C \union {k}) < m
    <2>1. CASE k \in C
      <3>1. t = g
        BY <1>7, <1>8, <2>1
      <3>2. C \union {k} = C /\ g[p] # Free
        BY <1>7, <1>8, <2>1
      <3>3. c'.count = Cardinality(C)
        BY <1>2, <1>3, <3>2
      <3> HIDE DEF t
      <3>4. Cardinality(C) < m
        BY <1>5 DEF HashTable
      <3> QED BY <1>5, <1>6, <3>1, <3>2, <3>3, <3>4
    <2>2. CASE k \notin C
      <3>1. g[p] = Free /\ g[p] \in Marks
        BY <1>7, <2>2 DEF Marks
      <3>2. Holding(hash, t, m, C \union {k}, Tombs(g) \ {p})
        <4>1. t = [g EXCEPT ![p] = k]
          OBVIOUS
        <4> HIDE DEF t
        <4> QED BY <1>5, <1>6, <1>7, <2>2, <3>1, <4>1, PutKeeps
      <3>3. Cardinality(C \union {k}) = Cardinality(C) + 1
        BY <1>2, <2>2, FS_AddElement
      <3>4. c'.count = Cardinality(C) + 1
        BY <1>3, <3>1
      <3> HIDE DEF t
      <3> QED BY <1>5, <1>6, <3>2, <3>3, <3>4 DEF Holding
    <2> QED BY <2>1, <2>2
  <1>10. u \in [Values -> Values \union {NoValue}] /\ \A x \in Values : u[x] = IF x = k THEN v ELSE f[x]
    BY <1>2
  <1> HIDE DEF t, u
  <1>11. c' = HashRecord(t, u) /\ c'.slots = t /\ c'.value = u
    BY <1>3, <1>9 DEF HashRecord
  <1>12. HashTable(hash, t, u, m)
    BY <1>9, <1>10 DEF HashTable
  <1>13. C \subseteq Values
    BY <1>1, HashRoomy DEF Counted, C
  <1>14. HashView(c) = [x \in C |-> f[x]]
    BY <1>2 DEF HashView, C
  <1>15. HashView(c') = [x \in C \union {k} |-> u[x]]
    BY <1>9, <1>11 DEF HashView
  <1>16. HashView(c') = Bound(HashView(c), k, v)
    BY <1>10, <1>13, <1>14, <1>15 DEF Bound
  <1>17. out' = <<"put", k, v>>
    BY DEF HashPut
  <1> QED BY <1>11, <1>12, <1>16, <1>17 DEF HashOk

LEMMA HashGetKeeps ==
    ASSUME hash \in [Values -> Nat], HashOk(hash, c), NEW k \in Values, HashGet(k)
    PROVE  /\ c' = c
           /\ out' = <<"get", k, IF k \in DOMAIN HashView(c) THEN HashView(c)[k] ELSE NoValue>>
  <1>0. PICK n \in Size : \E s, f : c = HashRecord(s, f) /\ HashTable(hash, s, f, n)
    BY DEF HashOk
  <1>1. PICK s, f : c = HashRecord(s, f) /\ HashTable(hash, s, f, n)
    BY <1>0
  <1>2. c.slots = s /\ c.value = f
    BY <1>1 DEF HashRecord
  <1>3. s[Probe(s, k, {Free, k})] = IF k \in Contents(s) THEN k ELSE Free
    BY <1>1, HashRoomy, LookupFinds
  <1>4. k # Free
    BY CollAssumption
  <1>5. DOMAIN HashView(c) = Contents(s) /\ \A x \in Contents(s) : HashView(c)[x] = f[x]
    BY <1>2 DEF HashView
  <1> QED BY <1>2, <1>3, <1>4, <1>5 DEF HashGet

----------------------------------------------------------------------------
(* MAP: the pair list *)

\* A list of m pairs.
Pairs(r, m) == m \in Nat /\ r \in Seq(Values) /\ Len(r) = 2 * m

KeysOf(r, m) == {r[2 * i - 1] : i \in 1 .. m}

\* The first pair with key k is the i-th.
Found(r, m, k, i) ==
    i \in 1 .. m /\ r[2 * i - 1] = k /\ \A j \in 1 .. m : j < i => r[2 * j - 1] # k

PairOf(r, k) ==
    LET hits == {i \in 1 .. Len(r) : i % 2 = 1 /\ r[i] = k}
    IN IF hits = {} THEN Len(r) + 1 ELSE CHOOSE i \in hits : \A j \in hits : i <= j

PairsView(r) == [k \in {r[2 * i - 1] : i \in 1 .. Len(r) \div 2} |-> r[PairOf(r, k) + 1]]

LEMMA OddPlaces ==
    ASSUME NEW m \in Nat, NEW x \in 1 .. 2 * m, x % 2 = 1
    PROVE  \E i \in 1 .. m : x = 2 * i - 1
  <1> DEFINE i == (x + 1) \div 2
  <1>1. i \in 1 .. m /\ x = 2 * i - 1
    OBVIOUS
  <1> QED BY <1>1

LEMMA PlaceOdd ==
    ASSUME NEW m \in Nat, NEW i \in 1 .. m
    PROVE  2 * i - 1 \in 1 .. 2 * m /\ (2 * i - 1) % 2 = 1 /\ 2 * i \in 1 .. 2 * m
  OBVIOUS

LEMMA FirstPair ==
    ASSUME NEW r, NEW m, Pairs(r, m), NEW k \in KeysOf(r, m)
    PROVE  \E i : Found(r, m, k, i)
  <1> DEFINE S == {i \in 1 .. m : r[2 * i - 1] = k}
  <1>1. S \in SUBSET Nat /\ S # {}
    BY DEF KeysOf
  <1>2. PICK i \in S : \A j \in S : i <= j
    BY <1>1, LeastNatural
  <1>3. ASSUME NEW j \in 1 .. m, j < i PROVE r[2 * j - 1] # k
    <2>1. i \in 1 .. m /\ j \notin S
      BY <1>2, <1>3
    <2> QED BY <2>1
  <1> QED BY <1>2, <1>3 DEF Found

LEMMA PairIs ==
    ASSUME NEW r, NEW m, Pairs(r, m), NEW k, NEW i, Found(r, m, k, i)
    PROVE  PairOf(r, k) = 2 * i - 1 /\ k \in KeysOf(r, m)
  <1> DEFINE hits == {x \in 1 .. Len(r) : x % 2 = 1 /\ r[x] = k}
             f == 2 * i - 1
             ch == CHOOSE x \in hits : \A y \in hits : x <= y
  <1>1. i \in 1 .. m /\ m \in Nat /\ Len(r) = 2 * m /\ r[f] = k
    BY DEF Found, Pairs
  <1>2. f \in hits
    BY <1>1, PlaceOdd
  <1>3. ASSUME NEW y \in hits PROVE f <= y
    <2>1. PICK j \in 1 .. m : y = 2 * j - 1
      BY <1>1, OddPlaces
    <2>2. r[2 * j - 1] = k
      BY <2>1
    <2>3. ~ (j < i)
      BY <2>2 DEF Found
    <2> QED BY <1>1, <2>1, <2>3
  <1>4. ch \in hits /\ \A y \in hits : ch <= y
    <2> HIDE DEF hits, f
    <2> QED BY <1>2, <1>3
  <1>5. PairOf(r, k) = ch
    <2>1. hits # {}
      BY <1>2
    <2> QED BY <2>1 DEF PairOf
  <1> HIDE DEF ch
  <1>6. ch = f
    <2>1. ch <= f /\ f <= ch /\ ch \in Int /\ f \in Int
      BY <1>1, <1>2, <1>3, <1>4
    <2> QED BY <2>1
  <1> QED BY <1>1, <1>5, <1>6 DEF KeysOf

LEMMA PairMissing ==
    ASSUME NEW r, NEW m, Pairs(r, m), NEW k, k \notin KeysOf(r, m)
    PROVE  PairOf(r, k) = Len(r) + 1
  <1> DEFINE hits == {x \in 1 .. Len(r) : x % 2 = 1 /\ r[x] = k}
  <1>1. ASSUME NEW x \in hits PROVE FALSE
    <2>1. PICK j \in 1 .. m : x = 2 * j - 1
      BY OddPlaces DEF Pairs
    <2> QED BY <2>1 DEF KeysOf
  <1>2. hits = {}
    BY <1>1
  <1> QED BY <1>2 DEF PairOf

LEMMA PairsDomain ==
    ASSUME NEW r, NEW m, Pairs(r, m)
    PROVE  PairsView(r) = [x \in KeysOf(r, m) |-> r[PairOf(r, x) + 1]]
  <1>1. Len(r) \div 2 = m
    BY DEF Pairs
  <1> QED BY <1>1 DEF PairsView, KeysOf

\* What r has for k.
LEMMA PairsAnswer ==
    ASSUME NEW r, NEW m, Pairs(r, m), NEW k, NEW i, Found(r, m, k, i)
    PROVE  k \in DOMAIN PairsView(r) /\ PairsView(r)[k] = r[2 * i]
  <1>1. PairOf(r, k) = 2 * i - 1 /\ k \in KeysOf(r, m)
    BY PairIs
  <1>2. (2 * i - 1) + 1 = 2 * i
    BY DEF Found, Pairs
  <1>3. PairsView(r)[k] = r[PairOf(r, k) + 1]
    BY <1>1, PairsDomain
  <1>4. k \in DOMAIN PairsView(r)
    BY <1>1, PairsDomain
  <1> QED BY <1>1, <1>2, <1>3, <1>4

PairsOk(r) == \E m : Pairs(r, m)

\* t is a list of m pairs that binds k to v and is otherwise r.
Rebound(t, m, r, k, v) == Pairs(t, m) /\ PairsView(t) = Bound(PairsView(r), k, v)

\* Replacing the value of the i-th pair.
LEMMA PairReplaced ==
    ASSUME NEW r, NEW m, Pairs(r, m), NEW k, NEW i, Found(r, m, k, i), NEW v \in Values,
           NEW t, t = [r EXCEPT ![2 * i] = v]
    PROVE  Rebound(t, m, r, k, v)
  <1>1. m \in Nat /\ r \in Seq(Values) /\ Len(r) = 2 * m /\ i \in 1 .. m
    BY DEF Pairs, Found
  <1>2. 2 * i \in 1 .. Len(r)
    BY <1>1, PlaceOdd
  <1>3. /\ t \in Seq(Values) /\ Len(t) = 2 * m
        /\ \A x \in 1 .. 2 * m : t[x] = IF x = 2 * i THEN v ELSE r[x]
    BY <1>1, <1>2
  <1>4. Pairs(t, m)
    BY <1>1, <1>3 DEF Pairs
  <1>5. ASSUME NEW j \in 1 .. m PROVE t[2 * j - 1] = r[2 * j - 1] /\ t[2 * j] = IF j = i THEN v ELSE r[2 * j]
    <2>1. 2 * j - 1 \in 1 .. 2 * m /\ 2 * j \in 1 .. 2 * m /\ 2 * j - 1 # 2 * i
      BY <1>1, PlaceOdd
    <2>2. 2 * j = 2 * i <=> j = i
      BY <1>1
    <2> QED BY <1>3, <2>1, <2>2
  <1>6. KeysOf(t, m) = KeysOf(r, m) /\ k \in KeysOf(r, m)
    BY <1>5, PairIs DEF KeysOf
  <1>7. ASSUME NEW x \in KeysOf(r, m)
        PROVE  t[PairOf(t, x) + 1] = IF x = k THEN v ELSE r[PairOf(r, x) + 1]
    <2>1. PICK j : Found(r, m, x, j)
      BY FirstPair
    <2>2. j \in 1 .. m
      BY <2>1 DEF Found
    <2>3. Found(t, m, x, j)
      BY <1>5, <2>1 DEF Found
    <2>4. PairOf(r, x) = 2 * j - 1 /\ PairOf(t, x) = 2 * j - 1
      BY <1>4, <2>1, <2>3, PairIs
    <2>5. (2 * j - 1) + 1 = 2 * j
      BY <2>2
    <2>6. j = i <=> x = k
      <3>1. ASSUME j = i PROVE x = k
        BY <2>1, <3>1 DEF Found
      <3>2. ASSUME x = k PROVE j = i
        <4>1. 2 * i - 1 = 2 * j - 1
          BY <2>4, <3>2, PairIs
        <4> QED BY <1>1, <2>2, <4>1
      <3> QED BY <3>1, <3>2
    <2> QED BY <1>5, <2>2, <2>4, <2>5, <2>6
  <1>8. PairsView(r) = [x \in KeysOf(r, m) |-> r[PairOf(r, x) + 1]]
    BY PairsDomain
  <1>9. PairsView(t) = [x \in KeysOf(r, m) |-> t[PairOf(t, x) + 1]]
    <2>1. PairsView(t) = [x \in KeysOf(t, m) |-> t[PairOf(t, x) + 1]]
      <3>1. Len(t) \div 2 = m
        BY <1>4 DEF Pairs
      <3> QED BY <3>1 DEF PairsView, KeysOf
    <2> QED BY <1>6, <2>1
  <1>10. KeysOf(r, m) \union {k} = KeysOf(r, m)
    BY <1>6
  <1>11. PairsView(t) = [x \in KeysOf(r, m) |-> IF x = k THEN v ELSE r[PairOf(r, x) + 1]]
    BY <1>7, <1>9
  <1> QED BY <1>4, <1>8, <1>10, <1>11 DEF Bound, Rebound

\* Appending a pair for a key the list does not have.
LEMMA PairAppended ==
    ASSUME NEW r, NEW m, Pairs(r, m), NEW k \in Values, k \notin KeysOf(r, m), NEW v \in Values,
           NEW t, t = r \o <<k, v>>
    PROVE  Rebound(t, m + 1, r, k, v)
  <1>1. m \in Nat /\ r \in Seq(Values) /\ Len(r) = 2 * m
    BY DEF Pairs
  <1>2. <<k, v>> \in Seq(Values) /\ Len(<<k, v>>) = 2
    OBVIOUS
  <1>3. /\ t \in Seq(Values) /\ Len(t) = 2 * m + 2
        /\ \A x \in 1 .. 2 * m : t[x] = r[x]
        /\ t[2 * m + 1] = k /\ t[2 * m + 2] = v
    <2>1. t \in Seq(Values) /\ Len(t) = Len(r) + Len(<<k, v>>)
          /\ \A x \in 1 .. Len(r) + Len(<<k, v>>) : t[x] = IF x <= Len(r) THEN r[x] ELSE <<k, v>>[x - Len(r)]
      BY <1>1, <1>2, ConcatProperties
    <2> QED BY <1>1, <1>2, <2>1
  <1>4. m + 1 \in Nat /\ 2 * (m + 1) = 2 * m + 2 /\ 2 * (m + 1) - 1 = 2 * m + 1 /\ m + 1 \in 1 .. m + 1
    BY <1>1
  <1>5. Pairs(t, m + 1)
    BY <1>3, <1>4 DEF Pairs
  <1>6. ASSUME NEW j \in 1 .. m PROVE t[2 * j - 1] = r[2 * j - 1] /\ t[2 * j] = r[2 * j] /\ j \in 1 .. m + 1
    <2>1. 2 * j - 1 \in 1 .. 2 * m /\ 2 * j \in 1 .. 2 * m
      BY <1>1, PlaceOdd
    <2>2. j \in 1 .. m + 1
      BY <1>1
    <2>3. t[2 * j - 1] = r[2 * j - 1]
      BY <1>3, <2>1
    <2>4. t[2 * j] = r[2 * j]
      BY <1>3, <2>1
    <2> QED BY <2>2, <2>3, <2>4
  <1>7. \A j : j \in 1 .. m + 1 <=> j \in 1 .. m \/ j = m + 1
    BY <1>1
  <1>8. KeysOf(t, m + 1) = KeysOf(r, m) \union {k}
    <2>1. ASSUME NEW j \in 1 .. m + 1 PROVE t[2 * j - 1] \in KeysOf(r, m) \union {k}
      <3>1. CASE j \in 1 .. m
        BY <1>6, <3>1 DEF KeysOf
      <3>2. CASE j = m + 1
        BY <1>3, <1>4, <3>2
      <3> QED BY <1>7, <3>1, <3>2
    <2>2. ASSUME NEW j \in 1 .. m PROVE r[2 * j - 1] \in KeysOf(t, m + 1)
      <3>1. t[2 * j - 1] \in KeysOf(t, m + 1)
        BY <1>6 DEF KeysOf
      <3> QED BY <1>6, <3>1
    <2>3. k \in KeysOf(t, m + 1)
      <3>1. t[2 * (m + 1) - 1] \in KeysOf(t, m + 1)
        BY <1>4 DEF KeysOf
      <3> QED BY <1>3, <1>4, <3>1
    <2>4. KeysOf(t, m + 1) \subseteq KeysOf(r, m) \union {k}
      BY <2>1 DEF KeysOf
    <2>5. KeysOf(r, m) \subseteq KeysOf(t, m + 1)
      BY <2>2 DEF KeysOf
    <2> QED BY <2>3, <2>4, <2>5
  <1>9. ASSUME NEW x \in KeysOf(r, m)
        PROVE  t[PairOf(t, x) + 1] = r[PairOf(r, x) + 1]
    <2>1. PICK j : Found(r, m, x, j)
      BY FirstPair
    <2>2. j \in 1 .. m
      BY <2>1 DEF Found
    <2>3. ASSUME NEW l \in 1 .. m + 1, l < j PROVE t[2 * l - 1] # x
      <3>1. l \in 1 .. m
        BY <1>1, <2>2, <2>3
      <3> QED BY <1>6, <2>1, <2>3, <3>1 DEF Found
    <2>4. Found(t, m + 1, x, j)
      BY <1>6, <2>1, <2>2, <2>3 DEF Found
    <2>5. PairOf(r, x) = 2 * j - 1 /\ PairOf(t, x) = 2 * j - 1
      BY <1>5, <2>1, <2>4, PairIs
    <2>6. (2 * j - 1) + 1 = 2 * j
      BY <2>2
    <2> QED BY <1>6, <2>2, <2>5, <2>6
  <1>10. t[PairOf(t, k) + 1] = v
    <2>1. ASSUME NEW l \in 1 .. m + 1, l < m + 1 PROVE t[2 * l - 1] # k
      <3>1. l \in 1 .. m
        BY <1>1, <2>1
      <3> QED BY <1>6, <3>1 DEF KeysOf
    <2>2. Found(t, m + 1, k, m + 1)
      BY <1>3, <1>4, <2>1 DEF Found
    <2>3. PairOf(t, k) = 2 * m + 1
      BY <1>4, <1>5, <2>2, PairIs
    <2>4. (2 * m + 1) + 1 = 2 * m + 2
      BY <1>1
    <2> QED BY <1>3, <2>3, <2>4
  <1>11. PairsView(r) = [x \in KeysOf(r, m) |-> r[PairOf(r, x) + 1]]
    BY PairsDomain
  <1>12. PairsView(t) = [x \in KeysOf(r, m) \union {k} |-> t[PairOf(t, x) + 1]]
    <2> DEFINE S == {t[2 * i - 1] : i \in 1 .. Len(t) \div 2}
    <2>1. Len(t) \div 2 = m + 1
      BY <1>1, <1>3
    <2>2. S = KeysOf(r, m) \union {k}
      BY <1>8, <2>1 DEF KeysOf
    <2>3. PairsView(t) = [x \in S |-> t[PairOf(t, x) + 1]]
      BY DEF PairsView
    <2> HIDE DEF S
    <2> QED BY <2>2, <2>3
  <1>13. PairsView(t) = [x \in KeysOf(r, m) \union {k} |-> IF x = k THEN v ELSE r[PairOf(r, x) + 1]]
    BY <1>9, <1>10, <1>12
  <1> QED BY <1>5, <1>11, <1>13 DEF Bound, Rebound

LEMMA PairsPutKeeps ==
    ASSUME PairsOk(c), NEW k \in Values, NEW v \in Values, PairsPut(k, v)
    PROVE  PairsOk(c') /\ PairsView(c') = Bound(PairsView(c), k, v) /\ out' = <<"put", k, v>>
  <1>1. PICK m : Pairs(c, m)
    BY DEF PairsOk
  <1>2. PairAt(k) = PairOf(c, k)
    BY DEF PairAt, PairOf
  <1>3. m \in Nat /\ Len(c) = 2 * m
    BY <1>1 DEF Pairs
  <1>4. out' = <<"put", k, v>>
    BY DEF PairsPut
  <1>5. CASE k \in KeysOf(c, m)
    <2>1. PICK i : Found(c, m, k, i)
      BY <1>1, <1>5, FirstPair
    <2>2. PairOf(c, k) = 2 * i - 1 /\ i \in 1 .. m
      BY <1>1, <2>1, PairIs DEF Found
    <2>3. 2 * i - 1 <= Len(c) /\ (2 * i - 1) + 1 = 2 * i
      BY <1>3, <2>2
    <2>4. c' = [c EXCEPT ![2 * i] = v]
      BY <1>2, <2>2, <2>3 DEF PairsPut
    <2>5. Rebound(c', m, c, k, v)
      BY <1>1, <2>1, <2>4, PairReplaced
    <2> QED BY <1>4, <2>5 DEF PairsOk, Rebound
  <1>6. CASE k \notin KeysOf(c, m)
    <2>1. ~ (PairOf(c, k) <= Len(c))
      BY <1>1, <1>3, <1>6, PairMissing
    <2>2. c' = c \o <<k, v>>
      BY <1>2, <2>1 DEF PairsPut
    <2>3. Rebound(c', m + 1, c, k, v)
      BY <1>1, <1>6, <2>2, PairAppended
    <2> QED BY <1>4, <2>3 DEF PairsOk, Rebound
  <1> QED BY <1>5, <1>6

LEMMA PairsGetKeeps ==
    ASSUME PairsOk(c), NEW k \in Values, PairsGet(k)
    PROVE  /\ c' = c
           /\ out' = <<"get", k, IF k \in DOMAIN PairsView(c) THEN PairsView(c)[k] ELSE NoValue>>
  <1>1. PICK m : Pairs(c, m)
    BY DEF PairsOk
  <1>2. PairAt(k) = PairOf(c, k)
    BY DEF PairAt, PairOf
  <1>3. m \in Nat /\ Len(c) = 2 * m
    BY <1>1 DEF Pairs
  <1>4. DOMAIN PairsView(c) = KeysOf(c, m)
    BY <1>1, PairsDomain
  <1>5. CASE k \in KeysOf(c, m)
    <2>1. PICK i : Found(c, m, k, i)
      BY <1>1, <1>5, FirstPair
    <2>2. PairOf(c, k) = 2 * i - 1 /\ i \in 1 .. m
      BY <1>1, <2>1, PairIs DEF Found
    <2>3. PairOf(c, k) <= Len(c) /\ PairOf(c, k) + 1 = 2 * i
      BY <1>3, <2>2
    <2>4. PairsView(c)[k] = c[2 * i]
      BY <1>1, <2>1, PairsAnswer
    <2> QED BY <1>2, <1>4, <1>5, <2>3, <2>4 DEF PairsGet
  <1>6. CASE k \notin KeysOf(c, m)
    <2>1. ~ (PairOf(c, k) <= Len(c))
      BY <1>1, <1>3, <1>6, PairMissing
    <2> QED BY <1>2, <1>4, <1>6, <2>1 DEF PairsGet
  <1> QED BY <1>5, <1>6

----------------------------------------------------------------------------
(* Queue and Stack *)

LEMMA CellsInSeq ==
    ASSUME NEW k \in Nat, NEW S, NEW f \in [1 .. k -> S]
    PROVE  f \in Seq(S) /\ Len(f) = k
  OBVIOUS

LEMMA AppendIs ==
    ASSUME NEW S, NEW w \in Seq(S), NEW v \in S, NEW u \in Seq(S), Len(u) = Len(w) + 1,
           \A i \in 1 .. Len(w) : u[i] = w[i], u[Len(w) + 1] = v
    PROVE  u = Append(w, v)
  <1> DEFINE a == Append(w, v)
  <1>1. a \in Seq(S) /\ Len(a) = Len(w) + 1 /\ (\A i \in 1 .. Len(w) : a[i] = w[i]) /\ a[Len(w) + 1] = v
    BY AppendProperties
  <1> HIDE DEF a
  <1>2. Len(w) \in Nat
    BY LenProperties
  <1>3. \A i \in 1 .. Len(u) : u[i] = a[i]
    BY <1>1, <1>2
  <1>4. u = a
    BY <1>1, <1>3, SeqEqual
  <1> QED BY <1>4 DEF a

LEMMA TailIs ==
    ASSUME NEW S, NEW w \in Seq(S), w # <<>>, NEW u \in Seq(S), Len(u) = Len(w) - 1,
           \A i \in 1 .. Len(u) : u[i] = w[i + 1]
    PROVE  u = Tail(w)
  <1>1. Tail(w) \in Seq(S) /\ Len(Tail(w)) = Len(w) - 1 /\ \A i \in 1 .. Len(Tail(w)) : Tail(w)[i] = w[i + 1]
    BY HeadTailProperties
  <1> QED BY <1>1, SeqEqual

LEMMA FrontIs ==
    ASSUME NEW S, NEW w \in Seq(S), w # <<>>, NEW u \in Seq(S), Len(u) = Len(w) - 1,
           \A i \in 1 .. Len(u) : u[i] = w[i]
    PROVE  u = SubSeq(w, 1, Len(w) - 1)
  <1>1. Front(w) \in Seq(S) /\ Len(Front(w)) = Len(w) - 1 /\ \A i \in 1 .. Len(w) - 1 : Front(w)[i] = w[i]
    BY FrontProperties
  <1>2. u = Front(w)
    BY <1>1, SeqEqual
  <1> QED BY <1>2 DEF Front

Cells == Values \union {NoValue}

\* A ring of n cells with k values from cell d on.
Line(r, n, b, d, k) ==
    /\ n \in Size /\ b \in [0 .. n - 1 -> Cells] /\ d \in 0 .. n - 1 /\ k \in 0 .. n
    /\ r = [buf |-> b, head |-> d, count |-> k]

QueueOk(r) == \E n, b, d, k : Line(r, n, b, d, k)

QueueView(r) == [i \in 1 .. r.count |-> r.buf[(r.head + i - 1) % Cardinality(DOMAIN r.buf)]]

\* w is the k values of the ring b from cell d on.
Seen(w, n, b, d, k) ==
    w \in Seq(Cells) /\ Len(w) = k /\ \A i \in 1 .. k : w[i] = b[((d + i) - 1) % n]

LEMMA QueueSees ==
    ASSUME NEW r, NEW n, NEW b, NEW d, NEW k, Line(r, n, b, d, k)
    PROVE  Seen(QueueView(r), n, b, d, k) /\ Cardinality(DOMAIN r.buf) = n
  <1>1. /\ n \in Nat \ {0} /\ b \in [0 .. n - 1 -> Cells] /\ d \in 0 .. n - 1 /\ k \in 0 .. n
        /\ r = [buf |-> b, head |-> d, count |-> k]
    BY DEF Line, Size
  <1>2. Cardinality(DOMAIN b) = n
    BY <1>1, Capacity
  <1> DEFINE f == [i \in 1 .. k |-> b[((d + i) - 1) % n]]
  <1>3. QueueView(r) = f
    BY <1>1, <1>2 DEF QueueView
  <1>4. ASSUME NEW i \in 1 .. k PROVE ((d + i) - 1) % n \in 0 .. n - 1
    <2> DEFINE a == (d + i) - 1
    <2>1. a \in Int
      BY <1>1
    <2> HIDE DEF a
    <2>2. a % n \in 0 .. n - 1
      BY <1>1, <2>1, Divided
    <2> QED BY <2>2 DEF a
  <1>5. f \in [1 .. k -> Cells]
    <2>1. \A i \in 1 .. k : b[((d + i) - 1) % n] \in Cells
      BY <1>1, <1>4
    <2> QED BY <2>1
  <1>6. \A i \in 1 .. k : f[i] = b[((d + i) - 1) % n]
    OBVIOUS
  <1> HIDE DEF f
  <1>7. f \in Seq(Cells) /\ Len(f) = k
    BY <1>1, <1>5, CellsInSeq
  <1> QED BY <1>1, <1>2, <1>3, <1>6, <1>7 DEF Seen

LEMMA RingApart ==
    ASSUME NEW n \in Size, NEW d \in 0 .. n - 1, NEW i \in Nat, NEW j \in Nat, i < j, j < n
    PROVE  (d + i) % n # (d + j) % n /\ (d + j) % n \in 0 .. n - 1
  <1>1. n \in Nat \ {0} /\ d + i \in 0 .. 2 * n - 1 /\ d + j \in 0 .. 2 * n - 1
    BY DEF Size
  <1>2. (d + i) % n = (IF d + i < n THEN d + i ELSE (d + i) - n)
    BY <1>1, ModOnce
  <1>3. (d + j) % n = (IF d + j < n THEN d + j ELSE (d + j) - n)
    BY <1>1, ModOnce
  <1> QED BY <1>1, <1>2, <1>3

LEMMA SameSeen ==
    ASSUME NEW w, NEW u, NEW n, NEW b, NEW d, NEW k \in Nat, Seen(w, n, b, d, k),
           u \in Seq(Cells), Len(u) = k, \A i \in 1 .. k : u[i] = b[((d + i) - 1) % n]
    PROVE  u = w
  <1>1. w \in Seq(Cells) /\ Len(w) = k /\ \A i \in 1 .. Len(u) : u[i] = w[i]
    BY DEF Seen
  <1> QED BY <1>1, SeqEqual

\* Growth is not seen.
LEMMA QueueGrowsKeeps ==
    ASSUME NEW r, NEW n, NEW b, NEW d, Line(r, n, b, d, n)
    PROVE  \E m, b2 : n < m /\ Line(QueueGrown(r), m, b2, 0, n) /\ QueueView(QueueGrown(r)) = QueueView(r)
  <1> DEFINE m == 2 * n
             b2 == [i \in 0 .. 2 * n - 1 |-> IF i < n THEN b[(d + i) % n] ELSE NoValue]
             q == QueueGrown(r)
  <1>1. /\ n \in Nat \ {0} /\ b \in [0 .. n - 1 -> Cells] /\ d \in 0 .. n - 1
        /\ r.buf = b /\ r.head = d /\ r.count = n /\ Cardinality(DOMAIN r.buf) = n
    BY QueueSees DEF Line, Size
  <1>2. q = [buf |-> b2, head |-> 0, count |-> n]
    BY <1>1 DEF QueueGrown
  <1>3. ASSUME NEW i \in 0 .. n - 1 PROVE b[(d + i) % n] \in Cells
    <2> DEFINE a == d + i
    <2>1. a \in Int
      BY <1>1
    <2> HIDE DEF a
    <2>2. a % n \in 0 .. n - 1
      BY <1>1, <2>1, Divided
    <2> QED BY <1>1, <2>2 DEF a
  <1>4. b2 \in [0 .. 2 * n - 1 -> Cells]
    <2> SUFFICES ASSUME NEW i \in 0 .. 2 * n - 1
                 PROVE  (IF i < n THEN b[(d + i) % n] ELSE NoValue) \in Cells
      OBVIOUS
    <2>1. CASE i < n
      <3>1. i \in 0 .. n - 1
        BY <1>1, <2>1
      <3> QED BY <1>3, <2>1, <3>1
    <2>2. CASE ~ (i < n)
      BY <2>2 DEF Cells
    <2> QED BY <2>1, <2>2
  <1>5. \A i \in 0 .. n - 1 : b2[i] = b[(d + i) % n]
    BY <1>1
  <1>6. m \in Size /\ 0 \in 0 .. m - 1 /\ n \in 0 .. m /\ n < m
    BY <1>1 DEF Size
  <1>7. b2 \in [0 .. m - 1 -> Cells]
    BY <1>4
  <1> HIDE DEF b2, m, q
  <1>8. Line(q, m, b2, 0, n)
    BY <1>2, <1>6, <1>7 DEF Line
  <1>9. Seen(QueueView(q), m, b2, 0, n) /\ Seen(QueueView(r), n, b, d, n)
    BY <1>8, QueueSees
  <1>10. ASSUME NEW i \in 1 .. n PROVE b2[((0 + i) - 1) % m] = b[((d + i) - 1) % n]
    <2>1. i - 1 \in 0 .. n - 1 /\ i - 1 \in 0 .. 2 * m - 1 /\ i - 1 < m /\ (0 + i) - 1 = i - 1
      BY <1>1, <1>6 DEF Size
    <2>2. (i - 1) % m = i - 1
      BY <1>6, <2>1, ModOnce DEF Size
    <2>3. d + (i - 1) = (d + i) - 1
      BY <1>1
    <2> QED BY <1>5, <2>1, <2>2, <2>3
  <1>11. QueueView(q) = QueueView(r)
    <2>1. QueueView(q) \in Seq(Cells) /\ Len(QueueView(q)) = n
          /\ \A i \in 1 .. n : QueueView(q)[i] = b[((d + i) - 1) % n]
      BY <1>9, <1>10 DEF Seen
    <2> QED BY <1>1, <1>9, <2>1, SameSeen
  <1> QED BY <1>6, <1>8, <1>11 DEF q

\* t is a ring that programs see as w.
Shows(t, w) == QueueOk(t) /\ QueueView(t) = w

\* A value behind the last of a ring that is not full.
LEMMA QueuePut ==
    ASSUME NEW r, NEW n, NEW b, NEW d, NEW k, Line(r, n, b, d, k), k < n, NEW v \in Values,
           NEW t, t = [r EXCEPT !.buf = [r.buf EXCEPT ![(d + k) % n] = v], !.count = k + 1]
    PROVE  Shows(t, Append(QueueView(r), v))
  <1> DEFINE p == (d + k) % n
             a == [b EXCEPT ![p] = v]
             w == QueueView(r)
             u == QueueView(t)
  <1>1. /\ n \in Nat \ {0} /\ b \in [0 .. n - 1 -> Cells] /\ d \in 0 .. n - 1 /\ k \in 0 .. n /\ k \in Nat
        /\ r = [buf |-> b, head |-> d, count |-> k] /\ n \in Size
    BY DEF Line, Size
  <1>2. t = [buf |-> a, head |-> d, count |-> k + 1]
    BY <1>1
  <1>3. p \in 0 .. n - 1
    <2>1. d + k \in Int
      BY <1>1
    <2> QED BY <1>1, <2>1, Divided
  <1> HIDE DEF p
  <1>4. a \in [0 .. n - 1 -> Cells] /\ \A i \in 0 .. n - 1 : a[i] = IF i = p THEN v ELSE b[i]
    BY <1>1, <1>3 DEF Cells
  <1> HIDE DEF a
  <1>5. Line(t, n, a, d, k + 1)
    <2>1. k + 1 \in 0 .. n
      BY <1>1
    <2> QED BY <1>1, <1>2, <1>4, <2>1 DEF Line
  <1>6. Seen(u, n, a, d, k + 1) /\ Seen(w, n, b, d, k)
    BY <1>5, QueueSees
  <1> HIDE DEF u, w
  <1>7. ASSUME NEW i \in 1 .. k PROVE u[i] = w[i]
    <2>1. i - 1 \in Nat /\ i - 1 < k /\ i \in 1 .. k + 1 /\ d + (i - 1) = (d + i) - 1
      BY <1>1
    <2> DEFINE x == (d + (i - 1)) % n
    <2>2. x # p
      BY <1>1, <2>1, RingApart DEF p
    <2>3. x \in 0 .. n - 1
      <3>1. d + (i - 1) \in Int
        BY <1>1, <2>1
      <3> QED BY <1>1, <3>1, Divided
    <2>4. u[i] = a[x] /\ w[i] = b[x]
      BY <1>6, <2>1 DEF Seen
    <2> HIDE DEF x
    <2> QED BY <1>4, <2>2, <2>3, <2>4
  <1>8. u[k + 1] = v
    <2>1. k + 1 \in 1 .. k + 1 /\ (d + (k + 1)) - 1 = d + k
      BY <1>1
    <2>2. u[k + 1] = a[p]
      BY <1>6, <2>1 DEF Seen, p
    <2> QED BY <1>3, <1>4, <2>2
  <1>9. w \in Seq(Cells) /\ Len(w) = k /\ u \in Seq(Cells) /\ Len(u) = k + 1 /\ v \in Cells
    BY <1>6 DEF Seen, Cells
  <1>10. u = Append(w, v)
    BY <1>7, <1>8, <1>9, AppendIs
  <1> QED BY <1>5, <1>10 DEF u, w, Shows, QueueOk

LEMMA QueuePushKeeps ==
    ASSUME QueueOk(c), NEW v \in Values, QueuePush(v)
    PROVE  QueueOk(c') /\ QueueView(c') = Append(QueueView(c), v) /\ out' = <<"push", v, NoValue>>
  <1>1. PICK n, b, d, k : Line(c, n, b, d, k)
    BY DEF QueueOk
  <1> DEFINE q == IF c.count = Cardinality(DOMAIN c.buf) THEN QueueGrown(c) ELSE c
  <1>2. PICK n2, b2, d2, k2 : Line(q, n2, b2, d2, k2) /\ k2 < n2 /\ QueueView(q) = QueueView(c)
    <2>1. c.count = k /\ Cardinality(DOMAIN c.buf) = n /\ k \in 0 .. n /\ n \in Nat
      BY <1>1, QueueSees DEF Line, Size
    <2>2. CASE k = n
      <3>1. q = QueueGrown(c) /\ Line(c, n, b, d, n)
        BY <1>1, <2>1, <2>2
      <3> QED BY <3>1, QueueGrowsKeeps
    <2>3. CASE k # n
      <3>1. q = c /\ k < n
        BY <2>1, <2>3
      <3> QED BY <1>1, <3>1
    <2> QED BY <2>2, <2>3
  <1>3. c' = [q EXCEPT !.buf[(q.head + q.count) % Cardinality(DOMAIN q.buf)] = v, !.count = @ + 1]
    BY DEF QueuePush
  <1> HIDE DEF q
  <1>4. q = [buf |-> b2, head |-> d2, count |-> k2] /\ Cardinality(DOMAIN q.buf) = n2
    BY <1>2, QueueSees DEF Line
  <1>5. c' = [q EXCEPT !.buf = [q.buf EXCEPT ![(d2 + k2) % n2] = v], !.count = k2 + 1]
    BY <1>3, <1>4
  <1>6. Shows(c', Append(QueueView(q), v))
    BY <1>2, <1>5, QueuePut
  <1>7. out' = <<"push", v, NoValue>>
    BY DEF QueuePush
  <1> QED BY <1>2, <1>6, <1>7 DEF Shows

LEMMA QueuePopKeeps ==
    ASSUME QueueOk(c), QueuePop
    PROVE  LET w == QueueView(c)
           IN /\ QueueOk(c')
              /\ w = <<>> => QueueView(c') = <<>> /\ out' = <<"pop", NoValue, NoValue>>
              /\ w # <<>> => QueueView(c') = Tail(w) /\ out' = <<"pop", NoValue, Head(w)>>
  <1> DEFINE w == QueueView(c)
             u == QueueView(c')
  <1>1. PICK n, b, d, k : Line(c, n, b, d, k)
    BY DEF QueueOk
  <1>2. /\ n \in Nat \ {0} /\ b \in [0 .. n - 1 -> Cells] /\ d \in 0 .. n - 1 /\ k \in 0 .. n /\ n \in Size
        /\ c = [buf |-> b, head |-> d, count |-> k] /\ Cardinality(DOMAIN c.buf) = n
    BY <1>1, QueueSees DEF Line, Size
  <1>3. Seen(w, n, b, d, k)
    BY <1>1, QueueSees
  <1>4. w \in Seq(Cells) /\ Len(w) = k
    BY <1>3 DEF Seen
  <1>5. CASE k = 0
    <2>1. c' = c /\ out' = <<"pop", NoValue, NoValue>>
      BY <1>2, <1>5 DEF QueuePop
    <2>2. w = <<>>
      <3> HIDE DEF w
      <3> QED BY <1>4, <1>5, EmptySeq
    <2> QED BY <2>1, <2>2
  <1>6. CASE k # 0
    <2>1. out' = <<"pop", NoValue, b[d]>> /\ c' = [buf |-> b, head |-> (d + 1) % n, count |-> k - 1]
      BY <1>2, <1>6 DEF QueuePop
    <2> DEFINE e == (d + 1) % n
    <2>2. e \in 0 .. n - 1 /\ e = IF d + 1 = n THEN 0 ELSE d + 1
      <3>1. d + 1 \in 0 .. 2 * n - 1
        BY <1>2
      <3>2. (d + 1) % n = IF d + 1 < n THEN d + 1 ELSE (d + 1) - n
        BY <1>2, <3>1, ModOnce
      <3> QED BY <1>2, <3>2
    <2> HIDE DEF e
    <2>3. Line(c', n, b, e, k - 1)
      BY <1>2, <1>6, <2>1, <2>2 DEF Line, e
    <2>4. Seen(u, n, b, e, k - 1)
      BY <2>3, QueueSees
    <2> HIDE DEF u, w
    <2>5. w # <<>>
      BY <1>4, <1>6, EmptySeq
    <2>6. ASSUME NEW i \in 1 .. k - 1 PROVE u[i] = w[i + 1]
      <3>1. i + 1 \in 1 .. k /\ (d + (i + 1)) - 1 = d + i /\ d + i \in 0 .. 2 * n - 1
            /\ (e + i) - 1 \in 0 .. 2 * n - 1
        BY <1>2, <2>2
      <3>2. (d + i) % n = (IF d + i < n THEN d + i ELSE (d + i) - n)
        BY <1>2, <3>1, ModOnce
      <3>3. ((e + i) - 1) % n = (IF (e + i) - 1 < n THEN (e + i) - 1 ELSE ((e + i) - 1) - n)
        BY <1>2, <3>1, ModOnce
      <3>4. ((e + i) - 1) % n = (d + i) % n
        BY <1>2, <2>2, <3>2, <3>3
      <3>5. u[i] = b[((e + i) - 1) % n] /\ w[i + 1] = b[(d + i) % n]
        BY <1>3, <2>4, <3>1 DEF Seen
      <3> QED BY <3>4, <3>5
    <2>7. u = Tail(w)
      <3>1. u \in Seq(Cells) /\ Len(u) = Len(w) - 1 /\ \A i \in 1 .. Len(u) : u[i] = w[i + 1]
        BY <1>4, <2>4, <2>6 DEF Seen
      <3> QED BY <1>4, <2>5, <3>1, TailIs
    <2>8. Head(w) = b[d]
      <3>1. 1 \in 1 .. k /\ (d + 1) - 1 = d /\ d \in 0 .. 2 * n - 1 /\ d < n
        BY <1>2, <1>6
      <3>2. d % n = d
        BY <1>2, <3>1, ModOnce
      <3>3. w[1] = b[d]
        BY <1>3, <3>1, <3>2 DEF Seen
      <3> QED BY <1>4, <2>5, <3>3
    <2> QED BY <2>1, <2>3, <2>5, <2>7, <2>8 DEF u, w, QueueOk
  <1> QED BY <1>5, <1>6

\* The stack has its values from cell 0 on.
StackOk(r) == \E n, b, k : Line(r, n, b, 0, k)

StackView(r) == [i \in 1 .. r.count |-> r.buf[i - 1]]

LEMMA StackSees ==
    ASSUME NEW r, NEW n, NEW b, NEW k, Line(r, n, b, 0, k)
    PROVE  /\ StackView(r) \in Seq(Cells) /\ Len(StackView(r)) = k
           /\ \A i \in 1 .. k : StackView(r)[i] = b[i - 1]
           /\ Cardinality(DOMAIN r.buf) = n
  <1>1. /\ n \in Nat \ {0} /\ b \in [0 .. n - 1 -> Cells] /\ k \in 0 .. n
        /\ r = [buf |-> b, head |-> 0, count |-> k] /\ Cardinality(DOMAIN r.buf) = n
    BY QueueSees DEF Line, Size
  <1> DEFINE f == [i \in 1 .. k |-> b[i - 1]]
  <1>2. StackView(r) = f
    BY <1>1 DEF StackView
  <1>3. f \in [1 .. k -> Cells]
    BY <1>1
  <1>4. \A i \in 1 .. k : f[i] = b[i - 1]
    OBVIOUS
  <1> HIDE DEF f
  <1>5. f \in Seq(Cells) /\ Len(f) = k
    BY <1>1, <1>3, CellsInSeq
  <1> QED BY <1>1, <1>2, <1>4, <1>5

LEMMA StackPushKeeps ==
    ASSUME StackOk(c), NEW v \in Values, StackPush(v)
    PROVE  StackOk(c') /\ StackView(c') = Append(StackView(c), v) /\ out' = <<"push", v, NoValue>>
  <1> DEFINE w == StackView(c)
             u == StackView(c')
  <1>1. PICK n, b, k : Line(c, n, b, 0, k)
    BY DEF StackOk
  <1> DEFINE m == IF k = n THEN 2 * n ELSE n
             a == [i \in 0 .. m - 1 |-> IF i = k THEN v ELSE IF i < n THEN b[i] ELSE NoValue]
  <1>2. /\ n \in Nat \ {0} /\ b \in [0 .. n - 1 -> Cells] /\ k \in 0 .. n
        /\ c = [buf |-> b, head |-> 0, count |-> k] /\ Cardinality(DOMAIN c.buf) = n
    BY <1>1, StackSees DEF Line, Size
  <1>3. c' = [buf |-> a, head |-> 0, count |-> k + 1]
    BY <1>2 DEF StackPush
  <1>4. m \in Size /\ 0 \in 0 .. m - 1 /\ k + 1 \in 0 .. m /\ n <= m
    BY <1>2 DEF Size
  <1>5. a \in [0 .. m - 1 -> Cells]
    <2> HIDE DEF m
    <2> SUFFICES ASSUME NEW i \in 0 .. m - 1
                 PROVE  (IF i = k THEN v ELSE IF i < n THEN b[i] ELSE NoValue) \in Cells
      OBVIOUS
    <2>1. v \in Cells /\ NoValue \in Cells
      BY DEF Cells
    <2>2. i < n => b[i] \in Cells
      BY <1>2, <1>4 DEF Size
    <2> QED BY <2>1, <2>2
  <1>6. \A i \in 0 .. k : a[i] = IF i = k THEN v ELSE b[i]
    <2> HIDE DEF m
    <2> SUFFICES ASSUME NEW i \in 0 .. k PROVE a[i] = IF i = k THEN v ELSE b[i]
      OBVIOUS
    <2>1. i \in 0 .. m - 1 /\ (i # k => i < n)
      BY <1>2, <1>4 DEF Size
    <2> QED BY <2>1
  <1> HIDE DEF a, m
  <1>7. Line(c', m, a, 0, k + 1)
    BY <1>3, <1>4, <1>5 DEF Line
  <1>8. /\ u \in Seq(Cells) /\ Len(u) = k + 1 /\ \A i \in 1 .. k + 1 : u[i] = a[i - 1]
    BY <1>7, StackSees
  <1>9. /\ w \in Seq(Cells) /\ Len(w) = k /\ \A i \in 1 .. k : w[i] = b[i - 1]
    BY <1>1, StackSees
  <1> HIDE DEF u, w
  <1>10. ASSUME NEW i \in 1 .. k PROVE u[i] = w[i]
    <2>1. i \in 1 .. k + 1 /\ i - 1 \in 0 .. k /\ i - 1 # k
      BY <1>2
    <2> QED BY <1>6, <1>8, <1>9, <2>1
  <1>11. u[k + 1] = v
    <2>1. k + 1 \in 1 .. k + 1 /\ (k + 1) - 1 = k /\ k \in 0 .. k
      BY <1>2
    <2> QED BY <1>6, <1>8, <2>1
  <1>12. u = Append(w, v)
    <2>1. v \in Cells
      BY DEF Cells
    <2> QED BY <1>8, <1>9, <1>10, <1>11, <2>1, AppendIs
  <1>13. out' = <<"push", v, NoValue>>
    BY DEF StackPush
  <1> QED BY <1>7, <1>12, <1>13 DEF u, w, StackOk

LEMMA StackPopKeeps ==
    ASSUME StackOk(c), StackPop
    PROVE  LET w == StackView(c)
           IN /\ StackOk(c')
              /\ w = <<>> => StackView(c') = <<>> /\ out' = <<"pop", NoValue, NoValue>>
              /\ w # <<>> => /\ StackView(c') = SubSeq(w, 1, Len(w) - 1)
                             /\ out' = <<"pop", NoValue, w[Len(w)]>>
  <1> DEFINE w == StackView(c)
             u == StackView(c')
  <1>1. PICK n, b, k : Line(c, n, b, 0, k)
    BY DEF StackOk
  <1>2. /\ n \in Nat \ {0} /\ b \in [0 .. n - 1 -> Cells] /\ k \in 0 .. n /\ n \in Size
        /\ c = [buf |-> b, head |-> 0, count |-> k]
    BY <1>1 DEF Line, Size
  <1>3. /\ w \in Seq(Cells) /\ Len(w) = k /\ \A i \in 1 .. k : w[i] = b[i - 1]
    BY <1>1, StackSees
  <1>4. CASE k = 0
    <2>1. c' = c /\ out' = <<"pop", NoValue, NoValue>>
      BY <1>2, <1>4 DEF StackPop
    <2>2. w = <<>>
      <3> HIDE DEF w
      <3> QED BY <1>3, <1>4, EmptySeq
    <2> QED BY <2>1, <2>2
  <1>5. CASE k # 0
    <2>1. out' = <<"pop", NoValue, b[k - 1]>> /\ c' = [buf |-> b, head |-> 0, count |-> k - 1]
      BY <1>2, <1>5 DEF StackPop
    <2>2. Line(c', n, b, 0, k - 1)
      BY <1>2, <1>5, <2>1 DEF Line
    <2>3. u \in Seq(Cells) /\ Len(u) = k - 1 /\ \A i \in 1 .. k - 1 : u[i] = b[i - 1]
      BY <2>2, StackSees
    <2> HIDE DEF u, w
    <2>4. w # <<>>
      BY <1>3, <1>5, EmptySeq
    <2>5. \A i \in 1 .. Len(u) : u[i] = w[i]
      BY <1>2, <1>3, <2>3
    <2>6. u = SubSeq(w, 1, Len(w) - 1)
      BY <1>3, <2>3, <2>4, <2>5, FrontIs
    <2>7. w[Len(w)] = b[k - 1]
      BY <1>2, <1>3, <1>5
    <2> QED BY <2>1, <2>2, <2>4, <2>6, <2>7 DEF u, w, StackOk
  <1> QED BY <1>4, <1>5

LEMMA NewLineOk ==
    /\ QueueOk(NewLine) /\ QueueView(NewLine) = <<>>
    /\ StackOk(NewLine) /\ StackView(NewLine) = <<>>
  <1> DEFINE b == [i \in 0 .. InitCap - 1 |-> NoValue]
  <1>1. InitCap \in Size /\ 0 \in 0 .. InitCap - 1 /\ 0 \in 0 .. InitCap
    BY CollAssumption DEF Size
  <1>2. b \in [0 .. InitCap - 1 -> Cells]
    BY DEF Cells
  <1>3. NewLine = [buf |-> b, head |-> 0, count |-> 0]
    BY DEF NewLine
  <1> HIDE DEF b
  <1>4. Line(NewLine, InitCap, b, 0, 0)
    BY <1>1, <1>2, <1>3 DEF Line
  <1>5. Len(QueueView(NewLine)) = 0 /\ QueueView(NewLine) \in Seq(Cells)
    BY <1>4, QueueSees DEF Seen
  <1>6. Len(StackView(NewLine)) = 0 /\ StackView(NewLine) \in Seq(Cells)
    BY <1>4, StackSees
  <1>7. QueueView(NewLine) = <<>> /\ StackView(NewLine) = <<>>
    BY <1>5, <1>6, EmptySeq
  <1> QED BY <1>4, <1>7 DEF QueueOk, StackOk

----------------------------------------------------------------------------
(* The containers *)

\* A table is a table of the hash with a free slot and right counters, a list
\* is a list of pairs, and a ring holds its values from its head on.
Holds ==
    /\ kind = "set" => SetOk(hash, c)
    /\ kind = "hash" => HashOk(hash, c)
    /\ kind = "pairs" => PairsOk(c)
    /\ kind = "queue" => QueueOk(c)
    /\ kind = "stack" => StackOk(c)

CollInv ==
    /\ kind \in {"set", "hash", "pairs", "queue", "stack"}
    /\ hash \in [Values -> Nat]
    /\ Holds

\* What programs see of each container.
Views ==
    /\ kind = "set" => View = Contents(c.slots)
    /\ kind = "hash" => View = HashView(c)
    /\ kind = "pairs" => View = PairsView(c)
    /\ kind = "queue" => View = QueueView(c)
    /\ kind = "stack" => View = StackView(c)

LEMMA ViewIs == CollInv => Views
  <1> SUFFICES ASSUME CollInv PROVE Views
    OBVIOUS
  <1>1. ASSUME kind = "set" PROVE View = Contents(c.slots)
    BY <1>1 DEF View, Contents, Marks
  <1>2. ASSUME kind = "hash" PROVE View = HashView(c)
    <2>1. HashOk(hash, c)
      BY <1>2 DEF CollInv, Holds
    <2>2. PICK n \in Size : \E s, f : c = HashRecord(s, f) /\ HashTable(hash, s, f, n)
      BY <2>1 DEF HashOk
    <2>3. PICK s, f : c = HashRecord(s, f) /\ HashTable(hash, s, f, n)
      BY <2>2
    <2>4. c.slots = s /\ c.value = f /\ Tombs(s) = {}
      BY <2>3 DEF HashRecord, HashTable
    <2>5. {s[i] : i \in DOMAIN s} \ {Free} = Contents(s)
      BY <2>4 DEF Tombs, Contents, Marks
    <2>6. View = [k \in {s[i] : i \in DOMAIN s} \ {Free} |-> f[k]]
      BY <1>2, <2>4 DEF View
    <2> QED BY <2>4, <2>5, <2>6 DEF HashView
  <1>3. ASSUME kind = "pairs" PROVE View = PairsView(c)
    BY <1>3 DEF View, PairsView, PairAt, PairOf
  <1>4. ASSUME kind = "queue" PROVE View = QueueView(c)
    BY <1>4 DEF View, QueueView
  <1>5. ASSUME kind = "stack" PROVE View = StackView(c)
    BY <1>5 DEF View, StackView
  <1> QED BY <1>1, <1>2, <1>3, <1>4, <1>5 DEF Views

LEMMA CollStarts ==
    ASSUME CollInit
    PROVE  CollInv /\ Promise!ContainersInit
  <1>1. kind \in {"set", "hash", "pairs", "queue", "stack"} /\ hash \in [Values -> Nat] /\ out = <<>>
    BY CollAssumption DEF CollInit
  <1>2. CASE kind = "set"
    <2>1. c = NewSet
      BY <1>2 DEF CollInit
    <2>2. CollInv /\ Contents(c.slots) = {}
      BY <1>1, <1>2, <2>1, NewSetOk DEF CollInv, Holds
    <2>3. View = {}
      BY <1>2, <2>2, ViewIs DEF Views
    <2> QED BY <1>1, <1>2, <2>2, <2>3 DEF Promise!ContainersInit, Promise!Empty
  <1>3. CASE kind = "hash"
    <2>1. c = NewHash
      BY <1>3 DEF CollInit
    <2>2. CollInv /\ Contents(c.slots) = {}
      BY <1>1, <1>3, <2>1, NewHashOk DEF CollInv, Holds
    <2>3. View = [k \in {} |-> c.value[k]]
      BY <1>3, <2>2, ViewIs DEF Views, HashView
    <2>4. View = [k \in {} |-> NoValue]
      BY <2>3
    <2> QED BY <1>1, <1>3, <2>2, <2>4 DEF Promise!ContainersInit, Promise!Empty
  <1>4. CASE kind = "pairs"
    <2>1. c = <<>>
      BY <1>4 DEF CollInit
    <2>2. Pairs(c, 0)
      BY <2>1 DEF Pairs
    <2>3. CollInv
      BY <1>1, <1>4, <2>2 DEF CollInv, Holds, PairsOk
    <2>4. KeysOf(c, 0) = {}
      BY DEF KeysOf
    <2>5. View = [k \in KeysOf(c, 0) |-> c[PairOf(c, k) + 1]]
      BY <1>4, <2>2, <2>3, ViewIs, PairsDomain DEF Views
    <2>6. View = [k \in {} |-> NoValue]
      BY <2>4, <2>5
    <2> QED BY <1>1, <1>4, <2>3, <2>6 DEF Promise!ContainersInit, Promise!Empty
  <1>5. CASE kind = "queue"
    <2>1. c = NewLine
      BY <1>5 DEF CollInit
    <2>2. CollInv
      BY <1>1, <1>5, <2>1, NewLineOk DEF CollInv, Holds
    <2>3. View = <<>>
      BY <1>5, <2>1, <2>2, ViewIs, NewLineOk DEF Views
    <2> QED BY <1>1, <1>5, <2>2, <2>3 DEF Promise!ContainersInit, Promise!Empty
  <1>6. CASE kind = "stack"
    <2>1. c = NewLine
      BY <1>6 DEF CollInit
    <2>2. CollInv
      BY <1>1, <1>6, <2>1, NewLineOk DEF CollInv, Holds
    <2>3. View = <<>>
      BY <1>6, <2>1, <2>2, ViewIs, NewLineOk DEF Views
    <2> QED BY <1>1, <1>6, <2>2, <2>3 DEF Promise!ContainersInit, Promise!Empty
  <1> QED BY <1>1, <1>2, <1>3, <1>4, <1>5, <1>6

\* Every call keeps the invariant.
LEMMA CollKept ==
    ASSUME CollInv, [CollNext]_collVars
    PROVE  CollInv'
  <1>1. kind \in {"set", "hash", "pairs", "queue", "stack"} /\ hash \in [Values -> Nat] /\ Holds
    BY DEF CollInv
  <1>2. CASE UNCHANGED collVars
    BY <1>1, <1>2 DEF CollInv, Holds, collVars, SetOk, HashOk, PairsOk, QueueOk, StackOk
  <1>3. CASE CollNext
    <2>1. kind' = kind /\ hash' = hash
      BY <1>3 DEF CollNext
    <2>2. Holds'
      <3>1. CASE \E v \in Values : SetAdd(v) \/ SetRemove(v) \/ SetHas(v)
        <4>1. PICK v \in Values : SetAdd(v) \/ SetRemove(v) \/ SetHas(v)
          BY <3>1
        <4>2. kind = "set" /\ SetOk(hash, c)
          BY <1>1, <4>1 DEF Holds, SetAdd, SetRemove, SetHas
        <4>3. SetOk(hash, c')
          BY <1>1, <4>1, <4>2, SetAddKeeps, SetRemoveKeeps, SetHasKeeps
        <4> QED BY <2>1, <4>2, <4>3 DEF Holds, SetOk
      <3>2. CASE \E k, v \in Values : HashPut(k, v) \/ PairsPut(k, v)
        <4>1. PICK k, v \in Values : HashPut(k, v) \/ PairsPut(k, v)
          BY <3>2
        <4>2. CASE HashPut(k, v)
          <5>1. kind = "hash" /\ HashOk(hash, c)
            BY <1>1, <4>2 DEF Holds, HashPut
          <5>2. HashOk(hash, c')
            BY <1>1, <4>2, <5>1, HashPutKeeps
          <5> QED BY <2>1, <5>1, <5>2 DEF Holds, HashOk
        <4>3. CASE PairsPut(k, v)
          <5>1. kind = "pairs" /\ PairsOk(c)
            BY <1>1, <4>3 DEF Holds, PairsPut
          <5>2. PairsOk(c')
            BY <4>3, <5>1, PairsPutKeeps
          <5> QED BY <2>1, <5>1, <5>2 DEF Holds, PairsOk
        <4> QED BY <4>1, <4>2, <4>3
      <3>3. CASE \E k \in Values : HashGet(k) \/ PairsGet(k)
        <4>1. c' = c
          BY <3>3 DEF HashGet, PairsGet
        <4> QED BY <1>1, <2>1, <4>1 DEF Holds, SetOk, HashOk, PairsOk, QueueOk, StackOk
      <3>4. CASE \E v \in Values : QueuePush(v) \/ StackPush(v)
        <4>1. PICK v \in Values : QueuePush(v) \/ StackPush(v)
          BY <3>4
        <4>2. CASE QueuePush(v)
          <5>1. kind = "queue" /\ QueueOk(c)
            BY <1>1, <4>2 DEF Holds, QueuePush
          <5>2. QueueOk(c')
            BY <4>2, <5>1, QueuePushKeeps
          <5> QED BY <2>1, <5>1, <5>2 DEF Holds, QueueOk
        <4>3. CASE StackPush(v)
          <5>1. kind = "stack" /\ StackOk(c)
            BY <1>1, <4>3 DEF Holds, StackPush
          <5>2. StackOk(c')
            BY <4>3, <5>1, StackPushKeeps
          <5> QED BY <2>1, <5>1, <5>2 DEF Holds, StackOk
        <4> QED BY <4>1, <4>2, <4>3
      <3>5. CASE QueuePop
        <4>1. kind = "queue" /\ QueueOk(c)
          BY <1>1, <3>5 DEF Holds, QueuePop
        <4>2. QueueOk(c')
          BY <3>5, <4>1, QueuePopKeeps
        <4> QED BY <2>1, <4>1, <4>2 DEF Holds, QueueOk
      <3>6. CASE StackPop
        <4>1. kind = "stack" /\ StackOk(c)
          BY <1>1, <3>6 DEF Holds, StackPop
        <4>2. StackOk(c')
          BY <3>6, <4>1, StackPopKeeps
        <4> QED BY <2>1, <4>1, <4>2 DEF Holds, StackOk
      <3> QED BY <1>3, <3>1, <3>2, <3>3, <3>4, <3>5, <3>6 DEF CollNext
    <2> QED BY <1>1, <2>1, <2>2 DEF CollInv
  <1> QED BY <1>2, <1>3

LEMMA ViewIsNext == CollInv' => Views'
  BY ViewIs, PTL

\* What a call does to the buffer and returns is what the container promises.
LEMMA SetSteps ==
    ASSUME CollInv, CollInv', UNCHANGED <<kind, hash>>, NEW v \in Values,
           SetAdd(v) \/ SetRemove(v) \/ SetHas(v)
    PROVE  Promise!ContainersNext
  <1>1. kind = "set" /\ kind' = "set" /\ hash \in [Values -> Nat] /\ SetOk(hash, c)
    BY DEF CollInv, Holds, SetAdd, SetRemove, SetHas
  <1>2. View = Contents(c.slots) /\ View' = Contents(c'.slots)
    BY <1>1, ViewIs, ViewIsNext DEF Views
  <1> DEFINE C == Contents(c.slots)
             D == Contents(c'.slots)
  <1>3. \/ D = C \union {v} /\ out' = <<"add", v, Text(v \notin C)>>
        \/ D = C \ {v} /\ out' = <<"remove", v, Text(v \in C)>>
        \/ D = C /\ out' = <<"has", v, Text(v \in C)>>
    BY <1>1, SetAddKeeps, SetRemoveKeeps, SetHasKeeps
  <1> HIDE DEF C, D
  <1>4. View = C /\ View' = D
    BY <1>2 DEF C, D
  <1>5. Promise!Sets(v)
    BY <1>1, <1>3, <1>4 DEF Promise!Sets, Promise!Text, Text
  <1> QED BY <1>5 DEF Promise!ContainersNext

LEMMA MapSteps ==
    ASSUME CollInv, CollInv', UNCHANGED <<kind, hash>>, NEW k \in Values, NEW v \in Values,
           HashPut(k, v) \/ PairsPut(k, v) \/ HashGet(k) \/ PairsGet(k)
    PROVE  Promise!ContainersNext
  <1>1. CASE HashPut(k, v) \/ HashGet(k)
    <2>1. kind = "hash" /\ kind' = "hash" /\ hash \in [Values -> Nat] /\ HashOk(hash, c)
      BY <1>1 DEF CollInv, Holds, HashPut, HashGet
    <2>2. View = HashView(c) /\ View' = HashView(c')
      BY <2>1, ViewIs, ViewIsNext DEF Views
    <2>3. \/ View' = Bound(View, k, v) /\ out' = <<"put", k, v>>
          \/ View' = View /\ out' = <<"get", k, IF k \in DOMAIN View THEN View[k] ELSE NoValue>>
      BY <1>1, <2>1, <2>2, HashPutKeeps, HashGetKeeps
    <2> HIDE DEF View
    <2>4. Promise!Maps(k, v)
      BY <2>1, <2>3 DEF Promise!Maps, Bound
    <2> QED BY <2>1, <2>4 DEF Promise!ContainersNext
  <1>2. CASE PairsPut(k, v) \/ PairsGet(k)
    <2>1. kind = "pairs" /\ kind' = "pairs" /\ PairsOk(c)
      BY <1>2 DEF CollInv, Holds, PairsPut, PairsGet
    <2>2. View = PairsView(c) /\ View' = PairsView(c')
      BY <2>1, ViewIs, ViewIsNext DEF Views
    <2>3. \/ View' = Bound(View, k, v) /\ out' = <<"put", k, v>>
          \/ View' = View /\ out' = <<"get", k, IF k \in DOMAIN View THEN View[k] ELSE NoValue>>
      BY <1>2, <2>1, <2>2, PairsPutKeeps, PairsGetKeeps
    <2>4. Promise!Maps(k, v)
      BY <2>1, <2>3 DEF Promise!Maps, Bound
    <2> QED BY <2>1, <2>4 DEF Promise!ContainersNext
  <1> QED BY <1>1, <1>2

LEMMA PushSteps ==
    ASSUME CollInv, CollInv', UNCHANGED <<kind, hash>>, NEW v \in Values, QueuePush(v) \/ StackPush(v)
    PROVE  Promise!ContainersNext
  <1>1. CASE QueuePush(v)
    <2>1. kind = "queue" /\ kind' = "queue" /\ QueueOk(c)
      BY <1>1 DEF CollInv, Holds, QueuePush
    <2>2. View = QueueView(c) /\ View' = QueueView(c')
      BY <2>1, ViewIs, ViewIsNext DEF Views
    <2>3. View' = Append(View, v) /\ out' = <<"push", v, NoValue>>
      BY <1>1, <2>1, <2>2, QueuePushKeeps
    <2> QED BY <2>1, <2>3 DEF Promise!ContainersNext, Promise!Push
  <1>2. CASE StackPush(v)
    <2>1. kind = "stack" /\ kind' = "stack" /\ StackOk(c)
      BY <1>2 DEF CollInv, Holds, StackPush
    <2>2. View = StackView(c) /\ View' = StackView(c')
      BY <2>1, ViewIs, ViewIsNext DEF Views
    <2>3. View' = Append(View, v) /\ out' = <<"push", v, NoValue>>
      BY <1>2, <2>1, <2>2, StackPushKeeps
    <2> QED BY <2>1, <2>3 DEF Promise!ContainersNext, Promise!Push
  <1> QED BY <1>1, <1>2

LEMMA PopSteps ==
    ASSUME CollInv, CollInv', UNCHANGED <<kind, hash>>, QueuePop \/ StackPop
    PROVE  Promise!ContainersNext
  <1>1. CASE QueuePop
    <2>1. kind = "queue" /\ kind' = "queue" /\ QueueOk(c)
      BY <1>1 DEF CollInv, Holds, QueuePop
    <2>2. View = QueueView(c) /\ View' = QueueView(c')
      BY <2>1, ViewIs, ViewIsNext DEF Views
    <2>3. /\ View = <<>> => View' = <<>> /\ out' = <<"pop", NoValue, NoValue>>
          /\ View # <<>> => View' = Tail(View) /\ out' = <<"pop", NoValue, Head(View)>>
      BY <1>1, <2>1, <2>2, QueuePopKeeps
    <2>4. Promise!Pop
      BY <2>1, <2>3 DEF Promise!Pop, Promise!Popped
    <2> QED BY <2>1, <2>4 DEF Promise!ContainersNext
  <1>2. CASE StackPop
    <2>1. kind = "stack" /\ kind' = "stack" /\ StackOk(c)
      BY <1>2 DEF CollInv, Holds, StackPop
    <2>2. View = StackView(c) /\ View' = StackView(c')
      BY <2>1, ViewIs, ViewIsNext DEF Views
    <2>3. /\ View = <<>> => View' = <<>> /\ out' = <<"pop", NoValue, NoValue>>
          /\ View # <<>> => /\ View' = SubSeq(View, 1, Len(View) - 1)
                            /\ out' = <<"pop", NoValue, View[Len(View)]>>
      BY <1>2, <2>1, <2>2, StackPopKeeps
    <2>4. Promise!Pop
      BY <2>1, <2>3 DEF Promise!Pop, Promise!Popped
    <2> QED BY <2>1, <2>4 DEF Promise!ContainersNext
  <1> QED BY <1>1, <1>2

LEMMA CollSteps ==
    ASSUME CollInv, CollInv', [CollNext]_collVars
    PROVE  [Promise!ContainersNext]_<<kind, View, out>>
  <1>1. CASE UNCHANGED collVars
    BY <1>1 DEF collVars, View, PairAt
  <1>2. CASE CollNext
    <2>1. UNCHANGED <<kind, hash>>
      BY <1>2 DEF CollNext
    <2>2. \/ \E v \in Values : SetAdd(v) \/ SetRemove(v) \/ SetHas(v)
          \/ \E k, v \in Values : HashPut(k, v) \/ PairsPut(k, v) \/ HashGet(k) \/ PairsGet(k)
          \/ \E v \in Values : QueuePush(v) \/ StackPush(v)
          \/ QueuePop \/ StackPop
      BY <1>2 DEF CollNext
    <2> QED BY <2>1, <2>2, SetSteps, MapSteps, PushSteps, PopSteps
  <1> QED BY <1>1, <1>2

\* Tables keep each value where its probe finds it, lists their pairs and
\* rings their values in order.
THEOREM CollInvariance == CollSpec => []CollInv
  BY CollStarts, CollKept, PTL DEF CollSpec

\* What a program sees of a Set, a hash MAP, a MAP, a Queue and a Stack is what
\* Containers promises, through every growth, tombstone and turn of the ring.
THEOREM ContainerKept == CollSpec => KeepsContainer
  <1>1. CollInit => Promise!ContainersInit
    BY CollStarts
  <1>2. CollInv /\ CollInv' /\ [CollNext]_collVars => [Promise!ContainersNext]_<<kind, View, out>>
    BY CollSteps
  <1> QED BY <1>1, <1>2, CollInvariance, PTL DEF CollSpec, KeepsContainer, Promise!ContainersSpec

\* A table with a free slot, as the program counts it.
Ends(s) ==
    /\ Cardinality({i \in DOMAIN s : s[i] \in {Free}}) > 0
    /\ Cardinality(Contents(s)) = Cardinality({i \in DOMAIN s : s[i] \in Values})
    /\ Cardinality(Tombs(s)) = Cardinality({i \in DOMAIN s : s[i] \in {Tomb}})

LEMMA TableEnds ==
    ASSUME NEW hf, NEW n \in Size, NEW s, Table(hf, s, n), Roomy(s, n)
    PROVE  Ends(s)
  <1> DEFINE F == {i \in DOMAIN s : s[i] \in {Free}}
  <1>1. DOMAIN s = 0 .. n - 1 /\ IsFiniteSet(DOMAIN s)
    <2>1. s \in [0 .. n - 1 -> Values \union Marks]
      BY DEF Table
    <2> QED BY <2>1, Capacity DEF Size
  <1>2. Cardinality(F) > 0
    <2>1. PICK i \in 0 .. n - 1 : s[i] = Free
      BY DEF Roomy
    <2>2. i \in F /\ F \subseteq DOMAIN s
      BY <1>1, <2>1
    <2>3. IsFiniteSet(F) /\ F # {}
      BY <1>1, <2>2, FS_Subset
    <2> HIDE DEF F
    <2>4. Cardinality(F) \in Nat /\ Cardinality(F) # 0
      BY <2>3, FS_CardinalityType, FS_EmptySet
    <2> QED BY <2>4
  <1>3. Cardinality(Contents(s)) = Cardinality({i \in DOMAIN s : s[i] \in Values})
    BY <1>1, HeldSlots
  <1>4. Tombs(s) = {i \in DOMAIN s : s[i] \in {Tomb}}
    BY DEF Tombs
  <1> QED BY <1>2, <1>3, <1>4 DEF Ends

\* Every probe of a table ends at a free slot, however many values were added
\* and removed, and the counters that decide when it grows are right.
THEOREM ProbesEndKept == CollSpec => []ProbesEnd
  <1>1. CollInv => ProbesEnd
    <2> SUFFICES ASSUME CollInv PROVE ProbesEnd
      OBVIOUS
    <2>1. CASE kind = "set"
      <3>1. SetOk(hash, c) /\ hash \in [Values -> Nat]
        BY <2>1 DEF CollInv, Holds
      <3>2. PICK n \in Size : \E s : /\ c = SetRecord(s) /\ Table(hash, s, n)
                                     /\ Cardinality(Contents(s)) + Cardinality(Tombs(s)) < n
        BY <3>1 DEF SetOk
      <3>3. PICK s : /\ c = SetRecord(s) /\ Table(hash, s, n)
                     /\ Cardinality(Contents(s)) + Cardinality(Tombs(s)) < n
        BY <3>2
      <3>4. c.slots = s /\ c.count = Cardinality(Contents(s)) /\ c.tombs = Cardinality(Tombs(s))
        BY <3>3 DEF SetRecord
      <3>5. Roomy(s, n)
        BY <3>3, FreeSlot
      <3>6. Ends(s)
        BY <3>3, <3>5, TableEnds
      <3> QED BY <3>4, <3>6 DEF Ends, ProbesEnd
    <2>2. CASE kind = "hash"
      <3>1. HashOk(hash, c) /\ hash \in [Values -> Nat]
        BY <2>2 DEF CollInv, Holds
      <3>2. PICK n \in Size : \E s, f : c = HashRecord(s, f) /\ HashTable(hash, s, f, n)
        BY <3>1 DEF HashOk
      <3>3. PICK s, f : c = HashRecord(s, f) /\ HashTable(hash, s, f, n)
        BY <3>2
      <3>4. c.slots = s /\ c.count = Cardinality(Contents(s))
        BY <3>3 DEF HashRecord
      <3>5. Roomy(s, n) /\ Table(hash, s, n)
        BY <3>3, HashRoomy
      <3>6. Ends(s)
        BY <3>5, TableEnds
      <3>7. kind # "set"
        BY <2>2
      <3> QED BY <3>4, <3>6, <3>7 DEF Ends, ProbesEnd
    <2> QED BY <2>1, <2>2 DEF ProbesEnd
  <1> QED BY <1>1, CollInvariance, PTL

----------------------------------------------------------------------------
(* Lists: the list built-ins, of any texts and any lengths *)

----------------------------------------------------------------------------
(* Lists *)

\* The function of a loop over 1 .. n that stays in X.
Turned(n, X, base, step, f) ==
    /\ f = [i \in 0 .. n |-> IF i = 0 THEN base ELSE step[<<i, f[i - 1]>>]]
    /\ \A i \in 0 .. n : f[i] \in X

LEMMA LoopIn ==
    ASSUME NEW n \in Nat, NEW X, NEW base \in X, NEW step,
           \A i \in 1 .. n : \A x \in X : step[<<i, x>>] \in X
    PROVE  \E f : Turned(n, X, base, step, f)
  <1> DEFINE S == [i \in 0 .. n |-> X]
  <1>1. S[0] = X /\ \A i \in 1 .. n : S[i] = X /\ S[i - 1] = X
    OBVIOUS
  <1>2. \A i \in 0 .. n : S[i] = X
    OBVIOUS
  <1> HIDE DEF S
  <1>3. base \in S[0] /\ \A i \in 1 .. n : \A x \in S[i - 1] : step[<<i, x>>] \in S[i]
    BY <1>1
  <1>4. PICK f : Iteration(n, S, step, base, f)
    BY <1>3, LoopExists
  <1>5. Turned(n, X, base, step, f)
    BY <1>2, <1>4 DEF Iteration, Turned
  <1> QED BY <1>5

\* What holds before a loop over 1 .. n and after each of its turns.
LEMMA LoopInduction ==
    ASSUME NEW n \in Nat, NEW G, 0 \in G, \A i \in 1 .. n : i - 1 \in G => i \in G
    PROVE  0 .. n \subseteq G
  <1> DEFINE T == {m \in Nat : m <= n => m \in G}
  <1>1. 0 \in T
    OBVIOUS
  <1>2. ASSUME NEW m \in Nat, m \in T PROVE m + 1 \in T
    <2>1. CASE m + 1 <= n
      <3>1. m + 1 \in 1 .. n /\ (m + 1) - 1 = m /\ m \in G
        BY <1>2, <2>1
      <3>2. m + 1 \in G
        BY <3>1
      <3> QED BY <3>2
    <2>2. CASE ~ (m + 1 <= n)
      BY <2>2
    <2> QED BY <2>1, <2>2
  <1> HIDE DEF T
  <1>3. Nat \subseteq T
    BY <1>1, <1>2, InductiveSet
  <1> QED BY <1>3 DEF T

----------------------------------------------------------------------------
(* SLICE *)

LEMMA ListOf ==
    ASSUME NEW S, NEW x \in ListsOf(S)
    PROVE  x \in Seq(S) /\ Len(x) \in Nat /\ DOMAIN x = 1 .. Len(x) /\ \A i \in 1 .. Len(x) : x[i] \in S
  <1>1. PICK n \in 0 .. MaxList : x \in [1 .. n -> S]
    BY DEF ListsOf
  <1>2. n \in Nat
    OBVIOUS
  <1>3. x \in Seq(S)
    BY <1>1, <1>2
  <1> QED BY <1>3, LenProperties, ElementOfSeq

\* The numbers below k among the first n.
LEMMA CountBelow ==
    ASSUME NEW n \in Nat, NEW k \in Int
    PROVE  Cardinality({i \in 0 .. n - 1 : i < k}) = IF k < 0 THEN 0 ELSE IF k > n THEN n ELSE k
  <1> DEFINE z == IF k < 0 THEN 0 ELSE IF k > n THEN n ELSE k
  <1>1. {i \in 0 .. n - 1 : i < k} = 0 .. z - 1
    OBVIOUS
  <1>2. z \in 0 .. n
    OBVIOUS
  <1>3. Cardinality(0 .. z - 1) = z
    <2> HIDE DEF z
    <2>1. 0 \in Int /\ z - 1 \in Int
      BY <1>2
    <2>2. Cardinality(0 .. z - 1) = IF 0 > z - 1 THEN 0 ELSE (z - 1) - 0 + 1
      BY <2>1, FS_Interval
    <2> QED BY <1>2, <2>2
  <1> QED BY <1>1, <1>3

LEMMA CountBetween ==
    ASSUME NEW a \in Nat, NEW b \in Int
    PROVE  Cardinality(a .. b - 1) = IF a < b THEN b - a ELSE 0
  <1>1. Cardinality(a .. b - 1) = IF a > b - 1 THEN 0 ELSE (b - 1) - a + 1
    BY FS_Interval
  <1> QED BY <1>1

LEMMA SliceIs ==
    ASSUME in.call = "slice", in.x \in ListsOf(Texts), in.s \in Int, in.e \in Int
    PROVE  SliceMeaning
  <1> DEFINE x == in.x
             n == Len(x)
             clamped(i) == IF i < 0 THEN 0 ELSE IF i > n THEN n ELSE i
             start == IF in.s \in {Unset, -1} THEN 0 ELSE IF in.s < 0 THEN n + in.s ELSE in.s
             stop == IF in.e \in {Unset, -1} THEN n ELSE IF in.e < 0 THEN n + in.e ELSE in.e
             from == clamped(start)
             upto == clamped(stop)
             to == IF upto < from THEN from ELSE upto
             kept == {i \in 0 .. n - 1 : start <= i /\ i < stop}
             got == Slice(in.x, in.s, in.e)
  <1>1. x \in Seq(Texts) /\ n \in Nat /\ DOMAIN x = 1 .. n
    BY ListOf
  <1>2. start \in Int /\ stop \in Int
    BY <1>1 DEF Unset
  <1>3. Resolved(in.s, in.e, n) = <<from, to>>
    BY <1>1 DEF Resolved, Unset
  <1>4. got = SubSeq(x, from + 1, to)
    <2> DEFINE r == Resolved(in.s, in.e, n)
    <2>1. got = SubSeq(x, r[1] + 1, r[2])
      BY DEF Slice
    <2>2. r[1] = from /\ r[2] = to
      <3> HIDE DEF from, to
      <3> QED BY <1>3
    <2> HIDE DEF r, from, to, got
    <2> QED BY <2>1, <2>2
  <1> HIDE DEF start, stop, got, n, x
  <1>5. from \in 0 .. n /\ to \in 0 .. n /\ from <= to
    BY <1>1, <1>2
  <1>6. kept = from .. to - 1
    BY <1>1, <1>2
  <1>7. Cardinality({k \in 0 .. n - 1 : k < start}) = from
    BY <1>1, <1>2, CountBelow
  <1> HIDE DEF from, to, kept
  <1>8. Cardinality(kept) = to - from
    BY <1>5, <1>6, CountBetween
  <1>9. Len(got) = to - from /\ \A i \in 1 .. to - from : got[i] = x[from + i]
    <2>1. \A i \in from + 1 .. to : x[i] \in Texts
      BY <1>1, <1>5, ElementOfSeq DEF n
    <2>2. from + 1 \in Int /\ to \in Int
      BY <1>5
    <2>3. /\ Len(got) = IF from + 1 <= to THEN to - (from + 1) + 1 ELSE 0
          /\ got \in Seq(Texts)
          /\ \A i \in 1 .. to - (from + 1) + 1 : got[i] = x[(from + 1) + i - 1]
      BY <1>4, <2>1, <2>2, SubSeqProperties
    <2> QED BY <1>5, <2>3
  <1>10. ASSUME NEW i \in 1 .. to - from
         PROVE  \E j \in kept : j = i - 1 + from /\ got[i] = x[j + 1]
    <2>1. i - 1 + from \in kept
      BY <1>5, <1>6
    <2>2. got[i] = x[(i - 1 + from) + 1]
      BY <1>5, <1>9
    <2> QED BY <2>1, <2>2
  <1>11. DOMAIN got = 1 .. to - from
    <2>1. got \in Seq(Texts)
      <3>1. \A i \in from + 1 .. to : x[i] \in Texts
        BY <1>1, <1>5, ElementOfSeq DEF n
      <3>2. from + 1 \in Int /\ to \in Int
        BY <1>5
      <3> QED BY <1>4, <3>1, <3>2, SubSeqProperties
    <2> QED BY <1>9, <2>1, LenProperties
  <1>12. Len(got) = Cardinality(kept)
    BY <1>8, <1>9
  <1>13. \A i \in DOMAIN got : \E j \in kept : j = i - 1 + Cardinality({k \in 0 .. n - 1 : k < start})
                                              /\ got[i] = x[j + 1]
    BY <1>7, <1>10, <1>11
  <1> QED BY <1>12, <1>13, Zenon DEF SliceMeaning, start, stop, kept, got, n, x
----------------------------------------------------------------------------
(* SORT *)

\* A text is a number or another text, and no NaN.
Word == {"n", "s"} \X Int

LEMMA CmpValsIs ==
    ASSUME NEW a \in Word, NEW b \in Word
    PROVE  /\ a[2] \in Int /\ b[2] \in Int /\ a[1] \in {"n", "s"} /\ b[1] \in {"n", "s"}
           /\ CmpVals(a, b) = IF a[1] = b[1]
                                THEN IF a[2] < b[2] THEN -1 ELSE IF a[2] > b[2] THEN 1 ELSE 0
                                ELSE IF a[1] = "n" THEN -1 ELSE 1
  <1>1. a[2] \in Int /\ b[2] \in Int /\ a[1] \in {"n", "s"} /\ b[1] \in {"n", "s"}
    BY DEF Word
  <1>2. Sign(a[2] - b[2]) = IF a[2] < b[2] THEN -1 ELSE IF a[2] > b[2] THEN 1 ELSE 0
    BY <1>1 DEF Sign
  <1>3. /\ Numeric(a) <=> a[1] = "n"
        /\ Numeric(b) <=> b[1] = "n"
        /\ ~ ("nan" \in {a[1], b[1]})
    BY <1>1 DEF Numeric
  <1> QED BY <1>1, <1>2, <1>3 DEF CmpVals

\* The comparison of two texts orders all texts.
LEMMA CmpOrder ==
    ASSUME NEW a \in Word, NEW b \in Word, NEW w \in Word
    PROVE  /\ CmpVals(a, b) \in {-1, 0, 1} /\ CmpVals(b, a) = -CmpVals(a, b)
           /\ CmpVals(a, b) <= 0 /\ CmpVals(b, w) <= 0 => CmpVals(a, w) <= 0
           /\ CmpVals(a, b) = 0 => CmpVals(a, w) = CmpVals(b, w)
  <1> DEFINE p == CmpVals(a, b)
             q == CmpVals(b, w)
             r == CmpVals(a, w)
             t == CmpVals(b, a)
  <1>1. /\ a[2] \in Int /\ b[2] \in Int /\ w[2] \in Int
        /\ a[1] \in {"n", "s"} /\ b[1] \in {"n", "s"} /\ w[1] \in {"n", "s"}
    BY CmpValsIs
  <1>2. p = IF a[1] = b[1] THEN IF a[2] < b[2] THEN -1 ELSE IF a[2] > b[2] THEN 1 ELSE 0
            ELSE IF a[1] = "n" THEN -1 ELSE 1
    BY CmpValsIs
  <1>3. q = IF b[1] = w[1] THEN IF b[2] < w[2] THEN -1 ELSE IF b[2] > w[2] THEN 1 ELSE 0
            ELSE IF b[1] = "n" THEN -1 ELSE 1
    BY CmpValsIs
  <1>4. r = IF a[1] = w[1] THEN IF a[2] < w[2] THEN -1 ELSE IF a[2] > w[2] THEN 1 ELSE 0
            ELSE IF a[1] = "n" THEN -1 ELSE 1
    BY CmpValsIs
  <1>5. t = IF b[1] = a[1] THEN IF b[2] < a[2] THEN -1 ELSE IF b[2] > a[2] THEN 1 ELSE 0
            ELSE IF b[1] = "n" THEN -1 ELSE 1
    BY CmpValsIs
  <1> HIDE DEF p, q, r, t
  <1>6. p \in {-1, 0, 1} /\ t = -p
    BY <1>1, <1>2, <1>5
  <1>7. p <= 0 /\ q <= 0 => r <= 0
    BY <1>1, <1>2, <1>3, <1>4
  <1>8. p = 0 => r = q
    BY <1>1, <1>2, <1>3, <1>4
  <1> QED BY <1>6, <1>7, <1>8 DEF p, q, r, t

\* Without keys the text decides, and with the two keys of the calls the field
\* does first, backwards.
LEMMA SortCmpIs ==
    ASSUME Texts \subseteq Word, NEW a \in Elements, NEW b \in Elements,
           NEW keys \in SortKeys, NEW desc \in BOOLEAN
    PROVE  /\ a.text \in Word /\ a.field \in Word
           /\ SortCmp(a, b, keys, desc) =
                IF keys = <<>> THEN IF desc THEN -CmpVals(a.text, b.text) ELSE CmpVals(a.text, b.text)
                ELSE IF CmpVals(a.field, b.field) # 0 THEN -CmpVals(a.field, b.field)
                ELSE CmpVals(a.text, b.text)
  <1>1. a.text \in Word /\ a.field \in Word /\ b.text \in Word /\ b.field \in Word
    BY DEF Elements
  <1>2. CASE keys = <<>>
    BY <1>1, <1>2 DEF SortCmp
  <1>3. CASE keys # <<>>
    <2> DEFINE by(i) == CmpVals(a[keys[i].field], b[keys[i].field])
               differ == {i \in DOMAIN keys : by(i) # 0}
               i0 == CHOOSE i \in differ : \A j \in differ : i <= j
    <2>1. /\ DOMAIN keys = {1, 2}
          /\ keys[1].field = "field" /\ keys[1].desc = TRUE
          /\ keys[2].field = "text" /\ keys[2].desc = FALSE
      BY <1>3 DEF SortKeys
    <2>2. by(1) = CmpVals(a.field, b.field) /\ by(2) = CmpVals(a.text, b.text)
      BY <2>1
    <2>3. SortCmp(a, b, keys, desc) = IF differ = {} THEN 0 ELSE IF keys[i0].desc THEN -by(i0) ELSE by(i0)
      BY <1>3 DEF SortCmp
    <2>4. CASE by(1) # 0
      <3>1. 1 \in differ /\ \A j \in differ : 1 <= j
        BY <2>1, <2>4
      <3>2. i0 = 1
        <4> HIDE DEF differ
        <4>1. \A i \in differ : (\A j \in differ : i <= j) => i = 1
          <5>1. \A i \in differ : i \in {1, 2}
            BY <2>1 DEF differ
          <5> QED BY <3>1, <5>1
        <4> QED BY <3>1, <4>1
      <3> HIDE DEF i0, by, differ
      <3> QED BY <1>1, <1>3, <2>1, <2>2, <2>3, <2>4, <3>1, <3>2
    <2>5. CASE by(1) = 0 /\ by(2) # 0
      <3>1. differ = {2}
        BY <2>1, <2>5
      <3>2. i0 = 2
        BY <3>1
      <3> HIDE DEF i0, by, differ
      <3> QED BY <1>1, <1>3, <2>1, <2>2, <2>3, <2>5, <3>1, <3>2
    <2>6. CASE by(1) = 0 /\ by(2) = 0
      <3>1. differ = {}
        BY <2>1, <2>6
      <3> HIDE DEF i0, by, differ
      <3> QED BY <1>1, <1>3, <2>1, <2>2, <2>3, <2>6, <3>1
    <2> QED BY <2>4, <2>5, <2>6
  <1> QED BY <1>1, <1>2, <1>3

LEMMA SortIs ==
    ASSUME Texts \subseteq Word, in.call = "sort", in.a \in Elements, in.b \in Elements,
           in.keys \in SortKeys, in.desc \in BOOLEAN
    PROVE  SortOrders
  <1> DEFINE a == in.a
             b == in.b
             keys == in.keys
             desc == in.desc
             cmp(u, v) == SortCmp(u, v, keys, desc)
             text(u, v) == CmpVals(u.text, v.text)
             field(u, v) == CmpVals(u.field, v.field)
  <1>1. ASSUME NEW u \in Elements, NEW v \in Elements
        PROVE  /\ cmp(u, v) = IF keys = <<>> THEN IF desc THEN -text(u, v) ELSE text(u, v)
                              ELSE IF field(u, v) # 0 THEN -field(u, v) ELSE text(u, v)
               /\ u.text \in Word /\ u.field \in Word
    BY <1>1, SortCmpIs
  <1>2. ASSUME NEW u \in Elements, NEW v \in Elements, NEW w \in Elements
        PROVE  /\ text(u, v) \in {-1, 0, 1} /\ text(v, u) = -text(u, v)
               /\ text(u, v) <= 0 /\ text(v, w) <= 0 => text(u, w) <= 0
               /\ text(u, v) = 0 => text(u, w) = text(v, w)
    BY <1>1, CmpOrder
  <1>3. ASSUME NEW u \in Elements, NEW v \in Elements, NEW w \in Elements
        PROVE  /\ field(u, v) \in {-1, 0, 1} /\ field(v, u) = -field(u, v)
               /\ field(u, v) <= 0 /\ field(v, w) <= 0 => field(u, w) <= 0
               /\ field(u, v) = 0 => field(u, w) = field(v, w)
    BY <1>1, CmpOrder
  <1> HIDE DEF cmp, text, field
  <1>4. cmp(a, b) = -cmp(b, a)
    BY <1>1, <1>2, <1>3
  <1>5. ASSUME NEW w \in Elements, cmp(a, b) <= 0, cmp(b, w) <= 0
        PROVE  cmp(a, w) <= 0
    <2> DEFINE tab == text(a, b)
               tbw == text(b, w)
               taw == text(a, w)
               tba == text(b, a)
               twb == text(w, b)
               twa == text(w, a)
               fab == field(a, b)
               fbw == field(b, w)
               faw == field(a, w)
               fba == field(b, a)
               fwb == field(w, b)
               fwa == field(w, a)
    <2>1. /\ tab \in {-1, 0, 1} /\ tbw \in {-1, 0, 1} /\ taw \in {-1, 0, 1}
          /\ tba = -tab /\ twb = -tbw /\ twa = -taw
          /\ tab <= 0 /\ tbw <= 0 => taw <= 0
          /\ twb <= 0 /\ tba <= 0 => twa <= 0
      BY <1>2
    <2>2. /\ fab \in {-1, 0, 1} /\ fbw \in {-1, 0, 1} /\ faw \in {-1, 0, 1}
          /\ fba = -fab /\ fwb = -fbw /\ fwa = -faw
          /\ fwb <= 0 /\ fba <= 0 => fwa <= 0
          /\ fab = 0 => faw = fbw
          /\ fwb = 0 => fwa = fba
      BY <1>3
    <2>3. faw = 0 => fwb = fab
      BY <1>3
    <2>4. /\ cmp(a, b) = IF keys = <<>> THEN IF desc THEN -tab ELSE tab ELSE IF fab # 0 THEN -fab ELSE tab
          /\ cmp(b, w) = IF keys = <<>> THEN IF desc THEN -tbw ELSE tbw ELSE IF fbw # 0 THEN -fbw ELSE tbw
          /\ cmp(a, w) = IF keys = <<>> THEN IF desc THEN -taw ELSE taw ELSE IF faw # 0 THEN -faw ELSE taw
      BY <1>1
    <2> HIDE DEF tab, tbw, taw, tba, twb, twa, fab, fbw, faw, fba, fwb, fwa
    <2>5. CASE keys = <<>>
      BY <1>5, <2>1, <2>4, <2>5
    <2>6. CASE keys # <<>>
      <3>1. fab >= 0 /\ fbw >= 0
        BY <1>5, <2>2, <2>4, <2>6
      <3>2. faw >= 0
        BY <2>2, <3>1
      <3>3. CASE faw # 0
        BY <2>2, <2>4, <2>6, <3>2, <3>3
      <3>4. CASE faw = 0
        <4>1. fab = 0 /\ fbw = 0
          BY <2>2, <2>3, <3>1, <3>4
        <4> QED BY <1>5, <2>1, <2>4, <2>6, <3>4, <4>1
      <3> QED BY <3>3, <3>4
    <2> QED BY <2>5, <2>6
  <1> QED BY <1>4, <1>5 DEF SortOrders, cmp
----------------------------------------------------------------------------
(* CHUNK and FLATTEN *)

\* A function on 1 .. m is a list.
LEMMA ListIs ==
    ASSUME NEW S, NEW m \in Nat, NEW q, q = [i \in 1 .. m |-> q[i]], \A i \in 1 .. m : q[i] \in S
    PROVE  q \in Seq(S) /\ Len(q) = m /\ DOMAIN q = 1 .. m
  <1>1. q \in [1 .. m -> S]
    OBVIOUS
  <1>2. q \in Seq(S)
    BY <1>1
  <1>3. Len(q) \in Nat /\ DOMAIN q = 1 .. Len(q)
    BY <1>2, LenProperties
  <1>4. Len(q) = m
    BY <1>1, <1>3
  <1> QED BY <1>1, <1>2, <1>4

\* The loop of FLATTEN.
FlattenLoop(xs, f) ==
    f = [i \in 0 .. Len(xs) |-> IF i = 0 THEN <<>> ELSE f[i - 1] \o xs[i]]

LEMMA FlattenTurns ==
    ASSUME NEW S, NEW xs \in Seq(Seq(S))
    PROVE  \E f : /\ f[0] = <<>> /\ \A i \in 1 .. Len(xs) : f[i] = f[i - 1] \o xs[i]
                  /\ \A i \in 0 .. Len(xs) : f[i] \in Seq(S)
                  /\ Flatten(xs) = f[Len(xs)]
  <1> DEFINE n == Len(xs)
             X == Seq(S)
             step == [p \in (1 .. n) \X X |-> p[2] \o xs[p[1]]]
             f == CHOOSE f : FlattenLoop(xs, f)
  <1>1. n \in Nat /\ <<>> \in X /\ \A i \in 1 .. n : xs[i] \in X
    <2>1. n \in Nat /\ \A i \in 1 .. n : xs[i] \in X
      BY LenProperties, ElementOfSeq
    <2> QED BY <2>1
  <1>2. \A i \in 1 .. n : \A x \in X : x \o xs[i] \in X
    BY <1>1, ConcatProperties
  <1> HIDE DEF n, X
  <1>3. \A i \in 1 .. n : \A x \in X : step[<<i, x>>] = x \o xs[i] /\ step[<<i, x>>] \in X
    BY <1>2
  <1> HIDE DEF step
  <1>4. PICK g : /\ g = [i \in 0 .. n |-> IF i = 0 THEN <<>> ELSE step[<<i, g[i - 1]>>]]
                 /\ \A i \in 0 .. n : g[i] \in X
    <2>1. PICK g : Turned(n, X, <<>>, step, g)
      BY <1>1, <1>3, LoopIn
    <2> QED BY <2>1 DEF Turned
  <1>5. FlattenLoop(xs, g)
    <2>1. ASSUME NEW i \in 0 .. n, i # 0 PROVE step[<<i, g[i - 1]>>] = g[i - 1] \o xs[i]
      <3>1. i \in 1 .. n /\ i - 1 \in 0 .. n
        BY <1>1, <2>1
      <3> QED BY <1>3, <1>4, <3>1
    <2>2. \A i \in 0 .. n : g[i] = IF i = 0 THEN <<>> ELSE g[i - 1] \o xs[i]
      BY <1>4, <2>1
    <2>3. g = [i \in 0 .. n |-> g[i]]
      BY <1>4
    <2> QED BY <2>2, <2>3 DEF FlattenLoop, n
  <1>6. FlattenLoop(xs, f) /\ Flatten(xs) = f[n]
    BY <1>5 DEF FlattenLoop, Flatten, n
  <1> HIDE DEF f
  <1>7. f[0] = <<>> /\ \A i \in 1 .. n : f[i] = f[i - 1] \o xs[i]
    <2>1. \A i \in 0 .. n : f[i] = IF i = 0 THEN <<>> ELSE f[i - 1] \o xs[i]
      BY <1>6 DEF FlattenLoop, n
    <2>2. 0 \in 0 .. n /\ \A i \in 1 .. n : i \in 0 .. n /\ i # 0
      BY <1>1
    <2> QED BY <2>1, <2>2
  <1>8. \A i \in 0 .. n : f[i] \in X
    <2> DEFINE G == {i \in 0 .. n : f[i] \in X}
    <2>1. 0 \in G
      BY <1>1, <1>7
    <2>2. ASSUME NEW i \in 1 .. n, i - 1 \in G PROVE i \in G
      <3>1. f[i - 1] \in X /\ i \in 0 .. n
        BY <1>1, <2>2
      <3> QED BY <1>2, <1>7, <3>1
    <2> HIDE DEF G
    <2>3. 0 .. n \subseteq G
      BY <1>1, <2>1, <2>2, LoopInduction
    <2> QED BY <2>3 DEF G
  <1> QED BY <1>6, <1>7, <1>8 DEF n, X

\* Where the i-th part ends, in a list of n elements cut every size.
Cut(n, size, i) == IF i * size < n THEN i * size ELSE n
Parts(n, size) == (n + size - 1) \div size

LEMMA TimesLess ==
    ASSUME NEW a \in Nat, NEW b \in Nat, a <= b, NEW z \in Nat
    PROVE  a * z \in Nat /\ b * z \in Nat /\ a * z <= b * z
  <1> DEFINE d == b - a
  <1>1. d \in Nat /\ b = a + d
    OBVIOUS
  <1> HIDE DEF d
  <1>2. b * z = a * z + d * z /\ d * z \in Nat /\ a * z \in Nat
    BY <1>1
  <1> QED BY <1>2

LEMMA CutIs ==
    ASSUME NEW n \in Nat, NEW size \in Nat \ {0}
    PROVE  LET m == Parts(n, size)
           IN /\ m \in Nat /\ Cut(n, size, 0) = 0 /\ Cut(n, size, m) = n
              /\ \A i \in 1 .. m :
                    /\ (i - 1) * size = Cut(n, size, i - 1)
                    /\ Cut(n, size, i - 1) \in 0 .. n /\ Cut(n, size, i) \in Cut(n, size, i - 1) .. n
                    /\ i <= m - 1 => Cut(n, size, i) - Cut(n, size, i - 1) = size
  <1> DEFINE m == Parts(n, size)
             r == (n + size - 1) % size
  <1>1. m \in Int /\ r \in 0 .. size - 1 /\ n + size - 1 = size * m + r
    BY Divided DEF Parts
  <1> HIDE DEF m, r
  <1>2. m \in Nat
    <2>1. ASSUME m < 0 PROVE FALSE
      <3> DEFINE k == -m - 1
      <3>1. k \in Nat /\ m = -k - 1
        BY <1>1, <2>1
      <3> HIDE DEF k
      <3>2. size * m = -(size * k) - size /\ size * k \in Nat
        BY <3>1
      <3> QED BY <1>1, <3>2
    <2> QED BY <1>1, <2>1
  <1> DEFINE p == m * size
  <1>3. p \in Nat /\ p = size * m
    BY <1>2
  <1>4. p >= n /\ p - size < n
    <2> HIDE DEF p
    <2> QED BY <1>1, <1>3
  <1>5. Cut(n, size, 0) = 0
    BY DEF Cut
  <1>6. Cut(n, size, m) = n
    <2>1. Cut(n, size, m) = IF p < n THEN p ELSE n
      BY DEF Cut
    <2> HIDE DEF p
    <2> QED BY <1>3, <1>4, <2>1
  <1>7. ASSUME NEW i \in 1 .. m
        PROVE  /\ (i - 1) * size = Cut(n, size, i - 1)
               /\ Cut(n, size, i - 1) \in 0 .. n /\ Cut(n, size, i) \in Cut(n, size, i - 1) .. n
               /\ i <= m - 1 => Cut(n, size, i) - Cut(n, size, i - 1) = size
    <2> DEFINE j == i - 1
               a == j * size
               b == i * size
               z == (m - 1) * size
    <2>1. j \in Nat /\ m - 1 \in Nat /\ j <= m - 1 /\ i \in Nat /\ i = j + 1
      BY <1>2
    <2>2. z = p - size
      BY <1>2
    <2>3. a \in Nat /\ a <= z
      <3> HIDE DEF j
      <3> QED BY <2>1, TimesLess
    <2>4. b = a + size
      BY <2>1
    <2>5. i <= m - 1 => b <= z
      BY <2>1, TimesLess
    <2>6. Cut(n, size, j) = IF a < n THEN a ELSE n
      BY DEF Cut
    <2>7. Cut(n, size, i) = IF b < n THEN b ELSE n
      BY DEF Cut
    <2> HIDE DEF p, a, b, z
    <2>8. a < n
      BY <1>3, <1>4, <2>2, <2>3
    <2>9. i <= m - 1 => b < n
      BY <1>3, <1>4, <2>2, <2>3, <2>4, <2>5
    <2>10. a = Cut(n, size, j) /\ a \in 0 .. n
      BY <2>3, <2>6, <2>8
    <2>11. Cut(n, size, i) \in a .. n
      BY <2>3, <2>4, <2>7, <2>8
    <2>12. i <= m - 1 => Cut(n, size, i) - a = size
      BY <2>3, <2>4, <2>7, <2>9
    <2> QED BY <2>10, <2>11, <2>12 DEF a
  <1> QED BY <1>2, <1>5, <1>6, <1>7 DEF m

LEMMA ChunkIs ==
    ASSUME NEW S, NEW x \in Seq(S), NEW size \in Nat \ {0}
    PROVE  /\ Flatten(Chunk(x, size)) = x
           /\ \A i \in 1 .. Len(Chunk(x, size)) - 1 : Len(Chunk(x, size)[i]) = size
  <1> DEFINE n == Len(x)
             m == Parts(n, size)
             cut(i) == Cut(n, size, i)
             parts == Chunk(x, size)
  <1>1. n \in Nat /\ \A i \in 1 .. n : x[i] \in S
    BY LenProperties, ElementOfSeq
  <1>2. /\ m \in Nat /\ cut(0) = 0 /\ cut(m) = n
        /\ \A i \in 1 .. m : /\ (i - 1) * size = cut(i - 1)
                             /\ cut(i - 1) \in 0 .. n /\ cut(i) \in cut(i - 1) .. n
                             /\ i <= m - 1 => cut(i) - cut(i - 1) = size
    BY <1>1, CutIs
  <1>3. parts = [i \in 1 .. m |-> SubSeq(x, (i - 1) * size + 1, cut(i))]
    BY DEF Chunk, Parts, Cut
  <1> HIDE DEF n, m, cut, parts
  <1>4. ASSUME NEW i \in 1 .. m
        PROVE  /\ parts[i] = SubSeq(x, cut(i - 1) + 1, cut(i))
               /\ parts[i] \in Seq(S) /\ Len(parts[i]) = cut(i) - cut(i - 1)
    <2> DEFINE a == cut(i - 1)
               b == cut(i)
    <2>1. a \in 0 .. n /\ b \in a .. n /\ (i - 1) * size = a
      BY <1>2
    <2>2. parts[i] = SubSeq(x, a + 1, b)
      BY <1>3, <2>1
    <2> HIDE DEF a, b
    <2>3. \A k \in a + 1 .. b : x[k] \in S
      BY <1>1, <2>1
    <2>4. a + 1 \in Int /\ b \in Int
      BY <1>1, <2>1
    <2>5. /\ SubSeq(x, a + 1, b) \in Seq(S)
          /\ Len(SubSeq(x, a + 1, b)) = IF a + 1 <= b THEN b - (a + 1) + 1 ELSE 0
      BY <2>3, <2>4, SubSeqProperties
    <2>6. Len(parts[i]) = b - a
      BY <1>1, <2>1, <2>2, <2>5
    <2> QED BY <2>2, <2>5, <2>6 DEF a, b
  <1>5. parts = [i \in 1 .. m |-> parts[i]]
    BY <1>3
  <1>6. parts \in Seq(Seq(S)) /\ Len(parts) = m
    BY <1>2, <1>4, <1>5, ListIs
  <1>7. PICK f : /\ f[0] = <<>> /\ \A i \in 1 .. m : f[i] = f[i - 1] \o parts[i]
                 /\ Flatten(parts) = f[m]
    BY <1>6, FlattenTurns
  <1> DEFINE G == {i \in 0 .. m : f[i] = SubSeq(x, 1, cut(i))}
  <1>8. 0 \in G
    <2>1. SubSeq(x, 1, 0) = <<>>
      BY SubSeqEmpty
    <2>2. f[0] = SubSeq(x, 1, cut(0))
      BY <1>2, <1>7, <2>1
    <2>3. 0 \in 0 .. m
      BY <1>2
    <2> QED BY <2>2, <2>3
  <1>9. ASSUME NEW i \in 1 .. m, i - 1 \in G PROVE i \in G
    <2> DEFINE a == cut(i - 1)
               b == cut(i)
    <2>1. a \in 0 .. n /\ b \in a .. n
      BY <1>2
    <2>2. f[i] = SubSeq(x, 1, a) \o SubSeq(x, a + 1, b)
      BY <1>4, <1>7, <1>9
    <2> HIDE DEF a, b
    <2>3. 1 \in 1 .. Len(x) + 1 /\ a \in 1 - 1 .. Len(x) /\ b \in a .. Len(x)
      BY <1>1, <2>1 DEF n
    <2>4. SubSeq(x, 1, a) \o SubSeq(x, a + 1, b) = SubSeq(x, 1, b)
      BY <2>3, ConcatAdjacentSubSeq
    <2>5. i \in 0 .. m
      BY <1>2
    <2> QED BY <2>2, <2>4, <2>5 DEF b
  <1> HIDE DEF G
  <1>10. 0 .. m \subseteq G
    BY <1>2, <1>8, <1>9, LoopInduction
  <1>11. f[m] = SubSeq(x, 1, n)
    BY <1>2, <1>10 DEF G
  <1>12. Flatten(parts) = x
    BY <1>7, <1>11, SubSeqFull DEF n
  <1>13. ASSUME NEW i \in 1 .. m - 1 PROVE Len(parts[i]) = size
    <2>1. i \in 1 .. m /\ i <= m - 1
      BY <1>2
    <2> QED BY <1>2, <1>4, <2>1
  <1> QED BY <1>6, <1>12, <1>13 DEF parts
----------------------------------------------------------------------------
(* INDEX_OF, UNIQUE, REVERSE and REMOVE *)

\* v is first at position k of x.
FirstAt(x, v, k) == k \in 1 .. Len(x) /\ x[k] = v /\ \A l \in 1 .. k - 1 : x[l] # v

LEMMA IndexIs ==
    ASSUME NEW S, NEW x \in Seq(S), NEW v
    PROVE  /\ (\A k \in 1 .. Len(x) : x[k] # v) => IndexOf(x, v) = -1
           /\ \A k : FirstAt(x, v, k) => IndexOf(x, v) = k - 1
           /\ (\E k \in 1 .. Len(x) : x[k] = v) => \E k : FirstAt(x, v, k)
  <1> DEFINE hits == {i \in DOMAIN x : x[i] = v}
             first == CHOOSE i \in hits : \A j \in hits : i <= j
  <1>1. Len(x) \in Nat /\ DOMAIN x = 1 .. Len(x)
    BY LenProperties
  <1>2. IndexOf(x, v) = IF hits = {} THEN -1 ELSE first - 1
    BY DEF IndexOf
  <1>3. (\A k \in 1 .. Len(x) : x[k] # v) => hits = {}
    BY <1>1
  <1>4. ASSUME NEW k, FirstAt(x, v, k) PROVE IndexOf(x, v) = k - 1
    <2>1. k \in hits /\ \A j \in hits : k <= j
      BY <1>1, <1>4 DEF FirstAt
    <2>2. \A i \in hits : (\A j \in hits : i <= j) => i = k
      BY <1>1, <2>1
    <2> HIDE DEF hits
    <2>3. first = k
      BY <2>1, <2>2
    <2> QED BY <1>2, <2>1, <2>3
  <1>5. ASSUME NEW k \in 1 .. Len(x), x[k] = v PROVE \E l : FirstAt(x, v, l)
    <2>1. hits \in SUBSET Nat /\ hits # {}
      BY <1>1, <1>5
    <2>2. PICK l \in hits : \A j \in hits : l <= j
      <3> HIDE DEF hits
      <3> QED BY <2>1, LeastNatural
    <2>3. FirstAt(x, v, l)
      BY <1>1, <2>2 DEF FirstAt
    <2> QED BY <2>3
  <1> QED BY <1>2, <1>3, <1>4, <1>5

\* The loop of UNIQUE.
UniqueStep(u, v) == IF \E j \in DOMAIN u : u[j] = v THEN u ELSE Append(u, v)
UniqueLoop(x, f) ==
    f = [i \in 0 .. Len(x) |-> IF i = 0 THEN <<>> ELSE UniqueStep(f[i - 1], x[i])]

LEMMA UniqueTurns ==
    ASSUME NEW S, NEW x \in Seq(S)
    PROVE  \E f : /\ f[0] = <<>> /\ \A i \in 1 .. Len(x) : f[i] = UniqueStep(f[i - 1], x[i])
                  /\ Unique(x) = f[Len(x)]
  <1> DEFINE n == Len(x)
             X == Seq(S)
             step == [p \in (1 .. n) \X X |-> UniqueStep(p[2], x[p[1]])]
             f == CHOOSE f : UniqueLoop(x, f)
  <1>1. n \in Nat /\ <<>> \in X /\ \A i \in 1 .. n : x[i] \in S
    BY LenProperties, ElementOfSeq
  <1>2. \A i \in 1 .. n : \A u \in X : UniqueStep(u, x[i]) \in X
    BY <1>1, AppendProperties DEF UniqueStep
  <1> HIDE DEF n, X
  <1>3. \A i \in 1 .. n : \A u \in X : step[<<i, u>>] = UniqueStep(u, x[i]) /\ step[<<i, u>>] \in X
    BY <1>2
  <1> HIDE DEF step
  <1>4. PICK g : /\ g = [i \in 0 .. n |-> IF i = 0 THEN <<>> ELSE step[<<i, g[i - 1]>>]]
                 /\ \A i \in 0 .. n : g[i] \in X
    <2>1. PICK g : Turned(n, X, <<>>, step, g)
      BY <1>1, <1>3, LoopIn
    <2> QED BY <2>1 DEF Turned
  <1>5. UniqueLoop(x, g)
    <2>1. ASSUME NEW i \in 0 .. n, i # 0 PROVE step[<<i, g[i - 1]>>] = UniqueStep(g[i - 1], x[i])
      <3>1. i \in 1 .. n /\ i - 1 \in 0 .. n
        BY <1>1, <2>1
      <3> QED BY <1>3, <1>4, <3>1
    <2>2. \A i \in 0 .. n : g[i] = IF i = 0 THEN <<>> ELSE UniqueStep(g[i - 1], x[i])
      BY <1>4, <2>1
    <2>3. g = [i \in 0 .. n |-> g[i]]
      BY <1>4
    <2> QED BY <2>2, <2>3 DEF UniqueLoop, n
  <1>6. UniqueLoop(x, f)
    BY <1>5
  <1>7. Unique(x) = f[n]
    BY DEF UniqueLoop, UniqueStep, Unique, n
  <1> HIDE DEF f
  <1>8. f[0] = <<>> /\ \A i \in 1 .. n : f[i] = UniqueStep(f[i - 1], x[i])
    <2>1. \A i \in 0 .. n : f[i] = IF i = 0 THEN <<>> ELSE UniqueStep(f[i - 1], x[i])
      BY <1>6 DEF UniqueLoop, n
    <2>2. 0 \in 0 .. n /\ \A i \in 1 .. n : i \in 0 .. n /\ i # 0
      BY <1>1
    <2> QED BY <2>1, <2>2
  <1> QED BY <1>7, <1>8 DEF n

\* u has the texts of the first i elements of x, in the order of their first
\* occurrences.
Firsts(x, i, u) ==
    /\ {u[j] : j \in 1 .. Len(u)} = {x[k] : k \in 1 .. i}
    /\ \A a \in 1 .. Len(u) : IndexOf(x, u[a]) \in 0 .. i - 1
    /\ \A a, b \in 1 .. Len(u) : a < b => u[a] # u[b] /\ IndexOf(x, u[a]) < IndexOf(x, u[b])

LEMMA UniqueMore ==
    ASSUME NEW S, NEW x \in Seq(S), NEW i \in 1 .. Len(x), NEW u \in Seq(S), Firsts(x, i - 1, u)
    PROVE  UniqueStep(u, x[i]) \in Seq(S) /\ Firsts(x, i, UniqueStep(u, x[i]))
  <1> DEFINE n == Len(u)
             v == x[i]
             t == Append(u, v)
  <1>1. Len(x) \in Nat /\ n \in Nat /\ DOMAIN u = 1 .. n /\ v \in S
    BY LenProperties, ElementOfSeq
  <1>2. {x[k] : k \in 1 .. i} = {x[k] : k \in 1 .. i - 1} \union {v}
    <2>1. \A k : k \in 1 .. i <=> k \in 1 .. i - 1 \/ k = i
      BY <1>1
    <2> QED BY <2>1
  <1>3. ASSUME NEW a \in 1 .. n PROVE IndexOf(x, u[a]) \in 0 .. i - 1 /\ IndexOf(x, u[a]) < i - 1
    <2>1. IndexOf(x, u[a]) \in 0 .. (i - 1) - 1
      BY DEF Firsts
    <2> QED BY <1>1, <2>1
  <1>4. CASE \E j \in 1 .. n : u[j] = v
    <2>1. UniqueStep(u, v) = u
      BY <1>1, <1>4 DEF UniqueStep
    <2>2. v \in {x[k] : k \in 1 .. i - 1}
      BY <1>4 DEF Firsts
    <2>3. {u[j] : j \in 1 .. n} = {x[k] : k \in 1 .. i}
      BY <1>2, <2>2 DEF Firsts
    <2>4. Firsts(x, i, u)
      BY <1>3, <2>3 DEF Firsts
    <2> QED BY <2>1, <2>4
  <1>5. CASE ~ \E j \in 1 .. n : u[j] = v
    <2>1. UniqueStep(u, v) = t
      BY <1>1, <1>5 DEF UniqueStep
    <2>2. /\ t \in Seq(S) /\ Len(t) = n + 1 /\ t[n + 1] = v
          /\ \A j \in 1 .. n : t[j] = u[j]
      BY <1>1, AppendProperties
    <2>3. \A j : j \in 1 .. n + 1 <=> j \in 1 .. n \/ j = n + 1
      BY <1>1
    <2>4. v \notin {x[k] : k \in 1 .. i - 1}
      BY <1>5 DEF Firsts
    <2>5. FirstAt(x, v, i)
      BY <2>4 DEF FirstAt
    <2>6. IndexOf(x, v) = i - 1
      BY <2>5, IndexIs
    <2> HIDE DEF t, v, n
    <2>7. {t[j] : j \in 1 .. n + 1} = {u[j] : j \in 1 .. n} \union {v}
      <3>1. ASSUME NEW j \in 1 .. n + 1 PROVE t[j] \in {u[l] : l \in 1 .. n} \union {v}
        BY <2>2, <2>3
      <3>2. ASSUME NEW j \in 1 .. n PROVE u[j] \in {t[l] : l \in 1 .. n + 1}
        BY <2>2, <2>3
      <3>3. v \in {t[l] : l \in 1 .. n + 1}
        BY <2>2, <2>3
      <3> QED BY <3>1, <3>2, <3>3
    <2>8. {t[j] : j \in 1 .. n + 1} = {x[k] : k \in 1 .. i}
      BY <1>2, <2>7 DEF Firsts, n
    <2>9. i - 1 \in 0 .. i - 1
      OBVIOUS
    <2>10. ASSUME NEW a \in 1 .. n + 1 PROVE IndexOf(x, t[a]) \in 0 .. i - 1
      <3>1. CASE a \in 1 .. n
        BY <1>3, <2>2, <3>1
      <3>2. CASE a = n + 1
        BY <2>2, <2>6, <2>9, <3>2
      <3> QED BY <2>3, <3>1, <3>2
    <2>11. ASSUME NEW a \in 1 .. n + 1, NEW b \in 1 .. n + 1, a < b
           PROVE  t[a] # t[b] /\ IndexOf(x, t[a]) < IndexOf(x, t[b])
      <3>1. a \in 1 .. n
        BY <1>1, <2>11
      <3>2. CASE b \in 1 .. n
        BY <2>2, <2>11, <3>1, <3>2 DEF Firsts, n
      <3>3. CASE b = n + 1
        <4>1. t[a] = u[a] /\ t[b] = v /\ IndexOf(x, u[a]) < i - 1
          BY <1>3, <2>2, <3>1, <3>3
        <4>2. u[a] # v
          BY <1>5, <3>1 DEF n, v
        <4> QED BY <2>6, <4>1, <4>2
      <3> QED BY <2>3, <3>2, <3>3
    <2>12. Firsts(x, i, t)
      BY <2>2, <2>8, <2>10, <2>11 DEF Firsts
    <2> QED BY <2>1, <2>2, <2>12 DEF v
  <1> QED BY <1>4, <1>5

LEMMA UniqueIs ==
    ASSUME NEW S, NEW x \in Seq(S)
    PROVE  Unique(x) \in Seq(S) /\ Firsts(x, Len(x), Unique(x))
  <1> DEFINE n == Len(x)
  <1>1. n \in Nat
    BY LenProperties
  <1>2. PICK f : /\ f[0] = <<>> /\ \A i \in 1 .. n : f[i] = UniqueStep(f[i - 1], x[i])
                 /\ Unique(x) = f[n]
    BY UniqueTurns
  <1> DEFINE G == {i \in 0 .. n : f[i] \in Seq(S) /\ Firsts(x, i, f[i])}
  <1>3. 0 \in G
    <2>1. <<>> \in Seq(S) /\ Len(<<>>) = 0
      OBVIOUS
    <2>2. 1 .. 0 = {}
      OBVIOUS
    <2>3. Firsts(x, 0, <<>>)
      BY <2>1, <2>2 DEF Firsts
    <2>4. 0 \in 0 .. n
      BY <1>1
    <2> QED BY <1>2, <2>1, <2>3, <2>4
  <1>4. ASSUME NEW i \in 1 .. n, i - 1 \in G PROVE i \in G
    <2>1. i \in 0 .. n /\ f[i] = UniqueStep(f[i - 1], x[i])
      BY <1>1, <1>2
    <2>2. f[i - 1] \in Seq(S) /\ Firsts(x, i - 1, f[i - 1])
      BY <1>4
    <2>3. f[i] \in Seq(S) /\ Firsts(x, i, f[i])
      BY <2>1, <2>2, UniqueMore
    <2> QED BY <2>1, <2>3
  <1> HIDE DEF G
  <1>5. 0 .. n \subseteq G
    BY <1>1, <1>3, <1>4, LoopInduction
  <1>6. n \in G
    BY <1>1, <1>5
  <1> QED BY <1>2, <1>6 DEF G, n

LEMMA ReverseTwice ==
    ASSUME NEW S, NEW x \in Seq(S)
    PROVE  ListReverse(ListReverse(x)) = x
  <1> DEFINE n == Len(x)
             r == ListReverse(x)
  <1>1. n \in Nat /\ DOMAIN x = 1 .. n /\ x = [i \in 1 .. n |-> x[i]] /\ \A i \in 1 .. n : x[i] \in S
    BY LenProperties, ElementOfSeq
  <1>2. r = [i \in 1 .. n |-> x[n + 1 - i]]
    BY DEF ListReverse
  <1> HIDE DEF n, r
  <1>3. \A i \in 1 .. n : n + 1 - i \in 1 .. n /\ n + 1 - (n + 1 - i) = i
    BY <1>1
  <1>4. r = [i \in 1 .. n |-> r[i]] /\ \A i \in 1 .. n : r[i] \in S
    BY <1>1, <1>2, <1>3
  <1>5. Len(r) = n
    BY <1>1, <1>4, ListIs
  <1>6. ListReverse(r) = [i \in 1 .. n |-> r[n + 1 - i]]
    BY <1>5 DEF ListReverse
  <1>7. \A i \in 1 .. n : r[n + 1 - i] = x[i]
    BY <1>2, <1>3
  <1>8. ListReverse(r) = [i \in 1 .. n |-> x[i]]
    BY <1>6, <1>7
  <1> QED BY <1>1, <1>8 DEF r

LEMMA RemovedIs ==
    ASSUME NEW S, NEW x \in Seq(S), NEW v, NEW w
    PROVE  Occ(ListRemoved(x, v), w) = Occ(x, w) - (IF v = w /\ Occ(x, w) > 0 THEN 1 ELSE 0)
  <1> DEFINE n == Len(x)
  <1>1. n \in Nat /\ DOMAIN x = 1 .. n /\ \A i \in 1 .. n : x[i] \in S
    BY LenProperties, ElementOfSeq
  <1>2. Occ(x, w) \in Nat
    BY OccType
  <1>3. CASE \A k \in 1 .. n : x[k] # v
    <2>1. IndexOf(x, v) = -1
      BY <1>3, IndexIs
    <2>2. ListRemoved(x, v) = x
      BY <2>1 DEF ListRemoved
    <2>3. v = w => Occ(x, w) = 0
      <3>1. v = w => {k \in DOMAIN x : x[k] = w} = {}
        BY <1>1, <1>3
      <3> QED BY <3>1, FS_EmptySet DEF Occ
    <2> QED BY <1>2, <2>2, <2>3
  <1>4. CASE \E k \in 1 .. n : x[k] = v
    <2>1. PICK k : FirstAt(x, v, k)
      BY <1>4, IndexIs
    <2>2. k \in 1 .. n /\ x[k] = v /\ IndexOf(x, v) = k - 1
      BY <2>1, IndexIs DEF FirstAt
    <2> DEFINE p == SubSeq(x, 1, k - 1)
               q == SubSeq(x, k + 1, n)
    <2>3. ListRemoved(x, v) = p \o q
      <3>1. k - 1 # -1 /\ (k - 1) + 2 = k + 1
        BY <2>2
      <3> QED BY <2>2, <3>1 DEF ListRemoved
    <2>4. p \in Seq(S) /\ q \in Seq(S)
      <3>1. (\A i \in 1 .. k - 1 : x[i] \in S) /\ \A i \in k + 1 .. n : x[i] \in S
        BY <1>1, <2>2
      <3>2. k - 1 \in Int /\ k + 1 \in Int /\ n \in Int /\ 1 \in Int
        BY <1>1, <2>2
      <3> HIDE DEF n
      <3> QED BY <3>1, <3>2, SubSeqProperties
    <2>5. x = Append(p, v) \o q
      <3>1. k \in 1 .. Len(x) /\ 1 \in 1 .. Len(x) /\ k \in 1 .. Len(x)
        BY <1>1, <2>2
      <3>2. SubSeq(x, 1, k) = p \o <<v>>
        BY <2>2, <3>1, SubSeqRecursiveSecond
      <3>3. Append(p, v) = p \o <<v>>
        BY <1>1, <2>2, <2>4, AppendIsConcat
      <3>4. 1 \in 1 .. Len(x) + 1 /\ k \in 1 - 1 .. Len(x) /\ n \in k .. Len(x)
        BY <1>1, <2>2
      <3>5. SubSeq(x, 1, k) \o q = SubSeq(x, 1, n)
        BY <3>4, ConcatAdjacentSubSeq
      <3>6. SubSeq(x, 1, n) = x
        BY SubSeqFull
      <3> QED BY <3>2, <3>3, <3>5, <3>6
    <2>6. v \in S
      BY <1>1, <2>2
    <2> HIDE DEF p, q
    <2>7. Occ(p \o q, w) = Occ(p, w) + Occ(q, w)
      BY <2>4, OccConcat
    <2>71. Occ(p, w) \in Nat
      BY <2>4, OccType
    <2>72. Occ(q, w) \in Nat
      BY <2>4, OccType
    <2>8. Append(p, v) \in Seq(S) /\ Occ(Append(p, v), w) = Occ(p, w) + OneAt(v, w)
      BY <2>4, <2>6, OccAppend, AppendProperties
    <2>9. Occ(x, w) = Occ(Append(p, v), w) + Occ(q, w)
      BY <2>4, <2>5, <2>8, OccConcat
    <2>10. OneAt(v, w) = IF v = w THEN 1 ELSE 0
      BY DEF OneAt
    <2> DEFINE a == Occ(p, w)
               b == Occ(q, w)
               o == Occ(x, w)
               d == OneAt(v, w)
    <2>11. a \in Nat /\ b \in Nat /\ Occ(ListRemoved(x, v), w) = a + b
      BY <2>3, <2>7, <2>71, <2>72
    <2>12. o = (a + d) + b
      BY <2>8, <2>9
    <2>13. d = IF v = w THEN 1 ELSE 0
      BY <2>10
    <2> HIDE DEF a, b, o, d
    <2>14. a + b = o - (IF v = w /\ o > 0 THEN 1 ELSE 0)
      <3>1. CASE v = w
        <4>1. d = 1
          BY <2>13, <3>1
        <4> QED BY <2>11, <2>12, <3>1, <4>1
      <3>2. CASE v # w
        <4>1. d = 0
          BY <2>13, <3>2
        <4> QED BY <2>11, <2>12, <3>2, <4>1
      <3> QED BY <3>1, <3>2
    <2> QED BY <2>11, <2>14 DEF o

  <1> QED BY <1>3, <1>4

----------------------------------------------------------------------------
(* BRAID read as a map *)

LEMMA OddAt ==
    ASSUME NEW q \in Nat, NEW j \in 1 .. 2 * q, j % 2 = 1
    PROVE  \E a \in 1 .. q : j = 2 * a - 1
  <1> DEFINE a == (j + 1) \div 2
  <1>1. a \in 1 .. q /\ j = 2 * a - 1
    OBVIOUS
  <1> QED BY <1>1

LEMMA AtOdd ==
    ASSUME NEW q \in Nat, NEW a \in 1 .. q
    PROVE  /\ 2 * a - 1 \in 1 .. 2 * q /\ (2 * a - 1) % 2 = 1 /\ 2 * a \in 1 .. 2 * q
           /\ 2 * a - 1 + 1 = 2 * a
  OBVIOUS

\* k is the last of the first i places at which x has t.
LastAt(x, i, t, k) == k \in 1 .. i /\ x[k] = t /\ \A l \in 1 .. i : x[l] = t => l <= k

\* m has one pair for each text of the first i of x, with the last of y.
Braided(S, x, y, i, m, q) ==
    /\ q \in Nat /\ m \in Seq(S) /\ Len(m) = 2 * q
    /\ \A a, b \in 1 .. q : m[2 * a - 1] = m[2 * b - 1] => a = b
    /\ {m[2 * a - 1] : a \in 1 .. q} = {x[k] : k \in 1 .. i}
    /\ \A a \in 1 .. q : \E k : LastAt(x, i, m[2 * a - 1], k) /\ m[2 * a] = y[k]

BraidedSome(S, x, y, i, m) == \E q : Braided(S, x, y, i, m, q)

\* m is a list of q pairs.
PairList(S, m, q) == q \in Nat /\ m \in Seq(S) /\ Len(m) = 2 * q

PairSet(m, a, v) == [m EXCEPT ![2 * a] = v]

NoKey(m, q, k) == \A a \in 1 .. q : m[2 * a - 1] # k
OnlyKey(m, q, k, a) == a \in 1 .. q /\ m[2 * a - 1] = k /\ \A b \in 1 .. q : m[2 * b - 1] = k => b = a

LEMMA LinkNew ==
    ASSUME NEW S, NEW q, NEW m, PairList(S, m, q), NEW k, NEW v, NoKey(m, q, k)
    PROVE  Linked(m, k, v) = m \o <<k, v>>
  <1> DEFINE hits == {i \in DOMAIN m : i % 2 = 1 /\ m[i] = k}
  <1>0. q \in Nat /\ \A a \in 1 .. q : m[2 * a - 1] # k
    BY DEF PairList, NoKey
  <1>1. DOMAIN m = 1 .. 2 * q
    BY LenProperties DEF PairList
  <1>2. ASSUME NEW i \in hits PROVE FALSE
    <2>1. PICK a \in 1 .. q : i = 2 * a - 1
      BY <1>0, <1>1, OddAt
    <2> QED BY <1>0, <2>1
  <1>3. hits = {}
    BY <1>2
  <1> QED BY <1>3 DEF Linked

LEMMA LinkOld ==
    ASSUME NEW S, NEW q, NEW m, PairList(S, m, q), NEW k, NEW v, NEW a, OnlyKey(m, q, k, a)
    PROVE  Linked(m, k, v) = PairSet(m, a, v)
  <1> DEFINE hits == {i \in DOMAIN m : i % 2 = 1 /\ m[i] = k}
             f == 2 * a - 1
             at == CHOOSE i \in hits : \A j \in hits : i <= j
  <1>0. q \in Nat /\ a \in 1 .. q /\ m[2 * a - 1] = k /\ \A b \in 1 .. q : m[2 * b - 1] = k => b = a
    BY DEF PairList, OnlyKey
  <1>1. DOMAIN m = 1 .. 2 * q
    BY LenProperties DEF PairList
  <1>2. f \in hits /\ f + 1 = 2 * a /\ f \in Int
    BY <1>0, <1>1, AtOdd
  <1>3. ASSUME NEW i \in hits PROVE i = f
    <2>1. PICK b \in 1 .. q : i = 2 * b - 1
      BY <1>0, <1>1, OddAt
    <2> QED BY <1>0, <2>1
  <1>4. Linked(m, k, v) = IF hits = {} THEN m \o <<k, v>> ELSE [m EXCEPT ![at + 1] = v]
    BY DEF Linked
  <1> HIDE DEF hits, f
  <1>5. at = f
    <2>1. f <= f
      BY <1>2
    <2>2. \E i \in hits : \A j \in hits : i <= j
      BY <1>2, <1>3, <2>1
    <2>3. at \in hits
      BY <2>2
    <2> QED BY <1>3, <2>3
  <1> HIDE DEF at
  <1>6. Linked(m, k, v) = [m EXCEPT ![f + 1] = v]
    BY <1>2, <1>4, <1>5
  <1> QED BY <1>2, <1>6 DEF PairSet

\* One more turn: the text of place i is the last of its value.
LEMMA LastMore ==
    ASSUME NEW x, NEW i \in Nat \ {0}, NEW t, NEW k
    PROVE  /\ x[i] = t => LastAt(x, i, t, i)
           /\ x[i] # t /\ LastAt(x, i - 1, t, k) => LastAt(x, i, t, k)
  <1>1. \A l : l \in 1 .. i <=> l \in 1 .. i - 1 \/ l = i
    OBVIOUS
  <1>2. x[i] = t => LastAt(x, i, t, i)
    BY DEF LastAt
  <1>3. ASSUME x[i] # t, LastAt(x, i - 1, t, k) PROVE LastAt(x, i, t, k)
    BY <1>1, <1>3 DEF LastAt
  <1> QED BY <1>2, <1>3

LEMMA BraidOld ==
    ASSUME NEW S, NEW x, NEW y, NEW i \in Nat \ {0}, NEW m, NEW q, Braided(S, x, y, i - 1, m, q),
           y[i] \in S, x[i] \in S, NEW a \in 1 .. q, m[2 * a - 1] = x[i]
    PROVE  Braided(S, x, y, i, Linked(m, x[i], y[i]), q)
  <1> DEFINE t == [m EXCEPT ![2 * a] = y[i]]
  <1>1. /\ q \in Nat /\ m \in Seq(S) /\ Len(m) = 2 * q
        /\ \A e, b \in 1 .. q : m[2 * e - 1] = m[2 * b - 1] => e = b
        /\ {m[2 * e - 1] : e \in 1 .. q} = {x[k] : k \in 1 .. i - 1}
        /\ \A e \in 1 .. q : \E k : LastAt(x, i - 1, m[2 * e - 1], k) /\ m[2 * e] = y[k]
    BY DEF Braided
  <1>2. Linked(m, x[i], y[i]) = t
    <2> DEFINE k0 == x[i]
               v0 == y[i]
    <2>1. OnlyKey(m, q, k0, a)
      BY <1>1 DEF OnlyKey
    <2>2. PairList(S, m, q)
      BY <1>1 DEF PairList
    <2>3. t = PairSet(m, a, v0)
      BY DEF PairSet
    <2> HIDE DEF k0, v0, t
    <2>4. Linked(m, k0, v0) = PairSet(m, a, v0)

      BY <2>1, <2>2, LinkOld
    <2> QED BY <2>3, <2>4 DEF k0, v0
  <1>3. t \in Seq(S) /\ Len(t) = 2 * q /\ \A e \in 1 .. 2 * q : t[e] = IF e = 2 * a THEN y[i] ELSE m[e]
    <2>1. 2 * a \in 1 .. 2 * q
      BY <1>1, AtOdd
    <2> QED BY <1>1, <2>1, ExceptSeq
  <1> HIDE DEF t
  <1>4. ASSUME NEW e \in 1 .. q PROVE t[2 * e - 1] = m[2 * e - 1] /\ t[2 * e] = IF e = a THEN y[i] ELSE m[2 * e]
    <2>1. 2 * e - 1 \in 1 .. 2 * q /\ 2 * e \in 1 .. 2 * q
      BY <1>1, AtOdd
    <2>2. 2 * e - 1 # 2 * a /\ (2 * e = 2 * a <=> e = a)
      BY <1>1
    <2> QED BY <1>3, <2>1, <2>2
  <1>5. {x[k] : k \in 1 .. i} = {x[k] : k \in 1 .. i - 1}
    <2>1. \A k : k \in 1 .. i <=> k \in 1 .. i - 1 \/ k = i
      OBVIOUS
    <2>2. x[i] \in {x[k] : k \in 1 .. i - 1}
      BY <1>1
    <2> QED BY <2>1, <2>2
  <1>6. {t[2 * e - 1] : e \in 1 .. q} = {x[k] : k \in 1 .. i}
    <2>1. {t[2 * e - 1] : e \in 1 .. q} = {m[2 * e - 1] : e \in 1 .. q}
      BY <1>4
    <2> QED BY <1>1, <1>5, <2>1
  <1>7. ASSUME NEW e \in 1 .. q PROVE \E k : LastAt(x, i, t[2 * e - 1], k) /\ t[2 * e] = y[k]
    <2>1. CASE e = a
      <3>1. x[i] = t[2 * e - 1] /\ t[2 * e] = y[i]
        BY <1>4, <2>1
      <3> QED BY <3>1, LastMore
    <2>2. CASE e # a
      <3>1. x[i] # m[2 * e - 1]
        BY <1>1, <2>2
      <3>2. PICK k : LastAt(x, i - 1, m[2 * e - 1], k) /\ m[2 * e] = y[k]
        BY <1>1
      <3>3. LastAt(x, i, m[2 * e - 1], k)
        BY <3>1, <3>2, LastMore
      <3> QED BY <1>4, <2>2, <3>2, <3>3
    <2> QED BY <2>1, <2>2
  <1>8. \A e, b \in 1 .. q : t[2 * e - 1] = t[2 * b - 1] => e = b
    BY <1>1, <1>4
  <1>9. Braided(S, x, y, i, t, q)
    BY <1>1, <1>3, <1>6, <1>7, <1>8 DEF Braided
  <1> QED BY <1>2, <1>9

LEMMA BraidNew ==
    ASSUME NEW S, NEW x, NEW y, NEW i \in Nat \ {0}, NEW m, NEW q, Braided(S, x, y, i - 1, m, q),
           y[i] \in S, x[i] \in S, \A a \in 1 .. q : m[2 * a - 1] # x[i]
    PROVE  Braided(S, x, y, i, Linked(m, x[i], y[i]), q + 1)
  <1> DEFINE t == m \o <<x[i], y[i]>>
  <1>1. /\ q \in Nat /\ m \in Seq(S) /\ Len(m) = 2 * q
        /\ \A e, b \in 1 .. q : m[2 * e - 1] = m[2 * b - 1] => e = b
        /\ {m[2 * e - 1] : e \in 1 .. q} = {x[k] : k \in 1 .. i - 1}
        /\ \A e \in 1 .. q : \E k : LastAt(x, i - 1, m[2 * e - 1], k) /\ m[2 * e] = y[k]
    BY DEF Braided
  <1>2. Linked(m, x[i], y[i]) = t
    <2> DEFINE k0 == x[i]
               v0 == y[i]
    <2>1. NoKey(m, q, k0)
      BY DEF NoKey
    <2>2. PairList(S, m, q)
      BY <1>1 DEF PairList

    <2>3. t = m \o <<k0, v0>>
      OBVIOUS
    <2> HIDE DEF k0, v0, t
    <2>4. Linked(m, k0, v0) = m \o <<k0, v0>>
      BY <2>1, <2>2, LinkNew
    <2> QED BY <2>3, <2>4 DEF k0, v0
  <1>3. t \in Seq(S) /\ Len(t) = 2 * q + 2 /\ t[2 * q + 1] = x[i] /\ t[2 * q + 2] = y[i]
        /\ \A e \in 1 .. 2 * q : t[e] = m[e]
    <2> DEFINE p == <<x[i], y[i]>>
    <2>1. p \in Seq(S) /\ Len(p) = 2 /\ p[1] = x[i] /\ p[2] = y[i]
      OBVIOUS
    <2>2. t = m \o p
      OBVIOUS
    <2>3. q \in Nat /\ m \in Seq(S) /\ Len(m) = 2 * q
      BY <1>1
    <2> HIDE DEF p, t
    <2>4. m \o p \in Seq(S) /\ Len(m \o p) = Len(m) + Len(p)
          /\ \A e \in 1 .. Len(m) + Len(p) : (m \o p)[e] = IF e <= Len(m) THEN m[e] ELSE p[e - Len(m)]
      BY <2>1, <2>3, ConcatProperties
    <2>5. \A e \in 1 .. 2 * q + 2 : t[e] = IF e <= 2 * q THEN m[e] ELSE p[e - 2 * q]
      BY <2>1, <2>2, <2>3, <2>4
    <2>6. t[2 * q + 1] = p[1]
      BY <2>3, <2>5
    <2>7. t[2 * q + 2] = p[2]
      BY <2>3, <2>5
    <2>8. \A e \in 1 .. 2 * q : t[e] = m[e]
      BY <2>3, <2>5
    <2>9. t \in Seq(S) /\ Len(t) = 2 * q + 2
      BY <2>1, <2>2, <2>3, <2>4
    <2> QED BY <2>1, <2>6, <2>7, <2>8, <2>9
  <1> HIDE DEF t
  <1>0. q \in Nat
    BY <1>1
  <1>4. q + 1 \in Nat /\ 2 * (q + 1) = 2 * q + 2 /\ 2 * (q + 1) - 1 = 2 * q + 1 /\ q + 1 \in 1 .. q + 1
    BY <1>0
  <1>5. \A e : e \in 1 .. q + 1 <=> e \in 1 .. q \/ e = q + 1
    BY <1>1
  <1>6. ASSUME NEW e \in 1 .. q PROVE t[2 * e - 1] = m[2 * e - 1] /\ t[2 * e] = m[2 * e]
    <2>1. 2 * e - 1 \in 1 .. 2 * q /\ 2 * e \in 1 .. 2 * q
      BY <1>1, AtOdd
    <2> QED BY <1>3, <2>1
  <1>7. t[2 * (q + 1) - 1] = x[i] /\ t[2 * (q + 1)] = y[i]
    BY <1>3, <1>4
  <1>8. {x[k] : k \in 1 .. i} = {x[k] : k \in 1 .. i - 1} \union {x[i]}
    <2>1. \A k : k \in 1 .. i <=> k \in 1 .. i - 1 \/ k = i
      OBVIOUS
    <2> QED BY <2>1
  <1>9. {t[2 * e - 1] : e \in 1 .. q + 1} = {m[2 * e - 1] : e \in 1 .. q} \union {x[i]}
    <2> DEFINE P == {t[2 * e - 1] : e \in 1 .. q + 1}
               Q == {m[2 * e - 1] : e \in 1 .. q}
    <2>1. ASSUME NEW e \in 1 .. q + 1 PROVE t[2 * e - 1] \in Q \union {x[i]}
      <3>1. CASE e \in 1 .. q
        BY <1>6, <3>1
      <3>2. CASE e = q + 1
        BY <1>7, <3>2
      <3> QED BY <1>5, <3>1, <3>2
    <2>2. ASSUME NEW e \in 1 .. q PROVE m[2 * e - 1] \in P
      <3>1. t[2 * e - 1] \in P
        BY <1>5
      <3> QED BY <1>6, <3>1
    <2>3. x[i] \in P
      <3>1. t[2 * (q + 1) - 1] \in P
        BY <1>4
      <3> QED BY <1>7, <3>1
    <2>4. P \subseteq Q \union {x[i]}
      BY <2>1
    <2>5. Q \subseteq P
      BY <2>2
    <2> HIDE DEF P, Q
    <2>6. P = Q \union {x[i]}
      BY <2>3, <2>4, <2>5
    <2> QED BY <2>6 DEF P, Q
  <1>10. {t[2 * e - 1] : e \in 1 .. q + 1} = {x[k] : k \in 1 .. i}
    BY <1>1, <1>8, <1>9
  <1>11. ASSUME NEW e \in 1 .. q + 1 PROVE \E k : LastAt(x, i, t[2 * e - 1], k) /\ t[2 * e] = y[k]
    <2>1. CASE e = q + 1
      <3>1. x[i] = t[2 * e - 1] /\ t[2 * e] = y[i]
        BY <1>7, <2>1
      <3> QED BY <3>1, LastMore
    <2>2. CASE e \in 1 .. q
      <3>1. x[i] # m[2 * e - 1]
        BY <2>2
      <3>2. PICK k : LastAt(x, i - 1, m[2 * e - 1], k) /\ m[2 * e] = y[k]
        BY <1>1, <2>2
      <3>3. LastAt(x, i, m[2 * e - 1], k)
        BY <3>1, <3>2, LastMore
      <3> QED BY <1>6, <2>2, <3>2, <3>3
    <2> QED BY <1>5, <2>1, <2>2
  <1>12. ASSUME NEW e \in 1 .. q + 1, NEW b \in 1 .. q + 1, t[2 * e - 1] = t[2 * b - 1] PROVE e = b
    <2>1. CASE e \in 1 .. q /\ b \in 1 .. q
      BY <1>1, <1>6, <1>12, <2>1
    <2>2. CASE e \in 1 .. q /\ b = q + 1
      BY <1>6, <1>7, <1>12, <2>2
    <2>3. CASE e = q + 1 /\ b \in 1 .. q
      BY <1>6, <1>7, <1>12, <2>3
    <2>4. CASE e = q + 1 /\ b = q + 1
      BY <2>4
    <2> QED BY <1>5, <2>1, <2>2, <2>3, <2>4
  <1>13. Len(t) = 2 * (q + 1)
    BY <1>3, <1>4
  <1>14. Braided(S, x, y, i, t, q + 1)
    BY <1>3, <1>4, <1>10, <1>11, <1>12, <1>13 DEF Braided
  <1> QED BY <1>2, <1>14

LEMMA BraidTurn ==
    ASSUME NEW S, NEW x, NEW y, NEW i \in Nat \ {0}, NEW m, BraidedSome(S, x, y, i - 1, m),
           y[i] \in S, x[i] \in S
    PROVE  BraidedSome(S, x, y, i, Linked(m, x[i], y[i]))
  <1>1. PICK q : Braided(S, x, y, i - 1, m, q)
    BY DEF BraidedSome
  <1>2. CASE \E a \in 1 .. q : m[2 * a - 1] = x[i]
    <2>1. PICK a \in 1 .. q : m[2 * a - 1] = x[i]
      BY <1>2
    <2>2. Braided(S, x, y, i, Linked(m, x[i], y[i]), q)
      BY <1>1, <2>1, BraidOld
    <2> QED BY <2>2 DEF BraidedSome
  <1>3. CASE \A a \in 1 .. q : m[2 * a - 1] # x[i]
    <2>1. Braided(S, x, y, i, Linked(m, x[i], y[i]), q + 1)
      BY <1>1, <1>3, BraidNew
    <2> QED BY <2>1 DEF BraidedSome
  <1> QED BY <1>2, <1>3

LEMMA LinkType ==
    ASSUME NEW S, NEW m \in Seq(S), NEW k \in S, NEW v \in S
    PROVE  Linked(m, k, v) \in Seq(S)
  <1> DEFINE hits == {i \in DOMAIN m : i % 2 = 1 /\ m[i] = k}
             at == CHOOSE i \in hits : \A j \in hits : i <= j
             t == [m EXCEPT ![at + 1] = v]
             p == <<k, v>>
             n == Len(m)
  <1>1. Linked(m, k, v) = IF hits = {} THEN m \o p ELSE t
    BY DEF Linked
  <1>2. n \in Nat /\ DOMAIN m = 1 .. n /\ \A i \in 1 .. n : m[i] \in S
    BY LenProperties, ElementOfSeq
  <1>3. m \o p \in Seq(S)
    <2>1. p \in Seq(S)
      OBVIOUS
    <2> HIDE DEF p
    <2> QED BY <2>1, ConcatProperties
  <1>4. t \in Seq(S)
    <2> HIDE DEF at, n
    <2>1. t = [i \in 1 .. n |-> t[i]] /\ \A i \in 1 .. n : t[i] \in S
      BY <1>2
    <2> HIDE DEF t
    <2> QED BY <1>2, <2>1, ListIs
  <1> HIDE DEF hits, t, p
  <1> QED BY <1>1, <1>3, <1>4

LEMMA ZipIs ==
    ASSUME NEW S, NEW x \in Seq(S), NEW y \in Seq(S)
    PROVE  /\ Len(ListZip(x, y)) \in Nat /\ DOMAIN ListZip(x, y) = 1 .. Len(ListZip(x, y))
           /\ \A i \in 1 .. Len(ListZip(x, y)) : x[i] \in S /\ y[i] \in S
  <1> DEFINE n == IF Len(x) < Len(y) THEN Len(x) ELSE Len(y)
             z == ListZip(x, y)
  <1>1. n \in Nat /\ n <= Len(x) /\ n <= Len(y) /\ Len(x) \in Nat /\ Len(y) \in Nat
    BY LenProperties
  <1>2. z = [i \in 1 .. n |-> <<x[i], y[i]>>]
    BY DEF ListZip
  <1> HIDE DEF n
  <1>3. \A i \in 1 .. n : i \in 1 .. Len(x) /\ i \in 1 .. Len(y)
    BY <1>1
  <1>4. \A i \in 1 .. n : x[i] \in S /\ y[i] \in S
    BY <1>3, ElementOfSeq
  <1> HIDE DEF z
  <1>5. z = [i \in 1 .. n |-> z[i]] /\ \A i \in 1 .. n : z[i] \in S \X S
    BY <1>2, <1>4
  <1>6. Len(z) = n /\ DOMAIN z = 1 .. n
    BY <1>1, <1>5, ListIs
  <1> QED BY <1>1, <1>4, <1>6 DEF z

\* The loop of BRAIDMAP.
BraidLoop(x, y, n, f) ==
    f = [i \in 0 .. n |-> IF i = 0 THEN <<>> ELSE Linked(f[i - 1], x[i], y[i])]

LEMMA BraidTurns ==
    ASSUME NEW S, NEW x \in Seq(S), NEW y \in Seq(S)
    PROVE  \E f : /\ f[0] = <<>>
                  /\ \A i \in 1 .. Len(ListZip(x, y)) : f[i] = Linked(f[i - 1], x[i], y[i])
                  /\ BraidMap(x, y) = f[Len(ListZip(x, y))]
  <1> DEFINE n == Len(ListZip(x, y))
             X == Seq(S)
             step == [p \in (1 .. n) \X X |-> Linked(p[2], x[p[1]], y[p[1]])]
             f == CHOOSE f : BraidLoop(x, y, n, f)
  <1>1. n \in Nat /\ <<>> \in X /\ \A i \in 1 .. n : x[i] \in S /\ y[i] \in S
    BY ZipIs
  <1>2. \A i \in 1 .. n : \A u \in X : Linked(u, x[i], y[i]) \in X
    BY <1>1, LinkType
  <1>3. BraidMap(x, y) = f[n]
    BY DEF BraidLoop, BraidMap
  <1> HIDE DEF n, X
  <1>4. \A i \in 1 .. n : \A u \in X : step[<<i, u>>] = Linked(u, x[i], y[i]) /\ step[<<i, u>>] \in X
    BY <1>2
  <1> HIDE DEF step
  <1>5. PICK g : /\ g = [i \in 0 .. n |-> IF i = 0 THEN <<>> ELSE step[<<i, g[i - 1]>>]]
                 /\ \A i \in 0 .. n : g[i] \in X
    <2>1. PICK g : Turned(n, X, <<>>, step, g)
      BY <1>1, <1>4, LoopIn
    <2> QED BY <2>1 DEF Turned
  <1>6. BraidLoop(x, y, n, g)
    <2>1. ASSUME NEW i \in 0 .. n, i # 0 PROVE step[<<i, g[i - 1]>>] = Linked(g[i - 1], x[i], y[i])
      <3>1. i \in 1 .. n /\ i - 1 \in 0 .. n
        BY <1>1, <2>1
      <3> QED BY <1>4, <1>5, <3>1
    <2>2. \A i \in 0 .. n : g[i] = IF i = 0 THEN <<>> ELSE Linked(g[i - 1], x[i], y[i])
      BY <1>5, <2>1
    <2>3. g = [i \in 0 .. n |-> g[i]]
      BY <1>5
    <2> QED BY <2>2, <2>3 DEF BraidLoop
  <1>7. BraidLoop(x, y, n, f)
    BY <1>6
  <1> HIDE DEF f
  <1>8. f[0] = <<>> /\ \A i \in 1 .. n : f[i] = Linked(f[i - 1], x[i], y[i])
    <2>1. \A i \in 0 .. n : f[i] = IF i = 0 THEN <<>> ELSE Linked(f[i - 1], x[i], y[i])
      BY <1>7 DEF BraidLoop
    <2>2. 0 \in 0 .. n /\ \A i \in 1 .. n : i \in 0 .. n /\ i # 0
      BY <1>1
    <2> QED BY <2>1, <2>2
  <1> QED BY <1>3, <1>8 DEF n

LEMMA BraidIs ==
    ASSUME NEW S, NEW x \in Seq(S), NEW y \in Seq(S)
    PROVE  BraidedSome(S, x, y, Len(ListZip(x, y)), BraidMap(x, y))
  <1> DEFINE n == Len(ListZip(x, y))
  <1>1. n \in Nat /\ \A i \in 1 .. n : x[i] \in S /\ y[i] \in S
    BY ZipIs
  <1>2. PICK f : /\ f[0] = <<>> /\ \A i \in 1 .. n : f[i] = Linked(f[i - 1], x[i], y[i])
                 /\ BraidMap(x, y) = f[n]
    BY BraidTurns
  <1> HIDE DEF n
  <1> DEFINE G == {i \in 0 .. n : BraidedSome(S, x, y, i, f[i])}
  <1>3. 0 \in G
    <2>1. <<>> \in Seq(S) /\ Len(<<>>) = 2 * 0 /\ 0 \in Nat /\ 1 .. 0 = {}
      OBVIOUS
    <2>2. Braided(S, x, y, 0, <<>>, 0)
      BY <2>1 DEF Braided
    <2>3. 0 \in 0 .. n
      BY <1>1
    <2>4. BraidedSome(S, x, y, 0, <<>>)
      BY <2>2 DEF BraidedSome
    <2> QED BY <1>2, <2>3, <2>4
  <1>4. ASSUME NEW i \in 1 .. n, i - 1 \in G PROVE i \in G
    <2>1. i \in 0 .. n /\ i \in Nat \ {0} /\ f[i] = Linked(f[i - 1], x[i], y[i])
      BY <1>1, <1>2
    <2>2. BraidedSome(S, x, y, i - 1, f[i - 1])
      BY <1>4
    <2> DEFINE m == f[i - 1]
    <2>3. BraidedSome(S, x, y, i, Linked(m, x[i], y[i]))
      <3> HIDE DEF m
      <3>1. BraidedSome(S, x, y, i - 1, m)
        BY <2>2 DEF m
      <3> QED BY <1>1, <2>1, <3>1, BraidTurn
    <2> QED BY <2>1, <2>3
  <1> HIDE DEF G
  <1>5. 0 .. n \subseteq G
    BY <1>1, <1>3, <1>4, LoopInduction
  <1>6. n \in G
    BY <1>1, <1>5
  <1> QED BY <1>2, <1>6 DEF G, n

\* The map has one pair for each text, with its last value.
BraidLaw(x, y, pairs) ==
    /\ \A i \in DOMAIN ListZip(x, y) :
         LET last == CHOOSE j \in DOMAIN ListZip(x, y) :
                 x[j] = x[i] /\ \A k \in DOMAIN ListZip(x, y) : x[k] = x[i] => k <= j
             at == CHOOSE j \in DOMAIN pairs : j % 2 = 1 /\ pairs[j] = x[i]
         IN pairs[at + 1] = y[last]
    /\ Len(pairs) = 2 * Cardinality({x[i] : i \in DOMAIN ListZip(x, y)})

LEMMA BraidHolds ==
    ASSUME NEW S, NEW x \in Seq(S), NEW y \in Seq(S)
    PROVE  BraidLaw(x, y, BraidMap(x, y))
  <1> DEFINE n == Len(ListZip(x, y))
             p == BraidMap(x, y)
             K == {x[i] : i \in 1 .. n}
  <1>1. n \in Nat /\ DOMAIN ListZip(x, y) = 1 .. n
    BY ZipIs
  <1>2. BraidedSome(S, x, y, n, p)
    BY BraidIs
  <1> HIDE DEF n, p
  <1>3. PICK q : Braided(S, x, y, n, p, q)
    BY <1>2 DEF BraidedSome
  <1>4. /\ q \in Nat /\ p \in Seq(S) /\ Len(p) = 2 * q
        /\ \A a, b \in 1 .. q : p[2 * a - 1] = p[2 * b - 1] => a = b
        /\ {p[2 * a - 1] : a \in 1 .. q} = K
    BY <1>3 DEF Braided
  <1>5. \A a \in 1 .. q : \E k : LastAt(x, n, p[2 * a - 1], k) /\ p[2 * a] = y[k]
    BY <1>3 DEF Braided
  <1>6. DOMAIN p = 1 .. 2 * q
    BY <1>4, LenProperties
  <1>7. ASSUME NEW i \in 1 .. n
        PROVE  LET last == CHOOSE j \in 1 .. n : x[j] = x[i] /\ \A k \in 1 .. n : x[k] = x[i] => k <= j
                   at == CHOOSE j \in DOMAIN p : j % 2 = 1 /\ p[j] = x[i]
               IN p[at + 1] = y[last]
    <2> DEFINE t == x[i]
               last == CHOOSE j \in 1 .. n : x[j] = t /\ \A k \in 1 .. n : x[k] = t => k <= j
               at == CHOOSE j \in DOMAIN p : j % 2 = 1 /\ p[j] = t
    <2>1. t \in K
      OBVIOUS
    <2> HIDE DEF t
    <2>2. PICK a \in 1 .. q : p[2 * a - 1] = t
      BY <1>4, <2>1
    <2>3. PICK k : LastAt(x, n, t, k) /\ p[2 * a] = y[k]
      BY <1>5, <2>2
    <2> DEFINE f == 2 * a - 1
    <2>4. f \in DOMAIN p /\ f % 2 = 1 /\ p[f] = t /\ f + 1 = 2 * a
      BY <1>4, <1>6, <2>2, AtOdd
    <2>5. ASSUME NEW j \in DOMAIN p, j % 2 = 1, p[j] = t PROVE j = f
      <3>1. PICK b \in 1 .. q : j = 2 * b - 1
        BY <1>4, <1>6, <2>5, OddAt
      <3>2. b = a
        BY <1>4, <2>2, <2>5, <3>1
      <3> QED BY <3>1, <3>2
    <2> HIDE DEF f
    <2>6. at = f
      BY <2>4, <2>5
    <2>7. k \in 1 .. n /\ x[k] = t /\ \A l \in 1 .. n : x[l] = t => l <= k
      BY <2>3 DEF LastAt
    <2>8. ASSUME NEW j \in 1 .. n, x[j] = t, \A l \in 1 .. n : x[l] = t => l <= j PROVE j = k
      <3>1. j <= k /\ k <= j /\ j \in Int /\ k \in Int
        BY <2>7, <2>8
      <3> QED BY <3>1
    <2>9. last = k
      BY <2>7, <2>8
    <2> HIDE DEF last, at
    <2>10. p[at + 1] = y[last]
      BY <2>3, <2>4, <2>6, <2>9
    <2> QED BY <2>10 DEF last, at, t
  <1>8. Cardinality(K) = q
    <2> DEFINE bij == [a \in 1 .. q |-> p[2 * a - 1]]
    <2>1. bij \in [1 .. q -> K]
      BY <1>4
    <2>2. \A a, b \in 1 .. q : bij[a] = bij[b] => a = b
      BY <1>4
    <2>3. \A k \in K : \E a \in 1 .. q : bij[a] = k
      BY <1>4
    <2> HIDE DEF bij, K
    <2>4. bij \in Bijection(1 .. q, K)
      BY <2>1, <2>2, <2>3 DEF Bijection, Injection, Surjection, IsInjective
    <2>5. ExistsBijection(1 .. q, K)
      BY <2>4 DEF ExistsBijection
    <2> QED BY <1>4, <2>5, FS_CountingElements
  <1>9. Len(p) = 2 * Cardinality({x[i] : i \in DOMAIN ListZip(x, y)})
    BY <1>1, <1>4, <1>8
  <1>10. \A i \in DOMAIN ListZip(x, y) :
           LET last == CHOOSE j \in DOMAIN ListZip(x, y) :
                   x[j] = x[i] /\ \A k \in DOMAIN ListZip(x, y) : x[k] = x[i] => k <= j
               at == CHOOSE j \in DOMAIN p : j % 2 = 1 /\ p[j] = x[i]
           IN p[at + 1] = y[last]
    BY <1>1, <1>7
  <1> QED BY <1>9, <1>10 DEF BraidLaw, p

----------------------------------------------------------------------------
(* The laws of the list built-ins *)

UniqueLaw(x, u) ==
    /\ \A i, j \in DOMAIN u :
         i < j => u[i] # u[j] /\ IndexOf(x, u[i]) < IndexOf(x, u[j])
    /\ {u[i] : i \in DOMAIN u} = {x[i] : i \in DOMAIN x}

LEMMA UniqueHolds ==
    ASSUME NEW S, NEW x \in Seq(S)
    PROVE  UniqueLaw(x, Unique(x))
  <1> DEFINE u == Unique(x)
  <1>1. u \in Seq(S) /\ Firsts(x, Len(x), u)
    BY UniqueIs
  <1>2. DOMAIN u = 1 .. Len(u) /\ DOMAIN x = 1 .. Len(x)
    BY <1>1, LenProperties
  <1> HIDE DEF u
  <1>3. UniqueLaw(x, u)
    BY <1>1, <1>2 DEF Firsts, UniqueLaw
  <1> QED BY <1>3 DEF u

LEMMA TimesIs ==
    ASSUME NEW s, NEW v
    PROVE  Cardinality({i \in DOMAIN s : s[i] = v}) = Occ(s, v)
  BY DEF Occ

LEMMA LawsHold ==
    ASSUME in.call = "chunk", in.x \in Seq(Texts), in.y \in Seq(Texts), MaxList \in Nat
    PROVE  ListLaws
  <1> DEFINE x == in.x
             y == in.y
             u == Unique(x)
             pairs == BraidMap(x, y)
             times(s, v) == Cardinality({i \in DOMAIN s : s[i] = v})
  <1>0. x \in Seq(Texts) /\ y \in Seq(Texts)
    OBVIOUS
  <1> HIDE DEF x, y
  <1>1. ASSUME NEW size \in 1 .. MaxList
        PROVE  /\ Flatten(Chunk(x, size)) = x
               /\ \A i \in 1 .. Len(Chunk(x, size)) - 1 : Len(Chunk(x, size)[i]) = size
    <2>1. size \in Nat \ {0}
      OBVIOUS
    <2> QED BY <1>0, <2>1, ChunkIs
  <1>2. /\ \A i, j \in DOMAIN u :
             i < j => u[i] # u[j] /\ IndexOf(x, u[i]) < IndexOf(x, u[j])
        /\ {u[i] : i \in DOMAIN u} = {x[i] : i \in DOMAIN x}
    <2>1. UniqueLaw(x, u)
      BY <1>0, UniqueHolds
    <2> QED BY <2>1 DEF UniqueLaw
  <1>3. BraidLaw(x, y, pairs)
    BY <1>0, BraidHolds
  <1>4. ASSUME NEW v, NEW w
        PROVE  times(ListRemoved(x, v), w) = times(x, w) - (IF v = w /\ times(x, w) > 0 THEN 1 ELSE 0)
    <2> DEFINE r == ListRemoved(x, v)
    <2>1. Occ(r, w) = Occ(x, w) - (IF v = w /\ Occ(x, w) > 0 THEN 1 ELSE 0)
      BY <1>0, RemovedIs
    <2> HIDE DEF r
    <2>2. times(r, w) = Occ(r, w)
      BY TimesIs
    <2>3. times(x, w) = Occ(x, w)
      BY TimesIs
    <2> HIDE DEF times
    <2> QED BY <2>1, <2>2, <2>3 DEF r
  <1>5. Unique(ListReverse(ListReverse(x))) = u
    BY <1>0, ReverseTwice
  <1>6. /\ \A i \in DOMAIN ListZip(x, y) :
             LET last == CHOOSE j \in DOMAIN ListZip(x, y) :
                     x[j] = x[i] /\ \A k \in DOMAIN ListZip(x, y) : x[k] = x[i] => k <= j
                 at == CHOOSE j \in DOMAIN pairs : j % 2 = 1 /\ pairs[j] = x[i]
             IN pairs[at + 1] = y[last]
        /\ Len(pairs) = 2 * Cardinality({x[i] : i \in DOMAIN ListZip(x, y)})
    BY <1>3 DEF BraidLaw
  <1> HIDE DEF u, pairs, times
  <1>7. /\ \A size \in 1 .. MaxList :
             /\ Flatten(Chunk(x, size)) = x
             /\ \A i \in 1 .. Len(Chunk(x, size)) - 1 : Len(Chunk(x, size)[i]) = size
        /\ \A i, j \in DOMAIN u :
             i < j => u[i] # u[j] /\ IndexOf(x, u[i]) < IndexOf(x, u[j])
        /\ {u[i] : i \in DOMAIN u} = {x[i] : i \in DOMAIN x}
        /\ \A i \in DOMAIN ListZip(x, y) :
             LET last == CHOOSE j \in DOMAIN ListZip(x, y) :
                     x[j] = x[i] /\ \A k \in DOMAIN ListZip(x, y) : x[k] = x[i] => k <= j
                 at == CHOOSE j \in DOMAIN pairs : j % 2 = 1 /\ pairs[j] = x[i]
             IN pairs[at + 1] = y[last]
        /\ Len(pairs) = 2 * Cardinality({x[i] : i \in DOMAIN ListZip(x, y)})
        /\ \A v \in Texts : \A w \in Texts :
             times(ListRemoved(x, v), w) = times(x, w) - (IF v = w /\ times(x, w) > 0 THEN 1 ELSE 0)
        /\ Unique(ListReverse(ListReverse(x))) = u
    <2>1. \A size \in 1 .. MaxList :
            /\ Flatten(Chunk(x, size)) = x
            /\ \A i \in 1 .. Len(Chunk(x, size)) - 1 : Len(Chunk(x, size)[i]) = size
      BY <1>1
    <2>2. \A v \in Texts : \A w \in Texts :
            times(ListRemoved(x, v), w) = times(x, w) - (IF v = w /\ times(x, w) > 0 THEN 1 ELSE 0)
      BY <1>4
    <2> QED BY <1>2, <1>5, <1>6, <2>1, <2>2
  <1> QED BY <1>7
, Zenon DEF ListLaws, x, y, u, pairs, times

\* SLICE, UNIQUE, CHUNK, FLATTEN, REVERSE, BRAID, LINK and REMOVE mean what
\* ListsSound says for lists of any length, and the comparison of SORT is an
\* order between any two elements, for every choice of texts without a NaN.
THEOREM ListsAreSound ==
    ASSUME Texts \subseteq Word, MaxList \in Nat, in \in ListCalls
    PROVE  ListsSound
  <1>1. CASE in.call = "slice"
    <2>1. in.x \in ListsOf(Texts) /\ in.s \in Int /\ in.e \in Int
      BY <1>1 DEF ListCalls, Sizes, Unset
    <2>2. SliceMeaning
      BY <1>1, <2>1, SliceIs
    <2> QED BY <1>1, <2>2 DEF ListsSound, ListLaws, SortOrders
  <1>2. CASE in.call = "chunk"
    <2>1. in.x \in ListsOf(Texts) /\ in.y \in ListsOf(Texts)
      BY <1>2 DEF ListCalls
    <2>2. in.x \in Seq(Texts) /\ in.y \in Seq(Texts)
      BY <2>1, ListOf
    <2>3. ListLaws
      BY <1>2, <2>2, LawsHold
    <2> QED BY <1>2, <2>3 DEF ListsSound, SliceMeaning, SortOrders
  <1>3. CASE in.call = "sort"
    <2>1. in.a \in Elements /\ in.b \in Elements /\ in.keys \in SortKeys /\ in.desc \in BOOLEAN
      BY <1>3 DEF ListCalls
    <2>2. SortOrders
      BY <1>3, <2>1, SortIs
    <2> QED BY <1>3, <2>2 DEF ListsSound, SliceMeaning, ListLaws
  <1>4. in.call \in {"slice", "chunk", "sort"}
    BY DEF ListCalls
  <1> QED BY <1>1, <1>2, <1>3, <1>4

----------------------------------------------------------------------------
(* Tensors: the size of a shape. NParams is free: no index depends on it. *)

CONSTANT NParams
Tn == INSTANCE Tensors

Pos == Nat \ {0}

ProductLoop(s, f) == f = [k \in 0 .. Len(s) |-> IF k = 0 THEN 1 ELSE f[k - 1] * s[k]]
SizeBy(s, f) ==
    /\ f[0] = 1 /\ \A i \in 1 .. Len(s) : f[i] = f[i - 1] * s[i]
    /\ \A i \in 0 .. Len(s) : f[i] \in Pos
    /\ Tn!Size(s) = f[Len(s)]

LEMMA TimesPos ==
    ASSUME NEW a \in Pos, NEW b \in Pos
    PROVE  a * b \in Pos
  BY DEF Pos

LEMMA TimesTimes ==
    ASSUME NEW x \in Int, NEW y \in Int, NEW z \in Int
    PROVE  x * (y * z) = (x * y) * z
  OBVIOUS

LEMMA SizeTurns ==
    ASSUME NEW s \in Seq(Pos)
    PROVE  \E f : SizeBy(s, f)
  <1> DEFINE n == Len(s)
             X == Pos
             step == [p \in (1 .. n) \X X |-> p[2] * s[p[1]]]
             f == CHOOSE f : ProductLoop(s, f)
  <1>1. n \in Nat /\ 1 \in X /\ \A i \in 1 .. n : s[i] \in X
    BY LenProperties, ElementOfSeq DEF Pos
  <1>2. \A i \in 1 .. n : \A u \in X : u * s[i] \in X
    BY <1>1, TimesPos
  <1>3. Tn!Size(s) = f[n]
    BY DEF ProductLoop, Tn!Size
  <1> HIDE DEF n, X
  <1>4. \A i \in 1 .. n : \A u \in X : step[<<i, u>>] = u * s[i] /\ step[<<i, u>>] \in X
    BY <1>2
  <1> HIDE DEF step
  <1>5. PICK g : /\ g = [i \in 0 .. n |-> IF i = 0 THEN 1 ELSE step[<<i, g[i - 1]>>]]
                 /\ \A i \in 0 .. n : g[i] \in X
    <2>1. PICK g : Turned(n, X, 1, step, g)
      BY <1>1, <1>4, LoopIn
    <2> QED BY <2>1 DEF Turned
  <1>6. ProductLoop(s, g)
    <2>1. ASSUME NEW i \in 0 .. n, i # 0 PROVE step[<<i, g[i - 1]>>] = g[i - 1] * s[i]
      <3>1. i \in 1 .. n /\ i - 1 \in 0 .. n
        BY <1>1, <2>1
      <3> QED BY <1>4, <1>5, <3>1
    <2>2. \A i \in 0 .. n : g[i] = IF i = 0 THEN 1 ELSE g[i - 1] * s[i]
      BY <1>5, <2>1
    <2>3. g = [i \in 0 .. n |-> g[i]]
      BY <1>5
    <2> QED BY <2>2, <2>3 DEF ProductLoop, n
  <1>7. ProductLoop(s, f)
    BY <1>6
  <1> HIDE DEF f
  <1>8. f[0] = 1 /\ \A i \in 1 .. n : f[i] = f[i - 1] * s[i]
    <2>1. \A i \in 0 .. n : f[i] = IF i = 0 THEN 1 ELSE f[i - 1] * s[i]
      BY <1>7 DEF ProductLoop, n
    <2>2. 0 \in 0 .. n /\ \A i \in 1 .. n : i \in 0 .. n /\ i # 0
      BY <1>1
    <2> QED BY <2>1, <2>2
  <1>9. \A i \in 0 .. n : f[i] \in X
    <2> DEFINE G == {i \in 0 .. n : f[i] \in X}
    <2>1. 0 \in G
      BY <1>1, <1>8
    <2>2. ASSUME NEW i \in 1 .. n, i - 1 \in G PROVE i \in G
      <3>1. f[i - 1] \in X /\ i \in 0 .. n
        BY <1>1, <2>2
      <3> QED BY <1>2, <1>8, <3>1
    <2> HIDE DEF G
    <2>3. 0 .. n \subseteq G
      BY <1>1, <2>1, <2>2, LoopInduction
    <2> QED BY <2>3 DEF G
  <1>10. SizeBy(s, f)
    BY <1>3, <1>8, <1>9 DEF SizeBy, n, X
  <1> QED BY <1>10

LEMMA SizeIsPos ==
    ASSUME NEW s \in Seq(Pos)
    PROVE  Tn!Size(s) \in Pos
  <1>1. PICK f : SizeBy(s, f)
    BY SizeTurns
  <1>2. Len(s) \in Nat /\ Len(s) \in 0 .. Len(s)
    BY LenProperties
  <1> QED BY <1>1, <1>2 DEF SizeBy

LEMMA SizeEmpty == Tn!Size(<<>>) = 1
  <1>1. <<>> \in Seq(Pos) /\ Len(<<>>) = 0
    OBVIOUS
  <1>2. PICK f : SizeBy(<<>>, f)
    BY <1>1, SizeTurns
  <1> QED BY <1>1, <1>2 DEF SizeBy

LEMMA SizeAppend ==
    ASSUME NEW s \in Seq(Pos), NEW d \in Pos
    PROVE  Tn!Size(Append(s, d)) = Tn!Size(s) * d
  <1> DEFINE t == Append(s, d)
             n == Len(s)
  <1>1. /\ n \in Nat /\ t \in Seq(Pos) /\ Len(t) = n + 1 /\ t[n + 1] = d
        /\ \A i \in 1 .. n : t[i] = s[i]
    BY AppendProperties, LenProperties
  <1>2. PICK f : SizeBy(s, f)
    BY SizeTurns
  <1> HIDE DEF t
  <1>3. PICK g : SizeBy(t, g)
    BY <1>1, SizeTurns
  <1> DEFINE G == {i \in 0 .. n : g[i] = f[i]}
  <1>4. 0 \in G
    BY <1>1, <1>2, <1>3 DEF SizeBy
  <1>5. ASSUME NEW i \in 1 .. n, i - 1 \in G PROVE i \in G
    <2>1. i \in 0 .. n /\ i \in 1 .. n + 1
      BY <1>1
    <2>2. f[i] = f[i - 1] * s[i] /\ g[i] = g[i - 1] * t[i]
      BY <1>1, <1>2, <1>3, <2>1 DEF SizeBy
    <2> QED BY <1>1, <1>5, <2>1, <2>2
  <1> HIDE DEF G
  <1>6. 0 .. n \subseteq G
    BY <1>1, <1>4, <1>5, LoopInduction
  <1>7. g[n] = f[n]
    BY <1>1, <1>6 DEF G
  <1>8. g[n + 1] = g[n] * d /\ Tn!Size(t) = g[n + 1] /\ Tn!Size(s) = f[n]
    <2>1. n + 1 \in 1 .. n + 1 /\ (n + 1) - 1 = n
      BY <1>1
    <2>2. g[n + 1] = g[(n + 1) - 1] * t[n + 1]
      BY <1>1, <1>3, <2>1 DEF SizeBy
    <2> QED BY <1>1, <1>2, <1>3, <2>1, <2>2 DEF SizeBy
  <1> QED BY <1>7, <1>8 DEF t

LEMMA SizeConcat ==
    ASSUME NEW p \in Seq(Pos), NEW q \in Seq(Pos)
    PROVE  Tn!Size(p \o q) = Tn!Size(p) * Tn!Size(q)
  <1> DEFINE n == Len(q)
             first(k) == SubSeq(q, 1, k)
             G == {k \in 0 .. n : Tn!Size(p \o first(k)) = Tn!Size(p) * Tn!Size(first(k))}
  <1>1. n \in Nat /\ \A i \in 1 .. n : q[i] \in Pos
    BY LenProperties, ElementOfSeq
  <1>2. \A k \in 0 .. n : first(k) \in Seq(Pos)
    BY <1>1, SubSeqProperties
  <1>3. first(0) = <<>>
    BY SubSeqEmpty
  <1>4. 0 \in G
    <2>1. p \o <<>> = p
      BY ConcatEmptySeq
    <2>2. Tn!Size(p) * 1 = Tn!Size(p)
      BY SizeIsPos DEF Pos
    <2>3. Tn!Size(p \o first(0)) = Tn!Size(p) * Tn!Size(first(0))
      <3> HIDE DEF first
      <3>1. p \o first(0) = p /\ Tn!Size(first(0)) = 1
        BY <1>3, <2>1, SizeEmpty
      <3> QED BY <2>2, <3>1
    <2>4. 0 \in 0 .. n
      BY <1>1
    <2> HIDE DEF first
    <2> QED BY <2>3, <2>4

  <1>5. ASSUME NEW k \in 1 .. n, k - 1 \in G PROVE k \in G
    <2> DEFINE a == first(k - 1)
               d == q[k]
               b == p \o a
    <2>1. first(k) = a \o <<d>>
      <3>1. 1 \in 1 .. n /\ k \in 1 .. n
        BY <1>1
      <3> QED BY <3>1, SubSeqRecursiveSecond
    <2>2. a \in Seq(Pos) /\ d \in Pos /\ Tn!Size(b) = Tn!Size(p) * Tn!Size(a) /\ k \in 0 .. n
      <3>1. k - 1 \in 0 .. n /\ k \in 0 .. n
        BY <1>1
      <3> QED BY <1>1, <1>2, <1>5, <3>1
    <2> HIDE DEF a, d, first
    <2>3. first(k) = Append(a, d) /\ <<d>> \in Seq(Pos)
      <3>1. Append(a, d) = a \o <<d>> /\ <<d>> \in Seq(Pos)
        BY <2>2, AppendIsConcat
      <3> QED BY <2>1, <3>1
    <2>4. p \o first(k) = Append(b, d) /\ b \in Seq(Pos)
      <3>1. (p \o a) \o <<d>> = p \o (a \o <<d>>)
        BY <2>2, <2>3, ConcatAssociative
      <3>2. p \o a \in Seq(Pos)
        BY <2>2, ConcatProperties
      <3> HIDE DEF b
      <3>3. b \in Seq(Pos) /\ Append(b, d) = b \o <<d>>
        BY <2>2, <3>2, AppendIsConcat DEF b
      <3> QED BY <2>1, <3>1, <3>3 DEF b
    <2> HIDE DEF b
    <2>5. Tn!Size(p \o first(k)) = Tn!Size(b) * d
      BY <2>2, <2>4, SizeAppend
    <2>6. Tn!Size(first(k)) = Tn!Size(a) * d
      BY <2>2, <2>3, SizeAppend
    <2>7. Tn!Size(p) \in Int /\ Tn!Size(a) \in Int /\ d \in Int
      BY <2>2, SizeIsPos DEF Pos
    <2>8. Tn!Size(p) * (Tn!Size(a) * d) = (Tn!Size(p) * Tn!Size(a)) * d
      BY <2>7, TimesTimes
    <2> QED BY <2>2, <2>5, <2>6, <2>8
  <1>6. first(n) = q
    BY SubSeqFull
  <1> HIDE DEF G
  <1>7. 0 .. n \subseteq G
    BY <1>1, <1>4, <1>5, LoopInduction
  <1>8. n \in G
    BY <1>1, <1>7
  <1> QED BY <1>6, <1>8 DEF G

----------------------------------------------------------------------------
(* Tensors: strides, coordinates and offsets *)

\* The elements of the dimensions after the k-th.
After(s, k) == Tn!Size(SubSeq(s, k + 1, Len(s)))

LEMMA PartOfShape ==
    ASSUME NEW S, NEW s \in Seq(S), NEW a \in 1 .. Len(s) + 1, NEW b \in 0 .. Len(s)
    PROVE  SubSeq(s, a, b) \in Seq(S)
  <1>1. Len(s) \in Nat /\ \A i \in 1 .. Len(s) : s[i] \in S
    BY LenProperties, ElementOfSeq
  <1>2. a \in Int /\ b \in Int /\ \A i \in a .. b : s[i] \in S
    BY <1>1
  <1> QED BY <1>2, SubSeqProperties

LEMMA AfterIs ==
    ASSUME NEW s \in Seq(Pos)
    PROVE  /\ Len(s) \in Nat /\ \A k \in 1 .. Len(s) : s[k] \in Pos
           /\ \A k \in 0 .. Len(s) : After(s, k) \in Pos
           /\ After(s, 0) = Tn!Size(s) /\ After(s, Len(s)) = 1
           /\ \A k \in 1 .. Len(s) : After(s, k - 1) = s[k] * After(s, k)
  <1> DEFINE n == Len(s)
  <1>1. n \in Nat /\ \A k \in 1 .. n : s[k] \in Pos
    BY LenProperties, ElementOfSeq
  <1>2. ASSUME NEW k \in 0 .. n PROVE SubSeq(s, k + 1, n) \in Seq(Pos)
    <2>1. k + 1 \in 1 .. n + 1 /\ n \in 0 .. n
      BY <1>1
    <2> QED BY <2>1, PartOfShape
  <1>3. \A k \in 0 .. n : After(s, k) \in Pos
    BY <1>2, SizeIsPos DEF After
  <1>4. After(s, 0) = Tn!Size(s)
    <2>1. SubSeq(s, 1, Len(s)) = s /\ 0 + 1 = 1
      BY SubSeqFull
    <2>2. SubSeq(s, 0 + 1, Len(s)) = s
      BY <2>1
    <2> QED BY <2>2 DEF After
  <1>5. After(s, n) = 1

    <2>1. n + 1 \in Int /\ n \in Int /\ n < n + 1
      BY <1>1
    <2> HIDE DEF n
    <2>2. SubSeq(s, n + 1, n) = <<>>
      BY <2>1, SubSeqEmpty
    <2> QED BY <2>2, SizeEmpty DEF After, n
  <1>6. ASSUME NEW k \in 1 .. n PROVE After(s, k - 1) = s[k] * After(s, k)
    <2> DEFINE q == SubSeq(s, k + 1, n)
               p == <<s[k]>>
    <2>1. k \in 1 .. Len(s) /\ n \in k .. Len(s) /\ (k - 1) + 1 = k /\ k \in 0 .. n
      BY <1>1
    <2>2. SubSeq(s, k, n) = p \o q
      BY <2>1, SubSeqRecursiveFirst
    <2>3. p \in Seq(Pos) /\ q \in Seq(Pos)
      <3>1. s[k] \in Pos
        BY <1>1
      <3> QED BY <1>2, <2>1, <3>1
    <2>4. Tn!Size(p) = s[k]
      <3>1. <<>> \in Seq(Pos) /\ s[k] \in Pos
        BY <1>1
      <3>2. p = Append(<<>>, s[k])
        OBVIOUS
      <3>3. Tn!Size(Append(<<>>, s[k])) = Tn!Size(<<>>) * s[k]
        BY <3>1, SizeAppend
      <3>4. 1 * s[k] = s[k]
        BY <3>1 DEF Pos
      <3> QED BY <3>2, <3>3, <3>4, SizeEmpty
    <2> HIDE DEF p, q
    <2>5. Tn!Size(p \o q) = Tn!Size(p) * Tn!Size(q)
      BY <2>3, SizeConcat
    <2>6. After(s, k - 1) = Tn!Size(p \o q)
      BY <2>1, <2>2 DEF After
    <2> QED BY <2>4, <2>5, <2>6 DEF After, q
  <1> QED BY <1>1, <1>3, <1>4, <1>5, <1>6

LEMMA ListedIs ==
    ASSUME NEW S, NEW n \in Nat, NEW f \in [1 .. n -> S]
    PROVE  Tn!Listed(f) = f /\ f \in Seq(S) /\ Len(f) = n /\ DOMAIN f = 1 .. n
  <1>1. f = [i \in 1 .. n |-> f[i]] /\ \A i \in 1 .. n : f[i] \in S
    OBVIOUS
  <1>2. f \in Seq(S) /\ Len(f) = n /\ DOMAIN f = 1 .. n
    BY <1>1, ListIs
  <1> QED BY <1>2, ConcatEmptySeq DEF Tn!Listed

LEMMA StridesAre ==
    ASSUME NEW s \in Seq(Pos)
    PROVE  /\ DOMAIN Tn!Strides(s) = 1 .. Len(s)
           /\ \A k \in 1 .. Len(s) : Tn!Strides(s)[k] = After(s, k)
  <1> DEFINE n == Len(s)
             f == [k \in DOMAIN s |-> Tn!Size(SubSeq(s, k + 1, Len(s)))]
  <1>1. n \in Nat /\ DOMAIN s = 1 .. n
    BY LenProperties
  <1>2. ASSUME NEW k \in 1 .. n PROVE f[k] = After(s, k) /\ After(s, k) \in Pos
    <2>1. k \in 0 .. n
      BY <1>1
    <2> QED BY <1>1, <2>1, AfterIs DEF After
  <1>3. f \in [1 .. n -> Pos]
    <2> HIDE DEF n
    <2>1. f = [k \in 1 .. n |-> After(s, k)]
      BY <1>1, <1>2 DEF After, n
    <2> QED BY <1>2, <2>1
  <1>4. Tn!Strides(s) = Tn!Listed(f)
    BY DEF Tn!Strides
  <1> HIDE DEF f
  <1>5. Tn!Strides(s) = f /\ DOMAIN f = 1 .. n
    BY <1>1, <1>3, <1>4, ListedIs
  <1> QED BY <1>2, <1>5

LEMMA CoordinatesAre ==
    ASSUME NEW s \in Seq(Pos), NEW i \in Nat
    PROVE  /\ Tn!Coordinates(s, i) \in Seq(Nat) /\ Len(Tn!Coordinates(s, i)) = Len(s)
           /\ \A k \in 1 .. Len(s) : /\ Tn!Coordinates(s, i)[k] = (i \div After(s, k)) % s[k]
                                     /\ Tn!Coordinates(s, i)[k] \in 0 .. s[k] - 1
  <1> DEFINE n == Len(s)
             r == Tn!Strides(s)
             f == [k \in DOMAIN s |-> (i \div r[k]) % s[k]]
  <1>1. n \in Nat /\ DOMAIN s = 1 .. n /\ \A k \in 1 .. n : s[k] \in Pos
    BY LenProperties, ElementOfSeq
  <1>2. ASSUME NEW k \in 1 .. n
        PROVE f[k] = (i \div After(s, k)) % s[k] /\ f[k] \in 0 .. s[k] - 1
    <2>1. k \in 0 .. n
      BY <1>1
    <2> DEFINE a == After(s, k)
    <2>2. a \in Nat \ {0}
      BY <2>1, AfterIs DEF Pos
    <2>3. r[k] = a
      BY StridesAre
    <2> HIDE DEF a, r
    <2>4. f[k] = (i \div a) % s[k]
      BY <1>1, <2>3
    <2>5. i \div a \in Int
      BY <2>2, Divided
    <2>6. s[k] \in Nat \ {0}
      BY <1>1 DEF Pos
    <2> DEFINE d == i \div a
               m == s[k]
    <2> HIDE DEF d, m
    <2>7. d % m \in 0 .. m - 1
      BY <2>5, <2>6, Divided DEF d, m
    <2> QED BY <2>4, <2>7 DEF a, d, m
  <1>3. f \in [1 .. n -> Nat]
    <2>1. \A k \in 1 .. n : f[k] \in Nat
      <3> HIDE DEF f
      <3> QED BY <1>1, <1>2 DEF Pos
    <2>2. DOMAIN f = 1 .. n
      BY <1>1
    <2>3. f = [k \in 1 .. n |-> f[k]]
      BY <2>2
    <2> HIDE DEF f
    <2> QED BY <2>1, <2>3
  <1>4. Tn!Coordinates(s, i) = Tn!Listed(f)
    BY DEF Tn!Coordinates
  <1> HIDE DEF f
  <1>5. Tn!Coordinates(s, i) = f /\ f \in Seq(Nat) /\ Len(f) = n
    BY <1>1, <1>3, <1>4, ListedIs
  <1> QED BY <1>2, <1>5

\* The loop that adds up an offset.
SumLoop(f, g) == g = [k \in 0 .. Len(f) |-> IF k = 0 THEN 0 ELSE g[k - 1] + f[k]]
OffsetBy(s, at, g) ==
    /\ g[0] = 0 /\ \A k \in 1 .. Len(s) : g[k] = g[k - 1] + at[k] * After(s, k)
    /\ \A k \in 0 .. Len(s) : g[k] \in Nat
    /\ Tn!Offset(s, at) = g[Len(s)]

LEMMA OffsetTurns ==
    ASSUME NEW s \in Seq(Pos), NEW at, \A k \in 1 .. Len(s) : at[k] \in Nat
    PROVE  \E g : OffsetBy(s, at, g)
  <1> DEFINE n == Len(s)
             r == Tn!Strides(s)
             f == [k \in DOMAIN s |-> at[k] * r[k]]
             h0 == CHOOSE g : SumLoop(f, g)
             step == [p \in (1 .. n) \X Nat |-> p[2] + f[p[1]]]
  <1>1. n \in Nat /\ DOMAIN s = 1 .. n
    BY LenProperties
  <1>2. ASSUME NEW k \in 1 .. n PROVE f[k] = at[k] * After(s, k) /\ f[k] \in Nat
    <2>1. k \in 0 .. n
      BY <1>1
    <2> DEFINE a == After(s, k)
    <2>2. a \in Nat /\ at[k] \in Nat /\ r[k] = a
      BY <2>1, AfterIs, StridesAre DEF Pos
    <2> HIDE DEF a, r
    <2>3. f[k] = at[k] * a
      BY <1>1, <2>2
    <2>4. at[k] * a \in Nat
      BY <2>2
    <2> QED BY <2>3, <2>4 DEF a
  <1>3. f \in [1 .. n -> Nat]
    <2>1. DOMAIN f = 1 .. n
      BY <1>1
    <2>2. f = [k \in 1 .. n |-> f[k]]
      BY <2>1
    <2> HIDE DEF f
    <2> QED BY <1>2, <2>2
  <1>4. Tn!Offset(s, at) = Tn!IntSum(f)
    BY DEF Tn!Offset
  <1> HIDE DEF f
  <1>5. Len(f) = n
    BY <1>1, <1>3, ListedIs
  <1>6. Tn!IntSum(f) = h0[n]
    BY <1>5 DEF Tn!IntSum, SumLoop
  <1> HIDE DEF n
  <1>7. \A k \in 1 .. n : \A u \in Nat : step[<<k, u>>] = u + f[k] /\ step[<<k, u>>] \in Nat
    BY <1>2
  <1> HIDE DEF step
  <1>8. PICK g : /\ g = [k \in 0 .. n |-> IF k = 0 THEN 0 ELSE step[<<k, g[k - 1]>>]]
                 /\ \A k \in 0 .. n : g[k] \in Nat
    <2>1. PICK g : Turned(n, Nat, 0, step, g)
      BY <1>1, <1>7, LoopIn
    <2> QED BY <2>1 DEF Turned
  <1>9. SumLoop(f, g)
    <2>1. ASSUME NEW k \in 0 .. n, k # 0 PROVE step[<<k, g[k - 1]>>] = g[k - 1] + f[k]
      <3>1. k \in 1 .. n /\ k - 1 \in 0 .. n
        BY <1>1, <2>1
      <3> QED BY <1>7, <1>8, <3>1
    <2>2. \A k \in 0 .. n : g[k] = IF k = 0 THEN 0 ELSE g[k - 1] + f[k]
      BY <1>8, <2>1
    <2>3. g = [k \in 0 .. n |-> g[k]]
      BY <1>8
    <2> QED BY <1>5, <2>2, <2>3 DEF SumLoop
  <1>10. SumLoop(f, h0)
    BY <1>9
  <1> HIDE DEF h0
  <1>11. h0[0] = 0 /\ \A k \in 1 .. n : h0[k] = h0[k - 1] + f[k]
    <2>1. \A k \in 0 .. n : h0[k] = IF k = 0 THEN 0 ELSE h0[k - 1] + f[k]
      BY <1>5, <1>10 DEF SumLoop
    <2>2. 0 \in 0 .. n /\ \A k \in 1 .. n : k \in 0 .. n /\ k # 0
      BY <1>1
    <2> QED BY <2>1, <2>2
  <1>12. \A k \in 0 .. n : h0[k] \in Nat
    <2> DEFINE G == {k \in 0 .. n : h0[k] \in Nat}
    <2>1. 0 \in G
      BY <1>1, <1>11
    <2>2. ASSUME NEW k \in 1 .. n, k - 1 \in G PROVE k \in G
      <3>1. h0[k - 1] \in Nat /\ k \in 0 .. n /\ f[k] \in Nat
        BY <1>1, <1>2, <2>2 DEF n
      <3> QED BY <1>11, <3>1
    <2> HIDE DEF G
    <2>3. 0 .. n \subseteq G
      BY <1>1, <2>1, <2>2, LoopInduction
    <2> QED BY <2>3 DEF G
  <1>13. \A k \in 1 .. n : h0[k] = h0[k - 1] + at[k] * After(s, k)
    BY <1>2, <1>11 DEF n
  <1>14. OffsetBy(s, at, h0)
    BY <1>4, <1>6, <1>11, <1>12, <1>13 DEF OffsetBy, n
  <1> QED BY <1>14

LEMMA Quotient ==
    ASSUME NEW n \in Nat \ {0}, NEW a \in Int, NEW q \in Int, NEW r \in 0 .. n - 1, a = n * q + r
    PROVE  a \div n = q /\ a % n = r
  <1> DEFINE q1 == a \div n
             r1 == a % n
  <1>1. q1 \in Int /\ r1 \in 0 .. n - 1 /\ a = n * q1 + r1
    BY Divided
  <1> HIDE DEF q1, r1
  <1>2. n * (q - q1) = n * q - n * q1
    BY <1>1, TimesMinus
  <1> DEFINE d == q - q1
             e == n * d
  <1>3. e < n /\ e > -n
    BY <1>1, <1>2
  <1>4. d \in Int
    BY <1>1
  <1> HIDE DEF d
  <1>5. d = 0
    BY <1>3, <1>4, SmallMultiple
  <1>6. q1 = q
    BY <1>1, <1>5 DEF d
  <1> QED BY <1>1, <1>6 DEF q1, r1

\* Less than z units of size y: below a whole of them.
LEMMA BelowWhole ==
    ASSUME NEW z \in Pos, NEW y \in Pos, NEW t \in 0 .. z - 1, NEW r \in 0 .. y - 1
    PROVE  y * t + r \in 0 .. z * y - 1
  <1> DEFINE k == z - 1 - t
             p == y * t
             w == y * k
  <1>1. k \in Nat /\ z = t + k + 1 /\ y \in Nat /\ t \in Nat
    BY DEF Pos
  <1> HIDE DEF k
  <1>2. z * y = y * t + y * k + y /\ y * k \in Nat /\ y * t \in Nat
    BY <1>1
  <1>3. z * y = p + w + y /\ w \in Nat /\ p \in Nat
    BY <1>2
  <1> HIDE DEF p, w
  <1> DEFINE v == z * y
  <1>4. v = p + w + y
    BY <1>3
  <1> HIDE DEF v
  <1>5. p + r \in 0 .. v - 1
    BY <1>1, <1>3, <1>4 DEF Pos
  <1> QED BY <1>5 DEF p, v

LEMMA DivDiv ==
    ASSUME NEW z \in Pos, NEW y \in Pos, NEW i \in Nat
    PROVE  i \div (z * y) = (i \div y) \div z
  <1> DEFINE a == i \div y
             r == i % y
             b == a \div z
             t == a % z
             m == z * y
  <1>1. a \in Int /\ r \in 0 .. y - 1 /\ i = y * a + r
    BY Divided DEF Pos
  <1>2. b \in Int /\ t \in 0 .. z - 1 /\ a = z * b + t
    <2>1. a \in Int
      BY <1>1
    <2> HIDE DEF a
    <2> QED BY <2>1, Divided DEF Pos
  <1>3. m \in Nat \ {0}
    BY TimesPos DEF Pos
  <1> HIDE DEF a, r, b, t
  <1>4. i = m * b + (y * t + r)
    <2>1. y * a = y * (z * b) + y * t
      <3>1. y \in Int /\ z \in Int /\ t \in Int
        BY <1>2 DEF Pos
      <3>2. z * b \in Int
        BY <1>2, <3>1
      <3> DEFINE c0 == z * b
      <3> HIDE DEF c0
      <3>3. y * (c0 + t) = y * c0 + y * t
        BY <3>1, <3>2 DEF c0
      <3> QED BY <1>2, <3>3 DEF c0
    <2>2. y * (z * b) = (z * y) * b
      <3>1. y \in Int /\ z \in Int /\ b \in Int
        BY <1>2 DEF Pos
      <3>2. y * (z * b) = (y * z) * b
        BY <3>1, TimesTimes
      <3>3. y * z = z * y
        BY <3>1
      <3> QED BY <3>2, <3>3
    <2> DEFINE u1 == y * a
               u2 == m * b
               u3 == y * t
    <2>3. u1 = u2 + u3
      BY <2>1, <2>2
    <2>4. u2 \in Int /\ u3 \in Int
      BY <1>2, <1>3 DEF Pos
    <2>5. i = u1 + r
      BY <1>1
    <2> HIDE DEF u1, u2, u3
    <2>6. i = u2 + (u3 + r)
      BY <1>1, <2>3, <2>4, <2>5
    <2> QED BY <2>6 DEF u2, u3
  <1>5. y * t + r \in 0 .. m - 1
    BY <1>1, <1>2, BelowWhole
  <1> DEFINE rr == y * t + r
  <1> HIDE DEF rr, m
  <1>6. i \div m = b
    <2>1. rr \in 0 .. m - 1 /\ i = m * b + rr
      BY <1>4, <1>5 DEF rr
    <2> QED BY <1>2, <1>3, <2>1, Quotient
  <1> QED BY <1>6 DEF a, b, m

\* Coordinates below the dimensions lie in the data.
LEMMA OffsetInside ==
    ASSUME NEW s \in Seq(Pos), NEW at, \A k \in 1 .. Len(s) : at[k] \in 0 .. s[k] - 1
    PROVE  Tn!Offset(s, at) \in 0 .. Tn!Size(s) - 1
  <1> DEFINE n == Len(s)
  <1>1. n \in Nat /\ \A k \in 1 .. n : s[k] \in Pos
    BY AfterIs
  <1>2. \A k \in 1 .. n : at[k] \in Nat
    BY <1>1 DEF Pos
  <1>3. PICK g : OffsetBy(s, at, g)
    BY <1>2, OffsetTurns
  <1> DEFINE z == Tn!Size(s)
             G == {k \in 0 .. n : g[k] <= z - After(s, k)}
  <1>4. z \in Pos /\ After(s, 0) = z /\ After(s, n) = 1
    BY AfterIs, SizeIsPos
  <1> HIDE DEF z
  <1>5. 0 \in G
    <2>1. g[0] = 0 /\ After(s, 0) = z /\ z - z = 0
      BY <1>3, <1>4 DEF OffsetBy, Pos
    <2> QED BY <1>1, <2>1
  <1>6. ASSUME NEW k \in 1 .. n, k - 1 \in G PROVE k \in G
    <2> DEFINE a == After(s, k)
               b == After(s, k - 1)
               d == s[k]
               e == at[k]
               p == e * a
               g1 == g[k - 1]
               g2 == g[k]
    <2>1. k \in 0 .. n /\ k - 1 \in 0 .. n
      BY <1>1
    <2>2. a \in Pos /\ b = d * a /\ d \in Pos /\ e \in 0 .. d - 1
      BY <1>1, <2>1, AfterIs
    <2>3. g2 = g1 + p /\ g1 <= z - b /\ g1 \in Nat
      BY <1>3, <1>6, <2>1 DEF OffsetBy
    <2> HIDE DEF a, b, d, e, g1, g2
    <2>4. p + a <= b /\ p \in Nat /\ b \in Nat
      <3>1. a * e + (a - 1) \in 0 .. d * a - 1
        <4>1. a - 1 \in 0 .. a - 1
          BY <2>2 DEF Pos
        <4> QED BY <2>2, <4>1, BelowWhole
      <3>2. a * e = e * a /\ d * a = b /\ d * a \in Nat /\ e * a \in Nat
        BY <2>2 DEF Pos
      <3> DEFINE w == a * e
      <3>3. w + (a - 1) \in 0 .. b - 1 /\ w = p /\ w \in Nat
        BY <3>1, <3>2
      <3> HIDE DEF w, p
      <3> QED BY <2>2, <3>2, <3>3 DEF Pos
    <2> HIDE DEF p
    <2>5. g2 <= z - a
      BY <1>4, <2>2, <2>3, <2>4 DEF Pos
    <2> QED BY <2>1, <2>5 DEF g2, a
  <1> HIDE DEF G
  <1>7. 0 .. n \subseteq G
    BY <1>1, <1>5, <1>6, LoopInduction
  <1>8. g[n] <= z - 1
    <2>1. n \in G
      BY <1>1, <1>7
    <2> QED BY <1>4, <2>1 DEF G
  <1>9. g[n] \in Nat /\ Tn!Offset(s, at) = g[n]
    <2>1. n \in 0 .. n
      BY <1>1
    <2> QED BY <1>3, <2>1 DEF OffsetBy
  <1> QED BY <1>4, <1>8, <1>9 DEF z, Pos

\* The offset of the coordinates of an element is the element.
LEMMA OffsetOfCoordinates ==
    ASSUME NEW s \in Seq(Pos), NEW i \in 0 .. Tn!Size(s) - 1, NEW at,
           \A k \in 1 .. Len(s) : at[k] = Tn!Coordinates(s, i)[k]
    PROVE  Tn!Offset(s, at) = i
  <1> DEFINE n == Len(s)
             z == Tn!Size(s)
  <1>1. n \in Nat /\ z \in Pos
    BY AfterIs, SizeIsPos
  <1>2. i \in Nat
    BY <1>1 DEF Pos
  <1>3. \A k \in 1 .. n : at[k] = (i \div After(s, k)) % s[k] /\ at[k] \in 0 .. s[k] - 1
    BY <1>2, CoordinatesAre
  <1>4. PICK g : OffsetBy(s, at, g)
    <2>1. \A k \in 1 .. n : at[k] \in Nat
      BY <1>3, AfterIs DEF Pos
    <2> QED BY <2>1, OffsetTurns
  <1> DEFINE G == {k \in 0 .. n : g[k] = After(s, k) * (i \div After(s, k))}
  <1>5. 0 \in G
    <2>1. i \div z = 0
      <3>1. i = z * 0 + i
        BY <1>1, <1>2 DEF Pos
      <3> HIDE DEF z
      <3> QED BY <1>1, <1>2, <3>1, Quotient DEF Pos, z
    <2>2. After(s, 0) = z /\ z * 0 = 0
      BY <1>1, AfterIs DEF Pos
    <2>3. g[0] = 0
      BY <1>4 DEF OffsetBy
    <2> HIDE DEF z
    <2>4. g[0] = After(s, 0) * (i \div After(s, 0))
      BY <2>1, <2>2, <2>3
    <2> QED BY <1>1, <2>4
  <1>6. ASSUME NEW k \in 1 .. n, k - 1 \in G PROVE k \in G
    <2> DEFINE a == After(s, k)
               b == After(s, k - 1)
               d == s[k]
               q == i \div a
               q1 == i \div b
               e == at[k]
    <2>1. k \in 0 .. n /\ k - 1 \in 0 .. n
      BY <1>1
    <2>2. a \in Pos /\ b = d * a /\ d \in Pos /\ b \in Pos
      BY <1>1, <2>1, AfterIs
    <2>3. e = q % d
      BY <1>3
    <2>4. g[k] = g[k - 1] + e * a /\ g[k - 1] = b * q1
      BY <1>4, <1>6, <2>1 DEF OffsetBy
    <2> HIDE DEF a, b, d, e
    <2>5. q1 = q \div d
      BY <1>2, <2>2, DivDiv
    <2>6. q \in Int
      BY <1>2, <2>2, Divided DEF Pos
    <2> HIDE DEF q, q1
    <2>7. q1 \in Int /\ q = d * q1 + e /\ e \in Int
      <3>1. q \div d \in Int /\ q % d \in 0 .. d - 1 /\ q = d * (q \div d) + (q % d)
        BY <2>2, <2>6, Divided DEF Pos
      <3> DEFINE m == q % d
      <3>2. m \in Int
        BY <3>1
      <3> HIDE DEF m
      <3> QED BY <2>3, <2>5, <3>1, <3>2 DEF m
    <2>8. a * q = b * q1 + e * a
      <3>1. a \in Int /\ d \in Int
        BY <2>2 DEF Pos
      <3> DEFINE w == d * q1
      <3>2. w \in Int
        BY <2>7, <3>1
      <3> HIDE DEF w
      <3>3. a * (w + e) = a * w + a * e
        BY <2>7, <3>1, <3>2
      <3>4. a * w = (a * d) * q1
        BY <2>7, <3>1, TimesTimes DEF w
      <3>5. a * d = d * a /\ a * e = e * a
        BY <2>7, <3>1
      <3> QED BY <2>2, <2>7, <3>3, <3>4, <3>5 DEF w
    <2>9. g[k] = a * q
      BY <2>4, <2>8
    <2> QED BY <2>1, <2>9 DEF a, q
  <1> HIDE DEF G
  <1>7. 0 .. n \subseteq G
    BY <1>1, <1>5, <1>6, LoopInduction
  <1>8. g[n] = After(s, n) * (i \div After(s, n))
    <2>1. n \in G
      BY <1>1, <1>7
    <2> QED BY <2>1 DEF G
  <1>9. After(s, n) = 1 /\ i \div 1 = i /\ 1 * i = i
    BY <1>2, AfterIs
  <1>10. g[n] = i
    <2> DEFINE a == After(s, n)
    <2> HIDE DEF a
    <2>1. g[n] = a * (i \div a) /\ a = 1
      BY <1>8, <1>9 DEF a
    <2> QED BY <1>9, <2>1
  <1> QED BY <1>4, <1>10 DEF OffsetBy

----------------------------------------------------------------------------
(* Tensors: what the loops read *)

\* The loops of plant_tensor.c visit the elements of a tensor in storage
\* order, each once: the coordinates that the odometer has at element i are
\* below the dimensions, and what plant_tensor_at reads there is element i.
THEOREM OdometerVisits ==
    ASSUME NEW s \in Seq(Pos), NEW i \in 1 .. Tn!Size(s), NEW a, a.shape = s
    PROVE  /\ \A k \in 1 .. Len(s) : Tn!Coordinates(s, i - 1)[k] \in 0 .. s[k] - 1
           /\ 1 + Tn!Offset(s, Tn!Coordinates(s, i - 1)) = i
           /\ Tn!At(a, Tn!Coordinates(s, i - 1)) = a.data[i]
  <1> DEFINE z == Tn!Size(s)
             o == Tn!Coordinates(s, i - 1)
  <1>1. z \in Pos
    BY SizeIsPos
  <1>2. i - 1 \in 0 .. z - 1 /\ i - 1 \in Nat
    BY <1>1 DEF Pos
  <1>3. o \in Seq(Nat) /\ Len(o) = Len(s) /\ \A k \in 1 .. Len(s) : o[k] \in 0 .. s[k] - 1
    BY <1>2, CoordinatesAre
  <1>4. Tn!Offset(s, o) = i - 1
    BY <1>2, OffsetOfCoordinates
  <1> HIDE DEF o
  <1>5. 1 + Tn!Offset(s, o) = i
    BY <1>2, <1>4
  <1>6. DOMAIN o = 1 .. Len(s) /\ \A k \in 1 .. Len(s) : s[k] \in Pos
    BY <1>3, LenProperties, AfterIs
  <1>7. ~ \E k \in DOMAIN o : o[k] < 0 \/ o[k] >= a.shape[k]
    BY <1>3, <1>6 DEF Pos
  <1>8. Tn!At(a, o) = a.data[i]
    BY <1>3, <1>5, <1>7 DEF Tn!At
  <1> QED BY <1>3, <1>5, <1>8 DEF o

\* A tensor of shape s can be read at every place of one of shape u.
Fits(s, u) ==
    /\ Len(u) >= Len(s)
    /\ \A k \in 1 .. Len(s) : s[k] = 1 \/ s[k] = u[k + (Len(u) - Len(s))]

LEMMA IndexInside ==
    ASSUME NEW s \in Seq(Pos), NEW u \in Seq(Pos), Fits(s, u), NEW i \in 1 .. Tn!Size(u)
    PROVE  /\ Tn!BroadcastIndex(s, Tn!Coordinates(u, i - 1)) \in 1 .. Tn!Size(s)
           /\ s = u => Tn!BroadcastIndex(s, Tn!Coordinates(u, i - 1)) = i
  <1> DEFINE n == Len(s)
             o == Tn!Coordinates(u, i - 1)
             shift == Len(u) - n
             at == [k \in DOMAIN s |-> IF s[k] = 1 THEN 0 ELSE o[k + shift]]
  <1>1. /\ n \in Nat /\ DOMAIN s = 1 .. n /\ Len(u) \in Nat /\ Len(u) >= n
        /\ \A k \in 1 .. n : s[k] \in Pos
    BY AfterIs, LenProperties DEF Fits
  <1>2. i - 1 \in 0 .. Tn!Size(u) - 1 /\ i - 1 \in Nat
    BY SizeIsPos DEF Pos
  <1>3. Len(o) = Len(u) /\ \A k \in 1 .. Len(u) : o[k] \in 0 .. u[k] - 1
    BY <1>2, CoordinatesAre
  <1>4. Tn!BroadcastIndex(s, o) = 1 + Tn!Offset(s, at)
    BY <1>3 DEF Tn!BroadcastIndex
  <1> HIDE DEF o
  <1>5. ASSUME NEW k \in 1 .. n PROVE at[k] \in 0 .. s[k] - 1
    <2>1. CASE s[k] = 1
      <3>1. at[k] = 0
        BY <1>1, <2>1
      <3> QED BY <2>1, <3>1
    <2>2. CASE s[k] # 1
      <3>1. at[k] = o[k + shift] /\ s[k] = u[k + shift]
        BY <1>1, <2>2 DEF Fits
      <3>2. k + shift \in 1 .. Len(u)
        BY <1>1
      <3> QED BY <1>3, <3>1, <3>2
    <2> QED BY <2>1, <2>2
  <1>6. ASSUME s = u, NEW k \in 1 .. n PROVE at[k] = o[k]
    <2>1. shift = 0 /\ k + shift = k
      BY <1>1, <1>6
    <2>2. o[k] \in 0 .. s[k] - 1
      BY <1>3, <1>6
    <2>3. CASE s[k] = 1
      <3>1. at[k] = 0 /\ o[k] \in 0 .. 0
        BY <1>1, <2>2, <2>3
      <3> QED BY <3>1
    <2>4. CASE s[k] # 1
      <3>1. at[k] = o[k + shift]
        BY <1>1, <2>4
      <3> QED BY <2>1, <3>1
    <2> QED BY <2>3, <2>4
  <1> HIDE DEF at
  <1>7. Tn!Offset(s, at) \in 0 .. Tn!Size(s) - 1
    BY <1>5, OffsetInside
  <1>8. ASSUME s = u PROVE Tn!Offset(s, at) = i - 1
    <2>1. \A k \in 1 .. Len(s) : at[k] = Tn!Coordinates(s, i - 1)[k]
      BY <1>6, <1>8 DEF o
    <2>2. i - 1 \in 0 .. Tn!Size(s) - 1
      BY <1>2, <1>8
    <2> QED BY <2>1, <2>2, OffsetOfCoordinates
  <1>9. Tn!Size(s) \in Pos
    BY SizeIsPos
  <1>10. 1 + Tn!Offset(s, at) \in 1 .. Tn!Size(s)
    BY <1>7, <1>9 DEF Pos
  <1>11. s = u => 1 + Tn!Offset(s, at) = i
    BY <1>2, <1>8
  <1> QED BY <1>4, <1>10, <1>11 DEF o

\* Dimension k of s, aligned at the end of n dimensions.
Aligned(s, n, k) == IF k <= n - Len(s) THEN 1 ELSE s[k - (n - Len(s))]
Wider(s, t) == IF Len(s) > Len(t) THEN Len(s) ELSE Len(t)
Meets(s, t) ==
    \A k \in 1 .. Wider(s, t) :
        \/ Aligned(s, Wider(s, t), k) = Aligned(t, Wider(s, t), k)
        \/ Aligned(s, Wider(s, t), k) = 1 \/ Aligned(t, Wider(s, t), k) = 1
Joined(s, t) ==
    [k \in 1 .. Wider(s, t) |->
        IF Aligned(s, Wider(s, t), k) > Aligned(t, Wider(s, t), k)
        THEN Aligned(s, Wider(s, t), k) ELSE Aligned(t, Wider(s, t), k)]

LEMMA AlignedIs ==
    ASSUME NEW s \in Seq(Pos), NEW n \in Nat, n >= Len(s)
    PROVE  /\ \A k \in 1 .. n : Aligned(s, n, k) \in Pos
           /\ \A k \in 1 .. Len(s) : /\ k + (n - Len(s)) \in 1 .. n
                                     /\ Aligned(s, n, k + (n - Len(s))) = s[k]
  <1>1. Len(s) \in Nat /\ \A k \in 1 .. Len(s) : s[k] \in Pos
    BY AfterIs
  <1>2. ASSUME NEW k \in 1 .. n PROVE Aligned(s, n, k) \in Pos
    <2>1. CASE k <= n - Len(s)
      BY <2>1 DEF Aligned, Pos
    <2>2. CASE ~ (k <= n - Len(s))
      <3>1. k - (n - Len(s)) \in 1 .. Len(s)
        BY <1>1, <2>2
      <3> QED BY <1>1, <2>2, <3>1 DEF Aligned
    <2> QED BY <2>1, <2>2
  <1>3. ASSUME NEW k \in 1 .. Len(s)
        PROVE k + (n - Len(s)) \in 1 .. n /\ Aligned(s, n, k + (n - Len(s))) = s[k]
    <2> DEFINE j == k + (n - Len(s))
    <2>1. j \in 1 .. n /\ ~ (j <= n - Len(s)) /\ j - (n - Len(s)) = k
      BY <1>1
    <2> HIDE DEF j
    <2>2. Aligned(s, n, j) = s[k]
      BY <2>1 DEF Aligned
    <2> QED BY <2>1, <2>2 DEF j
  <1> QED BY <1>2, <1>3

LEMMA BroadcastIs ==
    ASSUME NEW s, NEW t
    PROVE  Tn!BroadcastShape(s, t) = IF Meets(s, t) THEN Joined(s, t) ELSE <<>>
  BY DEF Tn!BroadcastShape, Meets, Joined, Aligned, Wider

LEMMA JoinedFits ==
    ASSUME NEW s \in Seq(Pos), NEW t \in Seq(Pos), Meets(s, t)
    PROVE  /\ Joined(s, t) \in Seq(Pos) /\ Fits(s, Joined(s, t)) /\ Fits(t, Joined(s, t))
  <1> DEFINE n == Wider(s, t)
             u == Joined(s, t)
             x(k) == Aligned(s, n, k)
             y(k) == Aligned(t, n, k)
  <1>1. Len(s) \in Nat /\ Len(t) \in Nat
    BY LenProperties
  <1>2. n \in Nat /\ n >= Len(s) /\ n >= Len(t)
    BY <1>1 DEF Wider
  <1>3. \A k \in 1 .. n : x(k) \in Pos /\ y(k) \in Pos /\ (x(k) = y(k) \/ x(k) = 1 \/ y(k) = 1)
    BY <1>2, AlignedIs DEF Meets
  <1>4. u = [k \in 1 .. n |-> IF x(k) > y(k) THEN x(k) ELSE y(k)]
    BY DEF Joined
  <1> HIDE DEF u, n
  <1>5. ASSUME NEW k \in 1 .. n PROVE /\ u[k] \in Pos
                                      /\ x(k) = 1 \/ x(k) = u[k]
                                      /\ y(k) = 1 \/ y(k) = u[k]
    <2> DEFINE v == x(k)
               w == y(k)
    <2>1. v \in Pos /\ w \in Pos /\ (v = w \/ v = 1 \/ w = 1) /\ u[k] = IF v > w THEN v ELSE w
      BY <1>3, <1>4
    <2> HIDE DEF v, w
    <2>2. u[k] \in Pos /\ (v = 1 \/ v = u[k]) /\ (w = 1 \/ w = u[k])
      BY <2>1 DEF Pos
    <2> QED BY <2>2 DEF v, w
  <1>6. u \in Seq(Pos) /\ Len(u) = n
    <2>1. u = [k \in 1 .. n |-> u[k]]
      BY <1>4
    <2> QED BY <1>2, <1>5, <2>1, ListIs
  <1>7. ASSUME NEW k \in 1 .. Len(s) PROVE s[k] = 1 \/ s[k] = u[k + (n - Len(s))]
    <2>1. k + (n - Len(s)) \in 1 .. n /\ Aligned(s, n, k + (n - Len(s))) = s[k]
      BY <1>2, AlignedIs
    <2> DEFINE j == k + (n - Len(s))
    <2> HIDE DEF j
    <2>2. j \in 1 .. n /\ x(j) = s[k]
      BY <2>1 DEF j
    <2>3. s[k] = 1 \/ s[k] = u[j]
      BY <1>5, <2>2
    <2> QED BY <2>3 DEF j
  <1>8. ASSUME NEW k \in 1 .. Len(t) PROVE t[k] = 1 \/ t[k] = u[k + (n - Len(t))]
    <2>1. k + (n - Len(t)) \in 1 .. n /\ Aligned(t, n, k + (n - Len(t))) = t[k]
      BY <1>2, AlignedIs
    <2> DEFINE j == k + (n - Len(t))
    <2> HIDE DEF j
    <2>2. j \in 1 .. n /\ y(j) = t[k]
      BY <2>1 DEF j
    <2>3. t[k] = 1 \/ t[k] = u[j]
      BY <1>5, <2>2
    <2> QED BY <2>3 DEF j
  <1>9. Fits(s, u) /\ Fits(t, u)
    BY <1>2, <1>6, <1>7, <1>8 DEF Fits
  <1> QED BY <1>6, <1>9 DEF u

LEMMA JoinedBothWays ==
    ASSUME NEW s \in Seq(Pos), NEW t \in Seq(Pos)
    PROVE  (Meets(s, t) <=> Meets(t, s)) /\ Joined(s, t) = Joined(t, s)
  <1> DEFINE n == Wider(s, t)
             x(k) == Aligned(s, n, k)
             y(k) == Aligned(t, n, k)
  <1>1. Len(s) \in Nat /\ Len(t) \in Nat
    BY LenProperties
  <1>2. n \in Nat /\ n >= Len(s) /\ n >= Len(t) /\ Wider(t, s) = n
    BY <1>1 DEF Wider
  <1> HIDE DEF n
  <1>3. \A k \in 1 .. n : x(k) \in Pos /\ y(k) \in Pos
    BY <1>2, AlignedIs
  <1>4. Meets(s, t) <=> Meets(t, s)
    BY <1>2 DEF Meets, n
  <1>5. \A k \in 1 .. n : (IF x(k) > y(k) THEN x(k) ELSE y(k)) = (IF y(k) > x(k) THEN y(k) ELSE x(k))
    BY <1>3 DEF Pos
  <1>6. Joined(s, t) = [k \in 1 .. n |-> IF x(k) > y(k) THEN x(k) ELSE y(k)]
    BY DEF Joined, n
  <1>7. Joined(t, s) = [k \in 1 .. n |-> IF y(k) > x(k) THEN y(k) ELSE x(k)]
    BY <1>2 DEF Joined
  <1>8. Joined(s, t) = Joined(t, s)
    BY <1>5, <1>6, <1>7
  <1> QED BY <1>4, <1>8

\* A broadcast takes its operands in either order, and at every element of the
\* result it reads an element of each operand; an operand of the result's own
\* shape is read in storage order.
THEOREM BroadcastReadsInside ==
    ASSUME NEW s \in Seq(Pos), NEW t \in Seq(Pos), NEW u, u = Tn!BroadcastShape(s, t)
    PROVE  /\ u = Tn!BroadcastShape(t, s)
           /\ u # <<>> =>
                /\ u \in Seq(Pos)
                /\ \A i \in 1 .. Tn!Size(u) :
                     /\ Tn!BroadcastIndex(s, Tn!Coordinates(u, i - 1)) \in 1 .. Tn!Size(s)
                     /\ Tn!BroadcastIndex(t, Tn!Coordinates(u, i - 1)) \in 1 .. Tn!Size(t)
                     /\ s = u => Tn!BroadcastIndex(s, Tn!Coordinates(u, i - 1)) = i
  <1>1. u = Tn!BroadcastShape(t, s)
    <2>1. Tn!BroadcastShape(t, s) = IF Meets(t, s) THEN Joined(t, s) ELSE <<>>
      BY BroadcastIs
    <2>2. Tn!BroadcastShape(s, t) = IF Meets(s, t) THEN Joined(s, t) ELSE <<>>
      BY BroadcastIs
    <2> QED BY <2>1, <2>2, JoinedBothWays
  <1>2. ASSUME u # <<>>
        PROVE  /\ u \in Seq(Pos)
               /\ \A i \in 1 .. Tn!Size(u) :
                    /\ Tn!BroadcastIndex(s, Tn!Coordinates(u, i - 1)) \in 1 .. Tn!Size(s)
                    /\ Tn!BroadcastIndex(t, Tn!Coordinates(u, i - 1)) \in 1 .. Tn!Size(t)
                    /\ s = u => Tn!BroadcastIndex(s, Tn!Coordinates(u, i - 1)) = i
    <2>1. Meets(s, t) /\ u = Joined(s, t)
      BY <1>2, BroadcastIs
    <2>2. u \in Seq(Pos) /\ Fits(s, u) /\ Fits(t, u)
      BY <2>1, JoinedFits
    <2> QED BY <2>2, IndexInside
  <1> QED BY <1>1, <1>2

\* The place of remainder m, member r (from 0) and group q (from 0) in groups
\* of red members with inner elements between them.
PlaceIn(inner, red, q, r, m) == (((q * red) + r) * inner) + m

LEMMA PlaceInside ==
    ASSUME NEW outer \in Pos, NEW red \in Pos, NEW inner \in Pos,
           NEW q \in 0 .. outer - 1, NEW r \in 0 .. red - 1, NEW m \in 0 .. inner - 1
    PROVE  /\ q * red + r \in 0 .. outer * red - 1
           /\ PlaceIn(inner, red, q, r, m) \in 0 .. outer * red * inner - 1
           /\ PlaceIn(inner, red, q, r, m) = inner * (q * red + r) + m
  <1> DEFINE w == q * red + r
             z == outer * red
  <1>1. w \in 0 .. z - 1
    <2>1. red * q + r \in 0 .. outer * red - 1
      BY BelowWhole
    <2>2. red * q = q * red
      BY DEF Pos
    <2> QED BY <2>1, <2>2
  <1>2. z \in Pos
    BY TimesPos
  <1>3. PlaceIn(inner, red, q, r, m) = w * inner + m
    BY DEF PlaceIn
  <1> HIDE DEF w, z
  <1>4. inner * w + m \in 0 .. z * inner - 1
    BY <1>1, <1>2, BelowWhole
  <1>5. w * inner = inner * w
    BY <1>1, <1>2 DEF Pos
  <1> QED BY <1>1, <1>3, <1>4, <1>5 DEF w, z

\* An element below z units of size y is in one of the z units.
LEMMA BelowDiv ==
    ASSUME NEW z \in Pos, NEW y \in Pos, NEW i \in 0 .. z * y - 1
    PROVE  i \div y \in 0 .. z - 1
  <1> DEFINE q == i \div y
             m == i % y
             p == y * q
             v == z * y
  <1>1. i \in Int /\ v \in Nat /\ y \in Nat \ {0} /\ z \in Nat
    BY DEF Pos
  <1>2. q \in Int /\ m \in 0 .. y - 1 /\ i = p + m
    BY <1>1, Divided
  <1> HIDE DEF q, m
  <1>3. q >= 0
    <2> SUFFICES ASSUME q < 0 PROVE FALSE
      BY <1>2
    <2> DEFINE k == -q - 1
    <2>1. k \in Nat /\ q = -1 - k
      BY <1>2
    <2> HIDE DEF k
    <2>2. p = -y - y * k /\ y * k \in Nat
      BY <1>1, <2>1
    <2> DEFINE u == y * k
    <2> HIDE DEF u, p
    <2>3. p = -y - u /\ u \in Nat
      BY <2>2 DEF u
    <2>4. i >= 0
      OBVIOUS
    <2> QED BY <1>1, <1>2, <2>3, <2>4
  <1>4. q < z
    <2> SUFFICES ASSUME q >= z PROVE FALSE
      BY <1>1, <1>2
    <2> DEFINE k == q - z
    <2>1. k \in Nat /\ q = z + k
      BY <1>1, <1>2
    <2> HIDE DEF k
    <2>2. p = z * y + y * k /\ y * k \in Nat
      BY <1>1, <2>1
    <2> DEFINE u == y * k
    <2> HIDE DEF u, p
    <2>3. p = v + u /\ u \in Nat
      BY <2>2 DEF u
    <2>4. i <= v - 1
      OBVIOUS
    <2> HIDE DEF v
    <2> QED BY <1>1, <1>2, <2>3, <2>4
  <1> QED BY <1>1, <1>2, <1>3, <1>4 DEF q

LEMMA PlaceParts ==
    ASSUME NEW outer \in Pos, NEW red \in Pos, NEW inner \in Pos,
           NEW q \in 0 .. outer - 1, NEW r \in 0 .. red - 1, NEW m \in 0 .. inner - 1,
           NEW x, x = PlaceIn(inner, red, q, r, m)
    PROVE  /\ x % inner = m /\ (x \div inner) % red = r /\ (x \div inner) \div red = q
  <1> DEFINE w == q * red + r
  <1>1. w \in 0 .. outer * red - 1 /\ x = inner * w + m
    BY PlaceInside
  <1>2. inner \in Nat \ {0} /\ red \in Nat \ {0} /\ q \in Int /\ r \in Int /\ m \in Int
    BY DEF Pos
  <1>3. w = red * q + r /\ w \in Int
    <2>1. q * red = red * q /\ q * red \in Int
      BY <1>2
    <2> QED BY <1>2, <2>1
  <1> HIDE DEF w
  <1>4. x \in Int
    <2>1. inner * w \in Int
      BY <1>2, <1>3
    <2> QED BY <1>1, <1>2, <2>1
  <1>5. x \div inner = w /\ x % inner = m
    BY <1>1, <1>2, <1>3, <1>4, Quotient
  <1>6. w \div red = q /\ w % red = r
    BY <1>2, <1>3, Quotient
  <1> QED BY <1>5, <1>6

LEMMA PlaceOf ==
    ASSUME NEW outer \in Pos, NEW red \in Pos, NEW inner \in Pos,
           NEW x \in 0 .. outer * red * inner - 1
    PROVE  \E q \in 0 .. outer - 1, r \in 0 .. red - 1, m \in 0 .. inner - 1 :
               x = PlaceIn(inner, red, q, r, m)
  <1> DEFINE z == outer * red
             w == x \div inner
             m == x % inner
             q == w \div red
             r == w % red
  <1>1. z \in Pos /\ inner \in Nat \ {0} /\ red \in Nat \ {0}
    BY TimesPos DEF Pos
  <1>2. x \in Int
    <2>1. x \in 0 .. z * inner - 1
      OBVIOUS
    <2> HIDE DEF z
    <2> QED BY <2>1
  <1>3. w \in 0 .. z - 1
    <2>1. x \in 0 .. z * inner - 1
      OBVIOUS
    <2> HIDE DEF z
    <2> QED BY <1>1, <2>1, BelowDiv
  <1>4. m \in 0 .. inner - 1 /\ x = inner * w + m
    BY <1>1, <1>2, Divided
  <1> HIDE DEF w, m
  <1>5. q \in 0 .. outer - 1
    BY <1>3, BelowDiv
  <1>6. r \in 0 .. red - 1 /\ w = red * q + r
    <2>1. w \in Int
      BY <1>1, <1>3 DEF Pos
    <2> QED BY <1>1, <2>1, Divided
  <1> HIDE DEF q, r
  <1>7. x = PlaceIn(inner, red, q, r, m)
    <2>1. red * q = q * red
      BY <1>1, <1>5
    <2>2. w = q * red + r
      BY <1>6, <2>1
    <2>3. inner * w = w * inner
      BY <1>1, <1>3 DEF Pos
    <2> QED BY <1>4, <2>2, <2>3 DEF PlaceIn
  <1> QED BY <1>4, <1>5, <1>6, <1>7

Before(s, axis) == Tn!Size(SubSeq(s, 1, axis))

LEMMA SizeAround ==
    ASSUME NEW s \in Seq(Pos), NEW axis \in 0 .. Len(s) - 1
    PROVE  /\ Before(s, axis) \in Pos /\ s[axis + 1] \in Pos /\ Tn!Inner(s, axis) \in Pos
           /\ Tn!Size(s) = Before(s, axis) * s[axis + 1] * Tn!Inner(s, axis)
           /\ Tn!Size(Tn!Without(s, axis)) = Before(s, axis) * Tn!Inner(s, axis)
  <1> DEFINE n == Len(s)
             k == axis + 1
             p == SubSeq(s, 1, axis)
             q == SubSeq(s, axis + 1, n)
             t == SubSeq(s, axis + 2, n)
  <1>1. n \in Nat /\ axis \in Nat /\ k \in 1 .. n /\ axis \in 0 .. n /\ k - 1 = axis /\ k + 1 = axis + 2
    BY AfterIs
  <1>2. s[k] \in Pos
    BY <1>1, AfterIs
  <1>3. p \in Seq(Pos) /\ q \in Seq(Pos) /\ t \in Seq(Pos)
    <2>1. 1 \in 1 .. n + 1 /\ axis + 1 \in 1 .. n + 1 /\ axis + 2 \in 1 .. n + 1 /\ n \in 0 .. n
      BY <1>1
    <2> QED BY <1>1, <2>1, PartOfShape
  <1>4. p \o q = s
    <2>1. 1 \in 1 .. n + 1 /\ axis \in 1 - 1 .. n /\ n \in axis .. n
      BY <1>1
    <2>2. p \o q = SubSeq(s, 1, n)
      BY <2>1, ConcatAdjacentSubSeq
    <2> QED BY <2>2, SubSeqFull
  <1>5. Tn!Size(q) = s[k] * Tn!Size(t)
    <2>1. After(s, k - 1) = s[k] * After(s, k)
      BY <1>1, AfterIs
    <2>2. After(s, k - 1) = Tn!Size(q)
      <3>1. (k - 1) + 1 = axis + 1
        BY <1>1
      <3> QED BY <3>1 DEF After
    <2>3. After(s, k) = Tn!Size(t)
      <3>1. k + 1 = axis + 2
        BY <1>1
      <3> HIDE DEF k
      <3> QED BY <3>1 DEF After
    <2> QED BY <2>1, <2>2, <2>3
  <1>6. Before(s, axis) = Tn!Size(p) /\ Tn!Inner(s, axis) = Tn!Size(t)
    BY DEF Before, Tn!Inner
  <1>7. Tn!Without(s, axis) = IF p \o t = <<>> THEN <<1>> ELSE p \o t
    BY DEF Tn!Without
  <1> HIDE DEF p, q, t, k
  <1>8. Tn!Size(p) \in Pos /\ Tn!Size(t) \in Pos
    BY <1>3, SizeIsPos
  <1>9. Tn!Size(s) = Tn!Size(p) * (s[k] * Tn!Size(t))
    BY <1>3, <1>4, <1>5, SizeConcat
  <1>10. Tn!Size(p) * (s[k] * Tn!Size(t)) = Tn!Size(p) * s[k] * Tn!Size(t)
    BY <1>2, <1>8, TimesTimes DEF Pos
  <1>11. Tn!Size(p \o t) = Tn!Size(p) * Tn!Size(t)
    BY <1>3, SizeConcat
  <1>12. Tn!Size(Tn!Without(s, axis)) = Tn!Size(p \o t)
    <2>1. CASE p \o t = <<>>
      <3>1. <<1>> = Append(<<>>, 1) /\ <<>> \in Seq(Pos) /\ 1 \in Pos
        BY DEF Pos
      <3>2. Tn!Size(Append(<<>>, 1)) = Tn!Size(<<>>) * 1
        BY <3>1, SizeAppend
      <3>3. Tn!Size(<<1>>) = 1
        BY <3>1, <3>2, SizeEmpty
      <3> QED BY <1>7, <2>1, <3>3, SizeEmpty
    <2>2. CASE p \o t # <<>>
      BY <1>7, <2>2
    <2> QED BY <2>1, <2>2
  <1> QED BY <1>2, <1>6, <1>8, <1>9, <1>10, <1>11, <1>12 DEF k

LEMMA GroupIs ==
    ASSUME NEW s \in Seq(Pos), NEW axis \in 0 .. Len(s) - 1, NEW e \in Int,
           NEW r \in 1 .. s[axis + 1]
    PROVE  Tn!Group(s, axis, e)[r] = 1 + PlaceIn(Tn!Inner(s, axis), s[axis + 1],
               (e - 1) \div Tn!Inner(s, axis), r - 1, (e - 1) % Tn!Inner(s, axis))
  <1> DEFINE inner == Tn!Inner(s, axis)
             red == s[axis + 1]
             f == Tn!Group(s, axis, e)
  <1>1. f = [j \in 1 .. red |->
               1 + (((((e - 1) \div inner) * red) + (j - 1)) * inner) + ((e - 1) % inner)]
    BY DEF Tn!Group
  <1> HIDE DEF f, inner, red
  <1>2. f[r] = 1 + (((((e - 1) \div inner) * red) + (r - 1)) * inner) + ((e - 1) % inner)
    BY <1>1 DEF red
  <1>3. inner \in Pos /\ red \in Pos
    BY SizeAround DEF inner, red
  <1> DEFINE q == (e - 1) \div inner
             m == (e - 1) % inner
             w == (q * red) + (r - 1)
  <1>4. q \in Int /\ m \in Int /\ r \in Int
    <2>1. e - 1 \in Int
      OBVIOUS
    <2>2. q \in Int /\ m \in 0 .. inner - 1
      BY <1>3, <2>1, Divided DEF Pos
    <2> HIDE DEF q, m
    <2> QED BY <1>3, <2>2 DEF Pos, red
  <1> HIDE DEF q, m
  <1>5. w \in Int
    <2>1. q * red \in Int
      BY <1>3, <1>4 DEF Pos
    <2> QED BY <1>4, <2>1
  <1>6. f[r] = (1 + (w * inner)) + m
    BY <1>2 DEF q, m
  <1> HIDE DEF w
  <1>7. w * inner \in Int
    BY <1>3, <1>5 DEF Pos
  <1>8. f[r] = 1 + ((w * inner) + m)
    BY <1>4, <1>6, <1>7
  <1> QED BY <1>8 DEF PlaceIn, f, inner, red, q, m, w

\* The element of a reduced tensor whose group holds place q, m.
LEMMA GroupNumber ==
    ASSUME NEW outer \in Pos, NEW inner \in Pos, NEW q \in 0 .. outer - 1, NEW m \in 0 .. inner - 1,
           NEW e, e = 1 + (inner * q + m)
    PROVE  /\ e \in 1 .. outer * inner
           /\ (e - 1) \div inner = q /\ (e - 1) % inner = m
  <1> DEFINE x == inner * q + m
             v == outer * inner
  <1>1. x \in 0 .. v - 1
    BY BelowWhole
  <1>2. v \in Pos
    BY TimesPos
  <1>3. inner \in Nat \ {0} /\ q \in Int
    BY DEF Pos
  <1>4. x \in Int /\ x = inner * q + m
    BY <1>1
  <1> HIDE DEF x
  <1>5. x \div inner = q /\ x % inner = m
    BY <1>3, <1>4, Quotient
  <1> HIDE DEF v
  <1>6. e - 1 = x /\ e \in 1 .. v
    BY <1>1, <1>2 DEF x, Pos
  <1> QED BY <1>5, <1>6 DEF v

\* _axis_setup: the groups that a reduction along an axis adds up take every
\* element of the tensor once, and none outside it.
THEOREM GroupsPartition ==
    ASSUME NEW s \in Seq(Pos), NEW axis \in 0 .. Len(s) - 1
    PROVE  /\ \A e \in 1 .. Tn!Size(Tn!Without(s, axis)) : \A r \in 1 .. s[axis + 1] :
                Tn!Group(s, axis, e)[r] \in 1 .. Tn!Size(s)
           /\ \A i \in 1 .. Tn!Size(s) :
                \E e \in 1 .. Tn!Size(Tn!Without(s, axis)) : \E r \in 1 .. s[axis + 1] :
                  /\ Tn!Group(s, axis, e)[r] = i
                  /\ \A e2 \in 1 .. Tn!Size(Tn!Without(s, axis)) : \A r2 \in 1 .. s[axis + 1] :
                       Tn!Group(s, axis, e2)[r2] = i => e2 = e /\ r2 = r
  <1> DEFINE outer == Before(s, axis)
             red == s[axis + 1]
             inner == Tn!Inner(s, axis)
             W == 1 .. Tn!Size(Tn!Without(s, axis))
             R == 1 .. red
             z == Tn!Size(s)
             G(e, r) == Tn!Group(s, axis, e)[r]
  <1>1. outer \in Pos /\ red \in Pos /\ inner \in Pos /\ z = outer * red * inner /\ W = 1 .. outer * inner
    BY SizeAround
  <1>2. \A e \in W : \A r \in R :
          e \in Int /\ G(e, r) = 1 + PlaceIn(inner, red, (e - 1) \div inner, r - 1, (e - 1) % inner)
    BY GroupIs
  <1>3. z \in Pos
    BY SizeIsPos
  <1> HIDE DEF outer, red, inner, W, R, z, G
  <1>4. ASSUME NEW e \in W, NEW r \in R
        PROVE  /\ (e - 1) \div inner \in 0 .. outer - 1 /\ (e - 1) % inner \in 0 .. inner - 1
               /\ e = 1 + (inner * ((e - 1) \div inner) + ((e - 1) % inner))
               /\ r - 1 \in 0 .. red - 1
    <2> DEFINE v == outer * inner
               x == e - 1
    <2>1. v \in Pos /\ e \in 1 .. v
      BY <1>1, TimesPos
    <2>2. x \in 0 .. v - 1 /\ x \in Int /\ e = 1 + x
      BY <2>1 DEF Pos
    <2> HIDE DEF x
    <2>3. x \div inner \in 0 .. outer - 1
      BY <1>1, <2>2, BelowDiv
    <2>4. x % inner \in 0 .. inner - 1 /\ x = inner * (x \div inner) + (x % inner)
      BY <1>1, <2>2, Divided DEF Pos
    <2>5. r - 1 \in 0 .. red - 1
      BY <1>1 DEF Pos, R
    <2>6. e = 1 + (inner * (x \div inner) + (x % inner))
      BY <2>2, <2>4
    <2> QED BY <2>3, <2>4, <2>5, <2>6 DEF x
  <1>5. ASSUME NEW e \in W, NEW r \in R PROVE G(e, r) \in 1 .. z
    <2> DEFINE p == PlaceIn(inner, red, (e - 1) \div inner, r - 1, (e - 1) % inner)
    <2>1. p \in 0 .. outer * red * inner - 1
      BY <1>1, <1>4, PlaceInside
    <2>2. p \in 0 .. z - 1 /\ G(e, r) = 1 + p
      BY <1>1, <1>2, <2>1
    <2> HIDE DEF p
    <2> QED BY <1>3, <2>2 DEF Pos
  <1>6. ASSUME NEW i \in 1 .. z
        PROVE  \E e \in W : \E r \in R :
                 G(e, r) = i /\ \A e2 \in W : \A r2 \in R : G(e2, r2) = i => e2 = e /\ r2 = r
    <2> DEFINE x == i - 1
    <2>1. x \in 0 .. outer * red * inner - 1 /\ i = 1 + x
      <3>1. x \in 0 .. z - 1 /\ i = 1 + x
        BY <1>3 DEF Pos
      <3> QED BY <1>1, <3>1
    <2> HIDE DEF x
    <2>2. PICK q \in 0 .. outer - 1, k \in 0 .. red - 1, m \in 0 .. inner - 1 :
            x = PlaceIn(inner, red, q, k, m)
      BY <1>1, <2>1, PlaceOf
    <2> DEFINE e == 1 + (inner * q + m)
               r == 1 + k
    <2>3. e \in W /\ (e - 1) \div inner = q /\ (e - 1) % inner = m
      BY <1>1, GroupNumber
    <2>4. r \in R /\ r - 1 = k
      BY <1>1 DEF R, Pos
    <2> HIDE DEF r
    <2>5. G(e, r) = i
      <3> HIDE DEF e
      <3> QED BY <1>2, <2>1, <2>2, <2>3, <2>4
    <2>6. ASSUME NEW e2 \in W, NEW r2 \in R, G(e2, r2) = i PROVE e2 = e /\ r2 = r
      <3> DEFINE q2 == (e2 - 1) \div inner
                 m2 == (e2 - 1) % inner
                 k2 == r2 - 1
                 p2 == PlaceIn(inner, red, q2, k2, m2)
      <3>1. /\ q2 \in 0 .. outer - 1 /\ m2 \in 0 .. inner - 1 /\ k2 \in 0 .. red - 1
            /\ e2 = 1 + (inner * q2 + m2)
        BY <1>4
      <3>2. i = 1 + p2
        BY <1>2, <2>6
      <3>3. r2 = 1 + k2 /\ r = 1 + k
        BY <2>4 DEF R, r
      <3> HIDE DEF q2, m2, k2
      <3>4. p2 \in 0 .. outer * red * inner - 1
        BY <1>1, <3>1, PlaceInside
      <3>5. p2 \in Int
        BY <1>1, <1>3, <3>4
      <3> HIDE DEF p2
      <3>6. x = p2
        <4>1. x \in Int
          BY <1>1, <1>3, <2>1
        <4> QED BY <2>1, <3>2, <3>5, <4>1
      <3>7. x % inner = m /\ (x \div inner) % red = k /\ (x \div inner) \div red = q
        BY <1>1, <2>2, PlaceParts
      <3>8. x % inner = m2 /\ (x \div inner) % red = k2 /\ (x \div inner) \div red = q2
        BY <1>1, <3>1, <3>6, PlaceParts DEF p2
      <3> QED BY <3>1, <3>3, <3>7, <3>8
    <2> HIDE DEF e
    <2> QED BY <2>3, <2>4, <2>5, <2>6
  <1> QED BY <1>5, <1>6 DEF G, W, R, z, red

\* The dimensions from k on move an offset by less than one step of k.
LEMMA OffsetRest ==
    ASSUME NEW s \in Seq(Pos), NEW at, \A k \in 1 .. Len(s) : at[k] \in 0 .. s[k] - 1,
           NEW g, OffsetBy(s, at, g), NEW k \in 0 .. Len(s)
    PROVE  \E rest \in 0 .. After(s, k) - 1 : Tn!Offset(s, at) = g[k] + rest
  <1> DEFINE n == Len(s)
             y == After(s, k)
             G == {j \in 0 .. n : j >= k => g[j] >= g[k] /\ g[j] - g[k] <= y - After(s, j)}
  <1>1. n \in Nat /\ \A j \in 0 .. n : g[j] \in Nat /\ After(s, j) \in Pos
    BY AfterIs DEF OffsetBy
  <1>2. k \in 0 .. n /\ k \in Nat /\ y \in Pos /\ g[k] \in Nat
    BY <1>1
  <1> HIDE DEF y
  <1>3. k = 0 => 0 \in G
    <2> SUFFICES ASSUME k = 0 PROVE 0 \in G
      OBVIOUS
    <2>1. y = After(s, 0)
      BY DEF y
    <2>2. g[0] - g[0] = 0 /\ y - y = 0
      BY <1>2 DEF Pos
    <2> QED BY <1>1, <1>2, <2>1, <2>2
  <1>4. 0 \in G
    BY <1>1, <1>2, <1>3
  <1>5. ASSUME NEW j \in 1 .. n, j - 1 \in G PROVE j \in G
    <2>1. j \in 0 .. n /\ j - 1 \in 0 .. n
      BY <1>1
    <2>2. CASE j < k
      BY <1>1, <1>2, <2>1, <2>2
    <2>3. CASE j = k
      <3>1. y = After(s, j) /\ y - y = 0 /\ g[k] - g[k] = 0
        BY <1>2, <2>3 DEF y, Pos
      <3> QED BY <1>2, <2>1, <2>3, <3>1
    <2>4. CASE j > k
      <3> DEFINE a == After(s, j)
                 b == After(s, j - 1)
                 d == s[j]
                 e == at[j]
                 p == e * a
                 g1 == g[j - 1]
                 g2 == g[j]
      <3>1. a \in Pos /\ b = d * a /\ d \in Pos /\ e \in 0 .. d - 1
        BY <1>1, <2>1, AfterIs
      <3>2. j - 1 >= k
        BY <1>1, <1>2, <2>4
      <3>3. g2 = g1 + p /\ g1 \in Nat /\ g1 >= g[k] /\ g1 - g[k] <= y - b
        BY <1>1, <1>5, <2>1, <3>2 DEF OffsetBy
      <3> HIDE DEF a, b, d, e, g1, g2
      <3>4. p + a <= b /\ p \in Nat /\ b \in Nat
        <4>1. a * e + (a - 1) \in 0 .. d * a - 1
          <5>1. a - 1 \in 0 .. a - 1
            BY <3>1 DEF Pos
          <5> QED BY <3>1, <5>1, BelowWhole
        <4>2. a * e = e * a /\ d * a = b /\ d * a \in Nat /\ e * a \in Nat
          BY <3>1 DEF Pos
        <4> DEFINE w == a * e
        <4>3. w + (a - 1) \in 0 .. b - 1 /\ w = p /\ w \in Nat
          BY <4>1, <4>2
        <4> HIDE DEF w, p
        <4> QED BY <3>1, <4>2, <4>3 DEF Pos
      <3> HIDE DEF p
      <3>5. g2 >= g[k] /\ g2 - g[k] <= y - a
        BY <1>2, <3>1, <3>3, <3>4 DEF Pos
      <3> QED BY <2>1, <3>5 DEF g2, a
    <2>5. j < k \/ j = k \/ j > k
      BY <1>2, <2>1
    <2> QED BY <2>2, <2>3, <2>4, <2>5
  <1> HIDE DEF G
  <1>6. 0 .. n \subseteq G
    BY <1>1, <1>4, <1>5, LoopInduction
  <1>7. g[n] >= g[k] /\ g[n] - g[k] <= y - 1
    <2>1. n \in G /\ n >= k /\ After(s, n) = 1
      BY <1>1, <1>2, <1>6, AfterIs
    <2> QED BY <2>1 DEF G
  <1>8. g[n] \in Nat /\ Tn!Offset(s, at) = g[n]
    <2>1. n \in 0 .. n
      BY <1>1
    <2> QED BY <1>1, <2>1 DEF OffsetBy
  <1> DEFINE rest == g[n] - g[k]
  <1>9. rest \in 0 .. y - 1 /\ g[n] = g[k] + rest
    BY <1>2, <1>7, <1>8 DEF Pos
  <1> QED BY <1>8, <1>9 DEF y

\* The coordinates of an offset are the ones it was made of.
LEMMA CoordinatesOfOffset ==
    ASSUME NEW s \in Seq(Pos), NEW at, \A k \in 1 .. Len(s) : at[k] \in 0 .. s[k] - 1
    PROVE  \A k \in 1 .. Len(s) : Tn!Coordinates(s, Tn!Offset(s, at))[k] = at[k]
  <1> DEFINE n == Len(s)
             i == Tn!Offset(s, at)
  <1>1. n \in Nat /\ \A k \in 1 .. n : s[k] \in Pos
    BY AfterIs
  <1>2. i \in Nat
    <2>1. Tn!Size(s) \in Pos
      BY SizeIsPos
    <2>2. i \in 0 .. Tn!Size(s) - 1
      BY OffsetInside
    <2> QED BY <2>1, <2>2 DEF Pos
  <1>3. \A k \in 1 .. n : at[k] \in Nat
    BY <1>1 DEF Pos
  <1>4. PICK g : OffsetBy(s, at, g)
    BY <1>3, OffsetTurns
  <1> DEFINE G == {k \in 0 .. n : \E q \in Nat : g[k] = After(s, k) * q}
  <1>5. 0 \in G
    <2>1. After(s, 0) * 0 = 0
      <3>1. 0 \in 0 .. n
        BY <1>1
      <3>2. After(s, 0) \in Pos
        BY <3>1, AfterIs
      <3> DEFINE a == After(s, 0)
      <3> HIDE DEF a
      <3>3. a * 0 = 0
        BY <3>2 DEF a, Pos
      <3> QED BY <3>3 DEF a
    <2>2. g[0] = 0 /\ 0 \in Nat /\ 0 \in 0 .. n
      BY <1>1, <1>4 DEF OffsetBy
    <2>3. g[0] = After(s, 0) * 0
      BY <2>1, <2>2
    <2> QED BY <2>2, <2>3
  <1>6. ASSUME NEW k \in 1 .. n, NEW q \in Nat, g[k - 1] = After(s, k - 1) * q
        PROVE  g[k] = After(s, k) * (s[k] * q + at[k]) /\ s[k] * q + at[k] \in Nat
    <2> DEFINE a == After(s, k)
               b == After(s, k - 1)
               d == s[k]
               e == at[k]
    <2>1. k \in 0 .. n
      BY <1>1
    <2>2. a \in Pos /\ b = d * a /\ d \in Pos /\ e \in Nat
      BY <1>1, <1>3, <2>1, AfterIs
    <2>3. g[k] = b * q + e * a
      BY <1>4, <1>6 DEF OffsetBy
    <2> HIDE DEF a, b, d, e
    <2>4. b * q = a * (d * q)
      <3>1. a \in Int /\ d \in Int /\ q \in Int
        BY <2>2 DEF Pos
      <3>2. a * (d * q) = (a * d) * q /\ a * d = d * a
        BY <3>1, TimesTimes
      <3> QED BY <2>2, <3>2
    <2> DEFINE w == d * q
    <2>5. w \in Nat
      BY <2>2 DEF Pos
    <2> HIDE DEF w
    <2>6. a * (w + e) = a * w + a * e /\ a * e = e * a /\ w + e \in Nat
      BY <2>2, <2>5 DEF Pos
    <2>7. g[k] = a * (w + e)
      BY <2>3, <2>4, <2>6 DEF w
    <2> QED BY <2>6, <2>7 DEF w, a, d, e
  <1>7. ASSUME NEW k \in 1 .. n, k - 1 \in G PROVE k \in G
    <2>1. PICK q \in Nat : g[k - 1] = After(s, k - 1) * q
      BY <1>7
    <2> DEFINE q1 == s[k] * q + at[k]
    <2>2. g[k] = After(s, k) * q1 /\ q1 \in Nat
      BY <1>6, <2>1
    <2>3. k \in 0 .. n
      BY <1>1
    <2> HIDE DEF q1
    <2> QED BY <2>2, <2>3
  <1> HIDE DEF G
  <1>8. 0 .. n \subseteq G
    BY <1>1, <1>5, <1>7, LoopInduction
  <1>9. ASSUME NEW k \in 1 .. n PROVE Tn!Coordinates(s, i)[k] = at[k]
    <2> DEFINE a == After(s, k)
               d == s[k]
               e == at[k]
    <2>1. k \in 0 .. n /\ k - 1 \in 0 .. n
      BY <1>1
    <2>2. PICK q \in Nat : g[k - 1] = After(s, k - 1) * q
      BY <1>8, <2>1 DEF G
    <2> DEFINE w == d * q + e
    <2>3. g[k] = a * w /\ w \in Nat
      BY <1>6, <2>2
    <2>4. PICK rest \in 0 .. a - 1 : i = g[k] + rest
      BY <1>4, <2>1, OffsetRest
    <2>5. a \in Pos /\ d \in Pos /\ e \in 0 .. d - 1
      BY <1>1, <2>1, AfterIs
    <2>6. Tn!Coordinates(s, i)[k] = (i \div a) % d
      BY <1>2, CoordinatesAre
    <2> HIDE DEF a, d, e, i
    <2>7. w % d = e
      <3>1. w \in Int
        BY <2>3
      <3>2. d \in Nat \ {0} /\ q \in Int /\ w = d * q + e
        BY <2>5 DEF Pos
      <3> HIDE DEF w
      <3> QED BY <2>5, <3>1, <3>2, Quotient
    <2> HIDE DEF w
    <2>8. i \div a = w
      <3>1. i = a * w + rest /\ i \in Int /\ a \in Nat \ {0} /\ w \in Int
        BY <1>2, <2>3, <2>4, <2>5 DEF Pos
      <3> QED BY <3>1, Quotient
    <2> QED BY <2>6, <2>7, <2>8 DEF e
  <1> QED BY <1>9

\* Coordinates inside a shape.
Within(s, at) == at \in Seq(Nat) /\ Len(at) = Len(s) /\ \A k \in 1 .. Len(s) : at[k] \in 0 .. s[k] - 1

LEMMA ListedFunction ==
    ASSUME NEW n \in Nat, NEW f, f = [i \in 1 .. n |-> f[i]]
    PROVE  Tn!Listed(f) = f
  <1> DEFINE S == {f[i] : i \in 1 .. n}
  <1>1. f \in [1 .. n -> S]
    OBVIOUS
  <1> HIDE DEF S
  <1> QED BY <1>1, ListedIs

LEMMA AtIs ==
    ASSUME NEW a, a.shape \in Seq(Pos), NEW at, Within(a.shape, at)
    PROVE  /\ Tn!At(a, at) = a.data[1 + Tn!Offset(a.shape, at)]
           /\ 1 + Tn!Offset(a.shape, at) \in 1 .. Tn!Size(a.shape)
  <1> DEFINE s == a.shape
  <1>1. s \in Seq(Pos) /\ Within(s, at)
    OBVIOUS
  <1> HIDE DEF s
  <1>2. DOMAIN at = 1 .. Len(s) /\ \A k \in 1 .. Len(s) : s[k] \in Pos
    BY <1>1, LenProperties, AfterIs DEF Within
  <1>3. ~ \E k \in DOMAIN at : at[k] < 0 \/ at[k] >= s[k]
    BY <1>1, <1>2 DEF Pos, Within
  <1>4. Tn!At(a, at) = a.data[1 + Tn!Offset(s, at)]
    BY <1>1, <1>3 DEF Tn!At, Within, s
  <1>5. Tn!Offset(s, at) \in 0 .. Tn!Size(s) - 1 /\ Tn!Size(s) \in Pos
    BY <1>1, OffsetInside, SizeIsPos DEF Within
  <1>6. 1 + Tn!Offset(s, at) \in 1 .. Tn!Size(s)
    BY <1>5 DEF Pos
  <1> QED BY <1>4, <1>6 DEF s

\* Reading a tensor that was built element by element.
LEMMA BuiltAt ==
    ASSUME NEW s \in Seq(Pos), NEW f, f = [i \in 1 .. Tn!Size(s) |-> f[i]], NEW at, Within(s, at)
    PROVE  Tn!At(Tn!Tensor(s, f), at) = f[1 + Tn!Offset(s, at)]
  <1> DEFINE t == Tn!Tensor(s, f)
  <1>1. Tn!Listed(s) = s
    BY ConcatEmptySeq DEF Tn!Listed
  <1>2. Tn!Listed(f) = f
    BY SizeIsPos, ListedFunction DEF Pos
  <1>3. t.shape = s /\ t.data = f
    BY <1>1, <1>2 DEF Tn!Tensor
  <1> HIDE DEF t
  <1>4. Tn!At(t, at) = t.data[1 + Tn!Offset(s, at)]
    BY <1>3, AtIs
  <1> QED BY <1>3, <1>4 DEF t

LEMMA PairOffset ==
    ASSUME NEW m \in Pos, NEW n \in Pos, NEW i \in 0 .. m - 1, NEW j \in 0 .. n - 1
    PROVE  /\ <<m, n>> \in Seq(Pos) /\ Within(<<m, n>>, <<i, j>>)
           /\ Tn!Size(<<m, n>>) = m * n
           /\ Tn!Offset(<<m, n>>, <<i, j>>) = i * n + j
  <1> DEFINE s == <<m, n>>
             at == <<i, j>>
  <1>1. s \in Seq(Pos) /\ Len(s) = 2 /\ s[1] = m /\ s[2] = n
    OBVIOUS
  <1>2. at \in Seq(Nat) /\ Len(at) = 2 /\ at[1] = i /\ at[2] = j
    BY DEF Pos
  <1> HIDE DEF s, at
  <1>3. Within(s, at)
    <2>1. ASSUME NEW k \in 1 .. 2 PROVE at[k] \in 0 .. s[k] - 1
      <3>1. k = 1 \/ k = 2
        OBVIOUS
      <3> QED BY <1>1, <1>2, <3>1
    <2> QED BY <1>1, <1>2, <2>1 DEF Within
  <1>4. 1 \in 1 .. 2 /\ 2 \in 1 .. 2 /\ 2 - 1 = 1 /\ 1 - 1 = 0
    OBVIOUS
  <1>5. After(s, 2) = 1 /\ After(s, 1) = n * After(s, 2) /\ Tn!Size(s) = m * After(s, 1)
    <2>1. \A k \in 1 .. 2 : After(s, k - 1) = s[k] * After(s, k)
      BY <1>1, AfterIs
    <2>2. After(s, 2 - 1) = s[2] * After(s, 2) /\ After(s, 1 - 1) = s[1] * After(s, 1)
      BY <1>4, <2>1
    <2>3. After(s, 2) = 1 /\ After(s, 0) = Tn!Size(s)
      BY <1>1, AfterIs
    <2> QED BY <1>1, <1>4, <2>2, <2>3
  <1>6. After(s, 1) = n
    BY <1>5 DEF Pos
  <1>7. PICK g : OffsetBy(s, at, g)
    BY <1>1, <1>3, OffsetTurns DEF Within
  <1>8. g[0] = 0 /\ g[1] = g[1 - 1] + at[1] * After(s, 1) /\ g[2] = g[2 - 1] + at[2] * After(s, 2)
    BY <1>1, <1>4, <1>7 DEF OffsetBy
  <1>9. g[1] = i * n /\ g[2] = g[1] + j * 1
    <2>1. 0 + i * n = i * n
      BY DEF Pos
    <2> QED BY <1>2, <1>4, <1>5, <1>6, <1>8, <2>1
  <1>10. j * 1 = j
    OBVIOUS
  <1>11. Tn!Offset(s, at) = g[2]
    BY <1>1, <1>7 DEF OffsetBy
  <1> QED BY <1>1, <1>3, <1>5, <1>6, <1>9, <1>10, <1>11 DEF s, at

\* plant_tensor_slice: where the ranges are accepted, place at of the slice is
\* place from + at of the tensor, which lies inside it.
THEOREM SliceReadsPart ==
    ASSUME NEW a, a.shape \in Seq(Pos), NEW ranges \in Seq(Int \X Int), Tn!Sliced(a, ranges) # Tn!Err,
           NEW at \in Seq(Nat), Len(at) = Len(ranges),
           \A k \in 1 .. Len(ranges) : at[k] < ranges[k][2] - ranges[k][1]
    PROVE  /\ Within(a.shape, [k \in 1 .. Len(ranges) |-> ranges[k][1] + at[k]])
           /\ Tn!At(Tn!Sliced(a, ranges), at)
                = Tn!At(a, [k \in 1 .. Len(ranges) |-> ranges[k][1] + at[k]])
  <1> DEFINE n == Len(ranges)
             s == a.shape
             lo(k) == ranges[k][1]
             hi(k) == ranges[k][2]
             u == [k \in DOMAIN ranges |-> hi(k) - lo(k)]
             source(i) == [k \in DOMAIN u |-> lo(k) + Tn!Coordinates(u, i)[k]]
             f == [i \in 1 .. Tn!Size(u) |-> a.data[1 + Tn!Offset(s, source(i - 1))]]
             to == [k \in 1 .. n |-> lo(k) + at[k]]
             e == Tn!Offset(u, at)
  <1>1. n \in Nat /\ DOMAIN ranges = 1 .. n /\ \A k \in 1 .. n : ranges[k] \in Int \X Int
    BY LenProperties, ElementOfSeq
  <1>2. \A k \in 1 .. n : lo(k) \in Int /\ hi(k) \in Int
    BY <1>1
  <1>3. /\ n = Len(s) /\ \A k \in 1 .. n : lo(k) >= 0 /\ hi(k) <= s[k] /\ lo(k) < hi(k)
        /\ Tn!Sliced(a, ranges) = Tn!Tensor(u, f)
    <2>1. Tn!Sliced(a, ranges) =
            IF n # Len(s) THEN Tn!Err
            ELSE IF \E k \in DOMAIN ranges : lo(k) < 0 \/ hi(k) > s[k] \/ lo(k) >= hi(k) THEN Tn!Err
            ELSE Tn!Tensor(u, f)
      BY DEF Tn!Sliced
    <2> HIDE DEF u, f
    <2>2. n = Len(s) /\ ~ \E k \in DOMAIN ranges : lo(k) < 0 \/ hi(k) > s[k] \/ lo(k) >= hi(k)
      BY <2>1
    <2>3. \A k \in 1 .. n : s[k] \in Int
      BY <2>2, AfterIs DEF Pos
    <2>4. ASSUME NEW k \in 1 .. n PROVE lo(k) >= 0 /\ hi(k) <= s[k] /\ lo(k) < hi(k)
      <3> DEFINE x == lo(k)
                 y == hi(k)
                 z == s[k]
      <3>1. x \in Int /\ y \in Int /\ z \in Int
        BY <1>2, <2>3
      <3>2. ~ (x < 0 \/ y > z \/ x >= y)
        BY <1>1, <2>2
      <3> HIDE DEF x, y, z
      <3>3. x >= 0 /\ y <= z /\ x < y
        BY <3>1, <3>2
      <3> QED BY <3>3 DEF x, y, z
    <2> QED BY <2>1, <2>2, <2>4
  <1>4. u \in Seq(Pos) /\ Len(u) = n /\ DOMAIN u = 1 .. n /\ \A k \in 1 .. n : u[k] = hi(k) - lo(k)
    <2>1. u = [k \in 1 .. n |-> u[k]] /\ \A k \in 1 .. n : u[k] = hi(k) - lo(k)
      BY <1>1
    <2> HIDE DEF u
    <2>2. ASSUME NEW k \in 1 .. n PROVE u[k] \in Pos
      <3> DEFINE x == lo(k)
                 y == hi(k)
      <3>1. x \in Int /\ y \in Int /\ x < y /\ u[k] = y - x
        BY <1>2, <1>3, <2>1
      <3> HIDE DEF x, y
      <3> QED BY <3>1 DEF Pos
    <2> QED BY <1>1, <2>1, <2>2, ListIs
  <1>5. \A k \in 1 .. n : at[k] \in Nat
    BY ElementOfSeq
  <1>6. Within(u, at)
    <2>1. \A k \in 1 .. n : at[k] \in 0 .. u[k] - 1
      BY <1>2, <1>4, <1>5
    <2> HIDE DEF u
    <2> QED BY <1>4, <2>1 DEF Within
  <1>7. e + 1 \in 1 .. Tn!Size(u) /\ e \in Nat
    <2> HIDE DEF u
    <2>1. e \in 0 .. Tn!Size(u) - 1 /\ Tn!Size(u) \in Pos
      BY <1>4, <1>6, OffsetInside, SizeIsPos DEF Within
    <2> QED BY <2>1 DEF Pos
  <1>8. source(e) = to
    <2> HIDE DEF u
    <2>1. u \in Seq(Pos) /\ \A k \in 1 .. Len(u) : at[k] \in 0 .. u[k] - 1
      BY <1>4, <1>6 DEF Within
    <2>2. \A k \in 1 .. Len(u) : Tn!Coordinates(u, e)[k] = at[k]
      BY <2>1, CoordinatesOfOffset
    <2>3. \A k \in 1 .. n : Tn!Coordinates(u, e)[k] = at[k]
      BY <1>4, <2>2
    <2> HIDE DEF e
    <2> QED BY <1>4, <2>3
  <1>9. Within(s, to)
    <2>1. ASSUME NEW k \in 1 .. n PROVE to[k] \in Nat /\ to[k] \in 0 .. s[k] - 1
      <3> DEFINE x == lo(k)
                 y == hi(k)
                 z == s[k]
                 p == at[k]
      <3>0. k \in 1 .. Len(s)
        BY <1>3
      <3>1. z \in Int /\ x \in Int /\ y \in Int /\ p \in Nat
        <4>1. z \in Pos
          BY <3>0, AfterIs
        <4> QED BY <1>2, <1>5, <4>1 DEF Pos
      <3>2. x >= 0 /\ y <= z /\ p < y - x /\ to[k] = x + p
        BY <1>3
      <3> HIDE DEF x, y, z, p, to
      <3>3. to[k] \in Nat /\ to[k] \in 0 .. z - 1
        BY <3>1, <3>2
      <3> QED BY <3>3 DEF z
    <2>2. to = [k \in 1 .. n |-> to[k]]
      OBVIOUS
    <2> HIDE DEF to, s, n
    <2>3. to \in Seq(Nat) /\ Len(to) = n
      BY <1>1, <2>1, <2>2, ListIs
    <2> QED BY <1>3, <2>1, <2>3 DEF Within
  <1> HIDE DEF u, to, e, source
  <1>10. f = [i \in 1 .. Tn!Size(u) |-> f[i]] /\ f[1 + e] = a.data[1 + Tn!Offset(s, to)]
    <2>1. 1 + e \in 1 .. Tn!Size(u) /\ (1 + e) - 1 = e
      BY <1>7
    <2>2. f[1 + e] = a.data[1 + Tn!Offset(s, source((1 + e) - 1))]
      BY <2>1
    <2>3. source((1 + e) - 1) = to
      BY <1>8, <2>1
    <2> QED BY <2>2, <2>3
  <1> HIDE DEF f, s
  <1>11. Tn!At(Tn!Tensor(u, f), at) = f[1 + e]
    BY <1>4, <1>6, <1>10, BuiltAt DEF e
  <1>12. Tn!At(a, to) = a.data[1 + Tn!Offset(s, to)]
    BY <1>9, AtIs DEF s
  <1> QED BY <1>3, <1>9, <1>10, <1>11, <1>12 DEF to, s

\* plant_tensor_transpose: place j, i of the transpose is place i, j.
THEOREM TransposeSwaps ==
    ASSUME NEW a, NEW m \in Pos, NEW n \in Pos, a.shape = <<m, n>>,
           NEW i \in 0 .. m - 1, NEW j \in 0 .. n - 1
    PROVE  Tn!At(Tn!Transposed(a), <<j, i>>) = Tn!At(a, <<i, j>>)
  <1> DEFINE f == [e \in 1 .. m * n |-> a.data[(((e - 1) % m) * n) + ((e - 1) \div m) + 1]]
             x == j * m + i
             y == i * n + j
  <1>1. Tn!Transposed(a) = Tn!Tensor(<<n, m>>, f)
    BY DEF Tn!Transposed
  <1>2. m \in Nat \ {0} /\ n \in Nat \ {0} /\ i \in Int /\ j \in Int
    BY DEF Pos
  <1>3. /\ <<n, m>> \in Seq(Pos) /\ Within(<<n, m>>, <<j, i>>) /\ Tn!Size(<<n, m>>) = n * m
        /\ Tn!Offset(<<n, m>>, <<j, i>>) = x
    BY PairOffset
  <1>4. /\ <<m, n>> \in Seq(Pos) /\ Within(<<m, n>>, <<i, j>>)
        /\ Tn!Offset(<<m, n>>, <<i, j>>) = y
    BY PairOffset
  <1>5. x \in 0 .. n * m - 1 /\ x = m * j + i
    <2>1. j * m = m * j
      BY <1>2
    <2> QED BY <2>1, BelowWhole
  <1>6. n * m = m * n /\ n * m \in Nat /\ y \in Int
    <2>1. n * m = m * n /\ n * m \in Nat
      BY <1>2
    <2>2. i * n \in Int
      BY <1>2
    <2> QED BY <1>2, <2>1, <2>2
  <1> HIDE DEF x
  <1>7. x \div m = j /\ x % m = i
    <2>1. x \in Int
      BY <1>5, <1>6
    <2> QED BY <1>2, <1>5, <2>1, Quotient
  <1>8. 1 + x \in 1 .. m * n /\ (1 + x) - 1 = x
    <2> DEFINE v == m * n
    <2>1. v \in Nat /\ x \in 0 .. v - 1
      BY <1>5, <1>6
    <2> HIDE DEF v
    <2> QED BY <2>1 DEF v
  <1>9. f[1 + x] = a.data[1 + y]
    <2>1. f[1 + x] = a.data[((((1 + x) - 1) % m) * n) + (((1 + x) - 1) \div m) + 1]
      BY <1>8
    <2>2. f[1 + x] = a.data[(i * n) + j + 1]
      BY <1>7, <1>8, <2>1
    <2>3. (i * n) + j + 1 = 1 + y
      BY <1>6
    <2> QED BY <2>2, <2>3
  <1>10. f = [e \in 1 .. n * m |-> f[e]]
    BY <1>6
  <1> HIDE DEF f, y
  <1>11. Tn!At(Tn!Tensor(<<n, m>>, f), <<j, i>>) = f[1 + x]
    BY <1>3, <1>10, BuiltAt
  <1>12. Tn!At(a, <<i, j>>) = a.data[1 + y]
    BY <1>4, AtIs
  <1> QED BY <1>1, <1>9, <1>11, <1>12

\* plant_tensor_matmul: place i, j of the product adds up row i of the first
\* matrix times column j of the second.
THEOREM ProductOfRowAndColumn ==
    ASSUME NEW a, NEW b, NEW m \in Pos, NEW n \in Pos, NEW p \in Pos,
           a.shape = <<m, n>>, b.shape = <<n, p>>,
           NEW i \in 0 .. m - 1, NEW j \in 0 .. p - 1
    PROVE  Tn!At(Tn!MatMul(a, b), <<i, j>>) =
             Tn!NSum([k \in 1 .. n |-> Tn!NMul(Tn!At(a, <<i, k - 1>>), Tn!At(b, <<k - 1, j>>))], 1 .. n)
  <1> DEFINE term(r, c0) ==
               [k \in 1 .. n |-> Tn!NMul(a.data[(r - 1) * n + k], b.data[(k - 1) * p + c0])]
             f == [e \in 1 .. m * p |->
                     Tn!NSum(term(1 + ((e - 1) \div p), 1 + ((e - 1) % p)), 1 .. n)]
             x == i * p + j
             g == [k \in 1 .. n |-> Tn!NMul(Tn!At(a, <<i, k - 1>>), Tn!At(b, <<k - 1, j>>))]
  <1>1. Tn!MatMul(a, b) = Tn!Tensor(<<m, p>>, f)
    <2>1. a.shape[1] = m /\ a.shape[2] = n /\ b.shape[1] = n /\ b.shape[2] = p
      OBVIOUS
    <2>2. Len(a.shape) = 2 /\ Len(b.shape) = 2
      OBVIOUS
    <2> QED BY <2>1, <2>2 DEF Tn!MatMul
  <1>2. p \in Nat \ {0} /\ n \in Nat /\ m \in Nat /\ i \in Int /\ j \in Int
    BY DEF Pos
  <1>3. /\ <<m, p>> \in Seq(Pos) /\ Within(<<m, p>>, <<i, j>>) /\ Tn!Size(<<m, p>>) = m * p
        /\ Tn!Offset(<<m, p>>, <<i, j>>) = x
    BY PairOffset
  <1>4. x \in 0 .. m * p - 1 /\ x = p * i + j
    <2>1. i * p = p * i
      BY <1>2
    <2> QED BY <2>1, BelowWhole
  <1>5. m * p \in Nat
    BY <1>2
  <1> HIDE DEF x
  <1>6. x \div p = i /\ x % p = j
    <2>1. x \in Int
      BY <1>4, <1>5
    <2> QED BY <1>2, <1>4, <2>1, Quotient
  <1>7. 1 + x \in 1 .. m * p /\ (1 + x) - 1 = x
    <2> DEFINE v == m * p
    <2>1. v \in Nat /\ x \in 0 .. v - 1
      BY <1>4, <1>5
    <2> HIDE DEF v
    <2> QED BY <2>1 DEF v
  <1>8. ASSUME NEW k \in 1 .. n
        PROVE  /\ Tn!At(a, <<i, k - 1>>) = a.data[((1 + i) - 1) * n + k]
               /\ Tn!At(b, <<k - 1, j>>) = b.data[(k - 1) * p + (1 + j)]
    <2> DEFINE r == k - 1
    <2>1. r \in 0 .. n - 1 /\ k = 1 + r /\ (1 + i) - 1 = i
      BY <1>2
    <2> HIDE DEF r
    <2>2. /\ Within(<<m, n>>, <<i, r>>) /\ <<m, n>> \in Seq(Pos)
          /\ Tn!Offset(<<m, n>>, <<i, r>>) = i * n + r
      BY <2>1, PairOffset
    <2>3. /\ Within(<<n, p>>, <<r, j>>) /\ <<n, p>> \in Seq(Pos)
          /\ Tn!Offset(<<n, p>>, <<r, j>>) = r * p + j
      BY <2>1, PairOffset
    <2>4. Tn!At(a, <<i, r>>) = a.data[1 + (i * n + r)]
      BY <2>2, AtIs
    <2>5. Tn!At(b, <<r, j>>) = b.data[1 + (r * p + j)]
      BY <2>3, AtIs
    <2>6. i * n \in Int /\ r * p \in Int /\ r \in Int
      BY <1>2, <2>1
    <2>7. 1 + (i * n + r) = i * n + k
      BY <2>1, <2>6
    <2>8. 1 + (r * p + j) = r * p + (1 + j)
      BY <1>2, <2>6
    <2> QED BY <2>1, <2>4, <2>5, <2>7, <2>8 DEF r
  <1>9. term(1 + i, 1 + j) = g
    BY <1>8
  <1>10. f[1 + x] = Tn!NSum(g, 1 .. n)
    <2> HIDE DEF g, term
    <2>1. f[1 + x] = Tn!NSum(term(1 + (((1 + x) - 1) \div p), 1 + (((1 + x) - 1) % p)), 1 .. n)
      BY <1>7
    <2> HIDE DEF f
    <2> QED BY <1>6, <1>7, <1>9, <2>1
  <1>11. f = [e \in 1 .. Tn!Size(<<m, p>>) |-> f[e]]
    BY <1>3
  <1> HIDE DEF f, g, term
  <1>12. Tn!At(Tn!Tensor(<<m, p>>, f), <<i, j>>) = f[1 + x]
    BY <1>3, <1>11, BuiltAt
  <1> QED BY <1>1, <1>10, <1>12 DEF g

LEMMA FourIs ==
    ASSUME NEW s \in Seq(Pos), Len(s) = 4, NEW p \in 0 .. s[1] - 1, NEW q \in 0 .. s[2] - 1,
           NEW r \in 0 .. s[3] - 1, NEW t \in 0 .. s[4] - 1
    PROVE  1 + Tn!Offset(s, <<p, q, r, t>>) \in 1 .. Tn!Size(s)
  <1> DEFINE at == <<p, q, r, t>>
  <1>1. at[1] = p /\ at[2] = q /\ at[3] = r /\ at[4] = t
    OBVIOUS
  <1> HIDE DEF at
  <1>2. ASSUME NEW k \in 1 .. 4 PROVE at[k] \in 0 .. s[k] - 1
    <2>1. k = 1 \/ k = 2 \/ k = 3 \/ k = 4
      OBVIOUS
    <2> QED BY <1>1, <2>1
  <1>3. Tn!Offset(s, at) \in 0 .. Tn!Size(s) - 1 /\ Tn!Size(s) \in Pos
    BY <1>2, OffsetInside, SizeIsPos
  <1>4. 1 + Tn!Offset(s, at) \in 1 .. Tn!Size(s)
    BY <1>3 DEF Pos
  <1> QED BY <1>4 DEF at

\* plant_conv2d_forward: at every output the window meets only elements of the
\* input and of the kernel, and of the bias, wherever the padding puts it.
THEOREM WindowsReadInside ==
    ASSUME NEW x \in Seq(Pos), NEW k \in Seq(Pos), Len(x) = 4, Len(k) = 4, k[2] = x[2],
           NEW stride \in Pos, NEW pad \in Nat,
           NEW made, made = Tn!ConvShape(x, k, stride, pad), made[3] >= 1, made[4] >= 1
    PROVE  /\ made \in Seq(Pos)
           /\ \A e \in 1 .. Tn!Size(made) :
                /\ Tn!Touched(x, k, made, stride, pad, e) \subseteq (1 .. Tn!Size(x)) \X (1 .. Tn!Size(k))
                /\ 1 + Tn!Coordinates(made, e - 1)[2] \in 1 .. k[1]
  <1>1. \A j \in 1 .. 4 : x[j] \in Pos /\ k[j] \in Pos
    BY AfterIs
  <1>2. ASSUME NEW free \in Int PROVE Tn!Positions(free, stride) \in Int
    <2>1. ASSUME NEW y \in Int PROVE y \div stride \in Int
      BY Divided DEF Pos
    <2>2. free \div stride \in Int /\ (-free) \div stride \in Int
      <3>1. free \in Int /\ -free \in Int
        OBVIOUS
      <3> QED BY <2>1, <3>1
    <2> DEFINE u == free \div stride
               v == (-free) \div stride
    <2>3. Tn!Positions(free, stride) = 1 + (IF free < 0 THEN -v ELSE u)
      BY DEF Tn!Positions
    <2> HIDE DEF u, v
    <2> QED BY <2>2, <2>3 DEF u, v
  <1>3. made \in Seq(Pos) /\ Len(made) = 4 /\ made[1] = x[1] /\ made[2] = k[1]
    <2> DEFINE h0 == x[3] + 2 * pad - k[3]
               w0 == x[4] + 2 * pad - k[4]
    <2>1. h0 \in Int /\ w0 \in Int
      BY <1>1 DEF Pos
    <2>2. made = <<x[1], k[1], Tn!Positions(h0, stride), Tn!Positions(w0, stride)>>
      BY DEF Tn!ConvShape
    <2> HIDE DEF h0, w0
    <2>3. Tn!Positions(h0, stride) \in Int /\ Tn!Positions(w0, stride) \in Int
      BY <1>2, <2>1
    <2>4. made[3] = Tn!Positions(h0, stride) /\ made[4] = Tn!Positions(w0, stride)
      BY <2>2
    <2>5. Tn!Positions(h0, stride) \in Pos /\ Tn!Positions(w0, stride) \in Pos
      BY <2>3, <2>4 DEF Pos
    <2>6. x[1] \in Pos /\ k[1] \in Pos
      BY <1>1
    <2> QED BY <2>2, <2>5, <2>6
  <1>4. ASSUME NEW e \in 1 .. Tn!Size(made)
        PROVE  /\ Tn!Touched(x, k, made, stride, pad, e) \subseteq (1 .. Tn!Size(x)) \X (1 .. Tn!Size(k))
               /\ 1 + Tn!Coordinates(made, e - 1)[2] \in 1 .. k[1]
    <2> DEFINE o == Tn!Coordinates(made, e - 1)
               row(p) == o[3] * stride - pad + p
               col(p) == o[4] * stride - pad + p
    <2>1. e - 1 \in Nat
      BY <1>3, SizeIsPos DEF Pos
    <2>2. \A j \in 1 .. 4 : o[j] \in 0 .. made[j] - 1
      BY <1>3, <2>1, CoordinatesAre
    <2>3. o[1] \in 0 .. x[1] - 1 /\ o[2] \in 0 .. k[1] - 1
      BY <1>3, <2>2
    <2> HIDE DEF o
    <2>4. ASSUME NEW t \in (0 .. k[2] - 1) \X (0 .. k[3] - 1) \X (0 .. k[4] - 1),
                 row(t[2]) \in 0 .. x[3] - 1, col(t[3]) \in 0 .. x[4] - 1
          PROVE  /\ 1 + Tn!Offset(x, <<o[1], t[1], row(t[2]), col(t[3])>>) \in 1 .. Tn!Size(x)
                 /\ 1 + Tn!Offset(k, <<o[2], t[1], t[2], t[3]>>) \in 1 .. Tn!Size(k)
      <3>1. t[1] \in 0 .. k[2] - 1 /\ t[2] \in 0 .. k[3] - 1 /\ t[3] \in 0 .. k[4] - 1
        OBVIOUS
      <3>2. t[1] \in 0 .. x[2] - 1
        BY <3>1
      <3> DEFINE r1 == row(t[2])
                 c1 == col(t[3])
      <3>3. r1 \in 0 .. x[3] - 1 /\ c1 \in 0 .. x[4] - 1
        BY <2>4
      <3> HIDE DEF r1, c1
      <3>4. 1 + Tn!Offset(x, <<o[1], t[1], r1, c1>>) \in 1 .. Tn!Size(x)
        BY <2>3, <3>2, <3>3, FourIs
      <3>5. 1 + Tn!Offset(k, <<o[2], t[1], t[2], t[3]>>) \in 1 .. Tn!Size(k)
        BY <2>3, <3>1, FourIs
      <3> QED BY <3>4, <3>5 DEF r1, c1
    <2>5. Tn!Touched(x, k, made, stride, pad, e) =
            {<<1 + Tn!Offset(x, <<o[1], t[1], row(t[2]), col(t[3])>>),
               1 + Tn!Offset(k, <<o[2], t[1], t[2], t[3]>>)>> :
               t \in {t \in (0 .. k[2] - 1) \X (0 .. k[3] - 1) \X (0 .. k[4] - 1) :
                        row(t[2]) \in 0 .. x[3] - 1 /\ col(t[3]) \in 0 .. x[4] - 1}}
      BY DEF Tn!Touched, o
    <2>6. Tn!Touched(x, k, made, stride, pad, e) \subseteq (1 .. Tn!Size(x)) \X (1 .. Tn!Size(k))
      <3> DEFINE T == (0 .. k[2] - 1) \X (0 .. k[3] - 1) \X (0 .. k[4] - 1)
                 hit(t) == row(t[2]) \in 0 .. x[3] - 1 /\ col(t[3]) \in 0 .. x[4] - 1
                 u(t) == 1 + Tn!Offset(x, <<o[1], t[1], row(t[2]), col(t[3])>>)
                 v(t) == 1 + Tn!Offset(k, <<o[2], t[1], t[2], t[3]>>)
      <3>1. \A t \in T : hit(t) => u(t) \in 1 .. Tn!Size(x) /\ v(t) \in 1 .. Tn!Size(k)
        BY <2>4
      <3>2. Tn!Touched(x, k, made, stride, pad, e) = {<<u(t), v(t)>> : t \in {t \in T : hit(t)}}
        BY <2>5
      <3> HIDE DEF T, hit, u, v
      <3> QED BY <3>1, <3>2
    <2>7. 1 + o[2] \in 1 .. k[1]
      <3>1. k[1] \in Pos
        BY <1>1
      <3> QED BY <2>3, <3>1 DEF Pos
    <2> QED BY <2>6, <2>7 DEF o
  <1> QED BY <1>3, <1>4

Fractions == Int \X Int
Numbers == [v : Fractions, d : [1 .. NParams -> Fractions]]

LEMMA SumEitherWay ==
    ASSUME NEW x \in Fractions, NEW y \in Fractions
    PROVE  Tn!QAdd(x, y) = Tn!QAdd(y, x)
  <1> DEFINE x1 == x[1]
             x2 == x[2]
             y1 == y[1]
             y2 == y[2]
  <1>1. x1 \in Int /\ x2 \in Int /\ y1 \in Int /\ y2 \in Int
    BY DEF Fractions
  <1>2. Tn!QAdd(x, y) = Tn!Frac((x1 * y2) + (y1 * x2), x2 * y2)
    BY DEF Tn!QAdd
  <1>3. Tn!QAdd(y, x) = Tn!Frac((y1 * x2) + (x1 * y2), y2 * x2)
    BY DEF Tn!QAdd
  <1> HIDE DEF x1, x2, y1, y2
  <1>4. (x1 * y2) + (y1 * x2) = (y1 * x2) + (x1 * y2) /\ x2 * y2 = y2 * x2
    BY <1>1
  <1> QED BY <1>2, <1>3, <1>4

LEMMA NumbersEitherWay ==
    ASSUME NEW x \in Numbers, NEW y \in Numbers
    PROVE  Tn!NAdd(x, y) = Tn!NAdd(y, x)
  <1>1. /\ x.v \in Fractions /\ y.v \in Fractions
        /\ \A k \in Tn!Params : x.d[k] \in Fractions /\ y.d[k] \in Fractions
    BY DEF Numbers, Tn!Params
  <1>2. Tn!QAdd(x.v, y.v) = Tn!QAdd(y.v, x.v)
    BY <1>1, SumEitherWay
  <1>3. [k \in Tn!Params |-> Tn!QAdd(x.d[k], y.d[k])] = [k \in Tn!Params |-> Tn!QAdd(y.d[k], x.d[k])]
    BY <1>1, SumEitherWay
  <1> QED BY <1>2, <1>3 DEF Tn!NAdd

\* The sum of two tensors does not depend on their order, also where one is
\* broadcast along the other, nor does the refusal of shapes that do not fit.
THEOREM AdditionCommutes ==
    ASSUME NEW a, a.shape \in Seq(Pos), a.data \in [1 .. Tn!Size(a.shape) -> Numbers],
           NEW b, b.shape \in Seq(Pos), b.data \in [1 .. Tn!Size(b.shape) -> Numbers]
    PROVE  Tn!Elementwise("add", a, b) = Tn!Elementwise("add", b, a)
  <1> DEFINE s == a.shape
             t == b.shape
             u == Tn!BroadcastShape(s, t)
             N == 1 .. Tn!Size(u)
             A(i) == Tn!Meeting(a, u, i)
             B(i) == Tn!Meeting(b, u, i)
             f == [i \in N |-> Tn!NApply("add", A(i), B(i))]
             g == [i \in N |-> Tn!NApply("add", B(i), A(i))]
  <1>1. /\ u = Tn!BroadcastShape(t, s)
        /\ u # <<>> => \A i \in N :
             /\ Tn!BroadcastIndex(s, Tn!Coordinates(u, i - 1)) \in 1 .. Tn!Size(s)
             /\ Tn!BroadcastIndex(t, Tn!Coordinates(u, i - 1)) \in 1 .. Tn!Size(t)
    BY BroadcastReadsInside
  <1> DEFINE Long == Len(s) > Tn!MaxAxes \/ Len(t) > Tn!MaxAxes
  <1>2. Tn!Elementwise("add", a, b) =
          IF Long THEN Tn!Overrun ELSE IF u = <<>> THEN Tn!Err ELSE Tn!Tensor(u, f)
    BY Zenon DEF Tn!Elementwise
  <1>3. Tn!Elementwise("add", b, a) =
          IF Long THEN Tn!Overrun ELSE IF u = <<>> THEN Tn!Err ELSE Tn!Tensor(u, g)
    <2> DEFINE w == Tn!BroadcastShape(t, s)
               Far == Len(t) > Tn!MaxAxes \/ Len(s) > Tn!MaxAxes
    <2>1. Tn!Elementwise("add", b, a) =
            IF Far THEN Tn!Overrun
            ELSE IF w = <<>> THEN Tn!Err
            ELSE Tn!Tensor(w, [i \in 1 .. Tn!Size(w) |->
                                 Tn!NApply("add", Tn!Meeting(b, w, i), Tn!Meeting(a, w, i))])
      BY Zenon DEF Tn!Elementwise
    <2>2. w = u
      BY <1>1
    <2>3. Far <=> Long
      OBVIOUS
    <2> HIDE DEF w, u, Far, Long
    <2> QED BY <2>1, <2>2, <2>3
  <1>4. ASSUME u # <<>> PROVE f = g
    <2>1. ASSUME NEW i \in N PROVE A(i) \in Numbers /\ B(i) \in Numbers
      <3> DEFINE p == Tn!BroadcastIndex(s, Tn!Coordinates(u, i - 1))
                 q == Tn!BroadcastIndex(t, Tn!Coordinates(u, i - 1))
      <3>1. A(i) = a.data[p] /\ B(i) = b.data[q]
        BY DEF Tn!Meeting
      <3>2. p \in 1 .. Tn!Size(s) /\ q \in 1 .. Tn!Size(t)
        BY <1>1, <1>4
      <3> HIDE DEF p, q, A, B
      <3> QED BY <3>1, <3>2
    <2> HIDE DEF A, B, N
    <2>2. ASSUME NEW i \in N
          PROVE Tn!NApply("add", A(i), B(i)) = Tn!NApply("add", B(i), A(i))
      <3>1. Tn!NApply("add", A(i), B(i)) = Tn!NAdd(A(i), B(i))
        BY DEF Tn!NApply
      <3>2. Tn!NApply("add", B(i), A(i)) = Tn!NAdd(B(i), A(i))
        BY DEF Tn!NApply
      <3> QED BY <2>1, <3>1, <3>2, NumbersEitherWay
    <2> QED BY <2>2
  <1> HIDE DEF u, f, g, Long
  <1> QED BY <1>2, <1>3, <1>4

----------------------------------------------------------------------------
(* Matrices. Entries and Rows3 are the inputs of a run. *)

CONSTANT MaxDim
La == INSTANCE LinAlg WITH Entries <- {}, Rows3 <- {}, args <- in

\* Numbers in lowest terms: a denominator, and one zero.
Ratios == {x \in Int \X Pos : x[1] = 0 => x = La!Zero}

LEMMA TimesOrder ==
    ASSUME NEW k \in Pos, NEW a \in Int, NEW b \in Int
    PROVE  (a < b <=> k * a < k * b) /\ (a <= b <=> k * a <= k * b)
  <1>1. ASSUME NEW x \in Int, NEW y \in Int, x < y PROVE k * x < k * y
    <2> DEFINE d == y - x - 1
    <2>1. d \in Nat /\ y = x + d + 1 /\ k \in Nat /\ k >= 1
      BY <1>1 DEF Pos
    <2> HIDE DEF d
    <2>2. k * y = k * x + k * d + k /\ k * d \in Nat /\ k * x \in Int
      BY <2>1
    <2> DEFINE p == k * x
               q == k * d
               r == k * y
    <2>3. r = p + q + k /\ q \in Nat /\ p \in Int
      BY <2>2
    <2> HIDE DEF p, q, r
    <2>4. p < r
      BY <2>1, <2>3
    <2> QED BY <2>4 DEF p, r
  <1>2. a < b \/ a = b \/ b < a
    OBVIOUS
  <1>3. k * a \in Int /\ k * b \in Int
    BY DEF Pos
  <1> DEFINE p == k * a
             q == k * b
  <1>4. (a < b => p < q) /\ (b < a => q < p) /\ (a = b => p = q) /\ p \in Int /\ q \in Int
    BY <1>1, <1>3
  <1> HIDE DEF p, q
  <1>5. (a < b <=> p < q) /\ (a <= b <=> p <= q)
    BY <1>2, <1>4
  <1> QED BY <1>5 DEF p, q

\* A number that is not above y is below what is above y.
LEMMA LessAfter ==
    ASSUME NEW x \in Int \X Pos, NEW y \in Int \X Pos, NEW z \in Int \X Pos,
           ~La!QLess(y, x), La!QLess(y, z)
    PROVE  La!QLess(x, z)
  <1> DEFINE x1 == x[1]
             x2 == x[2]
             y1 == y[1]
             y2 == y[2]
             z1 == z[1]
             z2 == z[2]
  <1>1. x1 \in Int /\ y1 \in Int /\ z1 \in Int /\ x2 \in Pos /\ y2 \in Pos /\ z2 \in Pos
    OBVIOUS
  <1>2. ~ (y1 * x2 < x1 * y2) /\ y1 * z2 < z1 * y2
    BY DEF La!QLess
  <1>3. La!QLess(x, z) <=> x1 * z2 < z1 * x2
    BY DEF La!QLess
  <1> HIDE DEF x1, x2, y1, y2, z1, z2
  <1>4. x2 \in Int /\ y2 \in Int /\ z2 \in Int
    BY <1>1 DEF Pos
  <1> DEFINE a == x1 * y2
             b == y1 * x2
             c0 == y1 * z2
             d == z1 * y2
             e == x1 * z2
             f == z1 * x2
  <1>5. a \in Int /\ b \in Int /\ c0 \in Int /\ d \in Int /\ e \in Int /\ f \in Int
    BY <1>1, <1>4
  <1>6. z2 * a = y2 * e
    <2>1. z2 * (x1 * y2) = (z2 * x1) * y2 /\ z2 * x1 = x1 * z2 /\ (x1 * z2) * y2 = y2 * (x1 * z2)
      <3>1. z2 * (x1 * y2) = (z2 * x1) * y2
        BY <1>1, <1>4, TimesTimes
      <3>2. z2 * x1 = x1 * z2
        BY <1>1, <1>4
      <3>3. e * y2 = y2 * e
        BY <1>4, <1>5
      <3> QED BY <3>1, <3>2, <3>3
    <2> QED BY <2>1
  <1>7. x2 * d = y2 * f
    <2>1. x2 * (z1 * y2) = (x2 * z1) * y2
      BY <1>1, <1>4, TimesTimes
    <2>2. x2 * z1 = z1 * x2
      BY <1>1, <1>4
    <2>3. f * y2 = y2 * f
      BY <1>4, <1>5
    <2> QED BY <2>1, <2>2, <2>3
  <1>8. z2 * b = x2 * c0
    <2>1. z2 * (y1 * x2) = (z2 * y1) * x2
      BY <1>1, <1>4, TimesTimes
    <2>2. z2 * y1 = y1 * z2
      BY <1>1, <1>4
    <2>3. c0 * x2 = x2 * c0
      BY <1>4, <1>5
    <2> QED BY <2>1, <2>2, <2>3
  <1> HIDE DEF a, b, c0, d, e, f
  <1>9. a <= b /\ c0 < d
    BY <1>2, <1>5 DEF a, b, c0, d
  <1>10. z2 * a <= z2 * b
    BY <1>1, <1>5, <1>9, TimesOrder
  <1>11. x2 * c0 < x2 * d
    BY <1>1, <1>5, <1>9, TimesOrder
  <1>12. y2 * e < y2 * f
    <2>1. z2 * a \in Int /\ z2 * b \in Int /\ x2 * d \in Int
      BY <1>4, <1>5
    <2> QED BY <1>6, <1>7, <1>8, <1>10, <1>11, <2>1
  <1>13. e < f
    BY <1>1, <1>5, <1>12, TimesOrder
  <1> QED BY <1>3, <1>13 DEF e, f

LEMMA LessOneWay ==
    ASSUME NEW x \in Int \X Pos, NEW y \in Int \X Pos
    PROVE  ~La!QLess(x, x) /\ (La!QLess(x, y) => ~La!QLess(y, x))
  <1> DEFINE p == x[1] * y[2]
             q == y[1] * x[2]
             r == x[1] * x[2]
  <1>1. x[1] \in Int /\ x[2] \in Int /\ y[1] \in Int /\ y[2] \in Int
    BY DEF Pos
  <1>2. p \in Int /\ q \in Int /\ r \in Int
    BY <1>1
  <1>3. (La!QLess(x, y) <=> p < q) /\ (La!QLess(y, x) <=> q < p) /\ (La!QLess(x, x) <=> r < r)
    BY DEF La!QLess
  <1> HIDE DEF p, q, r
  <1> QED BY <1>2, <1>3

\* p is the first row with the largest entry of the column, of rows j to k.
FirstLargest(m, col, k, p) ==
    /\ p \in col .. k
    /\ \A r \in col .. k : ~La!QLess(La!QAbs(m[p][col]), La!QAbs(m[r][col]))
    /\ \A r \in col .. p - 1 : La!QLess(La!QAbs(m[r][col]), La!QAbs(m[p][col]))

\* One step of the search: the next row takes over only when it is larger.
Better(m, col, p, k) ==
    IF La!QLess(La!QAbs(m[p][col]), La!QAbs(m[k][col])) THEN k ELSE p

LEMMA FirstIsLargest ==
    ASSUME NEW m, NEW col \in Nat, m[col][col] \in Int \X Pos
    PROVE  FirstLargest(m, col, col, col)
  <1> DEFINE v(r) == La!QAbs(m[r][col])
  <1>1. v(col) \in Int \X Pos
    BY DEF La!QAbs, La!Magnitude
  <1> HIDE DEF v
  <1>2. col \in col .. col /\ col .. col = {col} /\ col .. col - 1 = {}
    OBVIOUS
  <1>3. ~La!QLess(v(col), v(col))
    BY <1>1, LessOneWay
  <1>4. \A r \in col .. col : ~La!QLess(v(col), v(r))
    BY <1>2, <1>3
  <1>5. \A r \in col .. col - 1 : La!QLess(v(r), v(col))
    BY <1>2
  <1> QED BY <1>2, <1>4, <1>5 DEF FirstLargest, v

LEMMA BetterIsLargest ==
    ASSUME NEW m, NEW col \in Nat, NEW k \in Nat, col < k, NEW p,
           \A r \in col .. k : m[r][col] \in Int \X Pos,
           FirstLargest(m, col, k - 1, p)
    PROVE  FirstLargest(m, col, k, Better(m, col, p, k))
  <1> DEFINE v(r) == La!QAbs(m[r][col])
             F(j, q) == /\ q \in col .. j
                        /\ \A r \in col .. j : ~La!QLess(v(q), v(r))
                        /\ \A r \in col .. q - 1 : La!QLess(v(r), v(q))
  <1>1. \A r \in col .. k : v(r) \in Int \X Pos
    BY DEF La!QAbs, La!Magnitude
  <1>2. F(k - 1, p)
    BY DEF FirstLargest
  <1> HIDE DEF v
  <1>3. p \in col .. k - 1 /\ p \in col .. k /\ k \in col .. k /\ v(p) \in Int \X Pos /\ v(k) \in Int \X Pos
    BY <1>1, <1>2
  <1>4. \A r \in col .. k : r \in col .. k - 1 \/ r = k
    OBVIOUS
  <1>5. \A r \in col .. k - 1 : r \in col .. k /\ v(r) \in Int \X Pos
    BY <1>1
  <1>6. CASE La!QLess(v(p), v(k))
    <2>1. ASSUME NEW r \in col .. k - 1 PROVE La!QLess(v(r), v(k)) /\ ~La!QLess(v(k), v(r))
      <3>1. ~La!QLess(v(p), v(r))
        BY <1>2
      <3>2. La!QLess(v(r), v(k))
        BY <1>3, <1>5, <1>6, <3>1, LessAfter
      <3> QED BY <1>3, <1>5, <3>2, LessOneWay
    <2>2. ~La!QLess(v(k), v(k))
      BY <1>3, LessOneWay
    <2>3. F(k, k)
      BY <1>3, <1>4, <2>1, <2>2
    <2> HIDE DEF F
    <2>4. Better(m, col, p, k) = k
      BY <1>6 DEF Better, v
    <2>5. FirstLargest(m, col, k, k)
      BY <2>3 DEF FirstLargest, F, v
    <2> QED BY <2>4, <2>5
  <1>7. CASE ~La!QLess(v(p), v(k))
    <2>1. F(k, p)
      BY <1>2, <1>3, <1>4, <1>7
    <2> HIDE DEF F
    <2>2. Better(m, col, p, k) = p
      BY <1>7 DEF Better, v
    <2>3. FirstLargest(m, col, k, p)
      BY <2>1 DEF FirstLargest, F, v
    <2> QED BY <2>2, <2>3
  <1> QED BY <1>6, <1>7

\* g holds, for each row, the best row that the search has met up to it.
Searched(g, m, col, n) ==
    /\ g = [r \in col .. n |-> g[r]]
    /\ g[col] = col
    /\ \A r \in col + 1 .. n : g[r] = Better(m, col, g[r - 1], r)

LEMMA SearchExists ==
    ASSUME NEW m, NEW col \in Nat, NEW n \in Nat, col <= n
    PROVE  \E g : Searched(g, m, col, n)
  <1> DEFINE G == {i \in 0 .. n - col : \E g : Searched(g, m, col, col + i)}
  <1>1. 0 \in G
    <2>1. Searched([r \in col .. col |-> col], m, col, col)
      BY DEF Searched
    <2>2. col + 0 = col /\ 0 \in 0 .. n - col
      OBVIOUS
    <2> QED BY <2>1, <2>2
  <1>2. ASSUME NEW i \in 1 .. n - col, i - 1 \in G PROVE i \in G
    <2> DEFINE k == col + i
    <2>1. k \in Nat /\ k - 1 = col + (i - 1) /\ k > col /\ i \in 0 .. n - col
      OBVIOUS
    <2>2. PICK g : Searched(g, m, col, k - 1)
      BY <1>2, <2>1
    <2> HIDE DEF k
    <2> DEFINE x == Better(m, col, g[k - 1], k)
               f == [r \in col .. k |-> IF r = k THEN x ELSE g[r]]
    <2> HIDE DEF x
    <2>3. f = [r \in col .. k |-> f[r]] /\ f[k] = x /\ f[col] = g[col] /\ \A r \in col .. k - 1 : f[r] = g[r]
      BY <2>1
    <2> HIDE DEF f
    <2>4. f[col] = col
      BY <2>2, <2>3 DEF Searched
    <2>5. ASSUME NEW r \in col + 1 .. k PROVE f[r] = Better(m, col, f[r - 1], r)
      <3>1. r - 1 \in col .. k - 1 /\ f[r - 1] = g[r - 1]
        BY <2>1, <2>3
      <3>2. CASE r = k
        BY <2>3, <3>1, <3>2 DEF x
      <3>3. CASE r # k
        <4>1. r \in col + 1 .. k - 1 /\ r \in col .. k - 1
          BY <2>1, <3>3
        <4>2. f[r] = g[r]
          BY <2>3, <4>1
        <4>3. g[r] = Better(m, col, g[r - 1], r)
          BY <2>2, <4>1 DEF Searched
        <4> QED BY <3>1, <4>2, <4>3
      <3> QED BY <3>2, <3>3
    <2>6. Searched(f, m, col, k)
      BY <2>3, <2>4, <2>5 DEF Searched
    <2> QED BY <2>1, <2>6 DEF k
  <1>3. n - col \in Nat /\ n - col \in 0 .. n - col /\ col + (n - col) = n
    OBVIOUS
  <1> HIDE DEF G
  <1>4. 0 .. n - col \subseteq G
    BY <1>1, <1>2, <1>3, LoopInduction
  <1>5. n - col \in G
    BY <1>3, <1>4
  <1> QED BY <1>3, <1>5 DEF G

LEMMA SearchIsLargest ==
    ASSUME NEW m, NEW col \in Nat, NEW n \in Nat, col <= n, NEW g, Searched(g, m, col, n),
           \A r \in col .. n : m[r][col] \in Int \X Pos
    PROVE  FirstLargest(m, col, n, g[n])
  <1> DEFINE G == {i \in 0 .. n - col : FirstLargest(m, col, col + i, g[col + i])}
  <1>1. 0 \in G
    <2>1. col + 0 = col /\ 0 \in 0 .. n - col /\ col \in col .. n
      OBVIOUS
    <2>2. FirstLargest(m, col, col, col)
      BY <2>1, FirstIsLargest
    <2>3. g[col] = col
      BY DEF Searched
    <2> QED BY <2>1, <2>2, <2>3
  <1>2. ASSUME NEW i \in 1 .. n - col, i - 1 \in G PROVE i \in G
    <2> DEFINE k == col + i
    <2>1. k \in Nat /\ k - 1 = col + (i - 1) /\ k > col /\ k <= n /\ i \in 0 .. n - col
      OBVIOUS
    <2>2. FirstLargest(m, col, k - 1, g[k - 1])
      BY <1>2, <2>1
    <2> HIDE DEF k
    <2>3. k \in col + 1 .. n /\ \A r \in col .. k : r \in col .. n
      BY <2>1
    <2>4. g[k] = Better(m, col, g[k - 1], k)
      BY <2>3 DEF Searched
    <2>5. \A r \in col .. k : m[r][col] \in Int \X Pos
      BY <2>3
    <2>6. FirstLargest(m, col, k, Better(m, col, g[k - 1], k))
      BY <2>1, <2>2, <2>5, BetterIsLargest
    <2> QED BY <2>1, <2>4, <2>6 DEF k
  <1>3. n - col \in Nat /\ n - col \in 0 .. n - col /\ col + (n - col) = n
    OBVIOUS
  <1> HIDE DEF G
  <1>4. 0 .. n - col \subseteq G
    BY <1>1, <1>2, <1>3, LoopInduction
  <1>5. n - col \in G
    BY <1>3, <1>4
  <1> QED BY <1>3, <1>5 DEF G

\* The search for a pivot ends at the first of the largest entries from the
\* diagonal down, and only where every one of them is zero is the pivot zero: a
\* column that the built-ins refuse, or that LU passes, has no pivot.
THEOREM PivotIsLargest ==
    ASSUME NEW m, NEW col \in Nat, Len(m) \in Nat, col <= Len(m),
           \A r \in col .. Len(m) : m[r][col] \in Ratios
    PROVE  /\ FirstLargest(m, col, Len(m), La!PivotRow(m, col))
           /\ m[La!PivotRow(m, col)][col] = La!Zero => \A r \in col .. Len(m) : m[r][col] = La!Zero
  <1> DEFINE n == Len(m)
             p == La!PivotRow(m, col)
             Loop(g) == [r \in col .. n |->
                            IF r = col THEN col
                            ELSE IF La!QLess(La!QAbs(m[g[r - 1]][col]), La!QAbs(m[r][col]))
                                 THEN r ELSE g[r - 1]]
             C == CHOOSE g : g = Loop(g)
  <1>1. \A r \in col .. n : m[r][col] \in Int \X Pos
    BY DEF Ratios
  <1>2. n \in Nat /\ col <= n
    OBVIOUS
  <1>3. FirstLargest(m, col, n, p)
    <2>1. p = C[n]
      BY DEF La!PivotRow
    <2> HIDE DEF p, n
    <2>2. PICK g : Searched(g, m, col, n)
      BY <1>2, SearchExists
    <2>3. g = Loop(g)
      <3>1. ASSUME NEW r \in col .. n PROVE g[r] = Loop(g)[r]
        <4>1. CASE r = col
          BY <2>2, <4>1 DEF Searched
        <4>2. CASE r # col
          <5>1. r \in col + 1 .. n
            BY <1>2, <4>2
          <5>2. g[r] = Better(m, col, g[r - 1], r)
            BY <2>2, <5>1 DEF Searched
          <5> QED BY <4>2, <5>2 DEF Better
        <4> QED BY <4>1, <4>2
      <3>2. g = [r \in col .. n |-> g[r]]
        BY <2>2 DEF Searched
      <3> QED BY <3>1, <3>2
    <2>4. C = Loop(C)
      BY <2>3
    <2> HIDE DEF C
    <2>5. C = [r \in col .. n |-> C[r]]
      BY <2>4
    <2>6. C[col] = col
      <3>1. col \in col .. n
        BY <1>2
      <3> QED BY <2>4, <3>1
    <2>7. ASSUME NEW r \in col + 1 .. n PROVE C[r] = Better(m, col, C[r - 1], r)
      <3>1. r \in col .. n /\ r # col
        BY <1>2
      <3>2. C[r] = Loop(C)[r]
        BY <2>4
      <3> HIDE DEF C
      <3>3. Loop(C)[r] = Better(m, col, C[r - 1], r)
        BY <3>1 DEF Better
      <3> QED BY <3>2, <3>3
    <2>8. Searched(C, m, col, n)
      BY <2>5, <2>6, <2>7 DEF Searched
    <2>9. FirstLargest(m, col, n, C[n])
      BY <1>1, <1>2, <2>8, SearchIsLargest
    <2> QED BY <2>1, <2>9
  <1> HIDE DEF p, n
  <1>4. ASSUME m[p][col] = La!Zero, NEW r \in col .. n PROVE m[r][col] = La!Zero
    <2> DEFINE x == m[r][col]
               x1 == x[1]
               x2 == x[2]
    <2>1. x \in Ratios /\ x1 \in Int /\ x2 \in Pos
      BY DEF Ratios, n
    <2>2. ~La!QLess(La!QAbs(La!Zero), La!QAbs(x))
      BY <1>3, <1>4 DEF FirstLargest
    <2>3. La!QAbs(La!Zero) = <<0, 1>> /\ La!QAbs(x) = <<La!Magnitude(x1), x2>>
      BY DEF La!QAbs, La!Zero, La!Magnitude
    <2> HIDE DEF x1, x2
    <2>4. ~ (0 * x2 < La!Magnitude(x1) * 1)
      BY <2>2, <2>3 DEF La!QLess
    <2>5. x1 = 0
      BY <2>1, <2>4 DEF La!Magnitude, Pos
    <2> HIDE DEF x
    <2>6. x = La!Zero
      BY <2>1, <2>5 DEF Ratios, x1
    <2> QED BY <2>6 DEF x
  <1> QED BY <1>3, <1>4 DEF p, n

\* A matrix of r rows and k columns, of numbers. LA_MAXD bounds the rows, and so
\* the columns of a matrix whose transpose is read.
MatrixOf(m, r, k) ==
    /\ r \in 1 .. MaxDim /\ k \in 1 .. MaxDim
    /\ m = [i \in 1 .. r |-> m[i]]
    /\ \A i \in 1 .. r : m[i] = [j \in 1 .. k |-> m[i][j]]
    /\ \A i \in 1 .. r : \A j \in 1 .. k : ~La!IsNaN(m[i][j])

LEMMA LengthIs ==
    ASSUME NEW n \in Nat, NEW f, f = [i \in 1 .. n |-> f[i]]
    PROVE  Len(f) = n /\ DOMAIN f = 1 .. n
  <1> DEFINE S == {f[i] : i \in 1 .. n}
  <1>1. \A i \in 1 .. n : f[i] \in S
    OBVIOUS
  <1> HIDE DEF S
  <1> QED BY <1>1, ListIs

LEMMA MatrixIs ==
    ASSUME NEW m, NEW r, NEW c0, MaxDim \in Nat, MatrixOf(m, r, c0)
    PROVE  /\ La!Readable(m) /\ Len(m) = r /\ Len(m[1]) = c0 /\ DOMAIN m = 1 .. r /\ La!Cols(m) = 1 .. c0
           /\ r \in Nat /\ c0 \in Nat
  <1>1. r \in Nat /\ c0 \in Nat /\ 1 \in 1 .. r /\ 1 \in 1 .. c0 /\ r \in 1 .. MaxDim
    BY DEF MatrixOf
  <1>2. Len(m) = r /\ DOMAIN m = 1 .. r
    BY <1>1, LengthIs DEF MatrixOf
  <1>3. ASSUME NEW i \in 1 .. r
        PROVE Len(m[i]) = c0 /\ DOMAIN m[i] = 1 .. c0 /\ m[i] # <<>> /\ La!AllNumbers(m[i])
    <2>1. m[i] = [j \in 1 .. c0 |-> m[i][j]]
      BY DEF MatrixOf
    <2>2. Len(m[i]) = c0 /\ DOMAIN m[i] = 1 .. c0
      BY <1>1, <2>1, LengthIs
    <2>3. m[i] # <<>>
      <3>1. Len(<<>>) = 0 /\ c0 # 0
        BY <1>1
      <3> QED BY <2>2, <3>1
    <2>4. La!AllNumbers(m[i])
      BY <2>2 DEF La!AllNumbers, MatrixOf
    <2> QED BY <2>2, <2>3, <2>4
  <1>4. La!IsMatrix(m)
    BY <1>1, <1>2, <1>3 DEF La!IsMatrix
  <1>5. La!Readable(m)
    BY <1>2, <1>3, <1>4 DEF La!Readable
  <1> QED BY <1>1, <1>2, <1>3, <1>5 DEF La!Cols

\* Entry j, i of m, a matrix of r rows and k columns, at i, j.
Flipped(m, r, k) == [i \in 1 .. k |-> [j \in 1 .. r |-> m[j][i]]]

LEMMA TransposeIs ==
    ASSUME NEW m, NEW r, NEW c0, MaxDim \in Nat, MatrixOf(m, r, c0)
    PROVE  /\ MatrixOf(La!Transpose(m), c0, r)
           /\ La!Transpose(m) = Flipped(m, r, c0)
  <1> DEFINE t == La!Transpose(m)
             e == [p \in (1 .. c0) \X (1 .. r) |-> m[p[2]][p[1]]]
  <1>1. La!Readable(m) /\ DOMAIN m = 1 .. r /\ La!Cols(m) = 1 .. c0
    BY MatrixIs
  <1>2. t = [i \in 1 .. c0 |-> [j \in 1 .. r |-> e[i, j]]]
    <2>1. t = La!Matrix(La!Cols(m), DOMAIN m, [p \in La!Cols(m) \X DOMAIN m |-> m[p[2]][p[1]]])
      BY <1>1, Zenon DEF La!Transpose
    <2>2. t = La!Matrix(1 .. c0, 1 .. r, e)
      BY <1>1, <2>1, Zenon
    <2> QED BY <2>2, Zenon DEF La!Matrix
  <1>3. ASSUME NEW i \in 1 .. c0, NEW j \in 1 .. r PROVE e[i, j] = m[j][i]
    <2>1. <<i, j>> \in (1 .. c0) \X (1 .. r)
      OBVIOUS
    <2> QED BY <2>1
  <1> HIDE DEF e, t
  <1>4. t = [i \in 1 .. c0 |-> [j \in 1 .. r |-> m[j][i]]]
    BY <1>2, <1>3
  <1>5. \A i \in 1 .. c0 : t[i] = [j \in 1 .. r |-> m[j][i]]
    BY <1>4
  <1>6. MatrixOf(t, c0, r)
    <2>1. t = [i \in 1 .. c0 |-> t[i]]
      BY <1>4
    <2>2. \A i \in 1 .. c0 : t[i] = [j \in 1 .. r |-> t[i][j]]
      BY <1>5
    <2>3. \A i \in 1 .. c0 : \A j \in 1 .. r : ~La!IsNaN(t[i][j])
      <3>1. \A i \in 1 .. c0 : \A j \in 1 .. r : t[i][j] = m[j][i]
        BY <1>5
      <3>2. \A i \in 1 .. c0 : \A j \in 1 .. r : ~La!IsNaN(m[j][i])
        BY DEF MatrixOf
      <3> QED BY <3>1, <3>2
    <2>4. c0 \in 1 .. MaxDim /\ r \in 1 .. MaxDim
      BY DEF MatrixOf
    <2> QED BY <2>1, <2>2, <2>3, <2>4 DEF MatrixOf
  <1> QED BY <1>4, <1>6 DEF t, Flipped

\* MAT_TRANSPOSE twice gives the matrix back.
THEOREM TransposeTwice ==
    ASSUME NEW m, NEW r, NEW k, MaxDim \in Nat, MatrixOf(m, r, k)
    PROVE  La!Transpose(La!Transpose(m)) = m
  <1> DEFINE t == La!Transpose(m)
  <1>1. MatrixOf(t, k, r) /\ t = Flipped(m, r, k)
    BY TransposeIs
  <1> HIDE DEF t
  <1>2. La!Transpose(t) = [i \in 1 .. r |-> [j \in 1 .. k |-> t[j][i]]]
    <2>1. La!Transpose(t) = Flipped(t, k, r)
      BY <1>1, TransposeIs
    <2> QED BY <2>1 DEF Flipped
  <1>3. \A i \in 1 .. r : \A j \in 1 .. k : t[j][i] = m[i][j]
    BY <1>1 DEF Flipped
  <1>4. \A i \in 1 .. r : [j \in 1 .. k |-> t[j][i]] = m[i]
    BY <1>3 DEF MatrixOf
  <1>5. La!Transpose(t) = [i \in 1 .. r |-> m[i]]
    BY <1>2, <1>4
  <1> QED BY <1>5 DEF MatrixOf, t

LEMMA TimesEitherWay ==
    ASSUME NEW x \in Fractions, NEW y \in Fractions
    PROVE  La!QMul(x, y) = La!QMul(y, x)
  <1> DEFINE x1 == x[1]
             x2 == x[2]
             y1 == y[1]
             y2 == y[2]
  <1>1. x1 \in Int /\ x2 \in Int /\ y1 \in Int /\ y2 \in Int
    BY DEF Fractions
  <1>2. La!QMul(x, y) = La!Frac(x1 * y1, x2 * y2) /\ La!QMul(y, x) = La!Frac(y1 * x1, y2 * x2)
    BY DEF La!QMul
  <1> HIDE DEF x1, x2, y1, y2
  <1>3. x1 * y1 = y1 * x1 /\ x2 * y2 = y2 * x2
    BY <1>1
  <1> QED BY <1>2, <1>3

\* The sums of a product of r rows and k columns.
Products(a, b, r, n, k) ==
    [i \in 1 .. r |-> [j \in 1 .. k |-> La!QSum([l \in 1 .. n |-> La!QMul(a[i][l], b[l][j])], 1 .. n)]]

LEMMA ProductIs ==
    ASSUME NEW a, NEW b, NEW r, NEW n, NEW k, MaxDim \in Nat, MatrixOf(a, r, n), MatrixOf(b, n, k)
    PROVE  La!MatrixMult(a, b) = Products(a, b, r, n, k)
  <1>1. /\ La!Readable(a) /\ Len(a[1]) = n /\ DOMAIN a = 1 .. r
        /\ La!Readable(b) /\ Len(b) = n /\ DOMAIN b = 1 .. n /\ La!Cols(b) = 1 .. k
    BY MatrixIs
  <1> QED BY <1>1 DEF La!MatrixMult, Products

\* The transpose of a product is the product of the transposes in the other
\* order, sum for sum, wherever no sum of the product has left the numbers.
THEOREM TransposeOfProduct ==
    ASSUME NEW a, NEW b, NEW r, NEW n, NEW k, MaxDim \in Nat, MatrixOf(a, r, n), MatrixOf(b, n, k),
           \A i \in 1 .. r : \A l \in 1 .. n : a[i][l] \in Fractions,
           \A l \in 1 .. n : \A j \in 1 .. k : b[l][j] \in Fractions,
           La!Readable(La!MatrixMult(a, b))
    PROVE  La!Transpose(La!MatrixMult(a, b)) = La!MatrixMult(La!Transpose(b), La!Transpose(a))
  <1> DEFINE p == La!MatrixMult(a, b)
             ta == La!Transpose(a)
             tb == La!Transpose(b)
             S(i, j) == La!QSum([l \in 1 .. n |-> La!QMul(a[i][l], b[l][j])], 1 .. n)
  <1>1. p = [i \in 1 .. r |-> [j \in 1 .. k |-> S(i, j)]]
    BY ProductIs DEF Products
  <1>2. MatrixOf(ta, n, r) /\ ta = Flipped(a, r, n)
    BY TransposeIs
  <1>3. MatrixOf(tb, k, n) /\ tb = Flipped(b, n, k)
    BY TransposeIs
  <1>4. r \in 1 .. MaxDim /\ k \in 1 .. MaxDim /\ r \in Nat /\ k \in Nat
    BY DEF MatrixOf
  <1> HIDE DEF p, ta, tb, S
  <1>5. \A i \in 1 .. r : p[i] = [j \in 1 .. k |-> S(i, j)]
    BY <1>1
  <1>6. MatrixOf(p, r, k)
    <2>1. p = [i \in 1 .. r |-> p[i]] /\ \A i \in 1 .. r : p[i] = [j \in 1 .. k |-> p[i][j]]
      BY <1>1, <1>5
    <2>2. DOMAIN p = 1 .. r /\ \A i \in 1 .. r : DOMAIN p[i] = 1 .. k
      BY <1>1, <1>5
    <2>3. \A i \in 1 .. r : \A j \in 1 .. k : ~La!IsNaN(p[i][j])
      BY <2>2 DEF La!Readable, La!AllNumbers, p
    <2> QED BY <1>4, <2>1, <2>3 DEF MatrixOf
  <1>7. La!Transpose(p) = [j \in 1 .. k |-> [i \in 1 .. r |-> S(i, j)]]
    <2>1. La!Transpose(p) = Flipped(p, r, k)
      BY <1>6, TransposeIs
    <2>2. \A i \in 1 .. r : \A j \in 1 .. k : p[i][j] = S(i, j)
      BY <1>5
    <2> QED BY <2>1, <2>2 DEF Flipped
  <1>8. La!MatrixMult(tb, ta) = Products(tb, ta, k, n, r)
    BY <1>2, <1>3, ProductIs
  <1>9. ASSUME NEW j \in 1 .. k, NEW i \in 1 .. r
        PROVE  La!QSum([l \in 1 .. n |-> La!QMul(tb[j][l], ta[l][i])], 1 .. n) = S(i, j)
    <2>1. ASSUME NEW l \in 1 .. n PROVE La!QMul(tb[j][l], ta[l][i]) = La!QMul(a[i][l], b[l][j])
      <3>1. tb[j][l] = b[l][j] /\ ta[l][i] = a[i][l]
        BY <1>2, <1>3 DEF Flipped
      <3>2. a[i][l] \in Fractions /\ b[l][j] \in Fractions
        OBVIOUS
      <3> QED BY <3>1, <3>2, TimesEitherWay
    <2>2. [l \in 1 .. n |-> La!QMul(tb[j][l], ta[l][i])] = [l \in 1 .. n |-> La!QMul(a[i][l], b[l][j])]
      BY <2>1
    <2> QED BY <2>2 DEF S
  <1>10. La!Transpose(p) = La!MatrixMult(tb, ta)
    BY <1>7, <1>8, <1>9 DEF Products
  <1> QED BY <1>10 DEF p, ta, tb
==============================================================================
