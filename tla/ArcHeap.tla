------------------------------ MODULE ArcHeap ------------------------------
(***************************************************************************)
(* GlobalARCHeap of runtime/c/plant_runtime.c: a reference-counted heap    *)
(* with a mark-sweep pass for cycles, leases that keep zero-ref objects,   *)
(* and a queue of objects whose reclamation is deferred until their lease  *)
(* expires.                                                                *)
(*                                                                         *)
(* The heap is one record h, and each runtime function that rebuilds it is *)
(* an operator from heaps to heaps, so that plant_arc_alloc can be written *)
(* as the code runs it: insert, then collect, then evict.                  *)
(***************************************************************************)
EXTENDS Integers, FiniteSets

CONSTANTS
    Obj,         \* addresses malloc can return for an object; reused after free
    Edge,        \* addresses of plant_arc_link_edge cells
    GcInterval,  \* PERSIST_GC_INTERVAL: a collection every so many allocations
    LeaseMs,     \* lease durations clients ask for
    Margin,      \* PERSIST_LEASE_MS as lease_evict's "near expiry" margin
    Pressures,   \* values plant_persist_pressure can return
    DeferredMax, \* PLANT_ARC_DEFERRED_MAX
    CacheHits,   \* which objects that only a lease keeps clients use again: those
                 \* not queued ("kept"), those in the deferred queue ("queued")
    MaxHolds,    \* bound: retains a client holds on one object
    MaxInEdges,  \* bound: incoming edges counted on one object
    MaxTime      \* bound: the clock stops here

ASSUME ArcAssumption ==
    /\ IsFiniteSet(Obj) /\ IsFiniteSet(Edge)
    /\ GcInterval \in Nat \ {0}
    /\ LeaseMs \subseteq Nat \ {0}
    /\ Margin \in Nat /\ DeferredMax \in Nat
    /\ Pressures \subseteq Nat
    /\ CacheHits \subseteq {"kept", "queued"}
    /\ MaxHolds \in Nat \ {0} /\ MaxInEdges \in Nat /\ MaxTime \in Nat

VARIABLES
    h,       \* the heap, see Heaps
    allocs,  \* g_arc_allocs modulo GcInterval
    now,     \* plant_ms()
    hold     \* history: retains the client has not released, per object

vars == <<h, allocs, now, hold>>

Edges == [cell : Edge, p : Obj, c : Obj]

Heaps == [objs     : SUBSET Obj,        \* the g_arc_head list
          refs     : [Obj -> Nat],
          inEdges  : [Obj -> Nat],
          edges    : SUBSET Edges,      \* outgoing edge lists of all objects
          lease    : [Obj -> Nat],      \* leased_until_ms, 0 for none
          deferred : SUBSET Obj,        \* objects whose deferred flag is set
          pending  : SUBSET Obj]        \* g_arc_deferred[0 .. g_pending_frees)

----------------------------------------------------------------------------
(* Operators on heaps *)

\* plant_arc_destroy of every object of D: unlink it from the list and free it
\* with its own edge cells. Nothing is done about D's children or D's parents.
\* The fields of freed memory are written as zero: nothing may read them.
Cleared(f, D) == [o \in Obj |-> IF o \in D THEN 0 ELSE f[o]]

Destroy(g, D) ==
    [g EXCEPT !.objs = @ \ D,
              !.refs = Cleared(@, D),
              !.inEdges = Cleared(@, D),
              !.lease = Cleared(@, D),
              !.edges = {e \in @ : e.p \notin D},
              !.deferred = @ \ D]

\* plant_arc_drop: the count of o reached zero at time t.
Drop(g, o, t) == IF g.lease[o] > t THEN g ELSE Destroy(g, {o})

\* What plant_arc_mark reaches from the objects of R.
Reach(E, R) ==
    {o \in Obj : \A S \in SUBSET Obj :
        (R \subseteq S /\ \A e \in E : e.p \in S => e.c \in S) => o \in S}

\* Fault variants, each named for its slip, stand before the operator they
\* vary. No specification uses them: they show which property notices the slip.
RootsIgnoringEdges(g) == {o \in g.objs : g.refs[o] > 0}
RootsWithoutParents(g) == {o \in g.objs : g.refs[o] > 0 /\ g.inEdges[o] = 0}

Roots(g) == {o \in g.objs : g.refs[o] - g.inEdges[o] > 0}

LeaseDead(g, o, t) == g.refs[o] = 0 /\ g.lease[o] > 0 /\ g.lease[o] <= t

\* The sweep loop of plant_arc_gc and its drain of the deferred queue.
GcSweep(g, t) ==
    {o \in g.objs \ g.deferred :
        o \notin Reach(g.edges, Roots(g)) \/ LeaseDead(g, o, t)}

GcDrain(g, t) == {o \in g.pending : g.lease[o] <= t}

GcForgettingQueue(g, t) == Destroy(g, GcSweep(g, t) \cup GcDrain(g, t))

Gc(g, t) ==
    [Destroy(g, GcSweep(g, t) \cup GcDrain(g, t))
        EXCEPT !.pending = @ \ GcDrain(g, t)]

\* plant_lease_evict: the zero-ref leased objects it looks at, those it
\* destroys, those it queues while there is room (Q), and the drain at >= 90.
ZeroRefLeased(g) ==
    {o \in g.objs \ g.deferred : g.refs[o] = 0 /\ g.lease[o] > 0}

Expired(g, t) == {o \in ZeroRefLeased(g) : g.lease[o] <= t}

NearExpiry(g, t) ==
    {o \in ZeroRefLeased(g) \ Expired(g, t) : Margin > 0 /\ g.lease[o] - t <= Margin}

QueueChoices(g, t) ==
    {Q \in SUBSET NearExpiry(g, t) :
        \/ Q = NearExpiry(g, t) /\ Cardinality(g.pending) + Cardinality(Q) <= DeferredMax
        \/ Cardinality(g.pending) + Cardinality(Q) = DeferredMax}

Evict(g, p, t, Q) ==
    IF p < 80 THEN g
    ELSE IF p >= 90
         THEN [Destroy(g, ZeroRefLeased(g) \cup g.pending) EXCEPT !.pending = {}]
         ELSE [Destroy(g, Expired(g, t)) EXCEPT !.pending = @ \cup Q,
                                               !.deferred = @ \cup Q]

\* calloc of a plant_arc_obj at the free address o, with refs = 1.
Insert(g, o) ==
    [g EXCEPT !.objs = @ \cup {o},
              !.refs[o] = 1,
              !.inEdges[o] = 0,
              !.lease[o] = 0,
              !.deferred = @ \ {o}]

\* Storing a reference retains the child; removing one releases it.
AddEdgeUnretained(g, e) == [g EXCEPT !.edges = @ \cup {e}, !.inEdges[e.c] = @ + 1]

AddEdge(g, e) ==
    [g EXCEPT !.edges = @ \cup {e}, !.inEdges[e.c] = @ + 1, !.refs[e.c] = @ + 1]

RemoveEdgeTwice(g, e) ==
    [g EXCEPT !.edges = @ \ {e}, !.inEdges[e.c] = @ - 1, !.refs[e.c] = @ - 2]

RemoveEdge(g, e) ==
    [g EXCEPT !.edges = @ \ {e}, !.inEdges[e.c] = @ - 1, !.refs[e.c] = @ - 1]

\* leased_count of plant_persist_status.
LeasedCount(g) == Cardinality({o \in g.objs : g.lease[o] > 0})

----------------------------------------------------------------------------
(* Client operations. A client passes handles it may still use: objects it *)
(* holds and what it can reach from them.                                  *)

Held == {o \in Obj : hold[o] > 0}
Usable == Reach(h.edges, Held)

\* An object kept only by its lease: the cache entry a later call may want.
Kept == {o \in h.objs : h.refs[o] = 0 /\ h.lease[o] > now}

CacheHit(o) == o \in Kept /\ (IF o \in h.deferred THEN "queued" ELSE "kept") \in CacheHits

Init ==
    /\ h = [objs |-> {}, refs |-> [o \in Obj |-> 0], inEdges |-> [o \in Obj |-> 0],
            edges |-> {}, lease |-> [o \in Obj |-> 0], deferred |-> {}, pending |-> {}]
    /\ allocs = 0
    /\ now = 0
    /\ hold = [o \in Obj |-> 0]

\* plant_arc_alloc, with the collection and the eviction it may run.
Alloc(o) ==
    /\ o \notin h.objs
    /\ allocs' = (allocs + 1) % GcInterval
    /\ LET a == Insert(h, o)
           b == IF allocs' = 0 THEN Gc(a, now) ELSE a
       IN \E p \in Pressures : \E Q \in QueueChoices(b, now) :
            h' = Evict(b, p, now, Q)
    /\ hold' = [hold EXCEPT ![o] = 1]
    /\ UNCHANGED now

Retain(o) ==
    /\ o \in Usable \/ CacheHit(o)
    /\ hold[o] < MaxHolds
    /\ h' = [h EXCEPT !.refs[o] = @ + 1]
    /\ hold' = [hold EXCEPT ![o] = @ + 1]
    /\ UNCHANGED <<allocs, now>>

\* plant_arc_release of a retain the client holds (refs <= 0 is refused).
Release(o) ==
    /\ hold[o] > 0 /\ h.refs[o] > 0
    /\ h' = IF h.refs[o] > 1 THEN [h EXCEPT !.refs[o] = @ - 1]
                             ELSE Drop([h EXCEPT !.refs[o] = @ - 1], o, now)
    /\ hold' = [hold EXCEPT ![o] = @ - 1]
    /\ UNCHANGED <<allocs, now>>

Link(p, c) ==
    /\ p \in Usable /\ c \in Usable /\ p # c
    /\ h.inEdges[c] < MaxInEdges
    /\ \E k \in Edge :
        /\ \A e \in h.edges : e.cell # k
        /\ h' = AddEdge(h, [cell |-> k, p |-> p, c |-> c])
    /\ UNCHANGED <<allocs, now, hold>>

Unlink(p, c) ==
    /\ p \in Usable
    /\ \E e \in h.edges :
        /\ e.p = p /\ e.c = c
        /\ h' = IF h.refs[c] > 1 THEN RemoveEdge(h, e)
                                 ELSE Drop(RemoveEdge(h, e), c, now)
    /\ UNCHANGED <<allocs, now, hold>>

Lease(o, ms) ==
    /\ o \in Usable \/ CacheHit(o)
    /\ h' = [h EXCEPT !.lease[o] = now + ms]
    /\ UNCHANGED <<allocs, now, hold>>

\* plant_arc_gc on demand (GC.cycle()).
GcCycle ==
    /\ h' = Gc(h, now)
    /\ UNCHANGED <<allocs, now, hold>>

\* plant_lease_evict on demand.
LeaseEvict ==
    /\ \E p \in Pressures : \E Q \in QueueChoices(h, now) : h' = Evict(h, p, now, Q)
    /\ UNCHANGED <<allocs, now, hold>>

Tick ==
    /\ now < MaxTime
    /\ now' = now + 1
    /\ UNCHANGED <<h, allocs, hold>>

Next ==
    \/ \E o \in Obj : Alloc(o) \/ Retain(o) \/ Release(o)
    \/ \E o \in Obj, ms \in LeaseMs : Lease(o, ms)
    \/ \E p, c \in Obj : Link(p, c) \/ Unlink(p, c)
    \/ GcCycle
    \/ LeaseEvict
    \/ Tick

Spec == Init /\ [][Next]_vars

----------------------------------------------------------------------------
(* Properties *)

\* h is a heap record and the counters stay in their ranges.
TypeOK ==
    /\ h \in Heaps
    /\ allocs \in 0 .. (GcInterval - 1)
    /\ now \in 0 .. MaxTime
    /\ hold \in [Obj -> 0 .. MaxHolds]

\* Edges into c that a later mark pass of g can still follow.
LiveIn(g, c) == {e \in g.edges : e.c = c /\ e.p \notin g.deferred}

\* The count of a live object is what clients hold plus its incoming edges as
\* the runtime counts them, and the runtime never counts fewer edges than exist
\* (destroying a parent leaves its children's counts high, never low).
Accounting ==
    \A o \in h.objs :
        /\ h.refs[o] = hold[o] + h.inEdges[o]
        /\ Cardinality(LiveIn(h, o)) <= h.inEdges[o]

\* Everything a client can reach from what it holds is still allocated: no
\* interleaving of releases, unlinks, collections and evictions frees it.
UsableIsLive == Usable \subseteq h.objs

\* The deferred queue names allocated objects, exactly those flagged deferred.
QueueIsLive == h.pending \subseteq h.objs /\ h.pending = h.deferred

\* A collection leaves only what clients can reach and zero-ref objects under a
\* lease that still runs: it takes cycles, the garbage of counts left high by
\* destroyed parents, and what a lease kept at its release and no longer covers.
GcCollectsGarbage ==
    [][GcCycle => \A o \in h'.objs \ Usable : h'.refs[o] = 0 /\ h'.lease[o] > now]_vars

\* Only zero-ref objects wait in the deferred queue, so draining it (which
\* looks at leases only) never frees one that is referenced again.
QueueIsZeroRef == \A o \in h.pending : h.refs[o] = 0

\* A collection keeps every zero-ref object whose lease is live, as the test
\* tests/regression/persistent_cache.plant has it: the cache entry stays in the
\* heap until its lease expires.
GcKeepsLiveLeases == [][GcCycle => Kept \subseteq h'.objs]_vars

\* The telemetry counts the objects under an active lease.
LeasedCountIsActive == LeasedCount(h) = Cardinality({o \in h.objs : h.lease[o] > now})
=============================================================================
