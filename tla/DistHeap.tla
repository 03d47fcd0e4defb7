------------------------------ MODULE DistHeap ------------------------------
(***************************************************************************)
(* DistributedHeap of runtime/c/plant_runtime.c: objects of the ARC heap   *)
(* placed on nodes by a consistent-hash ring, with a byte cap per node and *)
(* an eviction when an allocation passes it. Every object is one byte.     *)
(*                                                                         *)
(* The FNV-1a hash is a constant: points says where each node's virtual    *)
(* points fall, and a key is named by its hash.                            *)
(***************************************************************************)
EXTENDS ArcHeap, Sequences

CONSTANTS
    MaxNodes,  \* PLANT_DIST_MAX_NODES
    Vpts,      \* PLANT_DIST_VPTS
    Hashes,    \* values of the hash
    Keys,      \* hashes of the keys programs use
    NodeCap,   \* g_dist_node_cap, 0 for none
    LinksLeased, \* TRUE: programs lease objects that others lead to
    MaxDrift   \* bound: how far a node's bytes fall below zero

VARIABLES
    points,  \* hash of "node:v", for every node and virtual point
    nodes,   \* g_dist_nodes, for which the ring is built
    node,    \* node of each object
    bytes    \* g_dist_node_bytes

distVars == <<points, nodes, node, bytes>>

Node == 0 .. MaxNodes - 1
Points == [Node \X (0 .. Vpts - 1) -> Hashes]

----------------------------------------------------------------------------
(* The ring *)

\* plant_dist_ring_build lists the points node by node ...
Unsorted(n) ==
    [k \in 1 .. n * Vpts |->
        [node |-> (k - 1) \div Vpts, hash |-> points[(k - 1) \div Vpts, (k - 1) % Vpts]]]

\* ... and sorts them by insertion: each goes after the last that is not above.
Inserted(s, x) ==
    LET below == Cardinality({i \in DOMAIN s : s[i].hash <= x.hash})
    IN SubSeq(s, 1, below) \o <<x>> \o SubSeq(s, below + 1, Len(s))

Ring(n) ==
    LET sorted[k \in 0 .. n * Vpts] ==
            IF k = 0 THEN <<>> ELSE Inserted(sorted[k - 1], Unsorted(n)[k])
    IN sorted[n * Vpts]

\* plant_dist_place: binary search for the first point at or above the key,
\* from positions lo to hi - 1 of the ring.
Place(n, key) ==
    LET ring == Ring(n)
        search[lo \in 0 .. Len(ring), hi \in 0 .. Len(ring)] ==
            IF lo >= hi THEN lo
            ELSE LET mid == (lo + hi) \div 2
                 IN IF ring[mid + 1].hash < key THEN search[mid + 1, hi] ELSE search[lo, mid]
        found == search[0, Len(ring)]
    IN ring[IF found = Len(ring) THEN 1 ELSE found + 1].node

----------------------------------------------------------------------------
(* The heap *)

DistInit ==
    /\ Init
    /\ points \in Points
    /\ nodes = MaxNodes - 1
    /\ node = [o \in Obj |-> 0]
    /\ bytes = [i \in Node |-> 0]

\* plant_dist_init: the bytes restart from zero, the objects stay.
DistRestart(n) ==
    /\ nodes' = n /\ nodes' # nodes
    /\ bytes' = [i \in Node |-> 0]
    /\ UNCHANGED <<vars, points, node>>

\* Fault variant: any lease will do.
EvictableLeased(g, at, n, t) ==
    {o \in g.objs \ g.deferred : at[o] = n /\ (g.refs[o] <= 0 \/ g.lease[o] > 0)}

\* plant_dist_evict: the node's objects with no reference or a lease that ran
\* out, referenced or not, less those the deferred queue owns.
Evictable(g, at, n, t) ==
    {o \in g.objs \ g.deferred :
        at[o] = n /\ (g.refs[o] <= 0 \/ (g.lease[o] > 0 /\ g.lease[o] <= t))}

\* plant_dist_alloc: place, allocate (which may collect and evict), account,
\* evict. A client whose lease ran out has no hold on what the eviction took.
DistAlloc(o, key) ==
    /\ o \notin h.objs
    /\ allocs' = (allocs + 1) % GcInterval
    /\ node' = [node EXCEPT ![o] = Place(nodes, key)]
    /\ LET a == Insert(h, o)
           b == IF allocs' = 0 THEN Gc(a, now) ELSE a
           filled == [bytes EXCEPT ![node'[o]] = @ + 1]
       IN \E p \in Pressures : \E Q \in QueueChoices(b, now) :
            LET c == Evict(b, p, now, Q)
                out == IF NodeCap > 0 /\ filled[node'[o]] > NodeCap
                       THEN Evictable(c, node', node'[o], now) ELSE {}
            IN /\ h' = Destroy(c, out)
               /\ bytes' = [filled EXCEPT ![node'[o]] = @ - Cardinality(out)]
               /\ hold' = [x \in Obj |-> IF x = o THEN 1
                                       ELSE IF x \in out /\ h.lease[x] \in 1 .. now THEN 0 ELSE hold[x]]
    /\ UNCHANGED <<now, points, nodes>>

\* plant_dist_release subtracts the bytes whether or not the object goes.
DistRelease(o) ==
    /\ bytes[node[o]] > -MaxDrift
    /\ Release(o)
    /\ bytes' = IF node[o] < nodes THEN [bytes EXCEPT ![node[o]] = @ - 1] ELSE bytes
    /\ UNCHANGED <<points, nodes, node>>

\* What plant_dist_evict takes may still be linked: a program that does not
\* lease what others lead to is spared the dangling edge.
DistLease(o, ms) == (LinksLeased \/ h.inEdges[o] = 0) /\ Lease(o, ms)
DistLink(p, c) == (LinksLeased \/ h.lease[c] = 0) /\ Link(p, c)

DistNext ==
    \/ \E o \in Obj, key \in Keys : DistAlloc(o, key)
    \/ \E o \in Obj : DistRelease(o)
    \/ \E n \in 1 .. MaxNodes : DistRestart(n)
    \/ /\ \/ \E o \in Obj : Retain(o)
          \/ \E o \in Obj, ms \in LeaseMs : DistLease(o, ms)
          \/ \E p, c \in Obj : DistLink(p, c) \/ Unlink(p, c)
          \/ GcCycle \/ LeaseEvict \/ Tick
       /\ UNCHANGED distVars

DistSpec == DistInit /\ [][DistNext]_<<vars, distVars>>

----------------------------------------------------------------------------
(* Properties *)

\* The ring places a key on the node of the first point at or above it, or of
\* the first point of all, and adding a node moves keys to that node only.
PlacementStable ==
    \A key \in Hashes, n \in 1 .. MaxNodes :
        LET mine == 0 .. n - 1
            all == {points[i, v] : i \in mine, v \in 0 .. Vpts - 1}
            above == {x \in all : x >= key}
            first == CHOOSE x \in (IF above = {} THEN all ELSE above) :
                        \A y \in (IF above = {} THEN all ELSE above) : x <= y
            owner == Place(n, key)
        IN /\ \E v \in 0 .. Vpts - 1 : points[owner, v] = first
           /\ n < MaxNodes => Place(n + 1, key) \in {owner, n}

\* An object that a client holds and whose lease, if any, still runs is in the
\* heap, however full its node is.
HeldUnexpiredIsLive ==
    \A o \in Obj : hold[o] > 0 /\ (h.lease[o] = 0 \/ h.lease[o] > now) => o \in h.objs

\* plant_dist_status counts the bytes of the objects each node holds.
NodeBytes == \A i \in Node : bytes[i] = Cardinality({o \in h.objs : node[o] = i})

\* No edge leads to an object that was freed.
NoDanglingEdge == \A e \in h.edges : e.c \in h.objs
=============================================================================
