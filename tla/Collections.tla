---------------------------- MODULE Collections ----------------------------
(***************************************************************************)
(* The native containers of runtime/c/plant_runtime.c as their buffers:    *)
(* the Set (open addressing with tombstones), the hash MAP (open           *)
(* addressing without deletion), the pair-list MAP, the Queue (a ring) and *)
(* the Stack. The hash is a variable that never changes: every function of *)
(* the instance is one initial state.                                      *)
(***************************************************************************)
EXTENDS Integers, Sequences, FiniteSets

CONSTANTS
    Values,   \* elements and keys, none of them NULL
    HashOf,   \* values the hash may take
    InitCap,  \* first capacity of a buffer (8 in the code), a power of two
    MaxLen    \* bound: longest queue or stack

VARIABLES
    kind,  \* the container this behaviour uses
    hash,  \* _set_hash, _plant_hash_str
    c,     \* its record
    out    \* the last call: its name, its argument and what it returned

NoValue == "none"
Free == "free"   \* slot 0, entry not occupied
Tomb == "tomb"   \* slot (uintptr_t)-1

\* No element is one of the two marks, the hash is unsigned, and a buffer has
\* a slot.
ASSUME CollAssumption ==
    /\ {Free, Tomb} \intersect Values = {}
    /\ HashOf \subseteq Nat
    /\ InitCap \in Nat \ {0}

\* The first position at or after the hash of v, cyclically, whose slot is in
\* stops. The loops of the code have no other exit.
Probe(slots, v, stops) ==
    LET cap == Cardinality(DOMAIN slots)
        at(i) == (hash[v] + i) % cap
    IN at(CHOOSE i \in 0 .. cap - 1 :
            slots[at(i)] \in stops /\ \A j \in 0 .. i - 1 : slots[at(j)] \notin stops)

\* The values of a table, put one by one in the order of their slots into a
\* table of the given capacity.
Rehashed(slots, cap) ==
    LET old == Cardinality(DOMAIN slots)
        into[i \in 0 .. old] ==
            IF i = 0 THEN [j \in 0 .. cap - 1 |-> Free]
            ELSE IF slots[i - 1] \in {Free, Tomb} THEN into[i - 1]
            ELSE [into[i - 1] EXCEPT ![Probe(into[i - 1], slots[i - 1], {Free})] = slots[i - 1]]
    IN into[old]

----------------------------------------------------------------------------
(* Set *)

Text(b) == IF b THEN "1" ELSE "0"

NewSet == [slots |-> [i \in 0 .. InitCap - 1 |-> Free], count |-> 0, tombs |-> 0]

SetContains(v) == c.slots[Probe(c.slots, v, {Free, v})] = v

\* set_add: at seven tenths of the capacity, tombstones included, the table
\* doubles and drops them; the value takes the first tombstone or free slot.
SetAdd(v) ==
    /\ kind = "set"
    /\ out' = <<"add", v, Text(~SetContains(v))>>
    /\ IF SetContains(v) THEN UNCHANGED c ELSE
       LET cap == Cardinality(DOMAIN c.slots)
           grown == IF (c.count + c.tombs + 1) * 10 >= cap * 7
                    THEN [c EXCEPT !.slots = Rehashed(c.slots, cap * 2), !.tombs = 0] ELSE c
           at == Probe(grown.slots, v, {Free, Tomb})
       IN c' = [slots |-> [grown.slots EXCEPT ![at] = v],
                count |-> grown.count + 1,
                tombs |-> grown.tombs - (IF grown.slots[at] = Tomb THEN 1 ELSE 0)]

\* Fault variant: set_remove frees the slot.
RemovedToFree == Free

\* What set_remove leaves in the slot.
Removed == Tomb

SetRemove(v) ==
    /\ kind = "set"
    /\ out' = <<"remove", v, Text(SetContains(v))>>
    /\ c' = IF ~SetContains(v) THEN c
            ELSE [slots |-> [c.slots EXCEPT ![Probe(c.slots, v, {Free, v})] = Removed],
                  count |-> c.count - 1, tombs |-> c.tombs + 1]

SetHas(v) == kind = "set" /\ out' = <<"has", v, Text(SetContains(v))>> /\ UNCHANGED c

----------------------------------------------------------------------------
(* MAP: the hash table of struct marshalling *)

NewHash == [slots |-> [i \in 0 .. InitCap - 1 |-> Free], value |-> [k \in Values |-> NoValue],
            count |-> 0]

\* plant_map_hash_set grows at three quarters, even to replace a value.
HashPut(k, v) ==
    /\ kind = "hash"
    /\ LET cap == Cardinality(DOMAIN c.slots)
           slots == IF c.count >= (cap * 3) \div 4 THEN Rehashed(c.slots, cap * 2) ELSE c.slots
           at == Probe(slots, k, {Free, k})
       IN c' = [slots |-> [slots EXCEPT ![at] = k], value |-> [c.value EXCEPT ![k] = v],
                count |-> c.count + (IF slots[at] = Free THEN 1 ELSE 0)]
    /\ out' = <<"put", k, v>>

HashGet(k) ==
    /\ kind = "hash"
    /\ out' = <<"get", k, IF c.slots[Probe(c.slots, k, {Free, k})] = k THEN c.value[k] ELSE NoValue>>
    /\ UNCHANGED c

----------------------------------------------------------------------------
(* MAP: the pair list [k0, v0, k1, v1, ...] of the language *)

\* Index of the key's pair, or one past the last pair.
PairAt(k) ==
    LET hits == {i \in 1 .. Len(c) : i % 2 = 1 /\ c[i] = k}
    IN IF hits = {} THEN Len(c) + 1 ELSE CHOOSE i \in hits : \A j \in hits : i <= j

\* plant_map_set and plant_link replace in place or append a pair.
PairsPut(k, v) ==
    /\ kind = "pairs"
    /\ c' = IF PairAt(k) <= Len(c) THEN [c EXCEPT ![PairAt(k) + 1] = v] ELSE c \o <<k, v>>
    /\ out' = <<"put", k, v>>

\* plant_map_get returns "" for a missing key.
PairsGet(k) ==
    /\ kind = "pairs"
    /\ out' = <<"get", k, IF PairAt(k) <= Len(c) THEN c[PairAt(k) + 1] ELSE NoValue>>
    /\ UNCHANGED c

----------------------------------------------------------------------------
(* Queue and Stack *)

NewLine == [buf |-> [i \in 0 .. InitCap - 1 |-> NoValue], head |-> 0, count |-> 0]

\* queue_push doubles a full ring: the values move to the front in order.
QueueGrown(q) ==
    LET cap == Cardinality(DOMAIN q.buf)
    IN [buf |-> [i \in 0 .. 2 * cap - 1 |->
                    IF i < q.count THEN q.buf[(q.head + i) % cap] ELSE NoValue],
        head |-> 0, count |-> q.count]

QueuePush(v) ==
    /\ kind = "queue" /\ c.count < MaxLen
    /\ LET q == IF c.count = Cardinality(DOMAIN c.buf) THEN QueueGrown(c) ELSE c
       IN c' = [q EXCEPT !.buf[(q.head + q.count) % Cardinality(DOMAIN q.buf)] = v,
                         !.count = @ + 1]
    /\ out' = <<"push", v, NoValue>>

QueuePop ==
    /\ kind = "queue"
    /\ IF c.count = 0 THEN out' = <<"pop", NoValue, NoValue>> /\ UNCHANGED c
       ELSE /\ out' = <<"pop", NoValue, c.buf[c.head]>>
            /\ c' = [c EXCEPT !.head = (@ + 1) % Cardinality(DOMAIN c.buf), !.count = @ - 1]

\* The buffer of stack_push grows in place.
StackPush(v) ==
    /\ kind = "stack" /\ c.count < MaxLen
    /\ LET cap == Cardinality(DOMAIN c.buf)
           wide == 0 .. (IF c.count = cap THEN 2 * cap ELSE cap) - 1
       IN c' = [c EXCEPT !.buf = [i \in wide |-> IF i = c.count THEN v
                                                 ELSE IF i < cap THEN c.buf[i] ELSE NoValue],
                         !.count = @ + 1]
    /\ out' = <<"push", v, NoValue>>

StackPop ==
    /\ kind = "stack"
    /\ IF c.count = 0 THEN out' = <<"pop", NoValue, NoValue>> /\ UNCHANGED c
       ELSE out' = <<"pop", NoValue, c.buf[c.count - 1]>> /\ c' = [c EXCEPT !.count = @ - 1]

----------------------------------------------------------------------------

CollInit ==
    /\ kind \in {"set", "hash", "pairs", "queue", "stack"}
    /\ hash \in [Values -> HashOf]
    /\ kind \notin {"set", "hash"} => \A x, y \in Values : hash[x] = hash[y]
    /\ c = CASE kind = "set" -> NewSet [] kind = "hash" -> NewHash
             [] kind = "pairs" -> <<>> [] OTHER -> NewLine
    /\ out = <<>>

CollNext ==
    /\ UNCHANGED <<kind, hash>>
    /\ \/ \E v \in Values : SetAdd(v) \/ SetRemove(v) \/ SetHas(v)
       \/ \E k, v \in Values : HashPut(k, v) \/ PairsPut(k, v)
       \/ \E k \in Values : HashGet(k) \/ PairsGet(k)
       \/ \E v \in Values : QueuePush(v) \/ StackPush(v)
       \/ QueuePop \/ StackPop

collVars == <<kind, hash, c, out>>

CollSpec == CollInit /\ [][CollNext]_collVars

----------------------------------------------------------------------------
(* Properties *)

\* The container a program sees in the buffer.
View ==
    CASE kind = "set" -> {c.slots[i] : i \in DOMAIN c.slots} \ {Free, Tomb}
      [] kind = "hash" -> [k \in {c.slots[i] : i \in DOMAIN c.slots} \ {Free} |-> c.value[k]]
      [] kind = "pairs" ->
            [k \in {c[2 * i - 1] : i \in 1 .. Len(c) \div 2} |-> c[PairAt(k) + 1]]
      [] kind = "queue" ->
            [i \in 1 .. c.count |-> c.buf[(c.head + i - 1) % Cardinality(DOMAIN c.buf)]]
      [] kind = "stack" -> [i \in 1 .. c.count |-> c.buf[i - 1]]

Promise == INSTANCE Containers WITH view <- View

\* The buffers, their growth and their tombstones are not seen by programs:
\* every call does and returns what the container promises.
KeepsContainer == Promise!ContainersSpec

\* Every probe ends: a table always has a free slot, and its counters say how
\* many values and tombstones it has.
ProbesEnd ==
    kind \in {"set", "hash"} =>
        LET holding(x) == Cardinality({i \in DOMAIN c.slots : c.slots[i] \in x})
        IN /\ holding({Free}) > 0
           /\ c.count = holding(Values)
           /\ kind = "set" => c.tombs = holding({Tomb})
=============================================================================
