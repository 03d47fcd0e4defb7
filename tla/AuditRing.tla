----------------------------- MODULE AuditRing -----------------------------
(***************************************************************************)
(* The audit ring of runtime/c/plant_runtime.c: a bounded log whose events *)
(* are chained by a hash, so that a change to an event can be found later. *)
(*                                                                         *)
(* The ring is one record, and the operators take and return it. The hash  *)
(* FNV-1a is taken to be free of collisions: the link of an event is the   *)
(* sequence of everything hashed up to it.                                 *)
(***************************************************************************)
EXTENDS Integers, Sequences

CONSTANT AuditCap   \* PLANT_AUDIT_CAP

ASSUME AuditAssumption == AuditCap \in Nat \ {0}

Genesis == <<>>

\* plant_audit_hash: one event chained to the link before it.
Hash(link, seq, kind, flipped) == Append(link, <<seq, kind, flipped>>)

\* flipped: the first character of the message has its low bit inverted.
NoEvent == [seq |-> 0, kind |-> "none", flipped |-> FALSE, chain |-> Genesis]

EmptyRing ==
    [slots    |-> [i \in 0 .. AuditCap - 1 |-> NoEvent],
     head     |-> 0,
     count    |-> 0,
     overflow |-> 0,
     seq      |-> 0,
     chain    |-> Genesis,
     evicted  |-> Genesis]

\* Fault variant: the link of the evicted event is not kept.
LogForgettingEvicted(r, kind) ==
    LET link == Hash(r.chain, r.seq, kind, FALSE)
    IN [r EXCEPT
          !.slots[r.head] = [seq |-> r.seq, kind |-> kind, flipped |-> FALSE, chain |-> link],
          !.chain = link,
          !.seq = @ + 1,
          !.head = (@ + 1) % AuditCap,
          !.count = IF @ < AuditCap THEN @ + 1 ELSE @,
          !.overflow = IF r.count < AuditCap THEN @ ELSE @ + 1]

\* plant_audit_log. A full ring keeps the link of the event it overwrites.
Log(r, kind) ==
    LET link == Hash(r.chain, r.seq, kind, FALSE)
    IN [r EXCEPT
          !.evicted = IF r.count = AuditCap THEN r.slots[r.head].chain ELSE @,
          !.slots[r.head] = [seq |-> r.seq, kind |-> kind, flipped |-> FALSE, chain |-> link],
          !.chain = link,
          !.seq = @ + 1,
          !.head = (@ + 1) % AuditCap,
          !.count = IF @ < AuditCap THEN @ + 1 ELSE @,
          !.overflow = IF r.count < AuditCap THEN @ ELSE @ + 1]

\* The i-th oldest event of the ring, from 0.
Base(r) == IF r.head >= r.count THEN r.head - r.count ELSE r.head - r.count + AuditCap
Nth(r, i) == r.slots[(Base(r) + i) % AuditCap]

\* plant_audit_chain_verify: the positions whose stored link does not follow
\* from the stored link before, the first of which is reported.
Before(r, i) ==
    IF i > 0 THEN Nth(r, i - 1).chain
    ELSE IF r.count = AuditCap THEN r.evicted ELSE Genesis

Broken(r) ==
    {i \in 0 .. r.count - 1 :
        Nth(r, i).chain # Hash(Before(r, i), Nth(r, i).seq, Nth(r, i).kind, Nth(r, i).flipped)}

\* plant_audit_tamper flips one bit of the newest event's message.
Tamper(r) ==
    IF r.count = 0 THEN r
    ELSE [r EXCEPT !.slots[(r.head - 1 + AuditCap) % AuditCap].flipped = ~@]
=============================================================================
