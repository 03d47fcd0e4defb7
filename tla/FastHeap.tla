------------------------------ MODULE FastHeap ------------------------------
(***************************************************************************)
(* The FAST heap of runtime/c/plant_runtime.c: a bump allocator that grows *)
(* by doubling up to a limit, falls back to malloc (an escalation), and is *)
(* emptied when a FAST action returns; with the audit events it logs.      *)
(*                                                                         *)
(* Offsets and sizes are in bytes. An allocation a program holds is a      *)
(* record that says where it was placed; the heap's address changes (gen)  *)
(* when realloc moves it.                                                  *)
(***************************************************************************)
EXTENDS Integers, FiniteSets, FiniteSetsExt, AuditRing

CONSTANTS
    BaseCap,     \* FAST_HEAP_CAPACITY
    Limit,       \* FAST_HEAP_LIMIT
    Align,       \* FAST_ALIGNMENT
    EscMax,      \* PLANT_FAST_ESC_MAX
    LowScopes,   \* low-pressure scopes before the heap shrinks, 4 in the code
    Sizes,       \* sizes programs ask for
    Nested,      \* TRUE: FAST actions call FAST actions
    Moves,       \* TRUE: realloc may move the heap
    MaxAllocs,   \* bound: allocations in one behaviour
    MaxScopes    \* bound: FAST actions entered in one behaviour

ASSUME FastAssumption ==
    /\ BaseCap \in Nat \ {0} /\ Limit \in Nat /\ BaseCap <= Limit
    /\ Align \in Nat \ {0} /\ EscMax \in Nat /\ LowScopes \in Nat \ {0}
    /\ Sizes \subseteq Nat \ {0}
    /\ Nested \in BOOLEAN /\ Moves \in BOOLEAN
    /\ MaxAllocs \in Nat /\ MaxScopes \in Nat

VARIABLES
    fast,     \* g_fast with g_fast_shrink_cycles; gen stands for base
    esc,      \* g_fast_esc, as far as g_fast_esc_n: the ids of escalated blocks
    open,     \* FAST actions running, outermost first, by number
    held,     \* history: allocations the running actions still use
    kept,     \* history: those of them that no entry and no reset rewound
    malloced, \* history: escalated blocks not given to free
    unlisted, \* history: escalated blocks that found the list full
    taken,   \* allocations so far
    entered,  \* FAST actions entered so far
    stormed,  \* history: a FAST action was left by a storm since the last exit
    ring,     \* g_audit
    flipped   \* history: events tampered with an odd number of times

history == <<held, kept, malloced, unlisted>>
fvars == <<fast, esc, open, history, taken, entered, stormed, ring, flipped>>

Placement == [id : Nat, scope : Nat, bump : BOOLEAN, gen : Nat, at : Nat, len : Nat]

FastInit ==
    /\ fast = [size |-> BaseCap, used |-> 0, peak |-> 0, escalated |-> FALSE,
               cycles |-> 0, gen |-> 0]
    /\ esc = {} /\ open = <<>>
    /\ held = {} /\ kept = {} /\ malloced = {} /\ unlisted = {}
    /\ taken = 0 /\ entered = 0 /\ stormed = FALSE
    /\ ring = EmptyRing /\ flipped = {}

Peak(f) == IF f.used > f.peak THEN f.used ELSE f.peak

Entered ==
    /\ entered < MaxScopes
    /\ Nested \/ open = <<>>
    /\ fast' = [fast EXCEPT !.peak = Peak(fast), !.used = 0]
    /\ kept' = {a \in kept : ~a.bump}
    /\ entered' = entered + 1
    /\ open' = Append(open, entered')
    /\ ring' = Log(ring, "MODE_ENTER")
    /\ UNCHANGED <<held, malloced, unlisted, taken, stormed, flipped>>

\* Fault variant: an entry starts an empty list of escalated blocks.
EnterForgetting == Entered /\ esc' = {}

\* plant_fast_enter: the cursor goes back to the start. Escalated blocks stay.
Enter == Entered /\ esc' = esc

\* Fault variant: sizes are rounded down.
RoundDown(n) == (n \div Align) * Align

RoundUp(n) == ((n + Align - 1) \div Align) * Align

\* plant_fast_grow, when an allocation of need bytes does not fit. It doubles
\* the heap once, whatever the need.
Doubled(f) == IF 2 * f.size > Limit THEN Limit ELSE 2 * f.size

Relocated(f) == IF Moves THEN {f.gen, f.gen + 1} ELSE {f.gen}

Grown(f, need) ==
    IF f.used + need > f.size /\ f.size < Limit
    THEN {[f EXCEPT !.size = Doubled(f), !.gen = g] : g \in Relocated(f)}
    ELSE {f}

\* plant_fast_alloc_raw.
FastAlloc(n) ==
    /\ open # <<>> /\ taken < MaxAllocs
    /\ taken' = taken + 1
    /\ LET need == RoundUp(n)
           scope == open[Len(open)]
           placed(f, b) == [id |-> taken', scope |-> scope, bump |-> b, gen |-> f.gen,
                            at |-> IF b THEN f.used ELSE 0, len |-> n]
           block == [id |-> taken', len |-> need]
       IN \E f \in Grown(fast, need) :
            \/ /\ f.used + need <= f.size
               /\ fast' = [f EXCEPT !.used = @ + need,
                                    !.peak = IF f.used + need > @ THEN f.used + need ELSE @]
               /\ held' = held \cup {placed(f, TRUE)}
               /\ kept' = kept \cup {placed(f, TRUE)}
               /\ UNCHANGED <<esc, malloced, unlisted, ring>>
            \/ /\ f.used + need > f.size
               /\ fast' = [f EXCEPT !.escalated = TRUE]
               /\ ring' = IF f.escalated THEN ring ELSE Log(ring, "FAST_ESCALATE")
               /\ malloced' = malloced \cup {block}
               /\ IF Cardinality(esc) < EscMax
                  THEN esc' = esc \cup {block} /\ unlisted' = unlisted
                  ELSE esc' = esc /\ unlisted' = unlisted \cup {block}
               /\ held' = held \cup {placed(f, FALSE)}
               /\ kept' = kept \cup {placed(f, FALSE)}
    /\ UNCHANGED <<open, entered, stormed, flipped>>

\* plant_fast_reset: shrink after enough low-pressure scopes, rewind the
\* cursor, free the escalated blocks.
LowPressure(f) == f.used * 4 < f.size /\ f.size > BaseCap

Shrinks(f) == LowPressure(f) /\ f.cycles + 1 >= LowScopes

AfterReset(f) ==
    {[f EXCEPT !.peak = Peak(f), !.used = 0, !.gen = g,
               !.size = IF Shrinks(f) THEN @ \div 2 ELSE @,
               !.cycles = IF LowPressure(f) /\ ~Shrinks(f) THEN @ + 1 ELSE 0] :
     g \in IF Shrinks(f) THEN Relocated(f) ELSE {f.gen}}

Reset ==
    /\ fast' \in AfterReset(fast)
    /\ ring' = IF Shrinks(fast) THEN Log(ring, "FAST_SHRINK") ELSE ring
    /\ malloced' = malloced \ esc
    /\ esc' = {}
    /\ kept' = {}

\* FAST RESET inside an action: it gives up what it holds itself.
FastReset ==
    /\ open # <<>>
    /\ Reset
    /\ held' = {a \in held : a.scope # open[Len(open)]}
    /\ UNCHANGED <<open, unlisted, taken, entered, stormed, flipped>>

\* Every return of a FAST action: plant_fast_reset, then plant_fast_exit.
Exit ==
    /\ open # <<>>
    /\ Reset
    /\ held' = {a \in held : a.scope # open[Len(open)]}
    /\ open' = SubSeq(open, 1, Len(open) - 1)
    /\ stormed' = FALSE
    /\ UNCHANGED <<unlisted, taken, entered, flipped>>

\* A storm leaves the innermost FAST actions without their exit.
Storm ==
    /\ open # <<>>
    /\ \E k \in 0 .. Len(open) - 1 : open' = SubSeq(open, 1, k)
    /\ held' = {a \in held : \E i \in DOMAIN open' : open'[i] = a.scope}
    /\ kept' = kept \cap held'
    /\ stormed' = TRUE
    /\ UNCHANGED <<fast, esc, malloced, unlisted, taken, entered, ring, flipped>>

\* plant_audit_tamper, the fault injector of the integrity tests.
TamperEvent ==
    /\ ring.count > 0
    /\ ring' = Tamper(ring)
    /\ LET s == ring.seq - 1
       IN flipped' = IF s \in flipped THEN flipped \ {s} ELSE flipped \cup {s}
    /\ UNCHANGED <<fast, esc, open, history, taken, entered, stormed>>

FastNext ==
    \/ Enter \/ FastReset \/ Exit \/ Storm \/ TamperEvent
    \/ \E n \in Sizes : FastAlloc(n)

FastSpec == FastInit /\ [][FastNext]_fvars

----------------------------------------------------------------------------
(* Properties *)

\* Type invariant: the heap stays within its limits, the list of escalated
\* blocks within its array, and the ring within its slots.
FastTypeOK ==
    /\ fast \in [size : 1 .. Limit, used : 0 .. Limit, peak : 0 .. Limit,
                 escalated : BOOLEAN, cycles : 0 .. LowScopes - 1, gen : Nat]
    /\ fast.used <= fast.size /\ fast.used <= fast.peak
    /\ esc \subseteq malloced /\ Cardinality(esc) <= EscMax
    /\ held \subseteq Placement /\ kept \subseteq held
    /\ ring.head \in 0 .. AuditCap - 1 /\ ring.count \in 0 .. AuditCap

Apart(a, b) == a.at + a.len <= b.at \/ b.at + b.len <= a.at

\* What a running FAST action was given stays its own until the heap is rewound
\* by an entry or a reset, or moved by realloc: inside the used part of the
\* heap, overlapping nothing else given out since, or, if it came from malloc,
\* not freed. A nested entry leaves the escalated blocks alone.
IntactUntilRewind ==
    \A a \in kept :
        IF a.bump
        THEN a.gen = fast.gen =>
                /\ a.at + a.len <= fast.used
                /\ \A b \in kept : b.bump /\ b.gen = a.gen /\ a.id # b.id => Apart(a, b)
        ELSE \E blk \in malloced : blk.id = a.id

\* What a running FAST action was given stays its own while the action runs.
LiveIntact ==
    \A a \in held :
        IF a.bump
        THEN /\ a.gen = fast.gen /\ a.at + a.len <= fast.used
             /\ \A b \in held : b.bump /\ a.id # b.id => Apart(a, b)
        ELSE \E blk \in malloced : blk.id = a.id

\* When no FAST action runs and the last one returned, the heap is empty: the
\* cursor at the start, and every block from malloc freed that the list had
\* room for, those too that actions left by an earlier storm had taken.
EmptyAfterReturn == open = <<>> /\ ~stormed => fast.used = 0 /\ malloced \subseteq unlisted

\* Every block from malloc was freed then, with no exception.
NoBlockLeaks == open = <<>> /\ ~stormed => malloced = {}

\* plant_mem_report's "fast" bytes, the cursor plus the escalated blocks, cover
\* what running FAST actions hold.
ReportCoversHeld ==
    fast.used + MapThenSumSet(LAMBDA b : b.len, esc)
        >= MapThenSumSet(LAMBDA a : a.len, held)

\* The heap gives up (escalates) only at its hard cap, as docs/EVAPORATE.md has it.
EscalatesAtLimit == [][malloced' \subseteq malloced \/ fast'.size = Limit]_fvars

\* Shrinking goes down to the base capacity and no further.
SizeAtLeastBase == fast.size >= BaseCap

\* plant_audit_chain_verify answers OK unless an event now in the ring was
\* tampered with, and otherwise names the oldest such event.
AuditVerifies ==
    {i \in 0 .. ring.count - 1 : Nth(ring, i).seq \in flipped} = Broken(ring)
=============================================================================
