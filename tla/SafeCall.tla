------------------------------ MODULE SafeCall ------------------------------
(***************************************************************************)
(* What calling a SAFE action promises its caller: one call at a time, it  *)
(* returns the result of its own body, and only after the body ran. The    *)
(* body runs at most MaxRuns times, for a call that was retried, and an    *)
(* attempt that was given up may still run after the call returned.        *)
(***************************************************************************)
EXTENDS Integers

CONSTANTS Call, MaxRuns

VARIABLES
    calling,  \* a call is under way
    last,     \* the last call made
    ran,      \* how often each call's body ran
    result    \* the call whose result was returned last

cvars == <<calling, last, ran, result>>

CallInit ==
    /\ ~calling /\ last = 0 /\ result = 0
    /\ ran = [c \in Call |-> 0]

BeginCall ==
    /\ ~calling /\ calling' = TRUE
    /\ last' = last + 1
    /\ UNCHANGED <<ran, result>>

RunBody(c) ==
    /\ c <= last /\ ran[c] < MaxRuns
    /\ ran' = [ran EXCEPT ![c] = @ + 1]

RunRemote(c) == RunBody(c) /\ UNCHANGED <<calling, last, result>>

Return ==
    /\ calling /\ calling' = FALSE
    /\ \/ ran[last] > 0 /\ UNCHANGED ran
       \/ RunBody(last)
    /\ result' = last
    /\ UNCHANGED last

CallNext == BeginCall \/ Return \/ \E c \in Call : RunRemote(c)

CallSpec == CallInit /\ [][CallNext]_cvars
=============================================================================
