--------------------------- MODULE MissionGrants ---------------------------
(***************************************************************************)
(* What mission modes promise about capabilities: every mission action has *)
(* grants of its own, and a capability check answers by the grants of the  *)
(* mission that governs the caller, the innermost one open.                *)
(***************************************************************************)
EXTENDS Integers, Sequences

VARIABLES
    stack,   \* missions that govern, outermost first, with their grants
    answer   \* the last capability check and what it answered

gvars == <<stack, answer>>

Caps == {"FILE_READ", "FILE_WRITE", "NET_CONNECT", "NET_LISTEN", "EXEC"}

\* What a mission is granted when it is entered, and without any mission.
Default(mode) ==
    CASE mode = "S" -> {}
      [] mode = "M" -> {"FILE_READ", "FILE_WRITE", "NET_CONNECT"}
      [] mode = "P" -> {"FILE_READ", "FILE_WRITE", "NET_CONNECT", "NET_LISTEN"}
      [] OTHER -> {"FILE_READ", "FILE_WRITE", "NET_CONNECT"}

\* What the MissionContext of a SAFE mission may be granted on top.
Grantable == {"FILE_READ", "NET_CONNECT"}

Governing == IF stack = <<>> THEN Default("B") ELSE stack[Len(stack)].grants

GrantsInit == stack = <<>> /\ answer = <<>>

EnterMission(mode) ==
    /\ stack' = Append(stack, [mode |-> mode, grants |-> Default(mode)])
    /\ UNCHANGED answer

LeaveMission ==
    /\ stack # <<>>
    /\ stack' = SubSeq(stack, 1, Len(stack) - 1)
    /\ UNCHANGED answer

GrantCap(c) ==
    /\ stack # <<>> /\ stack[Len(stack)].mode = "S" /\ c \in Grantable
    /\ stack' = [stack EXCEPT ![Len(stack)].grants = @ \cup {c}]
    /\ UNCHANGED answer

CheckCap(c) ==
    /\ answer' = <<c, c \in Governing>>
    /\ UNCHANGED stack

GrantsNext ==
    \/ \E mode \in {"S", "M", "P"} : EnterMission(mode)
    \/ LeaveMission
    \/ \E c \in Caps : GrantCap(c) \/ CheckCap(c)

GrantsSpec == GrantsInit /\ [][GrantsNext]_gvars
=============================================================================
