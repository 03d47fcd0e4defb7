----------------------------- MODULE MCMissions -----------------------------
(* Missions on small instances: the stack, the pools and time are short.   *)
EXTENDS Missions
=============================================================================
