----------------------------- MODULE MCSafePool -----------------------------
(* TLC instances of SafePool: the constants are in the cfg files. *)
EXTENDS SafePool
=============================================================================
