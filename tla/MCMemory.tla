------------------------------ MODULE MCMemory ------------------------------
(***************************************************************************)
(* The GlobalARCHeap, the FAST heap with its audit ring, and the string    *)
(* pool, each on its own: a behaviour runs one of them, chosen at the      *)
(* start. The objects of the ARC heap are interchangeable, and so are its  *)
(* edge cells.                                                             *)
(***************************************************************************)
EXTENDS ArcHeap, FastHeap, StringPool, TLC

VARIABLE part

MCInit == part \in {"arc", "fast", "strings"} /\ Init /\ FastInit /\ StrInit

MCNext ==
    /\ UNCHANGED part
    /\ \/ part = "arc" /\ Next /\ UNCHANGED <<fvars, svars>>
       \/ part = "fast" /\ FastNext /\ UNCHANGED <<vars, svars>>
       \/ part = "strings" /\ StrNext /\ UNCHANGED <<vars, fvars>>

MCSpec == MCInit /\ [][MCNext]_<<part, vars, fvars, svars>>

MCSymmetry == Permutations(Obj) \cup Permutations(Edge)
=============================================================================
