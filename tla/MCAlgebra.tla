----------------------------- MODULE MCAlgebra -----------------------------
(* Algebra with coefficients and centers that a .cfg cannot write. *)
EXTENDS Algebra

MCCoeffs == {Q(n) : n \in -2 .. 3}
MCCenters == {Q(n) : n \in -1 .. 2}
=============================================================================
