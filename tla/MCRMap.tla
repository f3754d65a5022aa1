------------------------------- MODULE MCRMap -------------------------------
(* Instances of RMap for TLC. *)
EXTENDS RMap, TLC

CONSTANTS p1, p2

ProcSymmetry == Permutations(Proc)
=============================================================================
