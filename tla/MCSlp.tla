------------------------------- MODULE MCSlp --------------------------------
(* Instances of Slp for TLC. *)
EXTENDS Slp, TLC

CONSTANTS p1, p2, p3, b1, c1, c2

\* Every channel hashes to one bucket: what the queue code has to tell apart
OneBucket == [c \in Chan |-> b1]

ProcSymmetry == Permutations(Proc)
=============================================================================
