-------------------------------- MODULE MCBio -------------------------------
(* Instances of Bio for TLC. *)
EXTENDS Bio, TLC

CONSTANTS p1, p2, p3, x, y, z, b1, b2, b3

\* Two blocks of one size and, if there is a third, one that needs more
Sizes == [blk \in Block |-> IF blk = z THEN 2 ELSE 1]

\* Processes, and blocks of one size, are alike
Symmetry == Permutations(Proc) \cup Permutations(Block \ {z})
=============================================================================
