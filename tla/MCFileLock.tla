----------------------------- MODULE MCFileLock -----------------------------
(* Instances of FileLock for TLC. *)
EXTENDS FileLockRefine, TLC

CONSTANTS p1, p2, p3, r1

req(type, start, end) == [type |-> type, start |-> start, end |-> end]

\* Regions that start at, end at, fall inside, touch and enclose one another
SomeRequests == {req("wr", 0, 1), req("rd", 1, 2), req("wr", 2, 2), req("rd", 2, MAXEND),
                 req("wr", 0, MAXEND)}

\* One byte each, so that owners can wait for one another in a circle of three,
\* and a shared region, so that several can be in the way of one
ByteRequests == {req("wr", b, b) : b \in Byte} \cup {req("rd", 0, 1)}

\* One byte each, for writing
WriteRequests == {req("wr", b, b) : b \in Byte}

ProcSymmetry == Permutations(Proc)
=============================================================================
