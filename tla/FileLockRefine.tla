--------------------------- MODULE FileLockRefine ---------------------------
(***************************************************************************)
(* The lists of locks that FileLock splits, trims and joins are maps from  *)
(* bytes to locks.                                                         *)
(***************************************************************************)
EXTENDS FileLock

LockOn(f, o, b) == f.owner = o /\ f.start <= b /\ b <= f.end

\* The lock of o on byte b
HeldAt(o, b) ==
    IF \E i \in DOMAIN filocks : LockOn(filocks[i], o, b)
    THEN filocks[CHOOSE i \in DOMAIN filocks : LockOn(filocks[i], o, b)].type
    ELSE "none"

Abs == INSTANCE FileLockAbs
       WITH Ask <- Requests, held <- [o \in Owner |-> [b \in Byte |-> HeldAt(o, b)]]

\* Each request that flckadj works off, lock by lock, changes exactly the bytes it
\* names, at once; ENOLCK gives nothing (flckadj)
ExactBytes == Abs!Spec
=============================================================================
