------------------------------- MODULE MCSem --------------------------------
(* Instances of Sem for TLC. *)
EXTENDS SemRefine, TLC

CONSTANTS p1, p2, p3, k1

op(num, by, undo, nowait) ==
    [num |-> num, op |-> by, undo |-> undo, nowait |-> nowait]

\* Processes on one set of two semaphores: takes of both in both orders, a wait
\* for zero, gives with SEM_UNDO, and a vector that gives with SEM_UNDO and may
\* fail in its second operation.  No semaphore twice in a vector.
CoreVectors == {
    <<op(0, -1, FALSE, FALSE), op(1, -1, FALSE, FALSE)>>,
    <<op(1, 0, FALSE, FALSE), op(0, -2, FALSE, FALSE)>>,
    <<op(0, 1, TRUE, FALSE), op(1, -1, TRUE, TRUE)>>,
    <<op(1, 2, TRUE, FALSE)>>}

\* Sets that come and go: a give, and a take that only the larger set allows
LifeVectors == {
    <<op(0, 1, TRUE, FALSE)>>,
    <<op(0, -1, FALSE, FALSE), op(1, 0, FALSE, FALSE)>>}

\* Liveness: zeros first, then takes, then gives
LiveVectors == {
    <<op(0, 0, FALSE, FALSE), op(1, -1, FALSE, FALSE)>>,
    <<op(0, -1, FALSE, FALSE), op(1, 1, FALSE, FALSE)>>,
    <<op(0, 1, FALSE, FALSE)>>}

ProcSymmetry == Permutations(Proc)
=============================================================================
