------------------------------- MODULE MCMsg --------------------------------
(* Instances of Msg for TLC. *)
EXTENDS MsgRefine, TLC

CONSTANTS p1, p2, p3

msg(type, size, nowait) ==
    [type |-> type, size |-> size, nowait |-> nowait, noerror |-> FALSE]

rcv(type, size, nowait, noerror) ==
    [type |-> type, size |-> size, nowait |-> nowait, noerror |-> noerror]

\* Two types; no text, one segment, two segments
SomeSends == {msg(1, 1, FALSE), msg(2, 0, TRUE), msg(1, 3, FALSE)}

\* The oldest, if the buffer can hold it; one type, if it is there; the lowest
\* type, as much as the buffer can hold
SomeReceives == {rcv(0, 1, FALSE, FALSE), rcv(2, 3, TRUE, FALSE), rcv(-2, 1, FALSE, TRUE)}

\* One segment and no text; the lowest type
FewSends == {msg(2, 1, FALSE), msg(1, 0, FALSE)}
FewReceives == {rcv(-2, 1, FALSE, FALSE)}

ProcSymmetry == Permutations(Proc)
=============================================================================
