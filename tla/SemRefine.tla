----------------------------- MODULE SemRefine ------------------------------
(***************************************************************************)
(* Sem implements SemAbs, while copyin does not sleep.                     *)
(*                                                                         *)
(* The loop of semop changes values and adjustments operation by operation *)
(* and takes the changes back when it cannot finish.  The mapping hides    *)
(* what a process has applied and not yet either finished or taken back.   *)
(***************************************************************************)
EXTENDS Sem, Functions

InLoop == {p \in Proc : pc[p] \in {"ops", "backout"}}

\* Sums, over the applied operations of the process in its loop, on entry e
Applied(p, e, ops) ==
    SumFunctionOnSet([i \in DOMAIN call[p].sops |-> call[p].sops[i].op],
        {i \in ops : i <= call[p].n /\ OpEntry(p, i) = e})

HiddenVal(e) ==
    SumFunctionOnSet([p \in Proc |-> Applied(p, e, DOMAIN call[p].sops)], InLoop)

HiddenAoe(p, e) ==
    IF p \in InLoop
    THEN Applied(p, e, {i \in DOMAIN call[p].sops : call[p].sops[i].undo}) ELSE 0

sizeBar == [id \in Id |-> IF Semconv(id) THEN sema[id.slot].nsems ELSE 0]

valBar == [e \in Entry |-> IF Semconv(e[1]) /\ e[2] < sema[e[1].slot].nsems
                           THEN semval[UnitOf(e[1].slot, e[2])] - HiddenVal(e)
                           ELSE 0]

adjBar == [p \in Proc |-> [e \in Entry |-> sem_undo[p][e] + HiddenAoe(p, e)]]

reqBar == [p \in Proc |->
    IF pc[p] \in {"copyin", "ops", "backout", "sleep"}
    THEN [state |-> "pending", id |-> call[p].id, sops |-> call[p].sops]
    ELSE IF pc[p] = "out" THEN [state |-> "done", error |-> call[p].error]
    ELSE [state |-> "idle"]]

Abs == INSTANCE SemAbs WITH
    size <- sizeBar, val <- valBar, adj <- adjBar, req <- reqBar

\* sem.c's "Loop waiting for the operations to be satisfied atomically":
\* vectors are atomic and isolated, sets do not share values, a new set is all
\* zero, every error has its reason and leaves no trace, and an exit gives back
\* exactly what the finished calls took.
AtomicSemop == Abs!Spec

\* p is inside semop and its vector could be done now
CouldFinish(p) ==
    /\ reqBar[p].state = "pending"
    /\ Semconv(call[p].id)
    /\ \A i \in DOMAIN call[p].sops :
          call[p].sops[i].num < sema[call[p].id.slot].nsems
    /\ Abs!Doable(call[p].sops, Abs!Values(call[p].id))

\* A process that is asleep is not passed over for ever: if its vector can be
\* done from some time on, its semop ends.
NoEternalWait ==
    \A p \in Proc : ~ <>[](pc[p] # "user" /\ (Quiet => CouldFinish(p)))

\* Every process that sleeps on a set when IPC_RMID removes it returns.
RemovalReleases ==
    \A p \in Proc : (pc[p] = "sleep" /\ ~ Semconv(call[p].id)) ~> pc[p] = "user"

\* When the processes make no more calls and get no more signals, all of them
\* come to rest: nobody is woken, finds nothing to do and, by trying, wakes the
\* others again without end.  This needs vectors that wait before they give
\* and that wait for zero before they take.
Settles ==
    <>[][\A p \in Proc : ~ Request(p) /\ ~ Signal(p)]_vars =>
        <>[](\A p \in Proc : pc[p] = "user" \/ Asleep(p))
=============================================================================
