------------------------------- MODULE SemAbs -------------------------------
(***************************************************************************)
(* What System V semaphores promise, without sleeping, units or loops.     *)
(*                                                                         *)
(* A live set is a vector of values of its own, all zero when it is        *)
(* created.  semop does a whole vector of operations at once or nothing,   *)
(* and each error it returns has its reason.  An exiting process gives its *)
(* adjustments back one by one.  Removing a set, or setting values,        *)
(* forgets the adjustments.                                                *)
(***************************************************************************)
EXTENDS Integers, Sequences, FiniteSets, Functions

CONSTANTS Proc, Id, Num, SEMVMX, Vectors

VARIABLES
    size,       \* semaphores of each id's set, 0 for an id that names no set
    val,        \* value of each semaphore
    adj,        \* adjustment on exit of each process and semaphore
    req         \* the semop each process is in

absVars == <<size, val, adj, req>>

Entry == Id \X Num

Idle == [state |-> "idle"]

Init ==
    /\ size = [id \in Id |-> 0]
    /\ val = [e \in Entry |-> 0]
    /\ adj = [p \in Proc |-> [e \in Entry |-> 0]]
    /\ req = [p \in Proc |-> Idle]

\* What the operations sops[i], i \in S, add to semaphore num
Sum(sops, S, num) ==
    SumFunctionOnSet([i \in DOMAIN sops |-> sops[i].op],
                     {i \in S : sops[i].num = num})

\* The same, for the operations with SEM_UNDO
UndoSum(sops, S, num) == Sum(sops, {i \in S : sops[i].undo}, num)

\* The vector can be done on the values v (by number), in order
Doable(sops, v) ==
    \A i \in DOMAIN sops :
        LET num    == sops[i].num
            before == v[num] + Sum(sops, 1 .. i - 1, num)
        IN  /\ before + sops[i].op \in 0 .. SEMVMX
            /\ sops[i].op = 0 => before = 0

Values(id) == [num \in Num |-> val[<<id, num>>]]

Create(id, n) ==
    /\ \A other \in Id : other.slot = id.slot => size[other] = 0
    /\ size' = [size EXCEPT ![id] = n]
    /\ UNCHANGED <<val, adj, req>>

Forget(id, nums) ==
    adj' = [p \in Proc |-> [e \in Entry |->
              IF e[1] = id /\ e[2] \in nums THEN 0 ELSE adj[p][e]]]

Remove(id) ==
    /\ size[id] > 0
    /\ size' = [size EXCEPT ![id] = 0]
    /\ val' = [e \in Entry |-> IF e[1] = id THEN 0 ELSE val[e]]
    /\ Forget(id, Num)
    /\ UNCHANGED req

Set(id, nums) ==
    /\ \A num \in nums : num < size[id]
    /\ \A e \in Entry : IF e[1] = id /\ e[2] \in nums
                        THEN val'[e] \in 0 .. SEMVMX ELSE val'[e] = val[e]
    /\ Forget(id, nums)
    /\ UNCHANGED <<size, req>>

Ask(p, id, sops) ==
    /\ req[p] = Idle /\ size[id] > 0
    /\ req' = [req EXCEPT ![p] = [state |-> "pending", id |-> id, sops |-> sops]]
    /\ UNCHANGED <<size, val, adj>>

Answer(p, error) ==
    req' = [req EXCEPT ![p] = [state |-> "done", error |-> error]]

Perform(p) ==
    /\ req[p].state = "pending"
    /\ LET id == req[p].id  sops == req[p].sops  all == DOMAIN sops IN
         /\ \A i \in all : sops[i].num < size[id]
         /\ Doable(sops, Values(id))
         /\ val' = [e \in Entry |-> val[e] +
                      IF e[1] = id THEN Sum(sops, all, e[2]) ELSE 0]
         /\ adj' = [adj EXCEPT ![p] = [e \in Entry |-> @[e] -
                      IF e[1] = id THEN UndoSum(sops, all, e[2]) ELSE 0]]
    /\ Answer(p, "ok")
    /\ UNCHANGED size

\* An error changes nothing, and is not returned without its reason
Refuse(p, error) ==
    /\ req[p].state = "pending"
    /\ LET id     == req[p].id
           sops   == req[p].sops
           undoes == \E i \in DOMAIN sops : sops[i].undo
           denied == size[id] > 0 /\ ~ Doable(sops, Values(id))
       IN  \/ error = "EIDRM" /\ size[id] = 0
           \/ error = "EAGAIN" /\ denied /\ \E i \in DOMAIN sops : sops[i].nowait
           \/ error = "ERANGE" /\ (denied \/ undoes)
           \/ error \in {"ENOSPC", "EINVAL"} /\ undoes
           \/ error = "EFBIG" /\ \E i \in DOMAIN sops : sops[i].num >= size[id]
           \/ error \in {"EINTR", "EFAULT"}
    /\ Answer(p, error)
    /\ UNCHANGED <<size, val, adj>>

Leave(p) ==
    /\ req[p].state = "done"
    /\ req' = [req EXCEPT ![p] = Idle]
    /\ UNCHANGED <<size, val, adj>>

Adjust(p, e) ==
    /\ req[p] = Idle /\ adj[p][e] # 0
    /\ LET v == val[e] + adj[p][e] IN
         val' = [val EXCEPT ![e] = IF v \in 0 .. SEMVMX THEN v ELSE @]
    /\ adj' = [adj EXCEPT ![p][e] = 0]
    /\ UNCHANGED <<size, req>>

Next ==
    \/ \E id \in Id :
         \/ Remove(id)
         \/ \E n \in 1 .. Cardinality(Num) : Create(id, n)
         \/ \E nums \in SUBSET Num : Set(id, nums)
    \/ \E p \in Proc :
         \/ \E id \in Id, sops \in Vectors : Ask(p, id, sops)
         \/ Perform(p)
         \/ \E error \in {"EIDRM", "EAGAIN", "ERANGE", "ENOSPC", "EINVAL",
                          "EFBIG", "EINTR", "EFAULT"} : Refuse(p, error)
         \/ Leave(p)
         \/ \E e \in Entry : Adjust(p, e)

Spec == Init /\ [][Next]_absVars
=============================================================================
