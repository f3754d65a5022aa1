-------------------------------- MODULE Sem ---------------------------------
(***************************************************************************)
(* System V semaphores: proc/ipc/sem.c, with ipcget of proc/ipc/ipc.c.     *)
(*                                                                         *)
(* The kernel runs on one processor and a process in the kernel keeps it   *)
(* until it sleeps.  A step is therefore the code between two places where *)
(* the process may sleep, except for semop's loop, its backing out         *)
(* (semundo) and semexit's loop, which take one step per iteration while   *)
(* every other process stands still (see MayRun).                          *)
(*                                                                         *)
(* A definition named Faulty... is not part of the model: it is what a     *)
(* likely bug would make of the definition after it, and PROJECT.json says *)
(* which property notices.                                                 *)
(***************************************************************************)
EXTENDS Integers, Sequences, FiniteSets, KSleep, FreeMap

CONSTANTS
    SEMMNI,         \* semaphore sets
    SEMMNS,         \* semaphores in the system
    SEMMSL,         \* most semaphores of one set
    SEMMAP,         \* entries of the resource map
    SEMMNU,         \* undo structures
    SEMUME,         \* undo entries of one structure
    SEMOPM,         \* most operations of one semop
    SEMVMX,         \* largest value
    SEMAEM,         \* largest adjustment on exit
    CNTMAX,         \* largest semncnt and semzcnt: 65535, an unsigned short
    SEQMAX,         \* largest sequence number: the one before the id overflows
    Key,            \* keys given to semget
    IPC_PRIVATE,    \* the key that never matches
    Vectors,        \* operation vectors given to semop
    Calls,          \* system calls the processes make
    Privileged,     \* processes with P_DACREAD and P_DACWRITE
    CopyinSleeps    \* copyin and kmem_alloc(KM_SLEEP) may give the processor up

Slot  == 0 .. SEMMNI - 1
Num   == 0 .. SEMMSL - 1
Id    == [seq : 0 .. SEQMAX, slot : Slot]
Entry == Id \X Num                      \* un_id, un_num
Aoe   == -SEMAEM .. SEMAEM              \* un_aoe

\* The array sem[], and the SEMMSL units of memory that follow it: what a
\* stale sem_base can reach.
Unit == 0 .. SEMMNS + SEMMSL - 1

\* &semp->semncnt and &semp->semzcnt: counters, and channels slept on
Chan == {"ncnt", "zcnt"} \X Unit

Sembuf == [num : Num, op : Int, undo : BOOLEAN, nowait : BOOLEAN]

Errors == {"ok", "SLEEP", "EACCES", "EAGAIN", "EFAULT", "EFBIG", "EIDRM",
           "EINTR", "EINVAL", "ENOSPC", "ERANGE"}

Call == [id : Id, sops : Seq(Sembuf), again : BOOLEAN, n : Nat,
         chan : Chan \cup {NoChan}, error : Errors]

Pcs == {"user", "copyin", "ops", "backout", "sleep", "out", "setall",
        "ipcset", "exit"}

ASSUME SizesAssumption ==
    /\ SEMMNI \in Nat \ {0} /\ SEMMNS \in Nat \ {0} /\ SEMMSL \in Nat \ {0}
    /\ SEMUME \in Nat \ {0} /\ SEMVMX \in Nat /\ SEMAEM \in Nat
    /\ SEMMNU \in Nat /\ SEMOPM \in Nat /\ SEMMAP \in Nat
    /\ CNTMAX \in Nat /\ SEQMAX \in Nat
ASSUME InputsAssumption ==
    /\ Vectors \subseteq Seq(Sembuf)
    /\ IPC_PRIVATE \in Key
    /\ CopyinSleeps \in BOOLEAN
ASSUME NoChanAssumption == NoChan \notin Chan

VARIABLES
    sema,       \* set headers: IPC_ALLOC, seq, key, sem_base, sem_nsems
    semmap,     \* units on the free map
    semval,     \* value of each unit
    cnt,        \* semncnt and semzcnt of each unit
    sem_undo,   \* un_aoe of each process and entry, 0 where there is no entry
    undoers,    \* processes that own an undo structure
    pc,         \* where each process is
    call        \* arguments and locals of its system call

setVars  == <<sema, semmap>>
waitVars == <<cnt, wchan>>
undoVars == <<sem_undo, undoers>>
procVars == <<pc, call>>
vars     == <<setVars, semval, waitVars, undoVars, procVars>>

NoCall == [id |-> [seq |-> 0, slot |-> 0], sops |-> <<>>, again |-> FALSE,
           n |-> 0, chan |-> NoChan, error |-> "ok"]

Init ==
    /\ sema = [s \in Slot |-> [alloc |-> FALSE, seq |-> 0, key |-> IPC_PRIVATE,
                               base |-> 0, nsems |-> 0]]
    /\ semmap = 0 .. SEMMNS - 1
    /\ semval = [u \in Unit |-> 0]
    /\ cnt = [c \in Chan |-> 0]
    /\ sem_undo = [p \in Proc |-> [e \in Entry |-> 0]]
    /\ undoers = {}
    /\ pc = [p \in Proc |-> "user"]
    /\ call = [p \in Proc |-> NoCall]
    /\ wchan = [p \in Proc |-> NoChan]
-----------------------------------------------------------------------------
(* Processes and the processor *)

\* Places where a process cannot give the processor up
NoPreempt == {"ops", "backout", "out", "exit"}
             \cup IF CopyinSleeps THEN {} ELSE {"copyin", "setall", "ipcset"}

MayRun(p) == \A q \in Proc \ {p} : pc[q] \notin NoPreempt

At(p, where) == pc[p] = where /\ MayRun(p)

Goto(p, where) == pc' = [pc EXCEPT ![p] = where]

\* The return to user mode, locals forgotten
Return(p) == Goto(p, "user") /\ call' = [call EXCEPT ![p] = NoCall]

\* semop's out: with an error
Fail(p, error) ==
    Goto(p, "out") /\ call' = [call EXCEPT ![p].error = error]
-----------------------------------------------------------------------------
(* Sets and units *)

Semconv(id) == sema[id.slot].alloc /\ sema[id.slot].seq = id.seq

UnitOf(slot, num) == sema[slot].base + num

UnitsOf(slot) == sema[slot].base .. sema[slot].base + sema[slot].nsems - 1

\* ipcaccess, for objects that give every process all access: IPC_RMID leaves
\* mode 0, which only a privilege gets past
Ipcaccess(p, slot) == sema[slot].alloc \/ p \in Privileged

\* if (cnt > 1)
FaultyWakeCounted(C) ==
    /\ cnt' = [c \in Chan |-> IF c \in C THEN 0 ELSE cnt[c]]
    /\ Wakeprocs({c \in C : cnt[c] > 1})

\* The counter is not zeroed
FaultyWakeKept(C) == UNCHANGED cnt /\ Wakeprocs({c \in C : cnt[c] > 0})

\* if (cnt) { cnt = 0; wakeprocs }, for each channel of C
WakeCounted(C) ==
    /\ cnt' = [c \in Chan |-> IF c \in C THEN 0 ELSE cnt[c]]
    /\ Wakeprocs({c \in C : cnt[c] > 0})

\* Nobody waits for zero
FaultyWokenBy(delta, u, v) == {c \in {<<"ncnt", u>>} : delta > 0}

\* The channels of unit u that a change by delta to the value v wakes
WokenBy(delta, u, v) ==
    {c \in {<<"ncnt", u>>} : delta > 0} \cup
    {c \in {<<"zcnt", u>>} : delta < 0 /\ v = 0}
-----------------------------------------------------------------------------
(* Adjust on exit *)

Entries(p) == {e \in Entry : sem_undo[p][e] # 0}

\* What semaoe returns for operation value val
SemaoeError(p, val, e) ==
    IF val = 0 THEN "ok"
    ELSE IF val \notin Aoe THEN "ERANGE"
    ELSE IF p \notin undoers /\ Cardinality(undoers) >= SEMMNU THEN "ENOSPC"
    ELSE IF sem_undo[p][e] = 0 /\ Cardinality(Entries(p)) >= SEMUME THEN "EINVAL"
    ELSE IF sem_undo[p][e] - val \notin Aoe THEN "ERANGE"
    ELSE "ok"

Semaoe(p, val, e) ==
    IF val # 0 /\ SemaoeError(p, val, e) = "ok"
    THEN /\ sem_undo' = [sem_undo EXCEPT ![p][e] = @ - val]
         /\ undoers' = undoers \cup {p}
    ELSE UNCHANGED undoVars

\* low >= un_num goes on to the next entry
FaultySemunrm(id, low, high) ==
    sem_undo' = [p \in Proc |-> [e \in Entry |->
        IF e[1] = id /\ e[2] \in low + 1 .. high THEN 0 ELSE sem_undo[p][e]]]

\* semunrm: clear every process's entries for numbers low to high of a set
Semunrm(id, low, high) ==
    sem_undo' = [p \in Proc |-> [e \in Entry |->
        IF e[1] = id /\ e[2] \in low .. high THEN 0 ELSE sem_undo[p][e]]]
-----------------------------------------------------------------------------
(* semget *)

\* The call that creates a set.  One that finds a set, or fails to, changes
\* nothing; one that cannot finish the set leaves its key behind.
Semget(p, key, n) ==
    /\ "semget" \in Calls
    /\ At(p, "user")
    /\ key # IPC_PRIVATE =>
         \A s \in Slot : ~ (sema[s].alloc /\ sema[s].key = key)
    /\ \E s \in Slot :
         /\ ~ sema[s].alloc
         /\ \A t \in Slot : t < s => sema[t].alloc
         /\ \/ /\ n \in 1 .. SEMMSL
               /\ \E a \in Windows(semmap, n) :
                    /\ Fits(semmap, n, a)
                    /\ sema' = [sema EXCEPT ![s] =
                         [@ EXCEPT !.alloc = TRUE, !.key = key,
                                   !.base = a, !.nsems = n]]
                    /\ semmap' = semmap \ (a .. a + n - 1)
            \/ /\ n \notin 1 .. SEMMSL \/ Windows(semmap, n) = {}
               /\ sema' = [sema EXCEPT ![s].key = key]
               /\ UNCHANGED semmap
    /\ UNCHANGED <<semval, waitVars, undoVars, procVars>>
-----------------------------------------------------------------------------
(* semctl *)

NextSeq(seq) == IF seq = SEQMAX THEN 0 ELSE seq + 1

\* Bound: SEQMAX + 1 removals of one slot do not pass during one call, so an
\* id is not issued again while a process is still inside a call on it.
NotHeld(id) == \A q \in Proc : pc[q] # "user" => call[q].id # id

\* Bound: what rmfree makes of units that are free already is not modelled.
NotFree(slot) == UnitsOf(slot) \cap semmap = {}

SemctlRmid(p, id) ==
    /\ "IPC_RMID" \in Calls
    /\ At(p, "user") /\ Semconv(id)
    /\ NotHeld([id EXCEPT !.seq = NextSeq(@)]) /\ NotFree(id.slot)
    /\ Semunrm(id, 0, sema[id.slot].nsems)
    /\ semval' = [u \in Unit |-> IF u \in UnitsOf(id.slot) THEN 0 ELSE semval[u]]
    /\ WakeCounted({"ncnt", "zcnt"} \X UnitsOf(id.slot))
    /\ semmap' = Freed(semmap, UnitsOf(id.slot), SEMMAP - 2)
    /\ sema' = [sema EXCEPT ![id.slot] =
         [@ EXCEPT !.alloc = FALSE, !.seq = NextSeq(id.seq)]]
    /\ UNCHANGED <<undoers, procVars>>

SemctlSetval(p, id, num, val) ==
    /\ "SETVAL" \in Calls
    /\ At(p, "user") /\ Semconv(id)
    /\ num < sema[id.slot].nsems
    /\ LET u == UnitOf(id.slot, num) IN
         /\ semval' = [semval EXCEPT ![u] = val]
         /\ WakeCounted({IF val # 0 THEN <<"ncnt", u>> ELSE <<"zcnt", u>>})
    /\ Semunrm(id, num, num)
    /\ UNCHANGED <<setVars, undoers, procVars>>

\* SETALL and IPC_SET fetch their argument after semconv, by kmem_alloc and
\* copyin, and go on without a second look at the set.
SemctlCopyin(p, id, cmd, where) ==
    /\ cmd \in Calls
    /\ At(p, "user") /\ Semconv(id)
    /\ Goto(p, where)
    /\ call' = [call EXCEPT ![p] = [NoCall EXCEPT !.id = id]]
    /\ UNCHANGED <<setVars, semval, waitVars, undoVars>>

SemctlSetall(p) ==
    /\ At(p, "setall")
    /\ LET id    == call[p].id
           units == UnitsOf(id.slot)
       IN  \E vals \in [units -> 0 .. SEMVMX] :
             /\ semval' = [u \in Unit |-> IF u \in units THEN vals[u] ELSE semval[u]]
             /\ WakeCounted({<<IF vals[u] # 0 THEN "ncnt" ELSE "zcnt", u>> : u \in units})
             /\ Semunrm(id, 0, sema[id.slot].nsems)
    /\ Return(p)
    /\ UNCHANGED <<setVars, undoers>>

\* IPC_SET: mode = new mode | IPC_ALLOC
SemctlIpcset(p) ==
    /\ At(p, "ipcset")
    /\ sema' = [sema EXCEPT ![call[p].id.slot].alloc = TRUE]
    /\ Return(p)
    /\ UNCHANGED <<semmap, semval, waitVars, undoVars>>

\* EFAULT of copyin, or ERANGE of a SETALL value
SemctlFails(p) ==
    /\ At(p, "setall") \/ At(p, "ipcset")
    /\ Return(p)
    /\ UNCHANGED <<setVars, semval, waitVars, undoVars>>
-----------------------------------------------------------------------------
(* semop *)

Semop(p, id, sops) ==
    /\ "semop" \in Calls
    /\ At(p, "user") /\ Semconv(id)
    /\ Len(sops) <= SEMOPM
    /\ Goto(p, "copyin")
    /\ call' = [call EXCEPT ![p] = [NoCall EXCEPT !.id = id, !.sops = sops]]
    /\ UNCHANGED <<setVars, semval, waitVars, undoVars>>

\* The verification loop, which only the first copyin is followed by
VerifyError(p) ==
    LET sops == call[p].sops  slot == call[p].id.slot IN
    IF call[p].again \/ sops = <<>> THEN "ok"
    ELSE IF ~ Ipcaccess(p, slot) THEN "EACCES"
    ELSE IF \E i \in 1 .. Len(sops) : sops[i].num >= sema[slot].nsems THEN "EFBIG"
    ELSE "ok"

SemopCopyin(p) ==
    /\ At(p, "copyin")
    /\ \/ VerifyError(p) = "ok" /\ Goto(p, "ops")
          /\ call' = [call EXCEPT ![p] = [@ EXCEPT !.again = TRUE, !.n = 0,
                                                   !.chan = NoChan, !.error = "ok"]]
       \/ VerifyError(p) # "ok" /\ Fail(p, VerifyError(p))
       \/ Fail(p, "EFAULT")
    /\ UNCHANGED <<setVars, semval, waitVars, undoVars>>

\* SEMVMX is not looked at
FaultyOpError(p, op, e, v) ==
    IF v < -op.op \/ (op.op = 0 /\ v # 0)
    THEN IF op.nowait THEN "EAGAIN" ELSE "SLEEP"
    ELSE IF op.undo THEN SemaoeError(p, op.op, e) ELSE "ok"

\* Why the operation cannot be done on value v, the first reason in code order
OpError(p, op, e, v) ==
    IF v + op.op > SEMVMX /\ op.op > 0 THEN "ERANGE"
    ELSE IF v < -op.op \/ (op.op = 0 /\ v # 0)
         THEN IF op.nowait THEN "EAGAIN" ELSE "SLEEP"
    ELSE IF op.undo THEN SemaoeError(p, op.op, e) ELSE "ok"

\* The i-th operation of p's vector, its unit and its undo entry
Op(p, i)      == call[p].sops[i]
OpUnit(p, i)  == UnitOf(call[p].id.slot, Op(p, i).num)
OpEntry(p, i) == <<call[p].id, Op(p, i).num>>

\* One iteration of the loop: do operation n + 1 ...
SemopApply(p) ==
    /\ At(p, "ops") /\ call[p].n < Len(call[p].sops)
    /\ LET i == call[p].n + 1  op == Op(p, i)  u == OpUnit(p, i) IN
         /\ OpError(p, op, OpEntry(p, i), semval[u]) = "ok"
         /\ semval' = [semval EXCEPT ![u] = @ + op.op]
         /\ WakeCounted(WokenBy(op.op, u, semval[u] + op.op))
         /\ IF op.undo THEN Semaoe(p, op.op, OpEntry(p, i)) ELSE UNCHANGED undoVars
         /\ call' = [call EXCEPT ![p].n = i]
    /\ UNCHANGED <<setVars, pc>>

\* ... or find that it cannot be done ...
SemopBlock(p) ==
    /\ At(p, "ops") /\ call[p].n < Len(call[p].sops)
    /\ LET i == call[p].n + 1  op == Op(p, i)  u == OpUnit(p, i)
           error == OpError(p, op, OpEntry(p, i), semval[u])
       IN  /\ error # "ok"
           /\ call' = [call EXCEPT ![p] = [@ EXCEPT !.error = error,
                         !.chan = <<IF op.op < 0 THEN "ncnt" ELSE "zcnt", u>>]]
    /\ Goto(p, "backout")
    /\ UNCHANGED <<setVars, semval, waitVars, undoVars>>

\* ... or have done them all.
SemopDone(p) ==
    /\ At(p, "ops") /\ call[p].n = Len(call[p].sops)
    /\ Fail(p, "ok")
    /\ UNCHANGED <<setVars, semval, waitVars, undoVars>>

\* The adjustments of the operations taken back stay
FaultySemundo(p) ==
    /\ At(p, "backout") /\ call[p].n > 0
    /\ semval' = [semval EXCEPT ![OpUnit(p, call[p].n)] = @ - Op(p, call[p].n).op]
    /\ call' = [call EXCEPT ![p].n = @ - 1]
    /\ UNCHANGED <<setVars, waitVars, undoVars, pc>>

\* One iteration of semundo, which does not look at what semaoe returns
Semundo(p) ==
    /\ At(p, "backout") /\ call[p].n > 0
    /\ LET i == call[p].n  op == Op(p, i) IN
         /\ semval' = [semval EXCEPT ![OpUnit(p, i)] = @ - op.op]
         /\ IF op.undo THEN Semaoe(p, -op.op, OpEntry(p, i)) ELSE UNCHANGED undoVars
         /\ call' = [call EXCEPT ![p].n = i - 1]
    /\ UNCHANGED <<setVars, waitVars, pc>>

\* Whoever is counted already is woken
FaultySemopSleep(p) ==
    /\ At(p, "backout") /\ call[p].n = 0 /\ call[p].error = "SLEEP"
    /\ LET c == call[p].chan IN
         /\ cnt' = [cnt EXCEPT ![c] = 1]
         /\ wchan' = [q \in Proc |-> IF q = p THEN c
                                     ELSE IF wchan[q] = c THEN NoChan ELSE wchan[q]]
    /\ Goto(p, "sleep")
    /\ UNCHANGED <<setVars, semval, undoVars, call>>

\* Bound: the counter does not wrap.  It would after CNTMAX + 1 sleeps on one
\* channel that no waker and no signal ended (see Signal), and a sleeper would
\* then stand behind a zero counter.
SemopSleep(p) ==
    /\ At(p, "backout") /\ call[p].n = 0 /\ call[p].error = "SLEEP"
    /\ cnt[call[p].chan] < CNTMAX
    /\ cnt' = [cnt EXCEPT ![call[p].chan] = @ + 1]
    /\ GoToSleep(p, call[p].chan)
    /\ Goto(p, "sleep")
    /\ UNCHANGED <<setVars, semval, undoVars, call>>

SemopFail(p) ==
    /\ At(p, "backout") /\ call[p].n = 0 /\ call[p].error # "SLEEP"
    /\ Goto(p, "out")
    /\ UNCHANGED <<setVars, semval, waitVars, undoVars, call>>

\* The set is not looked at again
FaultySemopAgain(p) ==
    /\ At(p, "sleep") /\ ~ Asleep(p)
    /\ Goto(p, "copyin")
    /\ UNCHANGED <<setVars, semval, waitVars, undoVars, call>>

\* sleep returns 0: woken, or stopped and continued
SemopAgain(p) ==
    /\ At(p, "sleep") /\ ~ Asleep(p)
    /\ \/ Semconv(call[p].id) /\ Goto(p, "copyin") /\ UNCHANGED call
       \/ ~ Semconv(call[p].id) /\ Fail(p, "EIDRM")
    /\ UNCHANGED <<setVars, semval, waitVars, undoVars>>

\* semncnt-- whatever it is
FaultySemopInterrupted(p) ==
    /\ At(p, "sleep") /\ ~ Asleep(p)
    /\ cnt' = [cnt EXCEPT ![call[p].chan] = @ - 1]
    /\ Fail(p, "EINTR")
    /\ UNCHANGED <<setVars, semval, wchan, undoVars>>

\* sleep returns 1: a signal.  The counter may have been zeroed by a waker, so
\* the last process counted wakes all.
SemopInterrupted(p) ==
    /\ At(p, "sleep") /\ ~ Asleep(p)
    /\ LET c == call[p].chan IN
         IF cnt[c] <= 1
         THEN cnt' = [cnt EXCEPT ![c] = 0] /\ Wakeprocs({c})
         ELSE cnt' = [cnt EXCEPT ![c] = @ - 1] /\ UNCHANGED wchan
    /\ Fail(p, "EINTR")
    /\ UNCHANGED <<setVars, semval, undoVars>>

SemopReturn(p) ==
    /\ At(p, "out")
    /\ Return(p)
    /\ UNCHANGED <<setVars, semval, waitVars, undoVars>>
-----------------------------------------------------------------------------
(* semexit *)

Semexit(p) ==
    /\ "exit" \in Calls
    /\ At(p, "user") /\ p \in undoers
    /\ Goto(p, "exit")
    /\ UNCHANGED <<setVars, semval, waitVars, undoVars, call>>

\* Entries are sorted by id, then by number
NotAfter(e, f) ==
    \/ e[1].seq < f[1].seq
    \/ e[1].seq = f[1].seq /\ e[1].slot < f[1].slot
    \/ e[1] = f[1] /\ e[2] <= f[2]

\* One iteration, from the last entry to the first
SemexitAdjust(p) ==
    /\ At(p, "exit")
    /\ \E e \in Entries(p) :
         /\ \A f \in Entries(p) : NotAfter(f, e)
         /\ LET u == UnitOf(e[1].slot, e[2])
                aoe == sem_undo[p][e]
                v == semval[u] + aoe
            IN  IF Semconv(e[1]) /\ v \in 0 .. SEMVMX
                THEN /\ semval' = [semval EXCEPT ![u] = v]
                     /\ WakeCounted(WokenBy(aoe, u, v))
                ELSE UNCHANGED <<semval, waitVars>>
         /\ sem_undo' = [sem_undo EXCEPT ![p][e] = 0]
    /\ UNCHANGED <<setVars, undoers, procVars>>

\* The structure goes back to the free list; the slot of the process table is
\* taken by a new process.
SemexitDone(p) ==
    /\ At(p, "exit") /\ Entries(p) = {}
    /\ undoers' = undoers \ {p}
    /\ Goto(p, "user")
    /\ UNCHANGED <<setVars, semval, waitVars, sem_undo, call>>
-----------------------------------------------------------------------------
\* A signal, or SIGCONT after a stop, takes p off its sleep queue.  One that
\* comes while another process is in the kernel is as good as one that comes
\* before that process entered.
Signal(p) ==
    /\ "signal" \in Calls
    /\ Setrun(p)
    /\ \A q \in Proc : pc[q] \notin NoPreempt
    /\ UNCHANGED <<setVars, semval, cnt, undoVars, procVars>>

Request(p) ==
    \/ \E key \in Key, n \in 0 .. SEMMSL + 1 : Semget(p, key, n)
    \/ \E id \in Id :
         \/ SemctlRmid(p, id)
         \/ \E num \in Num, val \in 0 .. SEMVMX : SemctlSetval(p, id, num, val)
         \/ SemctlCopyin(p, id, "SETALL", "setall")
         \/ SemctlCopyin(p, id, "IPC_SET", "ipcset")
         \/ \E sops \in Vectors : Semop(p, id, sops)
    \/ Semexit(p)

\* What a process inside the kernel does next
Continue(p) ==
    \/ SemctlSetall(p) \/ SemctlIpcset(p) \/ SemctlFails(p)
    \/ SemopCopyin(p) \/ SemopApply(p) \/ SemopBlock(p) \/ SemopDone(p)
    \/ Semundo(p) \/ SemopSleep(p) \/ SemopFail(p)
    \/ SemopAgain(p) \/ SemopInterrupted(p) \/ SemopReturn(p)
    \/ SemexitAdjust(p) \/ SemexitDone(p)

Next == \E p \in Proc : Request(p) \/ Continue(p) \/ Signal(p)

Spec == Init /\ [][Next]_vars

\* A process that can go on in the kernel does: it has the processor until it
\* sleeps, and the dispatcher gives the processor to every process that is
\* ready, however often others run in between.
FairSpec == Spec /\ \A p \in Proc : SF_vars(Continue(p))
-----------------------------------------------------------------------------
(* Properties *)

Header == [alloc : BOOLEAN, seq : 0 .. SEQMAX, key : Key,
           base : 0 .. SEMMNS - 1, nsems : 0 .. SEMMSL]

\* Types, and what a call's locals mean at each place it can be at.
SetsType ==
    /\ sema \in [Slot -> Header] /\ semmap \subseteq 0 .. SEMMNS - 1
    /\ \A s \in Slot : UnitsOf(s) \subseteq 0 .. SEMMNS - 1
ValType   == semval \in [Unit -> Int]
WaitType  == cnt \in [Chan -> Nat] /\ wchan \in [Proc -> Chan \cup {NoChan}]
UndoType  == sem_undo \in [Proc -> [Entry -> Aoe]] /\ undoers \subseteq Proc
ProcType  == pc \in [Proc -> Pcs] /\ call \in [Proc -> Call]
LocalType == \A p \in Proc :
    /\ call[p].n <= Len(call[p].sops)
    /\ pc[p] \in {"backout", "sleep"} => call[p].chan \in Chan
    /\ Asleep(p) => pc[p] = "sleep"

TypeOK ==
    SetsType /\ ValType /\ WaitType /\ UndoType /\ ProcType /\ LocalType

\* No wakeup is lost to the counters: semop, SETVAL, SETALL, semexit and
\* IPC_RMID call wakeprocs only when semncnt or semzcnt is not zero, and zero
\* it; a process interrupted by a signal counts itself down although a waker
\* may have zeroed the count and others may have counted themselves since.
\* While a process is on a channel's queue the channel's counter is not zero.
SleepersCounted ==
    \A p \in Proc : Asleep(p) => cnt[wchan[p]] > 0

\* The kernel is between two calls' steps
Quiet == \A p \in Proc : pc[p] \notin {"ops", "backout", "exit"}

\* A process stays on a queue only while the operation it waits for cannot be
\* done: whoever raises a value, or brings it to zero, has woken it.  This is
\* so when no vector names a semaphore twice.
Waits(op, v) == (op.op < 0 /\ v < -op.op) \/ (op.op = 0 /\ v # 0)

SleepersBlocked ==
    Quiet => \A p \in Proc : Asleep(p) =>
        \E i \in 1 .. Len(call[p].sops) :
            /\ wchan[p] = <<IF Op(p, i).op < 0 THEN "ncnt" ELSE "zcnt", OpUnit(p, i)>>
            /\ Waits(Op(p, i), semval[OpUnit(p, i)])

\* IPC_RMID wakes every sleeper of the set it frees: a process on a queue
\* waits for a semaphore of a set that exists, under the id it called with.
SleepersOnLiveSets ==
    \A p \in Proc : Asleep(p) =>
        /\ Semconv(call[p].id)
        /\ wchan[p][2] \in UnitsOf(call[p].id.slot)

\* The loop of semop and semundo work on the set the call named, and inside it:
\* the operation numbers are not checked again after a sleep.
OpsOnLiveSet ==
    \A p \in Proc : pc[p] \in {"ops", "backout"} =>
        /\ Semconv(call[p].id)
        /\ \A i \in 1 .. Len(call[p].sops) :
              OpUnit(p, i) \in UnitsOf(call[p].id.slot)

\* rmalloc and rmfree give no unit to two sets, nor to a set and the map.
SetsDisjoint ==
    \A s \in Slot : sema[s].alloc =>
        /\ UnitsOf(s) \cap semmap = {}
        /\ \A t \in Slot \ {s} : sema[t].alloc => UnitsOf(s) \cap UnitsOf(t) = {}

\* semget does not clear the units it takes: it relies on IPC_RMID, and on
\* every later signal, exit and backing out to leave freed units zero.
FreeUnitsClean ==
    \A u \in Unit :
        (\A s \in Slot : sema[s].alloc => u \notin UnitsOf(s)) =>
            semval[u] = 0 /\ cnt[<<"ncnt", u>>] = 0 /\ cnt[<<"zcnt", u>>] = 0

\* semunrm leaves no entry behind for a set that is gone, which a later set of
\* the same id would inherit; only an owner of an undo structure has entries,
\* and neither SEMMNU nor SEMUME is exceeded.
UndoNamesLiveSets ==
    /\ Cardinality(undoers) <= SEMMNU
    /\ \A p \in Proc :
         /\ Cardinality(Entries(p)) <= IF p \in undoers THEN SEMUME ELSE 0
         /\ \A e \in Entries(p) :
               Semconv(e[1]) /\ e[2] < sema[e[1].slot].nsems

\* No operation, no backing out and no exit takes a value out of range, so
\* the unsigned short never wraps.
ValuesInRange == \A u \in Unit : semval[u] \in 0 .. SEMVMX
=============================================================================
