------------------------------ MODULE SemProofs -----------------------------
(***************************************************************************)
(* Proofs about Sem, for every size of the tables, every set of processes  *)
(* and every set of vectors.                                               *)
(*                                                                         *)
(* Types and counts (TypeCorrect, NoLostWakeup): whether or not copyin     *)
(* sleeps.  Sets (SetsKeptApart and the four after it): what a process     *)
(* inside a call may rely on although sets come and go while it sleeps,    *)
(* and what freed units and undo entries look like, when copyin does not   *)
(* sleep.  Values (ValuesStayInRange, SleepersCannotGoOn): what semaphores *)
(* and sleepers look like between the steps of semop, by the history of    *)
(* values of a pass.  Refinement (SemImplementsAbs): the loop, its sleeps  *)
(* and its backing out are SemAbs's vectors, done at once or not at all.   *)
(***************************************************************************)
EXTENDS SemRefine, InductionLemmas, TLAPS

\* A leaf is tried with SMT, then with Zenon, then with more time for each
USE SMT, Zenon, SMTT(30), ZenonT(60)

-----------------------------------------------------------------------------
(* Facts about the operators *)

\* sem_base + sem_num stays in sem[] or in the units behind it.
LEMMA UnitOfType ==
    ASSUME sema \in [Slot -> Header], NEW s \in Slot, NEW num \in Num
    PROVE  UnitOf(s, num) \in Unit
  <1>1. sema[s].base \in 0 .. SEMMNS - 1
    BY DEF Header
  <1> QED
    BY <1>1, SizesAssumption DEF UnitOf, Unit, Num

\* So do the units of a set.
LEMMA UnitsOfType ==
    ASSUME sema \in [Slot -> Header], NEW s \in Slot
    PROVE  UnitsOf(s) \subseteq Unit
  <1>1. sema[s].base \in 0 .. SEMMNS - 1 /\ sema[s].nsems \in 0 .. SEMMSL
    BY DEF Header
  <1> QED
    BY <1>1, SizesAssumption DEF UnitsOf, Unit

\* "if (cnt) { cnt = 0; wakeprocs }" keeps the types, and puts nobody to sleep.
LEMMA WakeCountedType ==
    ASSUME cnt \in [Chan -> Nat], wchan \in [Proc -> Chan \cup {NoChan}],
           NEW C, WakeCounted(C)
    PROVE  /\ cnt' \in [Chan -> Nat]
           /\ wchan' \in [Proc -> Chan \cup {NoChan}]
           /\ \A p \in Proc : Asleep(p)' => Asleep(p)
  BY DEF WakeCounted, Wakeprocs, Asleep

\* It loses no wakeup: a process left on a queue has a counter that was not
\* zeroed.
LEMMA WakeCountedCounts ==
    ASSUME cnt \in [Chan -> Nat], wchan \in [Proc -> Chan \cup {NoChan}],
           NEW C, WakeCounted(C), SleepersCounted
    PROVE  SleepersCounted'
  <1> SUFFICES ASSUME NEW p \in Proc, Asleep(p)'
               PROVE  (cnt[wchan[p]] > 0)'
    BY DEF SleepersCounted
  <1>1. wchan'[p] = wchan[p] /\ wchan[p] \in Chan
        /\ wchan[p] \notin {c \in C : cnt[c] > 0}
    BY DEF WakeCounted, Wakeprocs, Asleep
  <1>2. cnt[wchan[p]] > 0
    BY <1>1 DEF SleepersCounted, Asleep
  <1>3. wchan[p] \notin C
    BY <1>1, <1>2
  <1> QED
    BY <1>1, <1>2, <1>3 DEF WakeCounted

\* semaoe keeps adjustments within SEMAEM.
LEMMA SemaoeType ==
    ASSUME sem_undo \in [Proc -> [Entry -> Aoe]], undoers \subseteq Proc,
           NEW p \in Proc, NEW val \in Int, NEW e \in Entry, Semaoe(p, val, e)
    PROVE  sem_undo' \in [Proc -> [Entry -> Aoe]] /\ undoers' \subseteq Proc
  <1>1. CASE val # 0 /\ SemaoeError(p, val, e) = "ok"
    <2>1. sem_undo[p][e] - val \in Aoe
      BY <1>1 DEF SemaoeError
    <2> QED
      BY <1>1, <2>1 DEF Semaoe
  <1>2. CASE ~ (val # 0 /\ SemaoeError(p, val, e) = "ok")
    BY <1>2 DEF Semaoe, undoVars
  <1> QED
    BY <1>1, <1>2

\* semunrm only clears.
LEMMA SemunrmType ==
    ASSUME sem_undo \in [Proc -> [Entry -> Aoe]],
           NEW id, NEW low, NEW high, Semunrm(id, low, high)
    PROVE  sem_undo' \in [Proc -> [Entry -> Aoe]]
  <1>1. 0 \in Aoe
    BY SizesAssumption DEF Aoe
  <1> QED
    BY <1>1 DEF Semunrm
-----------------------------------------------------------------------------
(* Type correctness *)

\* seminit leaves every variable well typed.
LEMMA InitType == Init => TypeOK
  <1> SUFFICES ASSUME Init PROVE TypeOK
    OBVIOUS
  <1>1. SetsType
    BY SizesAssumption, InputsAssumption DEF Init, SetsType, Header, UnitsOf
  <1>2. ValType /\ WaitType /\ UndoType
    BY SizesAssumption DEF Init, ValType, WaitType, UndoType, Aoe
  <1>3. NoCall \in Call
    BY SizesAssumption DEF NoCall, Call, Id, Slot, Errors
  <1>4. ProcType /\ LocalType
    BY <1>3, NoChanAssumption DEF Init, ProcType, LocalType, Pcs, NoCall, Asleep
  <1> QED
    BY <1>1, <1>2, <1>4 DEF TypeOK

\* The locals of a process in user mode.
LEMMA NoCallType == NoCall \in Call /\ NoCall.n = 0 /\ NoCall.sops = <<>>
  BY SizesAssumption DEF NoCall, Call, Id, Slot, Errors

\* The system calls that do not enter another place
LEMMA SemgetType ==
    ASSUME TypeOK, NEW p \in Proc, NEW key \in Key, NEW n \in Nat, Semget(p, key, n)
    PROVE  TypeOK'
  <1>1. SetsType'
    <2>1. PICK s \in Slot :
            \/ /\ n \in 1 .. SEMMSL
               /\ \E a \in Windows(semmap, n) :
                    /\ sema' = [sema EXCEPT ![s] =
                         [@ EXCEPT !.alloc = TRUE, !.key = key,
                                   !.base = a, !.nsems = n]]
                    /\ semmap' = semmap \ (a .. a + n - 1)
            \/ sema' = [sema EXCEPT ![s].key = key] /\ UNCHANGED semmap
      BY DEF Semget
    <2>2. CASE sema' = [sema EXCEPT ![s].key = key] /\ UNCHANGED semmap
      BY <2>2 DEF TypeOK, SetsType, Header, UnitsOf
    <2>3. ASSUME n \in 1 .. SEMMSL,
                 NEW a \in Windows(semmap, n),
                 sema' = [sema EXCEPT ![s] =
                         [@ EXCEPT !.alloc = TRUE, !.key = key,
                                   !.base = a, !.nsems = n]],
                 semmap' = semmap \ (a .. a + n - 1)
          PROVE  SetsType'
      <3>1. a \in 0 .. SEMMNS - 1
        BY DEF Windows, TypeOK, SetsType
      <3> DEFINE new == [sema[s] EXCEPT !.alloc = TRUE, !.key = key,
                                        !.base = a, !.nsems = n]
      <3>2. n \in 0 .. SEMMSL /\ sema[s] \in Header
        BY <2>3, SizesAssumption DEF TypeOK, SetsType
      <3>3. new \in Header
        BY <3>1, <3>2 DEF Header
      <3>4. sema' = [sema EXCEPT ![s] = new]
        BY <2>3
      <3>5. new.base = a /\ new.nsems = n
        BY <3>2 DEF Header
      <3> HIDE DEF new
      <3>6. a .. a + n - 1 \subseteq semmap
        BY DEF Windows
      <3>7. ASSUME NEW t \in Slot PROVE UnitsOf(t)' \subseteq 0 .. SEMMNS - 1
        BY <3>4, <3>5, <3>6, <3>7 DEF TypeOK, SetsType, UnitsOf
      <3> QED
        BY <2>3, <3>3, <3>4, <3>7 DEF TypeOK, SetsType
    <2> QED
      BY <2>1, <2>2, <2>3
  <1>2. (ValType /\ WaitType /\ UndoType /\ ProcType /\ LocalType)'
    BY DEF Semget, TypeOK, ValType, WaitType, UndoType, ProcType, LocalType,
           waitVars, undoVars, procVars, Asleep
  <1> QED
    BY <1>1, <1>2 DEF TypeOK

\* A process that is not on a queue may move, and take new locals: the others'
\* locals keep their meaning.
LEMMA EnterType ==
    ASSUME ProcType, LocalType, NEW p \in Proc, ~ Asleep(p),
           NEW where \in Pcs \ {"backout", "sleep"}, Goto(p, where),
           NEW new \in Call, new.n <= Len(new.sops), call' = [call EXCEPT ![p] = new],
           \A q \in Proc : Asleep(q)' => Asleep(q)
    PROVE  ProcType' /\ LocalType'
  <1>1. ProcType'
    BY DEF ProcType, Goto
  <1>2. ASSUME NEW q \in Proc
        PROVE  /\ (call[q].n <= Len(call[q].sops))'
               /\ (pc[q] \in {"backout", "sleep"} => call[q].chan \in Chan)'
               /\ (Asleep(q) => pc[q] = "sleep")'
    <2>1. CASE q = p
      BY <2>1 DEF ProcType, Goto
    <2>2. CASE q # p
      BY <2>2 DEF ProcType, LocalType, Goto
    <2> QED
      BY <2>1, <2>2
  <1> QED
    BY <1>1, <1>2 DEF LocalType

\* The same, when the locals stay.
LEMMA GotoType ==
    ASSUME ProcType, LocalType, NEW p \in Proc, ~ Asleep(p),
           NEW where \in Pcs \ {"backout", "sleep"}, Goto(p, where), UNCHANGED call,
           \A q \in Proc : Asleep(q)' => Asleep(q)
    PROVE  ProcType' /\ LocalType'
  BY DEF ProcType, LocalType, Goto

\* The return to user mode keeps the types: it forgets the locals.
LEMMA ReturnType ==
    ASSUME ProcType, LocalType, NEW p \in Proc, ~ Asleep(p), Return(p),
           \A q \in Proc : Asleep(q)' => Asleep(q)
    PROVE  ProcType' /\ LocalType'
  <1>1. Goto(p, "user") /\ call' = [call EXCEPT ![p] = NoCall]
    BY DEF Return
  <1>2. NoCall \in Call /\ NoCall.n <= Len(NoCall.sops)
    BY NoCallType
  <1> QED
    BY <1>1, <1>2, EnterType DEF Pcs

\* So does leaving semop's loop with an error.
LEMMA FailType ==
    ASSUME ProcType, LocalType, NEW p \in Proc, ~ Asleep(p),
           NEW error \in Errors, Fail(p, error),
           \A q \in Proc : Asleep(q)' => Asleep(q)
    PROVE  ProcType' /\ LocalType'
  <1> DEFINE new == [call[p] EXCEPT !.error = error]
  <1>1. Goto(p, "out") /\ call' = [call EXCEPT ![p] = new]
    BY DEF Fail
  <1>2. call[p] \in Call /\ call[p].n <= Len(call[p].sops)
    BY DEF ProcType, LocalType
  <1>3. new \in Call /\ new.n = call[p].n /\ new.sops = call[p].sops
    BY <1>2 DEF Call
  <1> HIDE DEF new
  <1> QED
    BY <1>1, <1>2, <1>3, EnterType DEF Pcs

\* Every system call, up to the place where it may first sleep, keeps the types.
LEMMA RequestType ==
    ASSUME TypeOK, NEW p \in Proc, Request(p)
    PROVE  TypeOK'
  <1> USE DEF TypeOK
  <1>0. ASSUME pc[p] # "sleep" PROVE ~ Asleep(p)
    BY <1>0 DEF LocalType
  <1>1. ASSUME NEW key \in Key, NEW n \in 0 .. SEMMSL + 1, Semget(p, key, n)
        PROVE  TypeOK'
    BY <1>1, SemgetType, SizesAssumption
  <1>2. ASSUME NEW id \in Id, SemctlRmid(p, id)
        PROVE  TypeOK'
    <2>1. id.slot \in Slot /\ id.seq \in 0 .. SEQMAX
      BY DEF Id
    <2>2. SetsType'
      <3>1. semmap' \subseteq 0 .. SEMMNS - 1
        BY <1>2, <2>1 DEF SemctlRmid, SetsType, Freed
      <3>2. NextSeq(id.seq) \in 0 .. SEQMAX /\ sema[id.slot].seq = id.seq
        BY <1>2, <2>1, SizesAssumption DEF NextSeq, SemctlRmid, Semconv
      <3> DEFINE old == sema[id.slot]
                 new == [old EXCEPT !.alloc = FALSE, !.seq = NextSeq(id.seq)]
      <3>3. old \in Header
        BY <2>1 DEF SetsType
      <3>4. new \in Header /\ new.base = old.base /\ new.nsems = old.nsems
        BY <3>2, <3>3 DEF Header
      <3>5. sema' = [sema EXCEPT ![id.slot] = new]
        BY <1>2 DEF SemctlRmid
      <3> HIDE DEF new
      <3>6. \A s \in Slot : UnitsOf(s)' = UnitsOf(s)
        BY <2>1, <3>4, <3>5 DEF SetsType, UnitsOf
      <3> QED
        BY <3>1, <3>4, <3>5, <3>6 DEF SetsType
    <2>3. ValType'
      BY <1>2 DEF SemctlRmid, ValType
    <2>4. UndoType'
      BY <1>2, SemunrmType DEF SemctlRmid, UndoType
    <2>5. WakeCounted({"ncnt", "zcnt"} \X UnitsOf(id.slot)) /\ UNCHANGED procVars
      BY <1>2 DEF SemctlRmid
    <2> QED
      BY <2>2, <2>3, <2>4, <2>5, WakeCountedType
         DEF WaitType, ProcType, LocalType, procVars
  <1>3. ASSUME NEW id \in Id, NEW num \in Num, NEW val \in 0 .. SEMVMX,
               SemctlSetval(p, id, num, val)
        PROVE  TypeOK'
    <2>1. id.slot \in Slot
      BY DEF Id
    <2>2. SetsType'
      BY <1>3 DEF SemctlSetval, SetsType, setVars, UnitsOf
    <2>3. ValType'
      <3>1. val \in Int
        BY SizesAssumption
      <3>2. semval' = [semval EXCEPT ![UnitOf(id.slot, num)] = val]
        BY <1>3 DEF SemctlSetval
      <3> QED
        BY <3>1, <3>2 DEF ValType
    <2>4. UndoType'
      BY <1>3, SemunrmType DEF SemctlSetval, UndoType
    <2>5. /\ \E C : WakeCounted(C)
          /\ UNCHANGED procVars
      BY <1>3 DEF SemctlSetval
    <2> QED
      BY <2>2, <2>3, <2>4, <2>5, WakeCountedType
         DEF WaitType, ProcType, LocalType, procVars
  <1>4. ASSUME NEW id \in Id, NEW cmd, NEW where \in {"setall", "ipcset"},
               SemctlCopyin(p, id, cmd, where)
        PROVE  TypeOK'
    <2>1. (SetsType /\ ValType /\ WaitType /\ UndoType)'
      BY <1>4 DEF SemctlCopyin, SetsType, ValType, WaitType, UndoType,
                  setVars, waitVars, undoVars, UnitsOf
    <2> DEFINE new == [NoCall EXCEPT !.id = id]
    <2>2. new \in Call /\ new.n = 0 /\ new.sops = <<>>
      BY NoCallType DEF Call, NoCall
    <2>3. /\ call' = [call EXCEPT ![p] = new]
          /\ wchan' = wchan /\ ~ Asleep(p) /\ Goto(p, where)
      BY <1>0, <1>4 DEF SemctlCopyin, At, waitVars
    <2> HIDE DEF new
    <2>4. new.n <= Len(new.sops)
      BY <2>2
    <2>5. (ProcType /\ LocalType)'
      BY <2>2, <2>3, <2>4, EnterType DEF Pcs, Asleep
    <2> QED
      BY <2>1, <2>5
  <1>5. ASSUME NEW id \in Id, NEW sops \in Vectors, Semop(p, id, sops)
        PROVE  TypeOK'
    <2>1. (SetsType /\ ValType /\ WaitType /\ UndoType)'
      BY <1>5 DEF Semop, SetsType, ValType, WaitType, UndoType,
                  setVars, waitVars, undoVars, UnitsOf
    <2> DEFINE new == [NoCall EXCEPT !.id = id, !.sops = sops]
    <2>2. new \in Call /\ new.n = 0 /\ new.sops = sops
      BY NoCallType, InputsAssumption DEF Call, NoCall
    <2>3. new.n <= Len(new.sops)
      BY <2>2, InputsAssumption
    <2>4. /\ call' = [call EXCEPT ![p] = new]
          /\ wchan' = wchan /\ ~ Asleep(p) /\ Goto(p, "copyin")
      BY <1>0, <1>5 DEF Semop, At, waitVars
    <2> HIDE DEF new
    <2>5. (ProcType /\ LocalType)'
      BY <2>2, <2>3, <2>4, EnterType DEF Pcs, Asleep
    <2> QED
      BY <2>1, <2>5
  <1>6. ASSUME Semexit(p)
        PROVE  TypeOK'
    <2>1. (SetsType /\ ValType /\ WaitType /\ UndoType)'
      BY <1>6 DEF Semexit, SetsType, ValType, WaitType, UndoType,
                  setVars, waitVars, undoVars, UnitsOf
    <2>2. ~ Asleep(p) /\ wchan' = wchan /\ UNCHANGED call /\ Goto(p, "exit")
      BY <1>0, <1>6 DEF Semexit, At, waitVars
    <2>3. (ProcType /\ LocalType)'
      BY <2>2, GotoType DEF Pcs, Asleep
    <2> QED
      BY <2>1, <2>3
  <1> QED
    BY <1>1, <1>2, <1>3, <1>4, <1>5, <1>6 DEF Request

\* The facts about operation i of p's vector that the loop's steps use
LEMMA OpType ==
    ASSUME TypeOK, NEW p \in Proc, NEW i \in 1 .. Len(call[p].sops)
    PROVE  /\ Op(p, i) \in Sembuf
           /\ OpUnit(p, i) \in Unit
           /\ OpEntry(p, i) \in Entry
  <1>1. call[p] \in Call /\ call[p].sops \in Seq(Sembuf) /\ call[p].id \in Id
    BY DEF TypeOK, ProcType, Call
  <1>2. Op(p, i) \in Sembuf
    BY <1>1 DEF Op
  <1>3. Op(p, i).num \in Num /\ call[p].id.slot \in Slot
    BY <1>1, <1>2 DEF Sembuf, Id
  <1> QED
    BY <1>1, <1>2, <1>3, UnitOfType DEF TypeOK, SetsType, OpUnit, OpEntry, Entry

\* SETALL and IPC_SET keep the types after their copyin, whatever became of the set.
LEMMA SemctlType ==
    ASSUME TypeOK, NEW p \in Proc,
           SemctlSetall(p) \/ SemctlIpcset(p) \/ SemctlFails(p)
    PROVE  TypeOK'
  <1> USE DEF TypeOK
  <1>0. ~ Asleep(p) /\ call[p].id.slot \in Slot
    BY DEF SemctlSetall, SemctlIpcset, SemctlFails, At, LocalType, ProcType, Call, Id
  <1>1. CASE SemctlSetall(p)
    <2> DEFINE units == UnitsOf(call[p].id.slot)
    <2>1. PICK vals \in [units -> 0 .. SEMVMX] :
            /\ semval' = [u \in Unit |-> IF u \in units THEN vals[u] ELSE semval[u]]
            /\ \E C : WakeCounted(C)
            /\ \E id, low, high : Semunrm(id, low, high)
      BY <1>1 DEF SemctlSetall
    <2>2. Return(p) /\ UNCHANGED <<setVars, undoers>>
      BY <1>1 DEF SemctlSetall
    <2>3. SetsType' /\ UndoType'
      BY <2>1, <2>2, SemunrmType DEF SetsType, UndoType, setVars, UnitsOf
    <2>4. ValType'
      BY <2>1, SizesAssumption DEF ValType
    <2>5. WaitType' /\ \A q \in Proc : Asleep(q)' => Asleep(q)
      BY <2>1, WakeCountedType DEF WaitType
    <2>6. (ProcType /\ LocalType)'
      BY <1>0, <2>2, <2>5, ReturnType
    <2> QED
      BY <2>3, <2>4, <2>5, <2>6
  <1>2. CASE SemctlIpcset(p)
    <2>1. SetsType'
      <3>1. sema' = [sema EXCEPT ![call[p].id.slot].alloc = TRUE] /\ semmap' = semmap
        BY <1>2 DEF SemctlIpcset
      <3>2. sema' \in [Slot -> Header]
        BY <1>0, <3>1 DEF SetsType, Header
      <3>3. \A s \in Slot : UnitsOf(s)' = UnitsOf(s)
        BY <1>0, <3>1 DEF SetsType, Header, UnitsOf
      <3> QED
        BY <3>1, <3>2, <3>3 DEF SetsType
    <2>2. (ValType /\ WaitType /\ UndoType)' /\ wchan' = wchan /\ Return(p)
      BY <1>2 DEF SemctlIpcset, ValType, WaitType, UndoType, waitVars, undoVars
    <2>3. (ProcType /\ LocalType)'
      BY <1>0, <2>2, ReturnType DEF Asleep
    <2> QED
      BY <2>1, <2>2, <2>3
  <1>3. CASE SemctlFails(p)
    <2>1. (SetsType /\ ValType /\ WaitType /\ UndoType)' /\ wchan' = wchan /\ Return(p)
      BY <1>3 DEF SemctlFails, SetsType, ValType, WaitType, UndoType,
                  setVars, waitVars, undoVars, UnitsOf
    <2>2. (ProcType /\ LocalType)'
      BY <1>0, <2>1, ReturnType DEF Asleep
    <2> QED
      BY <2>1, <2>2
  <1> QED
    BY <1>1, <1>2, <1>3

\* The steps of semop that move the process only
LEMMA DataUnchanged ==
    ASSUME TypeOK, UNCHANGED <<setVars, semval, waitVars, undoVars>>
    PROVE  /\ (SetsType /\ ValType /\ WaitType /\ UndoType)'
           /\ \A q \in Proc : Asleep(q)' => Asleep(q)
  BY DEF TypeOK, SetsType, ValType, WaitType, UndoType, setVars, waitVars,
         undoVars, UnitsOf, Asleep

\* Whatever stops an operation or a vector is an error number of semop.
LEMMA ErrorTypes ==
    /\ \A p, op, e, v : OpError(p, op, e, v) \in Errors
    /\ \A p : VerifyError(p) \in Errors
  <1>1. \A p, val, e : SemaoeError(p, val, e) \in Errors
    BY DEF SemaoeError, Errors
  <1> QED
    BY <1>1 DEF OpError, VerifyError, Errors

\* The steps of semop that only move the process keep the types.
LEMMA SemopMoveType ==
    ASSUME TypeOK, NEW p \in Proc,
           \/ SemopCopyin(p) \/ SemopBlock(p) \/ SemopDone(p)
           \/ SemopFail(p) \/ SemopAgain(p) \/ SemopReturn(p)
    PROVE  TypeOK'
  <1> USE DEF TypeOK
  <1>1. UNCHANGED <<setVars, semval, waitVars, undoVars>> /\ ~ Asleep(p)
    BY DEF SemopCopyin, SemopBlock, SemopDone, SemopFail, SemopAgain,
           SemopReturn, At, LocalType
  <1>2. (SetsType /\ ValType /\ WaitType /\ UndoType)'
    BY <1>1, DataUnchanged
  <1>3. \A q \in Proc : Asleep(q)' => Asleep(q)
    BY <1>1, DataUnchanged
  <1>4. CASE \E error \in Errors : Fail(p, error)
    BY <1>1, <1>2, <1>3, <1>4, FailType
  <1>5. CASE SemopCopyin(p)
    <2>1. CASE VerifyError(p) = "ok" /\ Goto(p, "ops")
               /\ call' = [call EXCEPT ![p] = [@ EXCEPT !.again = TRUE, !.n = 0,
                                                  !.chan = NoChan, !.error = "ok"]]
      <3> DEFINE new == [call[p] EXCEPT !.again = TRUE, !.n = 0,
                                        !.chan = NoChan, !.error = "ok"]
      <3>1. call' = [call EXCEPT ![p] = new] /\ Goto(p, "ops")
        BY <2>1
      <3>2. call[p] \in Call
        BY DEF ProcType
      <3>3. new \in Call /\ new.n = 0 /\ new.sops = call[p].sops
        BY <3>2 DEF Call, Errors
      <3>4. call[p].sops \in Seq(Sembuf)
        BY <3>2 DEF Call
      <3> HIDE DEF new
      <3>5. new.n <= Len(new.sops)
        BY <3>3, <3>4
      <3>6. (ProcType /\ LocalType)'
        BY <1>1, <1>3, <3>1, <3>3, <3>5, EnterType DEF Pcs
      <3> QED
        BY <1>2, <3>6
    <2>2. VerifyError(p) \in Errors /\ "EFAULT" \in Errors
      BY ErrorTypes DEF Errors
    <2> QED
      BY <1>4, <1>5, <2>1, <2>2 DEF SemopCopyin
  <1>6. CASE SemopBlock(p)
    <2> DEFINE i == call[p].n + 1
               u == OpUnit(p, i)
               c == <<IF Op(p, i).op < 0 THEN "ncnt" ELSE "zcnt", u>>
               error == OpError(p, Op(p, i), OpEntry(p, i), semval[u])
               new == [call[p] EXCEPT !.error = error, !.chan = c]
    <2>1. call' = [call EXCEPT ![p] = new] /\ Goto(p, "backout")
      BY <1>6 DEF SemopBlock
    <2>2. call[p] \in Call /\ call[p].n <= Len(call[p].sops)
          /\ call[p].n \in Nat /\ call[p].sops \in Seq(Sembuf)
      BY DEF ProcType, LocalType, Call
    <2>3. i \in 1 .. Len(call[p].sops)
      BY <1>6, <2>2 DEF SemopBlock
    <2>4. c \in Chan
      BY <2>3, OpType DEF Chan
    <2>5. error \in Errors
      BY ErrorTypes
    <2> HIDE DEF i, u, c, error
    <2>6. new \in Call /\ new.n = call[p].n /\ new.sops = call[p].sops
          /\ new.chan \in Chan
      BY <2>2, <2>4, <2>5 DEF Call
    <2> HIDE DEF new
    <2>7. ProcType'
      BY <2>1, <2>6 DEF ProcType, Goto, Pcs
    <2>8. ASSUME NEW q \in Proc
          PROVE  /\ (call[q].n <= Len(call[q].sops))'
                 /\ (pc[q] \in {"backout", "sleep"} => call[q].chan \in Chan)'
                 /\ (Asleep(q) => pc[q] = "sleep")'
      <3>1. CASE q = p
        BY <1>1, <1>3, <2>1, <2>2, <2>6, <3>1 DEF ProcType, Goto
      <3>2. CASE q # p
        BY <1>3, <2>1, <3>2 DEF ProcType, LocalType, Goto
      <3> QED
        BY <3>1, <3>2
    <2> QED
      BY <1>2, <2>7, <2>8 DEF LocalType
  <1>7. CASE SemopDone(p)
    BY <1>4, <1>7 DEF SemopDone, Errors
  <1>8. CASE SemopFail(p)
    <2>1. Goto(p, "out") /\ UNCHANGED call
      BY <1>8 DEF SemopFail
    <2>2. (ProcType /\ LocalType)'
      BY <1>1, <1>3, <2>1, GotoType DEF Pcs
    <2> QED
      BY <1>2, <2>2
  <1>9. CASE SemopAgain(p)
    <2>1. CASE Goto(p, "copyin") /\ UNCHANGED call
      <3>1. (ProcType /\ LocalType)'
        BY <1>1, <1>3, <2>1, GotoType DEF Pcs
      <3> QED
        BY <1>2, <3>1
    <2> QED
      BY <1>4, <1>9, <2>1 DEF SemopAgain, Errors
  <1>10. CASE SemopReturn(p)
    <2>1. (ProcType /\ LocalType)'
      BY <1>1, <1>3, <1>10, ReturnType DEF SemopReturn
    <2> QED
      BY <1>2, <2>1
  <1> QED
    BY <1>5, <1>6, <1>7, <1>8, <1>9, <1>10

\* The steps of the loop and of semundo that change a value
LEMMA SemopDataType ==
    ASSUME TypeOK, NEW p \in Proc, SemopApply(p) \/ Semundo(p)
    PROVE  TypeOK'
  <1> USE DEF TypeOK
  <1>0. call[p] \in Call /\ call[p].n <= Len(call[p].sops) /\ call[p].n \in Nat
        /\ call[p].sops \in Seq(Sembuf)
    BY DEF ProcType, LocalType, Call
  <1>1. PICK i \in 1 .. Len(call[p].sops), n \in 0 .. Len(call[p].sops), delta \in Int :
          /\ semval' = [semval EXCEPT ![OpUnit(p, i)] = @ + delta]
          /\ Semaoe(p, delta, OpEntry(p, i)) \/ UNCHANGED undoVars
          /\ call' = [call EXCEPT ![p].n = n]
    <2>1. CASE SemopApply(p)
      <3> DEFINE i == call[p].n + 1
      <3>1. i \in 1 .. Len(call[p].sops) /\ i \in 0 .. Len(call[p].sops)
        BY <1>0, <2>1 DEF SemopApply
      <3>2. Op(p, i).op \in Int
        BY <3>1, OpType DEF Sembuf
      <3> QED
        BY <2>1, <3>1, <3>2 DEF SemopApply
    <2>2. CASE Semundo(p)
      <3> DEFINE i == call[p].n
      <3>1. i \in 1 .. Len(call[p].sops) /\ i - 1 \in 0 .. Len(call[p].sops)
        BY <1>0, <2>2 DEF Semundo
      <3>2. Op(p, i).op \in Int /\ OpUnit(p, i) \in Unit
        BY <3>1, OpType DEF Sembuf
      <3>3. semval[OpUnit(p, i)] - Op(p, i).op = semval[OpUnit(p, i)] + -Op(p, i).op
            /\ -Op(p, i).op \in Int
        BY <3>2 DEF ValType
      <3> QED
        BY <2>2, <3>1, <3>3 DEF Semundo
    <2> QED
      BY <2>1, <2>2
  <1>2. UNCHANGED <<setVars, pc>>
    BY DEF SemopApply, Semundo
  <1>3. OpUnit(p, i) \in Unit /\ OpEntry(p, i) \in Entry
    BY OpType
  <1>4. SetsType' /\ ValType'
    BY <1>1, <1>2, <1>3 DEF SetsType, ValType, setVars, UnitsOf
  <1>5. UndoType'
    BY <1>1, <1>3, SemaoeType DEF UndoType, undoVars
  <1>6. WaitType' /\ \A q \in Proc : Asleep(q)' => Asleep(q)
    <2>1. CASE SemopApply(p)
      BY <2>1, WakeCountedType DEF SemopApply, WaitType
    <2>2. CASE Semundo(p)
      BY <2>2 DEF Semundo, WaitType, waitVars, Asleep
    <2> QED
      BY <2>1, <2>2
  <1>7. ProcType'
    <2>1. n \in Nat /\ [call[p] EXCEPT !.n = n] \in Call
      BY <1>0 DEF Call
    <2> QED
      BY <1>1, <1>2, <2>1 DEF ProcType
  <1>8. call'[p].n = n /\ call'[p].sops = call[p].sops /\ call'[p].chan = call[p].chan
        /\ Len(call[p].sops) \in Nat
    BY <1>0, <1>1 DEF Call, ProcType
  <1>9. ASSUME NEW q \in Proc
        PROVE  /\ (call[q].n <= Len(call[q].sops))'
               /\ (pc[q] \in {"backout", "sleep"} => call[q].chan \in Chan)'
               /\ (Asleep(q) => pc[q] = "sleep")'
    <2>1. CASE q = p
      BY <1>2, <1>6, <1>8, <2>1 DEF LocalType
    <2>2. CASE q # p
      BY <1>1, <1>2, <1>6, <2>2 DEF LocalType, ProcType
    <2> QED
      BY <2>1, <2>2
  <1> QED
    BY <1>4, <1>5, <1>6, <1>7, <1>9 DEF LocalType

\* Going to sleep, and what a signal makes of a sleep
LEMMA SemopSleepType ==
    ASSUME TypeOK, NEW p \in Proc,
           SemopSleep(p) \/ SemopInterrupted(p) \/ Signal(p)
    PROVE  TypeOK'
  <1> USE DEF TypeOK
  <1>1. CASE SemopSleep(p)
    <2>1. (SetsType /\ ValType /\ UndoType)'
      BY <1>1 DEF SemopSleep, SetsType, ValType, UndoType, setVars, undoVars, UnitsOf
    <2>2. call[p].chan \in Chan
      BY <1>1 DEF SemopSleep, At, LocalType
    <2>3. WaitType'
      BY <1>1, <2>2 DEF SemopSleep, WaitType, GoToSleep
    <2>4. (ProcType /\ LocalType)'
      BY <1>1, <2>2 DEF SemopSleep, ProcType, LocalType, WaitType, Goto, GoToSleep,
                        Asleep, Pcs
    <2> QED
      BY <2>1, <2>3, <2>4
  <1>2. CASE SemopInterrupted(p)
    <2>1. (SetsType /\ ValType /\ UndoType)' /\ ~ Asleep(p) /\ Fail(p, "EINTR")
      BY <1>2 DEF SemopInterrupted, SetsType, ValType, UndoType, setVars, undoVars, UnitsOf
    <2>2. call[p].chan \in Chan
      BY <1>2 DEF SemopInterrupted, At, LocalType
    <2>3. WaitType' /\ \A q \in Proc : Asleep(q)' => Asleep(q)
      BY <1>2, <2>2 DEF SemopInterrupted, WaitType, Wakeprocs, Asleep
    <2>4. (ProcType /\ LocalType)'
      BY <2>1, <2>3, FailType DEF Errors
    <2> QED
      BY <2>1, <2>3, <2>4
  <1>3. CASE Signal(p)
    BY <1>3 DEF Signal, Setrun, Asleep, SetsType, ValType, WaitType, UndoType,
                ProcType, LocalType, setVars, undoVars, procVars, UnitsOf
  <1> QED
    BY <1>1, <1>2, <1>3

\* semexit keeps the types: an adjustment is applied in range or dropped.
LEMMA SemexitType ==
    ASSUME TypeOK, NEW p \in Proc, SemexitAdjust(p) \/ SemexitDone(p)
    PROVE  TypeOK'
  <1> USE DEF TypeOK
  <1>1. CASE SemexitAdjust(p)
    <2>1. UNCHANGED <<setVars, undoers, procVars>>
      BY <1>1 DEF SemexitAdjust
    <2>2. PICK e \in Entries(p) :
            /\ \/ /\ \E u : semval' = [semval EXCEPT ![u] = semval[u] + sem_undo[p][e]]
                  /\ \E v \in 0 .. SEMVMX : \E u : semval' = [semval EXCEPT ![u] = v]
                  /\ \E C : WakeCounted(C)
               \/ UNCHANGED <<semval, waitVars>>
            /\ sem_undo' = [sem_undo EXCEPT ![p][e] = 0]
      BY <1>1 DEF SemexitAdjust
    <2>3. SetsType'
      BY <2>1 DEF SetsType, setVars, UnitsOf
    <2>4. ValType'
      BY <2>2, SizesAssumption DEF ValType
    <2>5. WaitType' /\ \A q \in Proc : Asleep(q)' => Asleep(q)
      BY <2>2, WakeCountedType DEF WaitType, waitVars, Asleep
    <2>6. UndoType'
      <3>1. 0 \in Aoe
        BY SizesAssumption DEF Aoe
      <3> QED
        BY <2>1, <2>2, <3>1 DEF UndoType, Entries
    <2> QED
      BY <2>1, <2>3, <2>4, <2>5, <2>6 DEF ProcType, LocalType, procVars
  <1>2. CASE SemexitDone(p)
    <2>1. (SetsType /\ ValType /\ WaitType /\ UndoType)' /\ wchan' = wchan
      BY <1>2 DEF SemexitDone, SetsType, ValType, WaitType, UndoType, setVars,
                  waitVars, UnitsOf
    <2>2. ~ Asleep(p) /\ Goto(p, "user") /\ UNCHANGED call
      BY <1>2 DEF SemexitDone, At, LocalType
    <2>3. (ProcType /\ LocalType)'
      BY <2>1, <2>2, GotoType DEF Pcs, Asleep
    <2> QED
      BY <2>1, <2>3
  <1> QED
    BY <1>1, <1>2

\* Every step keeps the types.
LEMMA NextType == TypeOK /\ [Next]_vars => TypeOK'
  <1> SUFFICES ASSUME TypeOK, [Next]_vars PROVE TypeOK'
    OBVIOUS
  <1>1. CASE Next
    <2>1. PICK p \in Proc : Request(p) \/ Continue(p) \/ Signal(p)
      BY <1>1 DEF Next
    <2> QED
      BY <2>1, RequestType, SemctlType, SemopMoveType, SemopDataType,
         SemopSleepType, SemexitType DEF Continue
  <1>2. CASE UNCHANGED vars
    BY <1>2 DEF vars, setVars, waitVars, undoVars, procVars, TypeOK, SetsType,
                ValType, WaitType, UndoType, ProcType, LocalType, UnitsOf, Asleep
  <1> QED
    BY <1>1, <1>2

\* Every state of the model is well typed, and a call's locals mean what their
\* place in sem.c says: the channel of a process that backs out or sleeps is a
\* counter, and only a process in sleep() is on a queue.
THEOREM TypeCorrect == Spec => []TypeOK
  BY InitType, NextType, PTL DEF Spec
-----------------------------------------------------------------------------
(* No wakeup is lost to the counters *)

\* After seminit nobody sleeps.
LEMMA InitCounted == Init => SleepersCounted
  BY DEF Init, SleepersCounted, Asleep

\* A step that leaves both the counters and the queues alone
LEMMA WaitUnchanged ==
    ASSUME SleepersCounted, UNCHANGED waitVars
    PROVE  SleepersCounted'
  BY DEF SleepersCounted, waitVars, Asleep

\* A system call that wakes zeroes the counters whose queues it empties.
LEMMA RequestCounted ==
    ASSUME TypeOK, SleepersCounted, NEW p \in Proc, Request(p)
    PROVE  SleepersCounted'
  <1>1. UNCHANGED waitVars \/ \E C : WakeCounted(C)
    BY DEF Request, Semget, SemctlRmid, SemctlSetval, SemctlCopyin, Semop, Semexit
  <1> QED
    BY <1>1, WaitUnchanged, WakeCountedCounts DEF TypeOK, WaitType

\* So does every step inside the kernel; a process that goes to sleep counts
\* itself first, and one that a signal ended wakes all when it was the last.
LEMMA ContinueCounted ==
    ASSUME TypeOK, SleepersCounted, NEW p \in Proc, Continue(p)
    PROVE  SleepersCounted'
  <1>1. CASE SemctlSetall(p) \/ SemctlIpcset(p) \/ SemctlFails(p)
    <2>1. UNCHANGED waitVars \/ \E C : WakeCounted(C)
      BY <1>1 DEF SemctlSetall, SemctlIpcset, SemctlFails
    <2> QED
      BY <2>1, WaitUnchanged, WakeCountedCounts DEF TypeOK, WaitType
  <1>2. CASE SemopApply(p)
    <2>1. \E C : WakeCounted(C)
      BY <1>2 DEF SemopApply
    <2> QED
      BY <2>1, WakeCountedCounts DEF TypeOK, WaitType
  <1>3. CASE SemopCopyin(p) \/ SemopBlock(p) \/ SemopDone(p) \/ Semundo(p)
             \/ SemopFail(p) \/ SemopAgain(p) \/ SemopReturn(p) \/ SemexitDone(p)
    BY <1>3, WaitUnchanged
       DEF SemopCopyin, SemopBlock, SemopDone, Semundo, SemopFail, SemopAgain,
           SemopReturn, SemexitDone
  <1>4. CASE SemopSleep(p)
    <2>1. call[p].chan \in Chan
      BY <1>4 DEF SemopSleep, At, TypeOK, LocalType
    <2> SUFFICES ASSUME NEW q \in Proc, Asleep(q)' PROVE (cnt[wchan[q]] > 0)'
      BY DEF SleepersCounted
    <2>2. CASE q = p
      BY <1>4, <2>1, <2>2 DEF SemopSleep, GoToSleep, TypeOK, WaitType
    <2>3. CASE q # p
      <3>1. wchan'[q] = wchan[q] /\ Asleep(q) /\ wchan[q] \in Chan
        BY <1>4, <2>3 DEF SemopSleep, GoToSleep, TypeOK, WaitType, Asleep
      <3>2. cnt[wchan[q]] > 0 /\ cnt[wchan[q]] \in Nat
        BY <3>1 DEF SleepersCounted, TypeOK, WaitType
      <3> QED
        BY <1>4, <2>1, <3>1, <3>2 DEF SemopSleep, TypeOK, WaitType
    <2> QED
      BY <2>2, <2>3
  \* A count of two or more stays positive; at one or less all are woken.
  <1>5. CASE SemopInterrupted(p)
    <2> DEFINE c == call[p].chan
    <2>1. c \in Chan
      BY <1>5 DEF SemopInterrupted, At, TypeOK, LocalType
    <2> SUFFICES ASSUME NEW q \in Proc, Asleep(q)' PROVE (cnt[wchan[q]] > 0)'
      BY DEF SleepersCounted
    <2>2. wchan'[q] = wchan[q] /\ Asleep(q) /\ wchan[q] \in Chan
      BY <1>5 DEF SemopInterrupted, Wakeprocs, TypeOK, WaitType, Asleep
    <2>3. cnt[wchan[q]] > 0 /\ cnt[wchan[q]] \in Nat
      BY <2>2 DEF SleepersCounted, TypeOK, WaitType
    <2>4. CASE cnt[c] <= 1
      <3>1. wchan[q] # c
        BY <1>5, <2>2, <2>4 DEF SemopInterrupted, Wakeprocs, Asleep
      <3> QED
        BY <1>5, <2>1, <2>2, <2>3, <2>4, <3>1 DEF SemopInterrupted, TypeOK, WaitType
    <2>5. CASE ~ (cnt[c] <= 1)
      BY <1>5, <2>1, <2>2, <2>3, <2>5 DEF SemopInterrupted, TypeOK, WaitType
    <2> QED
      BY <2>4, <2>5
  <1>6. CASE SemexitAdjust(p)
    <2>1. UNCHANGED waitVars \/ \E C : WakeCounted(C)
      BY <1>6 DEF SemexitAdjust
    <2> QED
      BY <2>1, WaitUnchanged, WakeCountedCounts DEF TypeOK, WaitType
  <1> QED
    BY <1>1, <1>2, <1>3, <1>4, <1>5, <1>6 DEF Continue

\* No step leaves a sleeper behind a zero counter.
LEMMA NextCounted == TypeOK /\ SleepersCounted /\ [Next]_vars => SleepersCounted'
  <1> SUFFICES ASSUME TypeOK, SleepersCounted, [Next]_vars PROVE SleepersCounted'
    OBVIOUS
  <1>1. ASSUME NEW p \in Proc, Signal(p) PROVE SleepersCounted'
    BY <1>1 DEF Signal, Setrun, SleepersCounted, Asleep, TypeOK, WaitType
  <1>2. CASE UNCHANGED vars
    BY <1>2, WaitUnchanged DEF vars
  <1> QED
    BY <1>1, <1>2, RequestCounted, ContinueCounted DEF Next

\* No wakeup is lost: while a process is on a semaphore's queue the counter
\* that makes the wakers call wakeprocs is not zero, although wakers zero it,
\* sleepers that return too early count themselves again, and a process that a
\* signal ended counts down a counter that may not count it any more.
THEOREM NoLostWakeup == Spec => []SleepersCounted
  <1>1. Init => TypeOK /\ SleepersCounted
    BY InitType, InitCounted
  <1>2. (TypeOK /\ SleepersCounted) /\ [Next]_vars => (TypeOK /\ SleepersCounted)'
    BY NextType, NextCounted
  <1> QED
    BY <1>1, <1>2, PTL DEF Spec
-----------------------------------------------------------------------------
(* What a call relies on while sets come and go *)

\* Nobody else runs while a process is where it cannot give the processor up
OneRuns == \A p, q \in Proc : p # q /\ pc[p] \in NoPreempt => pc[q] \notin NoPreempt

\* An id under which no set exists now is not held by a call, so the next set
\* of the slot is not taken for the one that was removed
IdsNotReused ==
    \A s \in Slot : ~ sema[s].alloc =>
        \A q \in Proc : pc[q] \notin {"user", "exit"} =>
            call[q].id # [seq |-> sema[s].seq, slot |-> s]

\* What a process inside a call relies on: semconv's answer until it sleeps,
\* and after the first copyin that its operations name semaphores of the set
OnSet(p) ==
    /\ pc[p] \in {"copyin", "ops", "backout", "setall", "ipcset"} => Semconv(call[p].id)
    /\ pc[p] \in {"ops", "backout", "sleep"} => call[p].again
    /\ pc[p] \in {"copyin", "ops", "backout", "sleep"} /\ call[p].again /\ Semconv(call[p].id) =>
         \A i \in 1 .. Len(call[p].sops) : Op(p, i).num < sema[call[p].id.slot].nsems
    /\ pc[p] = "backout" => call[p].chan[2] \in UnitsOf(call[p].id.slot)

SetsOK ==
    /\ SetsDisjoint /\ OneRuns /\ IdsNotReused /\ SleepersOnLiveSets
    /\ \A p \in Proc : OnSet(p)

Kept == TypeOK /\ SleepersCounted /\ SetsOK
-----------------------------------------------------------------------------
(* Sets *)

\* Where sets do not change, semconv's answers do not.
LEMMA SameSets ==
    ASSUME UNCHANGED sema
    PROVE  /\ \A id : Semconv(id)' = Semconv(id)
           /\ \A s : UnitsOf(s)' = UnitsOf(s)
BY DEF Semconv, UnitsOf

\* No process holds the processor twice.
LEMMA OneStillRuns ==
    ASSUME OneRuns, NEW p \in Proc, MayRun(p) \/ pc'[p] = pc[p],
           \A q \in Proc : q # p => pc'[q] = pc[q]
    PROVE  OneRuns'
BY DEF OneRuns, MayRun, NoPreempt

\* The step of one process that leaves the sets alone.
LEMMA SetsStay ==
    ASSUME SetsOK, UNCHANGED setVars, NEW p \in Proc, MayRun(p) \/ pc'[p] = pc[p],
           \A q \in Proc : q # p => pc'[q] = pc[q] /\ call'[q] = call[q],
           \A q \in Proc : q # p /\ Asleep(q)' => wchan'[q] = wchan[q],
           Asleep(p)' => /\ Semconv(call'[p].id)
                         /\ wchan'[p][2] \in UnitsOf(call'[p].id.slot),
           OnSet(p)',
           pc'[p] \notin {"user", "exit"} =>
              \/ pc[p] \notin {"user", "exit"} /\ call'[p].id = call[p].id
              \/ Semconv(call'[p].id)
    PROVE  SetsOK'
<1>1. sema' = sema /\ semmap' = semmap
  BY DEF setVars
<1>2. /\ \A id : Semconv(id)' = Semconv(id)
      /\ \A s : UnitsOf(s)' = UnitsOf(s)
  BY <1>1, SameSets
<1>3. SetsDisjoint'
  BY <1>1, <1>2 DEF SetsOK, SetsDisjoint
<1>4. OneRuns'
  BY OneStillRuns DEF SetsOK
<1>5. IdsNotReused'
  <2> SUFFICES ASSUME NEW s \in Slot, ~ sema[s].alloc, NEW q \in Proc,
                      pc'[q] \notin {"user", "exit"},
                      call'[q].id = [seq |-> sema[s].seq, slot |-> s]
               PROVE  FALSE
    BY <1>1 DEF IdsNotReused
  <2>1. ~ Semconv(call'[q].id)
    BY <1>1 DEF Semconv
  <2> QED BY <2>1 DEF SetsOK, IdsNotReused
<1>6. SleepersOnLiveSets'
  <2> SUFFICES ASSUME NEW q \in Proc, Asleep(q)'
               PROVE  Semconv(call'[q].id) /\ wchan'[q][2] \in UnitsOf(call'[q].id.slot)
    BY <1>1 DEF SleepersOnLiveSets, Semconv, UnitsOf
  <2>1. CASE q # p
    BY <2>1 DEF SetsOK, SleepersOnLiveSets, Asleep
  <2> QED BY <2>1
<1>7. ASSUME NEW q \in Proc PROVE OnSet(q)'
  <2>1. CASE q # p
    <3>1. pc'[q] = pc[q] /\ call'[q] = call[q] /\ OnSet(q)
      BY <2>1 DEF SetsOK
    <3> QED BY <1>1, <3>1 DEF OnSet, Semconv, UnitsOf, Op
  <2> QED BY <2>1
<1> QED BY <1>3, <1>4, <1>5, <1>6, <1>7 DEF SetsOK

\* semget: the set takes a slot that no call and no sleeper knows, and units
\* from the map.
LEMMA SemgetSets ==
    ASSUME Kept, NEW p \in Proc, NEW key \in Key, NEW n \in Nat, Semget(p, key, n)
    PROVE  SetsOK'
<1>1. UNCHANGED <<pc, call, wchan>>
  BY DEF Semget, procVars, waitVars
<1>2. PICK s \in Slot :
        /\ ~ sema[s].alloc
        /\ \/ /\ n \in 1 .. SEMMSL
              /\ \E a \in Windows(semmap, n) :
                   /\ sema' = [sema EXCEPT ![s] = [@ EXCEPT !.alloc = TRUE, !.key = key,
                                                            !.base = a, !.nsems = n]]
                   /\ semmap' = semmap \ (a .. a + n - 1)
           \/ sema' = [sema EXCEPT ![s].key = key] /\ UNCHANGED semmap
  BY DEF Semget
<1>3. sema \in [Slot -> Header] /\ sema[s] \in Header /\ call \in [Proc -> Call]
  BY DEF Kept, TypeOK, SetsType, ProcType
<1>4. /\ \A t \in Slot : t # s => sema'[t] = sema[t]
      /\ sema'[s].seq = sema[s].seq
  BY <1>2, <1>3 DEF Header
<1>5. ASSUME NEW q \in Proc, pc[q] \notin {"user", "exit"}
      PROVE  /\ Semconv(call[q].id)' = Semconv(call[q].id)
             /\ Semconv(call[q].id) => call[q].id.slot # s
  <2>1. call[q].id \in Id
    BY <1>3 DEF Call
  <2>2. call[q].id = [seq |-> call[q].id.seq, slot |-> call[q].id.slot] /\ call[q].id.slot \in Slot
    BY <2>1 DEF Id
  <2>3. call[q].id # [seq |-> sema[s].seq, slot |-> s]
    BY <1>2, <1>5 DEF Kept, SetsOK, IdsNotReused
  <2> QED BY <1>1, <1>2, <1>4, <2>2, <2>3 DEF Semconv
<1>6. \A t \in Slot : t # s => UnitsOf(t)' = UnitsOf(t)
  BY <1>4 DEF UnitsOf
<1>7. SetsDisjoint'
  <2>1. CASE sema' = [sema EXCEPT ![s].key = key] /\ UNCHANGED semmap
    <3>1. sema'[s].alloc = sema[s].alloc
      BY <1>3, <2>1 DEF Header
    <3> QED BY <1>2, <1>4, <1>6, <2>1, <3>1 DEF Kept, SetsOK, SetsDisjoint
  <2>2. ASSUME NEW a \in Windows(semmap, n),
               sema' = [sema EXCEPT ![s] = [@ EXCEPT !.alloc = TRUE, !.key = key,
                                                     !.base = a, !.nsems = n]],
               semmap' = semmap \ (a .. a + n - 1)
        PROVE  SetsDisjoint'
    <3>1. sema'[s].base = a /\ sema'[s].nsems = n
      BY <1>3, <2>2 DEF Header
    <3>2. UnitsOf(s)' = a .. a + n - 1 /\ UnitsOf(s)' \subseteq semmap
      BY <3>1 DEF UnitsOf, Windows
    <3>3. UnitsOf(s)' \cap semmap' = {}
      BY <2>2, <3>2
    <3>4. ASSUME NEW t \in Slot \ {s}, sema[t].alloc
          PROVE  UnitsOf(t) \cap semmap' = {} /\ UnitsOf(t) \cap UnitsOf(s)' = {}
      BY <2>2, <3>2, <3>4 DEF Kept, SetsOK, SetsDisjoint
    <3>5. \A t \in Slot \ {s} : UnitsOf(t)' = UnitsOf(t) /\ sema'[t].alloc = sema[t].alloc
      BY <1>4, <1>6
    <3>6. \A t, v \in Slot \ {s} : t # v /\ sema[t].alloc /\ sema[v].alloc => UnitsOf(t) \cap UnitsOf(v) = {}
      BY DEF Kept, SetsOK, SetsDisjoint
    <3> QED BY <3>3, <3>4, <3>5, <3>6 DEF SetsDisjoint
  <2> QED BY <1>2, <2>1, <2>2
<1>8. OneRuns'
  BY <1>1 DEF Kept, SetsOK, OneRuns, NoPreempt
<1>9. IdsNotReused'
  BY <1>1, <1>2, <1>4 DEF Kept, SetsOK, IdsNotReused
<1>10. SleepersOnLiveSets'
  <2> SUFFICES ASSUME NEW q \in Proc, Asleep(q)
               PROVE  Semconv(call[q].id)' /\ wchan[q][2] \in UnitsOf(call[q].id.slot)'
    BY <1>1 DEF SleepersOnLiveSets, Asleep, Semconv, UnitsOf
  <2>1. pc[q] = "sleep" /\ Semconv(call[q].id) /\ wchan[q][2] \in UnitsOf(call[q].id.slot)
    BY DEF Kept, SetsOK, SleepersOnLiveSets, TypeOK, LocalType
  <2>2. call[q].id.slot \in Slot
    BY <1>3 DEF Call, Id
  <2> QED BY <1>1, <1>5, <1>6, <2>1, <2>2 DEF UnitsOf
<1>11. ASSUME NEW q \in Proc PROVE OnSet(q)'
  <2>1. CASE pc[q] \in {"user", "exit"}
    BY <1>1, <2>1 DEF OnSet
  <2>2. CASE pc[q] \notin {"user", "exit"}
    <3>1. call[q].id.slot \in Slot /\ OnSet(q)
      BY <1>3 DEF Call, Id, Kept, SetsOK
    <3>2. /\ Semconv(call[q].id)' = Semconv(call[q].id)
          /\ Semconv(call[q].id) => sema'[call[q].id.slot] = sema[call[q].id.slot]
      BY <1>4, <1>5, <2>2, <3>1
    <3> QED BY <1>1, <3>1, <3>2 DEF OnSet, UnitsOf, Op, Semconv
  <2> QED BY <2>1, <2>2
<1> QED BY <1>7, <1>8, <1>9, <1>10, <1>11 DEF SetsOK

\* With copyin that does not sleep, a process that lets others run is in user
\* mode or asleep.
LEMMA OthersSleep ==
    ASSUME TypeOK, CopyinSleeps = FALSE, NEW p \in Proc, MayRun(p), NEW q \in Proc, q # p
    PROVE  pc[q] \in {"user", "sleep"}
BY DEF MayRun, NoPreempt, TypeOK, ProcType, Pcs

\* IPC_RMID: nobody works on the set, every sleeper of it is woken, and no
\* call holds the id the slot goes on with.
LEMMA RmidSets ==
    ASSUME Kept, CopyinSleeps = FALSE, NEW p \in Proc, NEW id \in Id, SemctlRmid(p, id)
    PROVE  SetsOK'
<1>1. /\ UNCHANGED <<pc, call>> /\ pc[p] = "user" /\ MayRun(p)
      /\ Semconv(id) /\ NotHeld([id EXCEPT !.seq = NextSeq(@)])
      /\ sema' = [sema EXCEPT ![id.slot] = [@ EXCEPT !.alloc = FALSE, !.seq = NextSeq(id.seq)]]
      /\ semmap' = Freed(semmap, UnitsOf(id.slot), SEMMAP - 2)
      /\ WakeCounted({"ncnt", "zcnt"} \X UnitsOf(id.slot))
  BY DEF SemctlRmid, procVars, At
<1>2. id.slot \in Slot /\ id = [seq |-> id.seq, slot |-> id.slot]
  BY DEF Id
<1>3. /\ sema \in [Slot -> Header] /\ sema[id.slot] \in Header
      /\ call \in [Proc -> Call] /\ wchan \in [Proc -> Chan \cup {NoChan}]
  BY <1>2 DEF Kept, TypeOK, SetsType, ProcType, WaitType
<1>4. /\ \A t \in Slot : t # id.slot => sema'[t] = sema[t]
      /\ ~ sema'[id.slot].alloc /\ sema'[id.slot].seq = NextSeq(id.seq)
  BY <1>1, <1>2, <1>3 DEF Header
<1>5. \A q \in Proc : pc[q] \in {"user", "sleep"}
  BY <1>1, OthersSleep DEF Kept
<1>6. \A t \in Slot : t # id.slot => UnitsOf(t)' = UnitsOf(t)
  BY <1>4 DEF UnitsOf
<1>7. ASSUME NEW q \in Proc, Semconv(call[q].id)'
      PROVE  /\ call[q].id.slot \in Slot \ {id.slot}
             /\ sema'[call[q].id.slot] = sema[call[q].id.slot]
  <2>1. call'[q].id.slot \in Slot
    BY <1>1, <1>3 DEF Call, Id
  <2> QED BY <1>1, <1>4, <1>7, <2>1 DEF Semconv
<1>8. SetsDisjoint'
  <2>1. semmap' \subseteq semmap \cup UnitsOf(id.slot)
    BY <1>1 DEF Freed
  <2>2. sema[id.slot].alloc
    BY <1>1 DEF Semconv
  <2>3. ASSUME NEW t \in Slot \ {id.slot}, sema[t].alloc
        PROVE  UnitsOf(t) \cap semmap' = {}
    BY <1>2, <2>1, <2>2, <2>3 DEF Kept, SetsOK, SetsDisjoint
  <2>4. \A t, v \in Slot \ {id.slot} : t # v /\ sema[t].alloc /\ sema[v].alloc => UnitsOf(t) \cap UnitsOf(v) = {}
    BY DEF Kept, SetsOK, SetsDisjoint
  <2> QED BY <1>4, <1>6, <2>3, <2>4 DEF SetsDisjoint
<1>9. OneRuns'
  BY <1>1 DEF Kept, SetsOK, OneRuns, NoPreempt
<1>10. IdsNotReused'
  <2> SUFFICES ASSUME NEW s \in Slot, ~ sema'[s].alloc, NEW q \in Proc, pc[q] \notin {"user", "exit"}
               PROVE  call[q].id # [seq |-> sema'[s].seq, slot |-> s]
    BY <1>1 DEF IdsNotReused
  <2>1. CASE s # id.slot
    BY <1>4, <2>1 DEF Kept, SetsOK, IdsNotReused
  <2>2. CASE s = id.slot
    <3>1. [id EXCEPT !.seq = NextSeq(@)] = [seq |-> NextSeq(id.seq), slot |-> id.slot]
      BY <1>2
    <3> QED BY <1>1, <1>4, <2>2, <3>1 DEF NotHeld
  <2> QED BY <2>1, <2>2
<1>11. SleepersOnLiveSets'
  <2> SUFFICES ASSUME NEW q \in Proc, Asleep(q)'
               PROVE  Semconv(call[q].id)' /\ wchan'[q][2] \in UnitsOf(call[q].id.slot)'
    BY <1>1 DEF SleepersOnLiveSets, Semconv, UnitsOf
  <2>1. /\ Asleep(q) /\ wchan'[q] = wchan[q] /\ wchan[q] \in Chan
        /\ wchan[q] \notin {c \in {"ncnt", "zcnt"} \X UnitsOf(id.slot) : cnt[c] > 0}
    BY <1>1, <1>3 DEF WakeCounted, Wakeprocs, Asleep
  <2>2. Semconv(call[q].id) /\ wchan[q][2] \in UnitsOf(call[q].id.slot) /\ cnt[wchan[q]] > 0
    BY <2>1 DEF Kept, SetsOK, SleepersOnLiveSets, SleepersCounted
  <2>3. wchan[q] \notin {"ncnt", "zcnt"} \X UnitsOf(id.slot)
    BY <2>1, <2>2
  <2>4. wchan[q] = <<wchan[q][1], wchan[q][2]>> /\ wchan[q][1] \in {"ncnt", "zcnt"}
    BY <2>1 DEF Chan
  <2>5. wchan[q][2] \notin UnitsOf(id.slot)
    BY <2>3, <2>4
  <2>6. call[q].id.slot \in Slot /\ call[q].id.slot # id.slot
    BY <1>3, <2>2, <2>5 DEF Call, Id
  <2> QED BY <1>1, <1>4, <2>1, <2>2, <2>6 DEF Semconv, UnitsOf
<1>12. ASSUME NEW q \in Proc PROVE OnSet(q)'
  <2>1. OnSet(q) /\ pc[q] \in {"user", "sleep"}
    BY <1>5 DEF Kept, SetsOK
  <2> QED BY <1>1, <1>7, <2>1 DEF OnSet, Op, Semconv
<1> QED BY <1>8, <1>9, <1>10, <1>11, <1>12 DEF SetsOK

\* Steps that change neither the sets nor where the process is and what it
\* holds, and put nobody to sleep: SETVAL, a semaphore operation, its backing
\* out, an adjustment on exit, a signal.
LEMMA SetsStayInPlace ==
    ASSUME Kept, UNCHANGED <<setVars, pc>>,
           \A q \in Proc : call'[q].id = call[q].id /\ call'[q].sops = call[q].sops
                           /\ call'[q].again = call[q].again /\ call'[q].chan = call[q].chan,
           \A q \in Proc : Asleep(q)' => wchan'[q] = wchan[q]
    PROVE  SetsOK'
<1>1. sema' = sema /\ semmap' = semmap /\ pc' = pc
  BY DEF setVars
<1>2. SetsDisjoint'
  BY <1>1 DEF Kept, SetsOK, SetsDisjoint, UnitsOf
<1>3. OneRuns' /\ IdsNotReused'
  BY <1>1 DEF Kept, SetsOK, OneRuns, IdsNotReused, NoPreempt
<1>4. SleepersOnLiveSets'
  BY <1>1 DEF Kept, SetsOK, SleepersOnLiveSets, Semconv, UnitsOf, Asleep
<1>5. ASSUME NEW q \in Proc PROVE OnSet(q)'
  <2>1. OnSet(q)
    BY DEF Kept, SetsOK
  <2> QED BY <1>1, <2>1 DEF OnSet, Semconv, UnitsOf, Op
<1> QED BY <1>2, <1>3, <1>4, <1>5 DEF SetsOK

\* What WakeCounted and an interrupted sleep leave of the queues.
LEMMA OnlyWakes ==
    ASSUME UNCHANGED waitVars \/ UNCHANGED wchan \/ \E C : Wakeprocs(C) \/ WakeCounted(C), NEW q \in Proc, Asleep(q)'
    PROVE  wchan'[q] = wchan[q]
BY DEF waitVars, Wakeprocs, WakeCounted, Asleep

\* The steps of one process that leave the sets and wake others only.
LEMMA MoveSets ==
    ASSUME Kept, UNCHANGED setVars, NEW p \in Proc, MayRun(p) \/ pc'[p] = pc[p], ~ Asleep(p),
           UNCHANGED waitVars \/ UNCHANGED wchan \/ \E C : Wakeprocs(C) \/ WakeCounted(C),
           \A q \in Proc : q # p => pc'[q] = pc[q] /\ call'[q] = call[q],
           OnSet(p)',
           pc'[p] \notin {"user", "exit"} =>
              \/ pc[p] \notin {"user", "exit"} /\ call'[p].id = call[p].id
              \/ Semconv(call'[p].id)
    PROVE  SetsOK'
<1>1. \A q \in Proc : Asleep(q)' => wchan'[q] = wchan[q]
  BY OnlyWakes
<1>2. ~ Asleep(p)'
  BY <1>1 DEF Asleep
<1> QED BY <1>1, <1>2, SetsStay DEF Kept

\* A system call keeps the sets and what the processes in calls know of them.
LEMMA RequestSets ==
    ASSUME Kept, CopyinSleeps = FALSE, NEW p \in Proc, Request(p)
    PROVE  SetsOK'
<1>0. /\ pc \in [Proc -> Pcs] /\ call \in [Proc -> Call]
      /\ pc[p] # "sleep" => ~ Asleep(p)
  BY DEF Kept, TypeOK, ProcType, LocalType
<1>1. ASSUME NEW key \in Key, NEW n \in 0 .. SEMMSL + 1, Semget(p, key, n)
      PROVE  SetsOK'
  BY <1>1, SemgetSets, SizesAssumption
<1>2. ASSUME NEW id \in Id, SemctlRmid(p, id) PROVE SetsOK'
  BY <1>2, RmidSets
<1>3. ASSUME NEW id \in Id, NEW num \in Num, NEW val \in 0 .. SEMVMX,
             SemctlSetval(p, id, num, val)
      PROVE  SetsOK'
  <2>1. UNCHANGED <<setVars, pc, call>> /\ \E C : WakeCounted(C)
    BY <1>3 DEF SemctlSetval, procVars
  <2>2. \A q \in Proc : Asleep(q)' => wchan'[q] = wchan[q]
    BY <2>1, OnlyWakes
  <2> QED BY <2>1, <2>2, SetsStayInPlace
<1>4. ASSUME NEW id \in Id, NEW cmd, NEW where \in {"setall", "ipcset"},
             SemctlCopyin(p, id, cmd, where)
      PROVE  SetsOK'
  <2>1. /\ pc' = [pc EXCEPT ![p] = where] /\ MayRun(p) /\ pc[p] = "user" /\ Semconv(id)
        /\ call' = [call EXCEPT ![p] = [NoCall EXCEPT !.id = id]]
        /\ UNCHANGED setVars /\ UNCHANGED waitVars
    BY <1>4 DEF SemctlCopyin, Goto, At
  <2>2. pc'[p] = where /\ call'[p].id = id
    BY <1>0, <2>1 DEF NoCall
  <2>3. Semconv(call'[p].id) /\ sema' = sema
    BY <2>1, <2>2 DEF setVars
  <2>4. OnSet(p)'
    BY <2>2, <2>3 DEF OnSet, Semconv
  <2> QED BY <1>0, <2>1, <2>3, <2>4, MoveSets
<1>5. ASSUME NEW id \in Id, NEW sops \in Vectors, Semop(p, id, sops)
      PROVE  SetsOK'
  <2>1. /\ pc' = [pc EXCEPT ![p] = "copyin"] /\ MayRun(p) /\ pc[p] = "user" /\ Semconv(id)
        /\ call' = [call EXCEPT ![p] = [NoCall EXCEPT !.id = id, !.sops = sops]]
        /\ UNCHANGED setVars /\ UNCHANGED waitVars
    BY <1>5 DEF Semop, Goto, At
  <2>2. pc'[p] = "copyin" /\ call'[p].id = id /\ call'[p].again = FALSE
    BY <1>0, <2>1 DEF NoCall
  <2>3. Semconv(call'[p].id) /\ sema' = sema
    BY <2>1, <2>2 DEF setVars
  <2>4. OnSet(p)'
    BY <2>2, <2>3 DEF OnSet, Semconv
  <2> QED BY <1>0, <2>1, <2>3, <2>4, MoveSets
<1>6. ASSUME Semexit(p) PROVE SetsOK'
  <2>1. /\ pc' = [pc EXCEPT ![p] = "exit"] /\ MayRun(p) /\ pc[p] = "user"
        /\ UNCHANGED setVars /\ UNCHANGED waitVars /\ UNCHANGED call
    BY <1>6 DEF Semexit, Goto, At
  <2>2. pc'[p] = "exit"
    BY <1>0, <2>1
  <2>3. OnSet(p)'
    BY <2>2 DEF OnSet
  <2> QED BY <1>0, <2>1, <2>2, <2>3, MoveSets
<1> QED
  BY <1>1, <1>2, <1>3, <1>4, <1>5, <1>6 DEF Request

\* What each step inside the kernel leaves of the process that takes it.
LEMMA ContinueSets ==
    ASSUME Kept, CopyinSleeps = FALSE, NEW p \in Proc, Continue(p)
    PROVE  SetsOK'
<1>0. /\ pc \in [Proc -> Pcs] /\ call \in [Proc -> Call] /\ sema \in [Slot -> Header]
      /\ pc[p] # "sleep" => ~ Asleep(p)
      /\ OnSet(p)
      /\ call[p].id.slot \in Slot
  BY DEF Kept, TypeOK, ProcType, LocalType, SetsOK, SetsType, Call, Id
<1>1. CASE SemctlSetall(p) \/ SemctlFails(p) \/ SemopReturn(p)
  <2>1. /\ pc' = [pc EXCEPT ![p] = "user"] /\ MayRun(p) /\ pc[p] # "sleep"
        /\ call' = [call EXCEPT ![p] = NoCall]
        /\ UNCHANGED setVars /\ (UNCHANGED waitVars \/ \E C : WakeCounted(C))
    BY <1>1 DEF SemctlSetall, SemctlFails, SemopReturn, Return, Goto, At
  <2>2. pc'[p] = "user"
    BY <1>0, <2>1
  <2>3. OnSet(p)'
    BY <2>2 DEF OnSet
  <2> QED BY <1>0, <2>1, <2>2, <2>3, MoveSets
<1>2. CASE SemctlIpcset(p)
  <2>1. /\ pc' = [pc EXCEPT ![p] = "user"] /\ MayRun(p) /\ pc[p] = "ipcset"
        /\ call' = [call EXCEPT ![p] = NoCall]
        /\ sema' = [sema EXCEPT ![call[p].id.slot].alloc = TRUE]
        /\ UNCHANGED semmap /\ UNCHANGED waitVars
    BY <1>2 DEF SemctlIpcset, Return, Goto, At
  <2>2. sema[call[p].id.slot].alloc = TRUE /\ sema[call[p].id.slot] \in Header
    BY <1>0, <2>1 DEF OnSet, Semconv, Header
  <2>3. [sema[call[p].id.slot] EXCEPT !.alloc = TRUE] = sema[call[p].id.slot]
    BY <2>2 DEF Header
  <2>4. sema' = [sema EXCEPT ![call[p].id.slot] = [sema[call[p].id.slot] EXCEPT !.alloc = TRUE]]
    BY <2>1
  <2>5. UNCHANGED setVars
    BY <1>0, <2>1, <2>3, <2>4 DEF setVars
  <2>6. pc'[p] = "user"
    BY <1>0, <2>1
  <2>7. OnSet(p)'
    BY <2>6 DEF OnSet
  <2> QED BY <1>0, <2>1, <2>5, <2>6, <2>7, MoveSets
<1>3. CASE SemopCopyin(p)
  <2>1. /\ MayRun(p) /\ pc[p] = "copyin" /\ UNCHANGED setVars /\ UNCHANGED waitVars
    BY <1>3 DEF SemopCopyin, At
  <2>2. sema' = sema
    BY <2>1 DEF setVars
  <2>3. CASE /\ VerifyError(p) = "ok" /\ Goto(p, "ops")
             /\ call' = [call EXCEPT ![p] = [@ EXCEPT !.again = TRUE, !.n = 0,
                                                      !.chan = NoChan, !.error = "ok"]]
    <3>1. call[p] \in Call
      BY <1>0
    <3>2. /\ pc' = [pc EXCEPT ![p] = "ops"] /\ pc'[p] = "ops"
          /\ call'[p].id = call[p].id /\ call'[p].sops = call[p].sops /\ call'[p].again = TRUE
      BY <1>0, <2>3, <3>1 DEF Call, Goto
    <3>3. ASSUME NEW i \in 1 .. Len(call[p].sops)
          PROVE  Op(p, i).num < sema[call[p].id.slot].nsems
      <4>1. CASE call[p].again
        BY <1>0, <2>1, <3>3, <4>1 DEF OnSet
      <4>2. CASE ~ call[p].again
        <5>1. ~ \E j \in 1 .. Len(call[p].sops) : call[p].sops[j].num >= sema[call[p].id.slot].nsems
          BY <2>3, <3>3, <4>2 DEF VerifyError
        <5>2. call[p].sops[i] \in Sembuf
          BY <3>1, <3>3 DEF Call
        <5>3. call[p].sops[i].num \in Int
          BY <5>2, SizesAssumption DEF Sembuf, Num
        <5>4. sema[call[p].id.slot] \in Header
          BY <1>0, <3>1 DEF Call, Id
        <5>5. sema[call[p].id.slot].nsems \in Int
          BY <5>4, SizesAssumption DEF Header
        <5> QED BY <5>1, <5>3, <5>5 DEF Op
      <4> QED BY <4>1, <4>2
    <3>4. OnSet(p)'
      BY <1>0, <2>1, <2>2, <3>2, <3>3 DEF OnSet, Semconv, Op
    <3>5. \A q \in Proc : q # p => pc'[q] = pc[q] /\ call'[q] = call[q]
      BY <1>0, <2>3, <3>2
    <3> QED BY <1>0, <2>1, <3>2, <3>4, <3>5, MoveSets
  <2>4. ASSUME NEW error, Fail(p, error) PROVE SetsOK'
    <3>1. /\ pc' = [pc EXCEPT ![p] = "out"] /\ call' = [call EXCEPT ![p].error = error]
      BY <2>4 DEF Fail, Goto
    <3>2. pc'[p] = "out" /\ call'[p].id = call[p].id
      BY <1>0, <3>1 DEF Call
    <3>3. OnSet(p)'
      BY <3>2 DEF OnSet
    <3> QED BY <1>0, <2>1, <3>1, <3>2, <3>3, MoveSets
  <2> QED BY <1>3, <2>3, <2>4 DEF SemopCopyin
<1>4. CASE SemopApply(p) \/ Semundo(p)
  <2>1. /\ UNCHANGED <<setVars, pc>> /\ (UNCHANGED waitVars \/ \E C : WakeCounted(C))
        /\ \E i : call' = [call EXCEPT ![p].n = i]
    BY <1>4 DEF SemopApply, Semundo
  <2>2. \A q \in Proc : call'[q].id = call[q].id /\ call'[q].sops = call[q].sops
                        /\ call'[q].again = call[q].again /\ call'[q].chan = call[q].chan
    BY <1>0, <2>1 DEF Call
  <2>3. \A q \in Proc : Asleep(q)' => wchan'[q] = wchan[q]
    BY <2>1, OnlyWakes
  <2> QED BY <2>1, <2>2, <2>3, SetsStayInPlace
<1>5. CASE SemopBlock(p)
  <2> DEFINE i == call[p].n + 1
             a == IF Op(p, i).op < 0 THEN "ncnt" ELSE "zcnt"
  <2>1. PICK error : call' = [call EXCEPT ![p] = [@ EXCEPT !.error = error, !.chan = <<a, OpUnit(p, i)>>]]
    BY <1>5 DEF SemopBlock
  <2>2. /\ MayRun(p) /\ pc[p] = "ops" /\ UNCHANGED setVars /\ UNCHANGED waitVars
        /\ pc' = [pc EXCEPT ![p] = "backout"] /\ call[p].n < Len(call[p].sops)
    BY <1>5 DEF SemopBlock, At, Goto
  <2>3. sema' = sema
    BY <2>2 DEF setVars
  <2>4. /\ pc'[p] = "backout" /\ call'[p].id = call[p].id /\ call'[p].sops = call[p].sops
        /\ call'[p].again = call[p].again /\ call'[p].chan = <<a, OpUnit(p, i)>>
    <3>1. call[p] \in Call
      BY <1>0
    <3> QED BY <1>0, <2>1, <2>2, <3>1 DEF Call
  <2>5. i \in 1 .. Len(call[p].sops)
    <3>1. call[p].n \in Nat /\ Len(call[p].sops) \in Nat
      BY <1>0 DEF Call
    <3> QED BY <2>2, <3>1
  <2>6. Op(p, i).num < sema[call[p].id.slot].nsems /\ Op(p, i).num \in Num
    <3>1. Op(p, i) \in Sembuf
      BY <2>5, OpType DEF Kept
    <3> QED BY <1>0, <2>2, <2>5, <3>1 DEF OnSet, Sembuf
  <2>7. OpUnit(p, i) \in UnitsOf(call[p].id.slot)
    <3>1. sema[call[p].id.slot].base \in Int /\ sema[call[p].id.slot].nsems \in Int
      BY <1>0 DEF Header
    <3> QED BY <2>6, <3>1, SizesAssumption DEF OpUnit, UnitOf, UnitsOf, Num
  <2>8. OnSet(p)'
    <3>1. call'[p].chan[2] = OpUnit(p, i)
      BY <2>4
    <3> QED BY <1>0, <2>2, <2>3, <2>4, <2>7, <3>1 DEF OnSet, Semconv, Op, UnitsOf
  <2>9. \A q \in Proc : q # p => pc'[q] = pc[q] /\ call'[q] = call[q]
    BY <1>0, <2>1, <2>2
  <2> QED BY <1>0, <2>2, <2>4, <2>8, <2>9, MoveSets
<1>6. CASE SemopDone(p) \/ SemopFail(p) \/ SemopInterrupted(p)
             \/ (SemopAgain(p) /\ ~ Semconv(call[p].id))
  <2>1. /\ MayRun(p) /\ ~ Asleep(p) /\ pc[p] \notin {"user", "exit"}
        /\ pc' = [pc EXCEPT ![p] = "out"]
        /\ UNCHANGED call \/ \E error : call' = [call EXCEPT ![p].error = error]
        /\ UNCHANGED setVars /\ (UNCHANGED waitVars \/ UNCHANGED wchan \/ \E C : Wakeprocs(C))
    BY <1>0, <1>6 DEF SemopDone, SemopFail, SemopAgain, SemopInterrupted, Fail, Goto, At, waitVars
  <2>2. pc'[p] = "out" /\ call'[p].id = call[p].id
    BY <1>0, <2>1 DEF Call
  <2>3. OnSet(p)'
    BY <2>2 DEF OnSet
  <2> QED BY <1>0, <2>1, <2>2, <2>3, MoveSets
<1>7. CASE SemopAgain(p) /\ Semconv(call[p].id)
  <2>1. /\ MayRun(p) /\ ~ Asleep(p) /\ pc[p] = "sleep"
        /\ pc' = [pc EXCEPT ![p] = "copyin"] /\ UNCHANGED call
        /\ UNCHANGED setVars /\ UNCHANGED waitVars
    BY <1>7 DEF SemopAgain, Goto, At
  <2>2. pc'[p] = "copyin"
    BY <1>0, <2>1
  <2>3. OnSet(p)'
    BY <1>0, <1>7, <2>1, <2>2 DEF OnSet, setVars, Semconv, Op
  <2> QED BY <1>0, <2>1, <2>2, <2>3, MoveSets
<1>8. CASE SemopSleep(p)
  <2>1. /\ MayRun(p) /\ pc[p] = "backout" /\ pc' = [pc EXCEPT ![p] = "sleep"]
        /\ UNCHANGED setVars /\ UNCHANGED call /\ wchan' = [wchan EXCEPT ![p] = call[p].chan]
    BY <1>8 DEF SemopSleep, Goto, At, GoToSleep
  <2>2. sema' = sema /\ pc'[p] = "sleep" /\ wchan'[p] = call[p].chan
    BY <1>0, <2>1 DEF setVars, Kept, TypeOK, WaitType
  <2>3. OnSet(p)'
    BY <1>0, <2>1, <2>2 DEF OnSet, Semconv, Op
  <2>4. Semconv(call'[p].id) /\ wchan'[p][2] \in UnitsOf(call'[p].id.slot)
    BY <1>0, <2>1, <2>2 DEF OnSet
  <2>5. \A q \in Proc : q # p => pc'[q] = pc[q] /\ call'[q] = call[q] /\ wchan'[q] = wchan[q]
    BY <1>0, <2>1 DEF Kept, TypeOK, WaitType
  <2> QED BY <2>1, <2>2, <2>3, <2>4, <2>5, SetsStay DEF Kept
<1>9. CASE SemexitAdjust(p)
  <2>1. UNCHANGED <<setVars, pc, call>> /\ (UNCHANGED waitVars \/ \E C : WakeCounted(C))
    BY <1>9 DEF SemexitAdjust, procVars
  <2>2. \A q \in Proc : Asleep(q)' => wchan'[q] = wchan[q]
    BY <2>1, OnlyWakes
  <2> QED BY <2>1, <2>2, SetsStayInPlace
<1>10. CASE SemexitDone(p)
  <2>1. /\ MayRun(p) /\ ~ Asleep(p) /\ pc' = [pc EXCEPT ![p] = "user"] /\ UNCHANGED call
        /\ UNCHANGED setVars /\ UNCHANGED waitVars
    BY <1>0, <1>10 DEF SemexitDone, Goto, At
  <2>2. pc'[p] = "user"
    BY <1>0, <2>1
  <2>3. OnSet(p)'
    BY <2>2 DEF OnSet
  <2> QED BY <1>0, <2>1, <2>2, <2>3, MoveSets
<1> QED
  BY <1>1, <1>2, <1>3, <1>4, <1>5, <1>6, <1>7, <1>8, <1>9, <1>10 DEF Continue

\* Initially there are no sets and no calls.
LEMMA InitKept == Init => Kept
<1> SUFFICES ASSUME Init PROVE Kept
  OBVIOUS
<1>1. SetsOK
  BY DEF Init, SetsOK, SetsDisjoint, OneRuns, IdsNotReused, SleepersOnLiveSets, OnSet, NoPreempt, Asleep
<1> QED BY <1>1, InitType, InitCounted DEF Kept

\* No step takes a set from under a call that works on it.
LEMMA NextKept == CopyinSleeps = FALSE /\ Kept /\ [Next]_vars => Kept'
<1> SUFFICES ASSUME CopyinSleeps = FALSE, Kept, [Next]_vars PROVE SetsOK'
  BY NextType, NextCounted DEF Kept
<1>1. ASSUME NEW p \in Proc, Signal(p) PROVE SetsOK'
  <2>1. UNCHANGED <<setVars, pc, call>> /\ wchan' = [wchan EXCEPT ![p] = NoChan]
    BY <1>1 DEF Signal, Setrun, procVars
  <2>2. \A q \in Proc : Asleep(q)' => wchan'[q] = wchan[q]
    BY <2>1 DEF Asleep, Kept, TypeOK, WaitType
  <2> QED BY <2>1, <2>2, SetsStayInPlace
<1>2. CASE UNCHANGED vars
  BY <1>2, SetsStayInPlace DEF vars, procVars, waitVars, setVars
<1> QED BY <1>1, <1>2, RequestSets, ContinueSets DEF Next

\* The operations of a process in semop's loop or in semundo are on semaphores
\* of the set it called.
LEMMA KeptOnSet == Kept => OpsOnLiveSet
<1> SUFFICES ASSUME Kept, NEW p \in Proc, pc[p] \in {"ops", "backout"}
             PROVE  /\ Semconv(call[p].id)
                    /\ \A i \in 1 .. Len(call[p].sops) : OpUnit(p, i) \in UnitsOf(call[p].id.slot)
  BY DEF OpsOnLiveSet
<1>1. OnSet(p) /\ call[p].id.slot \in Slot /\ sema[call[p].id.slot] \in Header
  BY DEF Kept, SetsOK, TypeOK, SetsType, ProcType, Call, Id
<1>2. Semconv(call[p].id)
  BY <1>1 DEF OnSet
<1>3. ASSUME NEW i \in 1 .. Len(call[p].sops) PROVE OpUnit(p, i) \in UnitsOf(call[p].id.slot)
  <2>1. Op(p, i) \in Sembuf /\ Op(p, i).num < sema[call[p].id.slot].nsems
    BY <1>1, <1>2, <1>3, OpType DEF OnSet, Kept
  <2>2. Op(p, i).num \in Nat
    BY <2>1, SizesAssumption DEF Sembuf, Num
  <2>3. sema[call[p].id.slot].base \in Nat /\ sema[call[p].id.slot].nsems \in Nat
    BY <1>1, SizesAssumption DEF Header
  <2> QED BY <2>1, <2>2, <2>3 DEF OpUnit, UnitOf, UnitsOf
<1> QED BY <1>2, <1>3

\* Kept in every state.
LEMMA AlwaysKept == CopyinSleeps = FALSE => (Spec => []Kept)
<1> SUFFICES ASSUME CopyinSleeps = FALSE PROVE Spec => []Kept
  OBVIOUS
<1>1. Init => Kept
  BY InitKept
<1>2. Kept /\ [Next]_vars => Kept'
  BY NextKept
<1> QED BY <1>1, <1>2, PTL DEF Spec

\* rmalloc and rmfree, and IPC_SET that sets IPC_ALLOC without a second look,
\* give no unit to two sets.
THEOREM SetsKeptApart == CopyinSleeps = FALSE => (Spec => []SetsDisjoint)
<1> SUFFICES ASSUME CopyinSleeps = FALSE PROVE Spec => []SetsDisjoint
  OBVIOUS
<1>1. Kept => SetsDisjoint
  BY DEF Kept, SetsOK
<1> QED BY <1>1, AlwaysKept, PTL

\* IPC_RMID leaves nobody asleep on the set it frees: every sleeper of it is
\* behind a counter that is not zero.
THEOREM NoSleeperLeftBehind == CopyinSleeps = FALSE => (Spec => []SleepersOnLiveSets)
<1> SUFFICES ASSUME CopyinSleeps = FALSE PROVE Spec => []SleepersOnLiveSets
  OBVIOUS
<1>1. Kept => SleepersOnLiveSets
  BY DEF Kept, SetsOK
<1> QED BY <1>1, AlwaysKept, PTL

\* semop's loop and semundo never leave the set, though the operation numbers
\* are checked only after the first copyin.
THEOREM OpsStayOnSet == CopyinSleeps = FALSE => (Spec => []OpsOnLiveSet)
BY KeptOnSet, AlwaysKept, PTL
-----------------------------------------------------------------------------
(* Undo structures *)

UndoOK ==
    /\ IsFiniteSet(undoers) /\ Cardinality(undoers) <= SEMMNU
    /\ \A p \in Proc :
         /\ IsFiniteSet(Entries(p))
         /\ Cardinality(Entries(p)) <= IF p \in undoers THEN SEMUME ELSE 0
         /\ \A e \in Entries(p) : Semconv(e[1]) /\ e[2] < sema[e[1].slot].nsems

\* Entries only go.
LEMMA UndoShrinks ==
    ASSUME UndoOK, undoers' = undoers,
           \A q \in Proc : Entries(q)' \subseteq Entries(q),
           \A q \in Proc : \A e \in Entries(q)' : Semconv(e[1])' /\ sema'[e[1].slot] = sema[e[1].slot]
    PROVE  UndoOK'
<1> SUFFICES ASSUME NEW q \in Proc
             PROVE  /\ IsFiniteSet(Entries(q)')
                    /\ Cardinality(Entries(q)') <= IF q \in undoers THEN SEMUME ELSE 0
                    /\ \A e \in Entries(q)' : Semconv(e[1])' /\ e[2] < sema'[e[1].slot].nsems
  BY DEF UndoOK, Semconv
<1>1. /\ IsFiniteSet(Entries(q)) /\ Cardinality(Entries(q)) <= IF q \in undoers THEN SEMUME ELSE 0
      /\ \A e \in Entries(q) : Semconv(e[1]) /\ e[2] < sema[e[1].slot].nsems
  BY DEF UndoOK
<1>2. PICK E : E = Entries(q)'
  OBVIOUS
<1>3. E \subseteq Entries(q)
  BY <1>2
<1>4. IsFiniteSet(E) /\ Cardinality(E) <= Cardinality(Entries(q))
  BY <1>1, <1>3, FS_Subset, Zenon
<1>5. Cardinality(E) \in Nat /\ Cardinality(Entries(q)) \in Nat
  BY <1>1, <1>4, FS_CardinalityType, Zenon
<1>6. Cardinality(E) <= IF q \in undoers THEN SEMUME ELSE 0
  BY <1>1, <1>4, <1>5, SizesAssumption
<1>7. \A e \in Entries(q)' : Semconv(e[1])' /\ e[2] < sema'[e[1].slot].nsems
  BY <1>1
<1> QED BY <1>2, <1>4, <1>6, <1>7

\* The steps that touch neither sets nor undo structures.
LEMMA UndoStays ==
    ASSUME UndoOK, UNCHANGED <<sema, undoVars>>
    PROVE  UndoOK'
BY DEF UndoOK, undoVars, Entries, Semconv

\* semunrm adds no entry, and leaves none for the semaphores it is called for.
LEMMA SemunrmEntries ==
    ASSUME UndoType, NEW id, NEW low, NEW high, Semunrm(id, low, high), NEW q \in Proc
    PROVE  /\ Entries(q)' \subseteq Entries(q)
           /\ \A e \in Entries(q)' : ~ (e[1] = id /\ e[2] \in low .. high)
BY DEF Semunrm, Entries, UndoType

\* semaoe takes an undo structure and an entry only where there is one left.
LEMMA SemaoeUndo ==
    ASSUME UndoOK, UndoType, UNCHANGED sema, NEW p \in Proc, NEW val \in Int, NEW e \in Entry,
           Semconv(e[1]), e[2] < sema[e[1].slot].nsems, Semaoe(p, val, e)
    PROVE  UndoOK'
<1>1. CASE val # 0 /\ SemaoeError(p, val, e) = "ok"
  <2>1. /\ sem_undo' = [sem_undo EXCEPT ![p][e] = @ - val]
        /\ undoers' = undoers \cup {p}
        /\ p \notin undoers => ~ (Cardinality(undoers) >= SEMMNU)
        /\ e \notin Entries(p) => ~ (Cardinality(Entries(p)) >= SEMUME)
    BY <1>1 DEF Semaoe, SemaoeError, Entries
  <2>2. /\ \A q \in Proc : q # p => Entries(q)' = Entries(q)
        /\ Entries(p)' \subseteq Entries(p) \cup {e}
    BY <2>1 DEF Entries, UndoType
  <2>3. IsFiniteSet(undoers') /\ Cardinality(undoers') <= SEMMNU
    <3>1. CASE p \in undoers
      <4>1. undoers' = undoers
        BY <2>1, <3>1
      <4> QED BY <4>1 DEF UndoOK
    <3>2. CASE p \notin undoers
      <4>1. IsFiniteSet(undoers) /\ Cardinality(undoers) \in Nat
        BY FS_CardinalityType DEF UndoOK
      <4>2. IsFiniteSet(undoers \cup {p}) /\ Cardinality(undoers \cup {p}) = Cardinality(undoers) + 1
        BY <3>2, <4>1, FS_AddElement
      <4> QED BY <2>1, <3>2, <4>1, <4>2, SizesAssumption
    <3> QED BY <3>1, <3>2
  <2>4. /\ IsFiniteSet(Entries(p)) /\ Cardinality(Entries(p)) \in Nat
        /\ Cardinality(Entries(p)) <= SEMUME
    <3>1. IsFiniteSet(Entries(p)) /\ Cardinality(Entries(p)) <= IF p \in undoers THEN SEMUME ELSE 0
      BY DEF UndoOK
    <3>2. Cardinality(Entries(p)) \in Nat
      BY <3>1, FS_CardinalityType
    <3> QED BY <3>1, <3>2, SizesAssumption
  <2>5. PICK E : E = Entries(p)'
    OBVIOUS
  <2>6. IsFiniteSet(E) /\ Cardinality(E) <= SEMUME
    <3> DEFINE F == Entries(p) \cup {e}
    <3>1. IsFiniteSet(F) /\ Cardinality(F) \in Nat /\ Cardinality(F) <= SEMUME
      <4>1. CASE e \in Entries(p)
        <5>1. F = Entries(p)
          BY <4>1
        <5> QED BY <2>4, <5>1
      <4>2. CASE e \notin Entries(p)
        <5>1. IsFiniteSet(F) /\ Cardinality(F) = Cardinality(Entries(p)) + 1
          BY <2>4, <4>2, FS_AddElement
        <5> QED BY <2>1, <2>4, <4>2, <5>1, SizesAssumption
      <4> QED BY <4>1, <4>2
    <3>2. E \subseteq F
      BY <2>2, <2>5
    <3> HIDE DEF F
    <3>3. IsFiniteSet(E) /\ Cardinality(E) <= Cardinality(F)
      BY <3>1, <3>2, FS_Subset, Zenon
    <3>4. Cardinality(E) \in Nat
      BY <3>3, FS_CardinalityType, Zenon
    <3> QED BY <3>1, <3>3, <3>4, SizesAssumption
  <2>7. ASSUME NEW q \in Proc
        PROVE  /\ IsFiniteSet(Entries(q)')
               /\ Cardinality(Entries(q)') <= IF q \in undoers' THEN SEMUME ELSE 0
               /\ \A f \in Entries(q)' : Semconv(f[1])' /\ f[2] < sema'[f[1].slot].nsems
    <3>1. CASE q = p
      <4>1. \A f \in Entries(p) : Semconv(f[1]) /\ f[2] < sema[f[1].slot].nsems
        BY DEF UndoOK
      <4> QED BY <2>1, <2>2, <2>5, <2>6, <3>1, <4>1 DEF Semconv
    <3>2. CASE q # p
      BY <2>1, <2>2, <3>2 DEF UndoOK, Semconv
    <3> QED BY <3>1, <3>2
  <2> QED BY <2>3, <2>7 DEF UndoOK
<1>2. CASE ~ (val # 0 /\ SemaoeError(p, val, e) = "ok")
  BY <1>2, UndoStays DEF Semaoe
<1> QED BY <1>1, <1>2

\* Every operation of a process in semop's loop or in semundo is on a semaphore
\* of a set that exists.
LEMMA OpLive ==
    ASSUME Kept, NEW p \in Proc, pc[p] \in {"ops", "backout"}, NEW i \in 1 .. Len(call[p].sops)
    PROVE  /\ Op(p, i).op \in Int /\ OpUnit(p, i) \in Unit /\ OpEntry(p, i) \in Entry
           /\ Semconv(OpEntry(p, i)[1])
           /\ OpEntry(p, i)[2] < sema[OpEntry(p, i)[1].slot].nsems
           /\ call[p].id.slot \in Slot /\ OpUnit(p, i) \in UnitsOf(call[p].id.slot)
<1>1. /\ Op(p, i) \in Sembuf /\ OpUnit(p, i) \in Unit /\ OpEntry(p, i) \in Entry
  BY OpType DEF Kept
<1>2. OnSet(p) /\ call[p].id.slot \in Slot
  BY DEF Kept, SetsOK, TypeOK, ProcType, Call, Id
<1>3. OpUnit(p, i) \in UnitsOf(call[p].id.slot)
  BY KeptOnSet DEF OpsOnLiveSet
<1>4. Semconv(call[p].id) /\ Op(p, i).num < sema[call[p].id.slot].nsems
  BY <1>2 DEF OnSet
<1> QED BY <1>1, <1>2, <1>3, <1>4 DEF OpEntry, Sembuf

\* IPC_SET finds IPC_ALLOC set.
LEMMA IpcsetStays ==
    ASSUME Kept, CopyinSleeps = FALSE, NEW p \in Proc, SemctlIpcset(p)
    PROVE  UNCHANGED <<sema, semmap>>
<1>1. pc[p] = "ipcset" /\ sema' = [sema EXCEPT ![call[p].id.slot].alloc = TRUE] /\ UNCHANGED semmap
  BY DEF SemctlIpcset, At
<1>2. call[p].id.slot \in Slot /\ sema \in [Slot -> Header]
  BY DEF Kept, TypeOK, ProcType, Call, Id, SetsType
<1>3. sema[call[p].id.slot].alloc = TRUE /\ sema[call[p].id.slot] \in Header
  BY <1>1, <1>2 DEF Kept, SetsOK, OnSet, Semconv, Header
<1>4. [sema[call[p].id.slot] EXCEPT !.alloc = TRUE] = sema[call[p].id.slot]
  BY <1>3 DEF Header
<1>5. sema' = [sema EXCEPT ![call[p].id.slot] = [sema[call[p].id.slot] EXCEPT !.alloc = TRUE]]
  BY <1>1
<1> QED BY <1>1, <1>2, <1>4, <1>5

\* SETVAL, SETALL and IPC_RMID only clear entries.
LEMMA SemunrmUndo ==
    ASSUME UndoOK, UndoType, UNCHANGED <<sema, undoers>>,
           NEW id, NEW low, NEW high, Semunrm(id, low, high)
    PROVE  UndoOK'
<1>1. \A q \in Proc : Entries(q)' \subseteq Entries(q)
  BY SemunrmEntries
<1>2. \A q \in Proc : \A e \in Entries(q)' : Semconv(e[1])' /\ sema'[e[1].slot] = sema[e[1].slot]
  BY <1>1 DEF UndoOK, Semconv
<1> QED BY <1>1, <1>2, UndoShrinks

\* Every system call keeps the undo structures in order; IPC_RMID clears all
\* that name the set.
LEMMA RequestUndo ==
    ASSUME Kept, UndoOK, NEW p \in Proc, Request(p)
    PROVE  UndoOK'
<1>0. UndoType /\ sema \in [Slot -> Header]
  BY DEF Kept, TypeOK, SetsType
<1>1. ASSUME NEW key \in Key, NEW n \in 0 .. SEMMSL + 1, Semget(p, key, n)
      PROVE  UndoOK'
  <2>1. PICK s \in Slot : /\ ~ sema[s].alloc
                          /\ \A t \in Slot : t # s => sema'[t] = sema[t]
    BY <1>0, <1>1 DEF Semget
  <2>2. UNCHANGED undoVars
    BY <1>1 DEF Semget
  <2>3. \A q \in Proc : Entries(q)' = Entries(q)
    BY <2>2 DEF Entries, undoVars
  <2>4. ASSUME NEW q \in Proc, NEW e \in Entries(q)'
        PROVE  Semconv(e[1])' /\ sema'[e[1].slot] = sema[e[1].slot]
    <3>1. Semconv(e[1])
      BY <2>3 DEF UndoOK
    <3>2. e[1].slot \in Slot
      BY DEF Entries, Entry, Id
    <3> QED BY <2>1, <3>1, <3>2 DEF Semconv
  <2> QED BY <2>2, <2>3, <2>4, UndoShrinks DEF undoVars
<1>2. ASSUME NEW id \in Id, SemctlRmid(p, id) PROVE UndoOK'
  <2>1. /\ Semunrm(id, 0, sema[id.slot].nsems) /\ UNCHANGED undoers /\ Semconv(id)
        /\ \A t \in Slot : t # id.slot => sema'[t] = sema[t]
    BY <1>0, <1>2 DEF SemctlRmid
  <2>2. \A q \in Proc : Entries(q)' \subseteq Entries(q)
    BY <1>0, <2>1, SemunrmEntries
  <2>3. ASSUME NEW q \in Proc, NEW e \in Entries(q)'
        PROVE  Semconv(e[1])' /\ sema'[e[1].slot] = sema[e[1].slot]
    <3>1. Semconv(e[1]) /\ e[2] < sema[e[1].slot].nsems
      BY <2>2 DEF UndoOK
    <3>2. e[1] \in Id /\ e[2] \in Num
      BY DEF Entries, Entry
    <3>3. e[1].slot \in Slot /\ (e[1].slot = id.slot /\ e[1].seq = id.seq => e[1] = id)
      BY <3>2 DEF Id
    <3>4. ~ (e[1] = id /\ e[2] \in 0 .. sema[id.slot].nsems)
      BY <1>0, <2>1, SemunrmEntries
    <3>5. e[1].slot # id.slot
      <4> SUFFICES ASSUME e[1].slot = id.slot PROVE FALSE
        OBVIOUS
      <4>1. e[1] = id
        BY <2>1, <3>1, <3>3 DEF Semconv
      <4>2. sema[id.slot].nsems \in Int
        BY <1>0, <3>3 DEF Header
      <4>3. e[2] \in 0 .. sema[id.slot].nsems
        BY <3>1, <3>2, <4>1, <4>2, SizesAssumption DEF Num
      <4> QED BY <3>4, <4>1, <4>3
    <3> QED BY <2>1, <3>1, <3>3, <3>5 DEF Semconv
  <2> QED BY <2>1, <2>2, <2>3, UndoShrinks
<1>3. ASSUME NEW id \in Id, NEW num \in Num, NEW val \in 0 .. SEMVMX,
             SemctlSetval(p, id, num, val)
      PROVE  UndoOK'
  BY <1>0, <1>3, SemunrmUndo DEF SemctlSetval, setVars
<1>4. ASSUME NEW id \in Id, NEW cmd, NEW where, SemctlCopyin(p, id, cmd, where)
      PROVE  UndoOK'
  BY <1>4, UndoStays DEF SemctlCopyin, setVars
<1>5. ASSUME NEW id \in Id, NEW sops \in Vectors, Semop(p, id, sops)
      PROVE  UndoOK'
  BY <1>5, UndoStays DEF Semop, setVars
<1>6. ASSUME Semexit(p) PROVE UndoOK'
  BY <1>6, UndoStays DEF Semexit, setVars
<1> QED BY <1>1, <1>2, <1>3, <1>4, <1>5, <1>6 DEF Request

\* So does every step inside the kernel.
LEMMA ContinueUndo ==
    ASSUME Kept, CopyinSleeps = FALSE, UndoOK, NEW p \in Proc, Continue(p)
    PROVE  UndoOK'
<1>0. /\ UndoType /\ call \in [Proc -> Call] /\ call[p].n \in Nat
      /\ Len(call[p].sops) \in Nat /\ call[p].n <= Len(call[p].sops)
  BY DEF Kept, TypeOK, ProcType, LocalType, Call
<1>1. CASE SemctlSetall(p)
  BY <1>0, <1>1, SemunrmUndo DEF SemctlSetall, setVars
<1>2. CASE SemctlIpcset(p)
  BY <1>2, IpcsetStays, UndoStays DEF SemctlIpcset
<1>3. CASE \/ SemctlFails(p) \/ SemopCopyin(p) \/ SemopBlock(p) \/ SemopDone(p)
           \/ SemopSleep(p) \/ SemopFail(p) \/ SemopAgain(p)
           \/ SemopInterrupted(p) \/ SemopReturn(p)
  <2>1. UNCHANGED <<setVars, undoVars>>
    BY <1>3 DEF SemctlFails, SemopCopyin, SemopBlock, SemopDone, SemopSleep, SemopFail,
                SemopAgain, SemopInterrupted, SemopReturn
  <2> QED BY <2>1, UndoStays DEF setVars
<1>4. CASE SemopApply(p)
  <2> DEFINE i == call[p].n + 1
  <2>1. /\ pc[p] = "ops" /\ i \in 1 .. Len(call[p].sops) /\ UNCHANGED sema
        /\ IF Op(p, i).undo THEN Semaoe(p, Op(p, i).op, OpEntry(p, i)) ELSE UNCHANGED undoVars
    BY <1>0, <1>4 DEF SemopApply, At, setVars
  <2> HIDE DEF i
  <2>2. CASE UNCHANGED undoVars
    BY <2>1, <2>2, UndoStays
  <2>3. CASE Semaoe(p, Op(p, i).op, OpEntry(p, i))
    BY <1>0, <2>1, <2>3, OpLive, SemaoeUndo
  <2> QED BY <2>1, <2>2, <2>3
<1>5. CASE Semundo(p)
  <2> DEFINE i == call[p].n
  <2>1. /\ pc[p] = "backout" /\ i \in 1 .. Len(call[p].sops) /\ UNCHANGED sema
        /\ IF Op(p, i).undo THEN Semaoe(p, -Op(p, i).op, OpEntry(p, i)) ELSE UNCHANGED undoVars
    BY <1>0, <1>5 DEF Semundo, At, setVars
  <2> HIDE DEF i
  <2>2. CASE UNCHANGED undoVars
    BY <2>1, <2>2, UndoStays
  <2>3. CASE Semaoe(p, -Op(p, i).op, OpEntry(p, i))
    <3>1. -Op(p, i).op \in Int
      BY <2>1, OpLive
    <3> QED BY <1>0, <2>1, <2>3, <3>1, OpLive, SemaoeUndo
  <2> QED BY <2>1, <2>2, <2>3
<1>6. CASE SemexitAdjust(p)
  <2>1. PICK e \in Entries(p) : sem_undo' = [sem_undo EXCEPT ![p][e] = 0]
    BY <1>6 DEF SemexitAdjust
  <2>2. UNCHANGED <<sema, undoers>>
    BY <1>6 DEF SemexitAdjust, setVars
  <2>3. \A q \in Proc : Entries(q)' \subseteq Entries(q)
    BY <1>0, <2>1 DEF Entries, UndoType
  <2>4. \A q \in Proc : \A f \in Entries(q)' : Semconv(f[1])' /\ sema'[f[1].slot] = sema[f[1].slot]
    BY <2>2, <2>3 DEF UndoOK, Semconv
  <2> QED BY <2>2, <2>3, <2>4, UndoShrinks
<1>7. CASE SemexitDone(p)
  <2>1. undoers' = undoers \ {p} /\ Entries(p) = {} /\ UNCHANGED <<sema, sem_undo>>
    BY <1>7 DEF SemexitDone, setVars
  <2>2. \A q \in Proc : Entries(q)' = Entries(q)
    BY <2>1 DEF Entries
  <2>3. IsFiniteSet(undoers') /\ Cardinality(undoers') <= SEMMNU
    <3>1. IsFiniteSet(undoers) /\ Cardinality(undoers) \in Nat /\ Cardinality(undoers) <= SEMMNU
      BY FS_CardinalityType DEF UndoOK
    <3>2. IsFiniteSet(undoers \ {p})
          /\ Cardinality(undoers \ {p}) = IF p \in undoers THEN Cardinality(undoers) - 1 ELSE Cardinality(undoers)
      BY <3>1, FS_RemoveElement
    <3> QED BY <2>1, <3>1, <3>2, SizesAssumption
  <2>4. ASSUME NEW q \in Proc
        PROVE  /\ IsFiniteSet(Entries(q)')
               /\ Cardinality(Entries(q)') <= IF q \in undoers' THEN SEMUME ELSE 0
               /\ \A f \in Entries(q)' : Semconv(f[1])' /\ f[2] < sema'[f[1].slot].nsems
    <3>1. CASE q = p
      BY <2>1, <2>2, <3>1, FS_EmptySet
    <3>2. CASE q # p
      BY <2>1, <2>2, <3>2 DEF UndoOK, Semconv
    <3> QED BY <3>1, <3>2
  <2> QED BY <2>3, <2>4 DEF UndoOK
<1> QED
  BY <1>1, <1>2, <1>3, <1>4, <1>5, <1>6, <1>7 DEF Continue

\* Undo structures are in order in every state.
LEMMA AlwaysUndo == CopyinSleeps = FALSE => (Spec => [](Kept /\ UndoOK))
<1> SUFFICES ASSUME CopyinSleeps = FALSE PROVE Spec => [](Kept /\ UndoOK)
  OBVIOUS
<1>1. Init => Kept /\ UndoOK
  <2> SUFFICES ASSUME Init PROVE UndoOK
    BY InitKept
  <2>1. undoers = {} /\ \A q \in Proc : Entries(q) = {}
    BY DEF Init, Entries
  <2> QED BY <2>1, FS_EmptySet, SizesAssumption DEF UndoOK
<1>2. (Kept /\ UndoOK) /\ [Next]_vars => (Kept /\ UndoOK)'
  <2> SUFFICES ASSUME Kept, UndoOK, [Next]_vars PROVE UndoOK'
    BY NextKept
  <2>1. ASSUME NEW p \in Proc, Signal(p) PROVE UndoOK'
    BY <2>1, UndoStays DEF Signal, setVars
  <2>2. CASE UNCHANGED vars
    BY <2>2, UndoStays DEF vars, setVars
  <2> QED BY <2>1, <2>2, RequestUndo, ContinueUndo DEF Next
<1> QED BY <1>1, <1>2, PTL DEF Spec

\* No undo entry outlives its set, and neither SEMMNU nor SEMUME is exceeded.
THEOREM NoStaleUndo == CopyinSleeps = FALSE => (Spec => []UndoNamesLiveSets)
<1> SUFFICES ASSUME CopyinSleeps = FALSE PROVE Spec => []UndoNamesLiveSets
  OBVIOUS
<1>1. Kept /\ UndoOK => UndoNamesLiveSets
  BY DEF UndoOK, UndoNamesLiveSets
<1> QED BY <1>1, AlwaysUndo, PTL
-----------------------------------------------------------------------------
(* Free units *)

FreeUnit(u) == \A s \in Slot : sema[s].alloc => u \notin UnitsOf(s)

\* The steps that leave free units free, or that freed units follow clean, and
\* raise neither value nor counter of a free one.
LEMMA CleanStays ==
    ASSUME FreeUnitsClean,
           \A u \in Unit : FreeUnit(u)' =>
              \/ semval'[u] = 0 /\ cnt'[<<"ncnt", u>>] = 0 /\ cnt'[<<"zcnt", u>>] = 0
              \/ /\ FreeUnit(u)
                 /\ semval'[u] = semval[u]
                 /\ cnt'[<<"ncnt", u>>] \in {0, cnt[<<"ncnt", u>>]}
                 /\ cnt'[<<"zcnt", u>>] \in {0, cnt[<<"zcnt", u>>]}
    PROVE  FreeUnitsClean'
BY DEF FreeUnitsClean, FreeUnit

\* What WakeCounted makes of a counter.
LEMMA WakeCountedZeroes ==
    ASSUME NEW C, WakeCounted(C), NEW c \in Chan
    PROVE  cnt'[c] \in {0, cnt[c]}
BY DEF WakeCounted

\* Both counters of a unit.
LEMMA UnitChannels ==
    ASSUME NEW u \in Unit
    PROVE  <<"ncnt", u>> \in Chan /\ <<"zcnt", u>> \in Chan
BY DEF Chan

\* Where no set changes and semaphores of sets only, and counters are at most
\* zeroed, free units stay clean.
LEMMA CleanWithin ==
    ASSUME FreeUnitsClean, UNCHANGED sema, NEW s \in Slot, sema[s].alloc,
           \A u \in Unit \ UnitsOf(s) : semval'[u] = semval[u],
           UNCHANGED cnt \/ \E C : WakeCounted(C)
    PROVE  FreeUnitsClean'
<1> SUFFICES ASSUME NEW u \in Unit, FreeUnit(u)'
             PROVE  /\ FreeUnit(u)
                    /\ semval'[u] = semval[u]
                    /\ cnt'[<<"ncnt", u>>] \in {0, cnt[<<"ncnt", u>>]}
                    /\ cnt'[<<"zcnt", u>>] \in {0, cnt[<<"zcnt", u>>]}
  BY CleanStays
<1>1. FreeUnit(u) /\ u \notin UnitsOf(s)
  BY DEF FreeUnit, UnitsOf
<1>2. \A c \in Chan : cnt'[c] \in {0, cnt[c]}
  BY WakeCountedZeroes
<1> QED BY <1>1, <1>2, UnitChannels

\* Only sets, values and counters matter.
LEMMA CleanUnchanged ==
    ASSUME FreeUnitsClean, UNCHANGED <<sema, semval, cnt>>
    PROVE  FreeUnitsClean'
BY DEF FreeUnitsClean, UnitsOf

\* IPC_RMID leaves the units it frees clean; SETVAL changes a set's own.
LEMMA RequestClean ==
    ASSUME Kept, FreeUnitsClean, NEW p \in Proc, Request(p)
    PROVE  FreeUnitsClean'
<1>0. sema \in [Slot -> Header] /\ cnt \in [Chan -> Nat] /\ semval \in [Unit -> Int]
  BY DEF Kept, TypeOK, SetsType, WaitType, ValType
<1>1. ASSUME NEW key \in Key, NEW n \in 0 .. SEMMSL + 1, Semget(p, key, n)
      PROVE  FreeUnitsClean'
  <2>1. UNCHANGED <<semval, cnt>>
    BY <1>1 DEF Semget, waitVars
  <2>2. PICK s \in Slot :
          /\ ~ sema[s].alloc
          /\ \A t \in Slot : t # s => sema'[t] = sema[t]
    BY <1>0, <1>1 DEF Semget
  <2>3. \A u \in Unit : FreeUnit(u)' => FreeUnit(u)
    BY <2>2 DEF FreeUnit, UnitsOf
  <2> QED BY <2>1, <2>3, CleanStays
<1>2. ASSUME NEW id \in Id, SemctlRmid(p, id) PROVE FreeUnitsClean'
  <2>1. /\ semval' = [u \in Unit |-> IF u \in UnitsOf(id.slot) THEN 0 ELSE semval[u]]
        /\ cnt' = [c \in Chan |-> IF c \in {"ncnt", "zcnt"} \X UnitsOf(id.slot) THEN 0 ELSE cnt[c]]
        /\ \A t \in Slot : t # id.slot => sema'[t] = sema[t]
    BY <1>0, <1>2 DEF SemctlRmid, WakeCounted
  <2>2. ASSUME NEW u \in Unit, FreeUnit(u)', u \notin UnitsOf(id.slot)
        PROVE  FreeUnit(u) /\ semval'[u] = semval[u]
               /\ cnt'[<<"ncnt", u>>] = cnt[<<"ncnt", u>>] /\ cnt'[<<"zcnt", u>>] = cnt[<<"zcnt", u>>]
    <3>1. FreeUnit(u)
      BY <2>1, <2>2 DEF FreeUnit, UnitsOf
    <3> QED BY <2>1, <2>2, <3>1, UnitChannels
  <2>3. ASSUME NEW u \in Unit, u \in UnitsOf(id.slot)
        PROVE  semval'[u] = 0 /\ cnt'[<<"ncnt", u>>] = 0 /\ cnt'[<<"zcnt", u>>] = 0
    BY <2>1, <2>3, UnitChannels
  <2> QED BY <2>2, <2>3, CleanStays
<1>3. ASSUME NEW id \in Id, NEW num \in Num, NEW val \in 0 .. SEMVMX,
             SemctlSetval(p, id, num, val)
      PROVE  FreeUnitsClean'
  <2>1. /\ sema[id.slot].alloc /\ num < sema[id.slot].nsems /\ UNCHANGED sema
        /\ semval' = [semval EXCEPT ![UnitOf(id.slot, num)] = val]
        /\ \E C : WakeCounted(C)
    BY <1>3 DEF SemctlSetval, Semconv, setVars
  <2>2. id.slot \in Slot
    BY DEF Id
  <2>3. UnitOf(id.slot, num) \in UnitsOf(id.slot)
    <3>1. sema[id.slot].base \in Nat /\ sema[id.slot].nsems \in Nat /\ num \in Nat
      BY <1>0, <2>2, SizesAssumption DEF Header, Num
    <3> QED BY <2>1, <3>1 DEF UnitOf, UnitsOf
  <2>4. \A u \in Unit \ UnitsOf(id.slot) : semval'[u] = semval[u]
    BY <1>0, <2>1, <2>3
  <2> QED BY <2>1, <2>2, <2>4, CleanWithin
<1>4. CASE UNCHANGED <<setVars, semval, waitVars>>
  BY <1>4, CleanUnchanged DEF setVars, waitVars
<1>5. ASSUME NEW id \in Id, NEW cmd, NEW where, SemctlCopyin(p, id, cmd, where)
      PROVE  FreeUnitsClean'
  BY <1>4, <1>5 DEF SemctlCopyin
<1>6. ASSUME NEW id \in Id, NEW sops, Semop(p, id, sops) PROVE FreeUnitsClean'
  BY <1>4, <1>6 DEF Semop
<1>7. ASSUME Semexit(p) PROVE FreeUnitsClean'
  BY <1>4, <1>7 DEF Semexit
<1> QED BY <1>1, <1>2, <1>3, <1>5, <1>6, <1>7 DEF Request

\* A step inside the kernel changes semaphores of the set it works on only, and
\* a sleeper counts itself there.
LEMMA ContinueClean ==
    ASSUME Kept, UndoOK, CopyinSleeps = FALSE, FreeUnitsClean, NEW p \in Proc, Continue(p)
    PROVE  FreeUnitsClean'
<1>0. /\ sema \in [Slot -> Header] /\ cnt \in [Chan -> Nat] /\ semval \in [Unit -> Int]
      /\ call \in [Proc -> Call] /\ call[p].n \in Nat /\ call[p].id.slot \in Slot
      /\ Len(call[p].sops) \in Nat /\ call[p].n <= Len(call[p].sops)
      /\ OnSet(p)
  BY DEF Kept, TypeOK, SetsType, WaitType, ValType, ProcType, LocalType, Call, Id, SetsOK
<1>1. CASE SemctlSetall(p)
  <2>1. /\ pc[p] = "setall" /\ UNCHANGED sema /\ \E C : WakeCounted(C)
        /\ \E vals : semval' = [u \in Unit |-> IF u \in UnitsOf(call[p].id.slot) THEN vals[u] ELSE semval[u]]
    BY <1>1 DEF SemctlSetall, At, setVars
  <2>2. sema[call[p].id.slot].alloc
    BY <1>0, <2>1 DEF OnSet, Semconv
  <2>3. \A u \in Unit \ UnitsOf(call[p].id.slot) : semval'[u] = semval[u]
    BY <2>1
  <2> QED BY <1>0, <2>1, <2>2, <2>3, CleanWithin
<1>2. CASE SemctlIpcset(p)
  BY <1>2, IpcsetStays, CleanUnchanged DEF SemctlIpcset, waitVars
<1>3. CASE \/ SemctlFails(p) \/ SemopCopyin(p) \/ SemopBlock(p) \/ SemopDone(p)
           \/ SemopFail(p) \/ SemopAgain(p) \/ SemopReturn(p) \/ SemexitDone(p)
  <2>1. UNCHANGED <<setVars, semval, waitVars>>
    BY <1>3 DEF SemctlFails, SemopCopyin, SemopBlock, SemopDone, SemopFail,
                SemopAgain, SemopReturn, SemexitDone
  <2> QED BY <2>1, CleanUnchanged DEF setVars, waitVars
<1>4. CASE SemopApply(p) \/ Semundo(p)
  <2>1. PICK i \in 1 .. Len(call[p].sops) :
          /\ pc[p] \in {"ops", "backout"} /\ UNCHANGED sema
          /\ UNCHANGED cnt \/ \E C : WakeCounted(C)
          /\ \E v : semval' = [semval EXCEPT ![OpUnit(p, i)] = v]
    <3>1. CASE SemopApply(p)
      <4> DEFINE i == call[p].n + 1
      <4>1. i \in 1 .. Len(call[p].sops)
        BY <1>0, <3>1 DEF SemopApply
      <4>2. /\ pc[p] = "ops" /\ UNCHANGED sema /\ \E C : WakeCounted(C)
            /\ \E v : semval' = [semval EXCEPT ![OpUnit(p, i)] = v]
        BY <3>1 DEF SemopApply, At, setVars
      <4> QED BY <4>1, <4>2
    <3>2. CASE Semundo(p)
      <4> DEFINE i == call[p].n
      <4>1. i \in 1 .. Len(call[p].sops)
        BY <1>0, <3>2 DEF Semundo
      <4>2. /\ pc[p] = "backout" /\ UNCHANGED sema /\ UNCHANGED cnt
            /\ \E v : semval' = [semval EXCEPT ![OpUnit(p, i)] = v]
        BY <3>2 DEF Semundo, At, setVars, waitVars
      <4> QED BY <4>1, <4>2
    <3> QED BY <1>4, <3>1, <3>2
  <2>2. sema[call[p].id.slot].alloc /\ OpUnit(p, i) \in UnitsOf(call[p].id.slot)
    BY <2>1, OpLive DEF OpEntry, Semconv
  <2>3. \A u \in Unit \ UnitsOf(call[p].id.slot) : semval'[u] = semval[u]
    BY <1>0, <2>1, <2>2
  <2> QED BY <1>0, <2>1, <2>2, <2>3, CleanWithin
<1>5. CASE SemopSleep(p)
  <2>1. /\ pc[p] = "backout" /\ UNCHANGED <<sema, semval>>
        /\ cnt' = [cnt EXCEPT ![call[p].chan] = @ + 1]
    BY <1>5 DEF SemopSleep, At, setVars
  <2>2. sema[call[p].id.slot].alloc /\ call[p].chan[2] \in UnitsOf(call[p].id.slot)
    BY <1>0, <2>1 DEF OnSet, Semconv
  <2>3. \A u \in Unit : FreeUnit(u)' => FreeUnit(u) /\ u \notin UnitsOf(call[p].id.slot)
    BY <1>0, <2>1, <2>2 DEF FreeUnit, UnitsOf
  <2>4. ASSUME NEW u \in Unit, u \notin UnitsOf(call[p].id.slot)
        PROVE  cnt'[<<"ncnt", u>>] = cnt[<<"ncnt", u>>] /\ cnt'[<<"zcnt", u>>] = cnt[<<"zcnt", u>>]
    <3>1. <<"ncnt", u>> # call[p].chan /\ <<"zcnt", u>> # call[p].chan
      BY <2>2, <2>4
    <3> QED BY <1>0, <2>1, <3>1, UnitChannels
  <2> QED BY <2>1, <2>3, <2>4, CleanStays
<1>6. CASE SemopInterrupted(p)
  <2> DEFINE c == call[p].chan
  <2>1. /\ UNCHANGED <<sema, semval>>
        /\ \/ cnt' = [cnt EXCEPT ![c] = 0]
           \/ ~ (cnt[c] <= 1) /\ cnt' = [cnt EXCEPT ![c] = @ - 1]
    BY <1>6 DEF SemopInterrupted, setVars
  <2>2. \A u \in Unit : FreeUnit(u)' => FreeUnit(u)
    BY <2>1 DEF FreeUnit, UnitsOf
  <2>3. ASSUME NEW u \in Unit, FreeUnit(u), NEW d \in {<<"ncnt", u>>, <<"zcnt", u>>}
        PROVE  cnt'[d] = 0
    <3>1. cnt[d] = 0 /\ d \in Chan
      BY <2>3, UnitChannels DEF FreeUnitsClean, FreeUnit
    <3> QED BY <1>0, <2>1, <3>1
  <2> QED BY <2>1, <2>2, <2>3, CleanStays
<1>7. CASE SemexitAdjust(p)
  <2>1. PICK e \in Entries(p) :
          \/ /\ Semconv(e[1]) /\ UNCHANGED sema /\ \E C : WakeCounted(C)
             /\ \E v : semval' = [semval EXCEPT ![UnitOf(e[1].slot, e[2])] = v]
          \/ UNCHANGED <<sema, semval, cnt>>
    BY <1>7 DEF SemexitAdjust, setVars, waitVars
  <2>2. e[1].slot \in Slot /\ e[2] \in Num /\ e[2] < sema[e[1].slot].nsems
    <3>1. e \in Entry
      BY DEF Entries
    <3> QED BY <3>1 DEF Entry, Id, UndoOK
  <2>3. CASE /\ Semconv(e[1]) /\ UNCHANGED sema /\ \E C : WakeCounted(C)
             /\ \E v : semval' = [semval EXCEPT ![UnitOf(e[1].slot, e[2])] = v]
    <3>1. sema[e[1].slot].base \in Nat /\ sema[e[1].slot].nsems \in Nat /\ e[2] \in Nat
      BY <1>0, <2>2, SizesAssumption DEF Header, Num
    <3>2. UnitOf(e[1].slot, e[2]) \in UnitsOf(e[1].slot)
      BY <2>2, <3>1 DEF UnitOf, UnitsOf
    <3>3. \A u \in Unit \ UnitsOf(e[1].slot) : semval'[u] = semval[u]
      BY <1>0, <2>3, <3>2
    <3>4. sema[e[1].slot].alloc
      BY <2>3 DEF Semconv
    <3> QED BY <2>2, <2>3, <3>3, <3>4, CleanWithin
  <2> QED BY <2>1, <2>3, CleanUnchanged
<1> QED
  BY <1>1, <1>2, <1>3, <1>4, <1>5, <1>6, <1>7 DEF Continue

\* The units of the free map are as semget needs them: zero, and nobody
\* counted, whatever a late signal, an exit or a backing out does.
THEOREM FreedUnitsAreClean == CopyinSleeps = FALSE => (Spec => []FreeUnitsClean)
<1> SUFFICES ASSUME CopyinSleeps = FALSE PROVE Spec => []FreeUnitsClean
  OBVIOUS
<1>1. Init => FreeUnitsClean
  BY UnitChannels DEF Init, FreeUnitsClean
<1>2. Kept /\ UndoOK /\ FreeUnitsClean /\ [Next]_vars => FreeUnitsClean'
  <2> SUFFICES ASSUME Kept, UndoOK, FreeUnitsClean, [Next]_vars PROVE FreeUnitsClean'
    OBVIOUS
  <2>1. ASSUME NEW p \in Proc, Signal(p) PROVE FreeUnitsClean'
    BY <2>1, CleanUnchanged DEF Signal, setVars
  <2>2. CASE UNCHANGED vars
    BY <2>2, CleanUnchanged DEF vars, setVars, waitVars
  <2> QED BY <2>1, <2>2, RequestClean, ContinueClean DEF Next
<1> QED BY <1>1, <1>2, AlwaysUndo, PTL DEF Spec
-----------------------------------------------------------------------------
(* Values, by the history of a pass *)

\* h is what the values were after each of the first n operations of sops, on a
\* set whose first semaphore is unit base: operation j made h[j] of h[j - 1],
\* and v is what they are now.
Chain(h, n, v, sops, base) ==
    /\ h \in [0 .. n -> [Unit -> 0 .. SEMVMX]]
    /\ h[n] = v
    /\ \A j \in 1 .. n :
          h[j] = [h[j - 1] EXCEPT ![base + sops[j].num] = @ + sops[j].op]

\* Nothing done yet.
LEMMA ChainStarts ==
    ASSUME NEW v \in [Unit -> 0 .. SEMVMX], NEW sops, NEW base
    PROVE  Chain([j \in 0 .. 0 |-> v], 0, v, sops, base)
BY DEF Chain

\* A history with one more entry
Longer(h, n, w) == [j \in 0 .. n + 1 |-> IF j = n + 1 THEN w ELSE h[j]]

\* An operation that stays in range lengthens the history.
LEMMA ChainGrows ==
    ASSUME NEW h, NEW n \in Nat, NEW v, NEW sops, NEW base, Chain(h, n, v, sops, base),
           NEW w \in [Unit -> 0 .. SEMVMX],
           w = [v EXCEPT ![base + sops[n + 1].num] = @ + sops[n + 1].op]
    PROVE  Chain(Longer(h, n, w), n + 1, w, sops, base)
<1> DEFINE g == [j \in 0 .. n + 1 |-> IF j = n + 1 THEN w ELSE h[j]]
<1>2. \A j \in 0 .. n : j \in 0 .. n + 1 /\ j # n + 1 /\ g[j] = h[j]
  OBVIOUS
<1>3. g[n + 1] = w
  OBVIOUS
<1>4. g \in [0 .. n + 1 -> [Unit -> 0 .. SEMVMX]]
  BY DEF Chain
<1>5. ASSUME NEW j \in 1 .. n + 1
      PROVE  g[j] = [g[j - 1] EXCEPT ![base + sops[j].num] = @ + sops[j].op]
  <2>1. CASE j = n + 1
    <3>1. j - 1 \in 0 .. n /\ j - 1 = n
      BY <2>1
    <3>2. g[j - 1] = v
      BY <1>2, <3>1 DEF Chain
    <3> HIDE DEF g
    <3> QED BY <1>3, <2>1, <3>2
  <2>2. CASE j # n + 1
    <3>1. j \in 1 .. n /\ j \in 0 .. n /\ j - 1 \in 0 .. n
      BY <2>2
    <3>2. g[j] = h[j] /\ g[j - 1] = h[j - 1]
      BY <1>2, <3>1
    <3> QED BY <3>1, <3>2 DEF Chain
  <2> QED BY <2>1, <2>2
<1> HIDE DEF g
<1>6. Chain(g, n + 1, w, sops, base)
  BY <1>3, <1>4, <1>5 DEF Chain
<1> QED BY <1>6 DEF g, Longer

\* A history of m operations only
Shorter(h, m) == [j \in 0 .. m |-> h[j]]

\* Taking the last operation back gives the values there were before it.
LEMMA ChainShrinks ==
    ASSUME NEW h, NEW m \in Nat, NEW v, NEW sops, NEW base, Chain(h, m + 1, v, sops, base),
           base + sops[m + 1].num \in Unit, sops[m + 1].op \in Int
    PROVE  /\ h[m] = [v EXCEPT ![base + sops[m + 1].num] = @ - sops[m + 1].op]
           /\ Chain(Shorter(h, m), m, h[m], sops, base)
<1> DEFINE u == base + sops[m + 1].num
           d == sops[m + 1].op
           g == [j \in 0 .. m |-> h[j]]
<1>1. m + 1 \in 1 .. m + 1 /\ (m + 1) - 1 = m /\ m \in 0 .. m + 1
  OBVIOUS
<1>2. /\ h \in [0 .. m + 1 -> [Unit -> 0 .. SEMVMX]] /\ h[m + 1] = v
      /\ h[m] \in [Unit -> 0 .. SEMVMX]
  BY <1>1 DEF Chain
<1>3. v = [h[m] EXCEPT ![u] = @ + d]
  <2>1. \A j \in 1 .. m + 1 : h[j] = [h[j - 1] EXCEPT ![base + sops[j].num] = @ + sops[j].op]
    BY DEF Chain
  <2> QED BY <1>1, <1>2, <2>1
<1> HIDE DEF u, d
<1>4. h[m] = [v EXCEPT ![u] = @ - d]
  <2>1. u \in Unit /\ d \in Int
    BY DEF u, d
  <2>2. h[m][u] \in Int
    BY <1>2, <2>1, SizesAssumption
  <2>3. v[u] = h[m][u] + d
    BY <1>2, <1>3, <2>1
  <2>4. v[u] - d = h[m][u]
    BY <2>1, <2>2, <2>3
  <2> QED BY <1>2, <1>3, <2>1, <2>4
<1>5. \A j \in 0 .. m : j \in 0 .. m + 1 /\ g[j] = h[j]
  OBVIOUS
<1>6. g \in [0 .. m -> [Unit -> 0 .. SEMVMX]] /\ g[m] = h[m]
  BY <1>2, <1>5
<1>7. ASSUME NEW j \in 1 .. m
      PROVE  g[j] = [g[j - 1] EXCEPT ![base + sops[j].num] = @ + sops[j].op]
  <2>1. j \in 1 .. m + 1 /\ j \in 0 .. m /\ j - 1 \in 0 .. m
    OBVIOUS
  <2>2. g[j] = h[j] /\ g[j - 1] = h[j - 1]
    BY <1>5, <2>1
  <2> QED BY <2>1, <2>2 DEF Chain
<1> HIDE DEF g
<1>8. Chain(g, m, h[m], sops, base)
  BY <1>6, <1>7 DEF Chain
<1> QED BY <1>4, <1>8 DEF g, u, d, Shorter

\* Where p's pass through its vector has brought the values
Pass(p, h) == Chain(h, call[p].n, semval, call[p].sops, sema[call[p].id.slot].base)

ValuesOK ==
    /\ TypeOK /\ OneRuns /\ ValuesInRange
    /\ \A p \in Proc : pc[p] \in {"ops", "backout"} => \E h : Pass(p, h)

\* A step is of one process, while no other process is where it cannot give
\* the processor up.
LEMMA StepOfOne ==
    ASSUME TypeOK, NEW p \in Proc, Request(p) \/ Continue(p) \/ Signal(p)
    PROVE  /\ \A q \in Proc : q # p => /\ pc[q] \notin NoPreempt
                                       /\ pc'[q] = pc[q] /\ call'[q] = call[q]
           /\ MayRun(p) \/ pc'[p] = pc[p]
<1>0. pc \in [Proc -> Pcs] /\ call \in [Proc -> Call]
  BY DEF TypeOK, ProcType
<1>1. CASE Request(p)
  <2>1. /\ MayRun(p)
        /\ UNCHANGED pc \/ \E where : pc' = [pc EXCEPT ![p] = where]
        /\ UNCHANGED call \/ \E new : call' = [call EXCEPT ![p] = new]
    BY <1>1 DEF Request, Semget, SemctlRmid, SemctlSetval, SemctlCopyin, Semop, Semexit,
                At, Goto, procVars
  <2> QED BY <1>0, <2>1 DEF MayRun
<1>2. CASE Continue(p)
  <2>1. /\ MayRun(p)
        /\ UNCHANGED pc \/ \E where : pc' = [pc EXCEPT ![p] = where]
        /\ UNCHANGED call \/ (\E new : call' = [call EXCEPT ![p] = new])
    <3>1. CASE SemctlSetall(p) \/ SemctlIpcset(p) \/ SemctlFails(p) \/ SemopReturn(p)
      BY <3>1 DEF SemctlSetall, SemctlIpcset, SemctlFails, SemopReturn, Return, At, Goto
    <3>2. CASE SemopCopyin(p) \/ SemopBlock(p) \/ SemopDone(p)
      BY <3>2 DEF SemopCopyin, SemopBlock, SemopDone, Fail, At, Goto
    <3>3. CASE SemopApply(p) \/ Semundo(p)
      BY <3>3 DEF SemopApply, Semundo, At, Goto
    <3>4. CASE SemopSleep(p) \/ SemopFail(p) \/ SemopAgain(p) \/ SemopInterrupted(p)
      BY <3>4 DEF SemopSleep, SemopFail, SemopAgain, SemopInterrupted, Fail, At, Goto
    <3>5. CASE SemexitAdjust(p) \/ SemexitDone(p)
      BY <3>5 DEF SemexitAdjust, SemexitDone, At, Goto, procVars
    <3> QED BY <1>2, <3>1, <3>2, <3>3, <3>4, <3>5 DEF Continue
  <2> QED BY <1>0, <2>1 DEF MayRun
<1>3. CASE Signal(p)
  BY <1>3 DEF Signal, procVars
<1> QED BY <1>1, <1>2, <1>3

\* So only the values, and the history of the process that takes the step, have
\* to be looked at.
LEMMA ValuesStep ==
    ASSUME ValuesOK, NEW p \in Proc, Request(p) \/ Continue(p) \/ Signal(p),
           ValuesInRange',
           pc'[p] \in {"ops", "backout"} => \E h : Pass(p, h)'
    PROVE  ValuesOK'
<1>1. TypeOK'
  BY NextType DEF Next, ValuesOK
<1>2. OneRuns'
  BY StepOfOne, OneStillRuns DEF ValuesOK
<1>3. ASSUME NEW q \in Proc, pc'[q] \in {"ops", "backout"} PROVE \E h : Pass(q, h)'
  <2>1. q = p
    BY <1>3, StepOfOne DEF ValuesOK, NoPreempt
  <2> QED BY <1>3, <2>1
<1> QED BY <1>1, <1>2, <1>3 DEF ValuesOK

\* A value that is in range, and operations whose error is not looked for, give
\* a value that is in range.
LEMMA OpInRange ==
    ASSUME NEW p, NEW op, NEW e, NEW v \in 0 .. SEMVMX, op.op \in Int,
           OpError(p, op, e, v) = "ok"
    PROVE  v + op.op \in 0 .. SEMVMX
<1>1. ~ (v + op.op > SEMVMX /\ op.op > 0) /\ ~ (v < -op.op)
  BY DEF OpError
<1> QED BY <1>1, SizesAssumption

\* Values in range are a function to the range.
LEMMA RangeType ==
    ASSUME ValType
    PROVE  ValuesInRange <=> semval \in [Unit -> 0 .. SEMVMX]
BY DEF ValType, ValuesInRange

\* semget, semctl and the entry of semop and semexit.
LEMMA RequestValues ==
    ASSUME ValuesOK, NEW p \in Proc, Request(p)
    PROVE  ValuesOK'
<1>0. /\ pc \in [Proc -> Pcs] /\ semval \in [Unit -> 0 .. SEMVMX] /\ 0 \in 0 .. SEMVMX
  BY RangeType, SizesAssumption DEF ValuesOK, TypeOK, ProcType
<1>1. pc[p] = "user" /\ (UNCHANGED pc \/ \E where \in {"setall", "ipcset", "copyin", "exit"} : Goto(p, where))
  BY DEF Request, Semget, SemctlRmid, SemctlSetval, SemctlCopyin, Semop, Semexit, At, procVars
<1>2. pc'[p] \notin {"ops", "backout"}
  BY <1>0, <1>1 DEF Goto
<1>3. \A u \in Unit : semval'[u] \in 0 .. SEMVMX
  <2>1. \/ UNCHANGED semval
        \/ \E units : semval' = [u \in Unit |-> IF u \in units THEN 0 ELSE semval[u]]
        \/ \E u, val : val \in 0 .. SEMVMX /\ semval' = [semval EXCEPT ![u] = val]
    BY DEF Request, Semget, SemctlRmid, SemctlSetval, SemctlCopyin, Semop, Semexit
  <2> QED BY <1>0, <2>1
<1> QED BY <1>2, <1>3, ValuesStep DEF ValuesInRange

\* The steps inside the kernel: an operation lengthens the history, semundo goes
\* back along it, and semexit looks at the range itself.
LEMMA ContinueValues ==
    ASSUME ValuesOK, NEW p \in Proc, Continue(p)
    PROVE  ValuesOK'
<1>0. /\ TypeOK /\ pc \in [Proc -> Pcs] /\ semval \in [Unit -> 0 .. SEMVMX] /\ 0 \in 0 .. SEMVMX
      /\ call \in [Proc -> Call] /\ call[p] \in Call /\ call[p].n \in Nat
      /\ Len(call[p].sops) \in Nat /\ call[p].n <= Len(call[p].sops)
  BY RangeType, SizesAssumption DEF ValuesOK, TypeOK, ProcType, LocalType, Call
<1>1. CASE SemctlSetall(p)
  <2>1. PICK vals \in [UnitsOf(call[p].id.slot) -> 0 .. SEMVMX] :
          semval' = [u \in Unit |-> IF u \in UnitsOf(call[p].id.slot) THEN vals[u] ELSE semval[u]]
    BY <1>1 DEF SemctlSetall
  <2>2. ValuesInRange'
    BY <1>0, <2>1 DEF ValuesInRange
  <2>3. pc'[p] = "user"
    BY <1>0, <1>1 DEF SemctlSetall, Return, Goto
  <2> QED BY <2>2, <2>3, ValuesStep
<1>2. CASE \/ SemctlIpcset(p) \/ SemctlFails(p) \/ SemopDone(p) \/ SemopSleep(p)
           \/ SemopFail(p) \/ SemopAgain(p) \/ SemopInterrupted(p) \/ SemopReturn(p)
           \/ SemexitDone(p)
  <2>1. /\ UNCHANGED semval
        /\ \E where \in {"user", "out", "sleep", "copyin"} : Goto(p, where)
    BY <1>2 DEF SemctlIpcset, SemctlFails, SemopDone, SemopSleep, SemopFail, SemopAgain,
                SemopInterrupted, SemopReturn, SemexitDone, Return, Fail
  <2>2. pc'[p] \notin {"ops", "backout"} /\ ValuesInRange'
    BY <1>0, <2>1 DEF Goto, ValuesOK, ValuesInRange
  <2> QED BY <2>2, ValuesStep
<1>3. CASE SemopCopyin(p)
  <2>1. UNCHANGED semval /\ ValuesInRange'
    BY <1>3 DEF SemopCopyin, ValuesOK, ValuesInRange
  <2>2. CASE pc'[p] \notin {"ops", "backout"}
    BY <2>1, <2>2, ValuesStep
  <2>3. CASE pc'[p] \in {"ops", "backout"}
    <3>1. call' = [call EXCEPT ![p] = [@ EXCEPT !.again = TRUE, !.n = 0,
                                                !.chan = NoChan, !.error = "ok"]]
      BY <1>0, <1>3, <2>3 DEF SemopCopyin, Fail, Goto
    <3>2. call'[p].n = 0
      BY <1>0, <3>1 DEF Call
    <3>3. Pass(p, [j \in 0 .. 0 |-> semval])'
      BY <1>0, <2>1, <3>2, ChainStarts DEF Pass
    <3>4. PICK f : f = [j \in 0 .. 0 |-> semval']
      OBVIOUS
    <3>5. Pass(p, f)'
      BY <3>3, <3>4
    <3> QED BY <2>1, <3>5, ValuesStep
  <2> QED BY <2>2, <2>3
<1>4. CASE SemopBlock(p)
  <2>1. UNCHANGED <<sema, semval>> /\ ValuesInRange' /\ pc[p] = "ops"
    BY <1>4 DEF SemopBlock, ValuesOK, ValuesInRange, At, setVars
  <2>2. \E new : call' = [call EXCEPT ![p] = [@ EXCEPT !.error = new.error, !.chan = new.chan]]
    <3> DEFINE i == call[p].n + 1
    <3>1. PICK er, ch : call' = [call EXCEPT ![p] = [@ EXCEPT !.error = er, !.chan = ch]]
      BY <1>4 DEF SemopBlock
    <3> WITNESS [error |-> er, chan |-> ch]
    <3> QED BY <3>1
  <2>3. call'[p].n = call[p].n /\ call'[p].id = call[p].id /\ call'[p].sops = call[p].sops
    BY <1>0, <2>2 DEF Call
  <2>4. PICK h : Pass(p, h)
    BY <2>1 DEF ValuesOK
  <2>5. Pass(p, h)'
    BY <2>1, <2>3, <2>4 DEF Pass
  <2> QED BY <2>1, <2>5, ValuesStep
<1>5. CASE SemopApply(p)
  <2> DEFINE n == call[p].n
             u == OpUnit(p, n + 1)
             d == Op(p, n + 1).op
  <2>1. /\ pc[p] = "ops" /\ UNCHANGED sema /\ n + 1 \in 1 .. Len(call[p].sops)
        /\ call' = [call EXCEPT ![p].n = n + 1]
        /\ OpError(p, Op(p, n + 1), OpEntry(p, n + 1), semval[u]) = "ok"
        /\ semval' = [semval EXCEPT ![u] = @ + d]
    BY <1>0, <1>5 DEF SemopApply, At, setVars
  <2>2. call'[p].n = n + 1 /\ call'[p].id = call[p].id /\ call'[p].sops = call[p].sops
    BY <1>0, <2>1 DEF Call
  <2>3. u \in Unit /\ d \in Int
    BY <1>0, <2>1, OpType DEF Sembuf
  <2>4. semval[u] + d \in 0 .. SEMVMX
    BY <1>0, <2>1, <2>3, OpInRange
  <2>5. PICK w \in [Unit -> 0 .. SEMVMX] : w = semval'
    <3>1. semval' \in [Unit -> 0 .. SEMVMX]
      BY <1>0, <2>1, <2>3, <2>4
    <3> QED BY <3>1
  <2>6. PICK h : Pass(p, h)
    BY <2>1 DEF ValuesOK
  <2>7. \E g : Chain(g, n + 1, w, call[p].sops, sema[call[p].id.slot].base)
    <3>1. /\ Chain(h, n, semval, call[p].sops, sema[call[p].id.slot].base)
          /\ w = [semval EXCEPT ![sema[call[p].id.slot].base + call[p].sops[n + 1].num] = @ + call[p].sops[n + 1].op]
      BY <2>1, <2>5, <2>6 DEF Pass, OpUnit, UnitOf, Op
    <3> QED BY <1>0, <2>5, <3>1, ChainGrows
  <2>8. \E g : Pass(p, g)'
    BY <2>1, <2>2, <2>5, <2>7 DEF Pass
  <2>9. ValuesInRange'
    BY <2>5 DEF ValuesInRange
  <2> QED BY <2>8, <2>9, ValuesStep
<1>6. CASE Semundo(p)
  <2> DEFINE m == call[p].n - 1
  <2>1. /\ pc[p] = "backout" /\ UNCHANGED sema /\ m \in Nat /\ m + 1 = call[p].n
        /\ m + 1 \in 1 .. Len(call[p].sops)
        /\ call' = [call EXCEPT ![p].n = m]
        /\ semval' = [semval EXCEPT ![OpUnit(p, m + 1)] = @ - Op(p, m + 1).op]
    <3>1. /\ pc[p] = "backout" /\ UNCHANGED sema /\ call[p].n > 0
          /\ call' = [call EXCEPT ![p].n = call[p].n - 1]
          /\ semval' = [semval EXCEPT ![OpUnit(p, call[p].n)] = @ - Op(p, call[p].n).op]
      BY <1>6 DEF Semundo, At, setVars
    <3>2. m \in Nat /\ m + 1 = call[p].n /\ m + 1 \in 1 .. Len(call[p].sops)
      BY <1>0, <3>1
    <3> QED BY <3>1, <3>2
  <2> HIDE DEF m
  <2>2. call'[p].n = m /\ call'[p].id = call[p].id /\ call'[p].sops = call[p].sops
    BY <1>0, <2>1 DEF Call
  <2>3. OpUnit(p, m + 1) \in Unit /\ Op(p, m + 1).op \in Int
    BY <1>0, <2>1, OpType DEF Sembuf
  <2>4. PICK h : Pass(p, h)
    BY <2>1 DEF ValuesOK
  <2>5. Chain(h, m + 1, semval, call[p].sops, sema[call[p].id.slot].base)
    BY <2>1, <2>4 DEF Pass
  <2>6. /\ h[m] = semval'
        /\ Chain(Shorter(h, m), m, h[m], call[p].sops, sema[call[p].id.slot].base)
    <3>1. /\ h[m] = [semval EXCEPT ![OpUnit(p, m + 1)] = @ - Op(p, m + 1).op]
          /\ Chain(Shorter(h, m), m, h[m], call[p].sops, sema[call[p].id.slot].base)
      BY <2>1, <2>3, <2>5, ChainShrinks DEF OpUnit, UnitOf, Op
    <3> QED BY <2>1, <3>1
  <2>7. \E g : Pass(p, g)'
    BY <2>1, <2>2, <2>6 DEF Pass
  <2>8. ValuesInRange'
    <3>1. m \in 0 .. m + 1
      BY <2>1
    <3>2. h[m] \in [Unit -> 0 .. SEMVMX]
      BY <2>5, <3>1 DEF Chain
    <3> QED BY <2>6, <3>2 DEF ValuesInRange
  <2> QED BY <2>7, <2>8, ValuesStep
<1>7. CASE SemexitAdjust(p)
  <2>1. pc'[p] = "exit"
    BY <1>7 DEF SemexitAdjust, At, procVars
  <2>2. UNCHANGED semval \/ \E u, v : v \in 0 .. SEMVMX /\ semval' = [semval EXCEPT ![u] = v]
    BY <1>7 DEF SemexitAdjust
  <2>3. ValuesInRange'
    BY <1>0, <2>2 DEF ValuesInRange
  <2> QED BY <2>1, <2>3, ValuesStep
<1> QED
  BY <1>1, <1>2, <1>3, <1>4, <1>5, <1>6, <1>7 DEF Continue

\* Every step keeps the values in range and the passes' histories.
LEMMA NextValues == ValuesOK /\ [Next]_vars => ValuesOK'
<1> SUFFICES ASSUME ValuesOK, [Next]_vars PROVE ValuesOK'
  OBVIOUS
<1>1. ASSUME NEW p \in Proc, Signal(p) PROVE ValuesOK'
  <2>1. UNCHANGED <<sema, semval, pc, call>>
    BY <1>1 DEF Signal, setVars, procVars
  <2> QED BY <1>1, <2>1, ValuesStep DEF ValuesOK, ValuesInRange, Pass
<1>2. CASE UNCHANGED vars
  BY <1>2, NextType DEF vars, setVars, procVars, ValuesOK, ValuesInRange, Pass, OneRuns
<1> QED BY <1>1, <1>2, RequestValues, ContinueValues DEF Next

\* Initially every value is zero and no pass is under way.
LEMMA InitValues == Init => ValuesOK
BY InitType, SizesAssumption DEF Init, ValuesOK, OneRuns, ValuesInRange, NoPreempt

\* No value leaves 0 to SEMVMX, though semundo and IPC_RMID look at nothing:
\* semundo goes back along the values there were.
THEOREM ValuesStayInRange == Spec => []ValuesInRange
<1>1. ValuesOK => ValuesInRange
  BY DEF ValuesOK
<1> QED BY <1>1, InitValues, NextValues, PTL DEF Spec
-----------------------------------------------------------------------------
(* Sleepers *)

\* No operation of the vector is on a semaphore of another one
Once(sops) == \A i, j \in 1 .. Len(sops) : i # j => sops[i].num # sops[j].num

\* Process q, on a queue, waits for an operation of its own that values v do
\* not allow
Blocked(q, v) ==
    \E i \in 1 .. Len(call[q].sops) :
        /\ wchan[q] = <<IF Op(q, i).op < 0 THEN "ncnt" ELSE "zcnt", OpUnit(q, i)>>
        /\ Waits(Op(q, i), v[OpUnit(q, i)])

\* What p's pass has brought about can be taken back: nobody could have gone on
\* at any of its values, and the operation p itself will wait for could not be
\* done at any of them.
PassOK(p, h) ==
    /\ Pass(p, h)
    /\ \A j \in 0 .. call[p].n : \A q \in Proc : Asleep(q) => Blocked(q, h[j])
    /\ pc[p] = "ops" =>
         \A j \in 0 .. call[p].n : \A u \in Unit :
            (\A k \in 1 .. call[p].n : OpUnit(p, k) # u) => h[j][u] = semval[u]
    /\ pc[p] = "backout" /\ call[p].error = "SLEEP" =>
         \E i \in 1 .. Len(call[p].sops) :
            /\ call[p].chan = <<IF Op(p, i).op < 0 THEN "ncnt" ELSE "zcnt", OpUnit(p, i)>>
            /\ \A j \in 0 .. call[p].n : Waits(Op(p, i), h[j][OpUnit(p, i)])

BlockedOK ==
    /\ Kept /\ ValuesOK
    /\ \A p \in Proc : Once(call[p].sops)
    /\ \A q \in Proc : Asleep(q) => Blocked(q, semval)
    /\ \A p \in Proc : pc[p] \in {"ops", "backout"} => \E h : PassOK(p, h)

\* Whoever is still on a queue after WakeCounted was on no queue of C.
LEMMA WokenGone ==
    ASSUME TypeOK, SleepersCounted, NEW C, WakeCounted(C), NEW q \in Proc, Asleep(q)'
    PROVE  wchan[q] \notin C /\ wchan'[q] = wchan[q] /\ Asleep(q)
<1>1. wchan'[q] = wchan[q] /\ wchan[q] \notin {c \in C : cnt[c] > 0}
  BY DEF WakeCounted, Wakeprocs, Asleep
<1>2. Asleep(q)
  BY <1>1 DEF Asleep
<1>3. cnt[wchan[q]] > 0
  BY <1>2 DEF SleepersCounted
<1> QED BY <1>1, <1>2, <1>3

\* What a sleeper waits for is still not possible after a change of values that
\* neither raises one on its ncnt queue nor zeroes one on its zcnt queue.
LEMMA BlockedMoves ==
    ASSUME TypeOK, NEW q \in Proc, NEW v \in [Unit -> Int], NEW w \in [Unit -> Int], Blocked(q, v),
           \A u \in Unit : /\ w[u] > v[u] => wchan[q] # <<"ncnt", u>>
                           /\ w[u] = 0 /\ v[u] # 0 => wchan[q] # <<"zcnt", u>>
    PROVE  Blocked(q, w)
<1>1. PICK i \in 1 .. Len(call[q].sops) :
        /\ wchan[q] = <<IF Op(q, i).op < 0 THEN "ncnt" ELSE "zcnt", OpUnit(q, i)>>
        /\ Waits(Op(q, i), v[OpUnit(q, i)])
  BY DEF Blocked
<1> DEFINE u == OpUnit(q, i)
           d == Op(q, i).op
<1>2. u \in Unit /\ d \in Int
  BY OpType DEF Sembuf
<1>3. Waits(Op(q, i), w[u])
  <2>1. v[u] \in Int /\ w[u] \in Int
    BY <1>2
  <2>2. CASE d < 0 /\ v[u] < -d
    <3>1. ~ (w[u] > v[u])
      BY <1>1, <1>2, <2>2
    <3> QED BY <1>2, <2>1, <2>2, <3>1 DEF Waits
  <2>3. CASE d = 0 /\ v[u] # 0
    <3>1. wchan[q] = <<"zcnt", u>>
      BY <1>1, <2>3
    <3>2. ~ (w[u] = 0)
      BY <1>2, <2>3, <3>1
    <3> QED BY <2>1, <2>3, <3>2 DEF Waits
  <2> QED BY <1>1, <2>2, <2>3 DEF Waits
<1> QED BY <1>1, <1>3 DEF Blocked

\* The same sleeper in the next state.
LEMMA BlockedSame ==
    ASSUME NEW q, NEW v, Blocked(q, v), call'[q] = call[q], wchan'[q] = wchan[q],
           sema'[call[q].id.slot].base = sema[call[q].id.slot].base
    PROVE  Blocked(q, v)'
<1>1. \A i : Op(q, i)' = Op(q, i) /\ OpUnit(q, i)' = OpUnit(q, i)
  BY DEF Op, OpUnit, UnitOf
<1> QED BY <1>1 DEF Blocked

\* No step moves a set that exists.
LEMMA BasesStay ==
    ASSUME Kept, CopyinSleeps = FALSE, NEW p \in Proc, Request(p) \/ Continue(p) \/ Signal(p),
           NEW s \in Slot, sema[s].alloc
    PROVE  sema'[s].base = sema[s].base
<1>0. sema \in [Slot -> Header]
  BY DEF Kept, TypeOK, SetsType
<1>1. ASSUME NEW key \in Key, NEW n \in 0 .. SEMMSL + 1, Semget(p, key, n)
      PROVE  sema'[s].base = sema[s].base
  <2>1. PICK t \in Slot : ~ sema[t].alloc /\ \A r \in Slot : r # t => sema'[r] = sema[r]
    BY <1>0, <1>1 DEF Semget
  <2> QED BY <2>1
<1>2. ASSUME NEW id \in Id, SemctlRmid(p, id)
      PROVE  sema'[s].base = sema[s].base
  BY <1>0, <1>2 DEF SemctlRmid, Header
<1>3. CASE SemctlIpcset(p)
  BY <1>3, IpcsetStays
<1>4. CASE UNCHANGED setVars
  BY <1>4 DEF setVars
<1>5. CASE Request(p)
  BY <1>1, <1>2, <1>4, <1>5 DEF Request, SemctlSetval, SemctlCopyin, Semop, Semexit
<1>6. CASE Continue(p)
  BY <1>3, <1>4, <1>6 DEF Continue, SemctlSetall, SemctlFails, SemopCopyin, SemopApply,
     SemopBlock, SemopDone, Semundo, SemopSleep, SemopFail, SemopAgain, SemopInterrupted,
     SemopReturn, SemexitAdjust, SemexitDone
<1>7. CASE Signal(p)
  BY <1>4, <1>7 DEF Signal
<1> QED BY <1>5, <1>6, <1>7

\* Whoever sleeps after a step slept before it, at the same place, or is the
\* process that took the step.
LEMMA SleepersStay ==
    ASSUME Kept, CopyinSleeps = FALSE, NEW p \in Proc, Request(p) \/ Continue(p) \/ Signal(p),
           NEW q \in Proc, Asleep(q)', q # p \/ ~ SemopSleep(p)
    PROVE  /\ Asleep(q) /\ q # p /\ wchan'[q] = wchan[q] /\ call'[q] = call[q]
           /\ sema'[call[q].id.slot].base = sema[call[q].id.slot].base
<1>0. wchan \in [Proc -> Chan \cup {NoChan}] /\ TypeOK
  BY DEF Kept, TypeOK, WaitType
<1>1. /\ wchan'[q] = wchan[q]
      /\ q # p
  <2>1. CASE Request(p)
    <3>1. UNCHANGED waitVars \/ \E C : WakeCounted(C)
      BY <2>1 DEF Request, Semget, SemctlRmid, SemctlSetval, SemctlCopyin, Semop, Semexit
    <3>2. ~ Asleep(p)
      BY <1>0, <2>1 DEF Request, Semget, SemctlRmid, SemctlSetval, SemctlCopyin, Semop, Semexit, At, TypeOK, LocalType
    <3>3. wchan'[q] = wchan[q]
      BY <3>1, OnlyWakes
    <3> QED BY <3>2, <3>3 DEF Asleep
  <2>2. CASE Continue(p) /\ ~ SemopSleep(p)
    <3>1. UNCHANGED wchan \/ \E C : Wakeprocs(C) \/ WakeCounted(C)
      BY <2>2 DEF Continue, SemctlSetall, SemctlIpcset, SemctlFails, SemopCopyin, SemopApply,
         SemopBlock, SemopDone, Semundo, SemopFail, SemopAgain, SemopInterrupted,
         SemopReturn, SemexitAdjust, SemexitDone, waitVars
    <3>2. ~ Asleep(p)
      BY <1>0, <2>2 DEF Continue, SemctlSetall, SemctlIpcset, SemctlFails, SemopCopyin, SemopApply,
         SemopBlock, SemopDone, Semundo, SemopFail, SemopAgain, SemopInterrupted,
         SemopReturn, SemexitAdjust, SemexitDone, At, TypeOK, LocalType
    <3>3. wchan'[q] = wchan[q]
      BY <3>1, OnlyWakes
    <3> QED BY <3>2, <3>3 DEF Asleep
  <2>3. CASE SemopSleep(p)
    BY <1>0, <2>3 DEF SemopSleep, GoToSleep
  <2>4. CASE Signal(p)
    BY <1>0, <2>4 DEF Signal, Setrun, Asleep
  <2> QED BY <2>1, <2>2, <2>3, <2>4
<1>2. Asleep(q)
  BY <1>1 DEF Asleep
<1>3. call'[q] = call[q]
  BY <1>0, <1>1, StepOfOne
<1>4. Semconv(call[q].id) /\ call[q].id.slot \in Slot
  BY <1>0, <1>2 DEF Kept, SetsOK, SleepersOnLiveSets, TypeOK, ProcType, Call, Id
<1>5. sema'[call[q].id.slot].base = sema[call[q].id.slot].base
  BY <1>4, BasesStay DEF Semconv
<1> QED BY <1>1, <1>2, <1>3, <1>5

\* So a step has to be looked at for the values it leaves, for the process that
\* goes to sleep, and for the pass it works on.
LEMMA BlockedStep ==
    ASSUME BlockedOK, CopyinSleeps = FALSE, NEW p \in Proc, Request(p) \/ Continue(p) \/ Signal(p),
           Once(call'[p].sops), NEW w, w = semval',
           \A q \in Proc : Asleep(q) /\ Asleep(q)' => Blocked(q, w),
           SemopSleep(p) => Blocked(p, w)',
           pc'[p] \in {"ops", "backout"} => \E h : PassOK(p, h)'
    PROVE  BlockedOK'
<1>0. Kept' /\ ValuesOK'
  BY NextKept, NextValues DEF Next, BlockedOK
<1>1. \A q \in Proc : Once(call'[q].sops)
  BY StepOfOne DEF BlockedOK, Kept
<1>2. ASSUME NEW q \in Proc, Asleep(q)' PROVE Blocked(q, w)'
  <2>1. CASE q = p /\ SemopSleep(p)
    BY <2>1
  <2>2. CASE q # p \/ ~ SemopSleep(p)
    <3>1. /\ Asleep(q) /\ wchan'[q] = wchan[q] /\ call'[q] = call[q]
          /\ sema'[call[q].id.slot].base = sema[call[q].id.slot].base
      BY <1>2, <2>2, SleepersStay DEF BlockedOK
    <3> QED BY <1>2, <3>1, BlockedSame
  <2> QED BY <2>1, <2>2
<1>3. \A q \in Proc : Asleep(q)' => Blocked(q, semval)'
  BY <1>2 DEF Blocked
<1>4. ASSUME NEW q \in Proc, pc'[q] \in {"ops", "backout"} PROVE \E h : PassOK(q, h)'
  <2>1. q = p
    BY <1>4, StepOfOne DEF BlockedOK, Kept, NoPreempt
  <2> QED BY <1>4, <2>1
<1> QED BY <1>0, <1>1, <1>3, <1>4 DEF BlockedOK, Once

\* Values as BlockedMoves takes them.
LEMMA ValueTypes ==
    ASSUME BlockedOK
    PROVE  semval \in [Unit -> 0 .. SEMVMX] /\ semval \in [Unit -> Int]
<1>1. semval \in [Unit -> 0 .. SEMVMX]
  BY RangeType DEF BlockedOK, ValuesOK, TypeOK
<1> QED BY <1>1, SizesAssumption

\* The steps that change no value leave every sleeper blocked.
LEMMA SameValues ==
    ASSUME BlockedOK, UNCHANGED semval
    PROVE  \A q \in Proc : Asleep(q) => Blocked(q, semval')
BY DEF BlockedOK

\* Requests: IPC_RMID wakes the sleepers of the set it zeroes, SETVAL those who
\* could go on with the new value.
LEMMA RequestBlocked ==
    ASSUME BlockedOK, CopyinSleeps = FALSE, \A sops \in Vectors : Once(sops),
           NEW p \in Proc, Request(p)
    PROVE  BlockedOK'
<1>0. /\ pc \in [Proc -> Pcs] /\ call \in [Proc -> Call] /\ TypeOK /\ SleepersCounted
      /\ wchan \in [Proc -> Chan \cup {NoChan}] /\ sema \in [Slot -> Header]
  BY DEF BlockedOK, Kept, TypeOK, ProcType, WaitType, SetsType
<1>1. pc[p] = "user" /\ (UNCHANGED pc \/ \E where \in {"setall", "ipcset", "copyin", "exit"} : Goto(p, where))
  BY DEF Request, Semget, SemctlRmid, SemctlSetval, SemctlCopyin, Semop, Semexit, At, procVars
<1>2. pc'[p] \notin {"ops", "backout"} /\ ~ SemopSleep(p)
  BY <1>0, <1>1 DEF Goto, SemopSleep, At
<1>3. Once(call'[p].sops)
  <2>1. Once(<<>>) /\ NoCall.sops = <<>>
    BY DEF Once, NoCall
  <2>2. CASE UNCHANGED call
    BY <2>2 DEF BlockedOK
  <2>3. ASSUME NEW id \in Id, call' = [call EXCEPT ![p] = [NoCall EXCEPT !.id = id]]
        PROVE  Once(call'[p].sops)
    <3>1. call'[p].sops = <<>>
      BY <1>0, <2>3 DEF NoCall
    <3> QED BY <2>1, <3>1
  <2>4. ASSUME NEW id \in Id, NEW sops \in Vectors, call' = [call EXCEPT ![p] = [NoCall EXCEPT !.id = id, !.sops = sops]]
        PROVE  Once(call'[p].sops)
    <3>1. call'[p].sops = sops
      BY <1>0, <2>4 DEF NoCall
    <3> QED BY <3>1
  <2> QED BY <2>2, <2>3, <2>4 DEF Request, Semget, SemctlRmid, SemctlSetval, SemctlCopyin, Semop, Semexit, procVars
<1>4. semval' \in [Unit -> Int]
  BY NextType DEF Next, BlockedOK, Kept, TypeOK, ValType
<1>5. ASSUME NEW q \in Proc, Asleep(q), Asleep(q)' PROVE Blocked(q, semval')
  <2>0. Blocked(q, semval) /\ semval \in [Unit -> Int]
    BY <1>5, ValueTypes DEF BlockedOK
  <2>1. CASE UNCHANGED semval
    BY <2>0, <2>1
  <2>2. ASSUME NEW id \in Id, SemctlRmid(p, id) PROVE Blocked(q, semval')
    <3>1. /\ semval' = [u \in Unit |-> IF u \in UnitsOf(id.slot) THEN 0 ELSE semval[u]]
          /\ WakeCounted({"ncnt", "zcnt"} \X UnitsOf(id.slot))
      BY <2>2 DEF SemctlRmid
    <3>2. wchan[q] \notin {"ncnt", "zcnt"} \X UnitsOf(id.slot)
      BY <1>0, <1>5, <3>1, WokenGone
    <3>3. \A u \in Unit : /\ semval'[u] > semval[u] => wchan[q] # <<"ncnt", u>>
                          /\ semval'[u] = 0 /\ semval[u] # 0 => wchan[q] # <<"zcnt", u>>
      <4> SUFFICES ASSUME NEW u \in Unit, u \notin UnitsOf(id.slot)
                   PROVE  semval'[u] = semval[u]
        BY <2>0, <3>2
      <4> QED BY <3>1
    <3> QED BY <1>0, <1>4, <2>0, <3>3, BlockedMoves
  <2>3. ASSUME NEW id \in Id, NEW num \in Num, NEW val \in 0 .. SEMVMX, SemctlSetval(p, id, num, val)
        PROVE  Blocked(q, semval')
    <3> DEFINE x == UnitOf(id.slot, num)
    <3>1. /\ semval' = [semval EXCEPT ![x] = val]
          /\ WakeCounted({IF val # 0 THEN <<"ncnt", x>> ELSE <<"zcnt", x>>})
      BY <2>3 DEF SemctlSetval
    <3>2. wchan[q] # IF val # 0 THEN <<"ncnt", x>> ELSE <<"zcnt", x>>
      BY <1>0, <1>5, <3>1, WokenGone
    <3>3. x \in Unit /\ id.slot \in Slot
      BY <1>0, UnitOfType DEF Id
    <3> HIDE DEF x
    <3>4. \A u \in Unit : /\ semval'[u] > semval[u] => wchan[q] # <<"ncnt", u>>
                          /\ semval'[u] = 0 /\ semval[u] # 0 => wchan[q] # <<"zcnt", u>>
      <4> TAKE u \in Unit
      <4>1. CASE u # x
        <5>1. semval'[u] = semval[u]
          BY <2>0, <3>1, <4>1
        <5> QED BY <2>0, <5>1
      <4>2. CASE u = x
        <5>1. semval'[u] = val /\ semval[u] \in 0 .. SEMVMX
          BY <2>0, <3>1, <3>3, <4>2, ValueTypes
        <5> QED BY <3>2, <4>2, <5>1, SizesAssumption
      <4> QED BY <4>1, <4>2
    <3> QED BY <1>0, <1>4, <2>0, <3>4, BlockedMoves
  <2> QED BY <2>1, <2>2, <2>3 DEF Request, Semget, SemctlCopyin, Semop, Semexit
<1> QED BY <1>2, <1>3, <1>5, BlockedStep

\* A change by delta to a value in range wakes whom it lets go on: the others
\* stay blocked.
LEMMA WokenByLeaves ==
    ASSUME BlockedOK, NEW u \in Unit, NEW delta \in Int, semval[u] + delta \in 0 .. SEMVMX,
           semval' = [semval EXCEPT ![u] = @ + delta],
           WakeCounted(WokenBy(delta, u, semval[u] + delta)),
           NEW q \in Proc, Asleep(q)', NEW v \in [Unit -> Int], v[u] = semval[u], Blocked(q, v)
    PROVE  Blocked(q, [v EXCEPT ![u] = @ + delta])
<1>0. TypeOK /\ SleepersCounted
  BY DEF BlockedOK, Kept
<1>1. wchan[q] \notin WokenBy(delta, u, semval[u] + delta)
  BY <1>0, WokenGone
<1>2. semval[u] \in 0 .. SEMVMX
  BY ValueTypes
<1>3. [v EXCEPT ![u] = @ + delta] \in [Unit -> Int]
  OBVIOUS
<1>4. \A x \in Unit : /\ [v EXCEPT ![u] = @ + delta][x] > v[x] => wchan[q] # <<"ncnt", x>>
                      /\ [v EXCEPT ![u] = @ + delta][x] = 0 /\ v[x] # 0 => wchan[q] # <<"zcnt", x>>
  <2> TAKE x \in Unit
  <2>1. CASE x # u
    <3>1. [v EXCEPT ![u] = @ + delta][x] = v[x] /\ v[x] \in Int
      BY <2>1
    <3> QED BY <3>1
  <2>2. CASE x = u
    <3>1. [v EXCEPT ![u] = @ + delta][x] = semval[u] + delta /\ v[x] = semval[u]
      BY <2>2
    <3>2. semval[u] + delta > semval[u] => delta > 0
      BY <1>2
    <3>3. semval[u] + delta = 0 /\ semval[u] # 0 => delta < 0
      BY <1>2
    <3> QED BY <1>1, <2>2, <3>1, <3>2, <3>3 DEF WokenBy
  <2> QED BY <2>1, <2>2
<1> QED BY <1>0, <1>3, <1>4, BlockedMoves

\* SETALL wakes, on each semaphore of the set, those who could go on.
LEMMA SetallBlocked ==
    ASSUME BlockedOK, CopyinSleeps = FALSE, NEW p \in Proc, SemctlSetall(p)
    PROVE  BlockedOK'
<1>0. /\ pc \in [Proc -> Pcs] /\ call \in [Proc -> Call] /\ TypeOK /\ SleepersCounted
      /\ sema \in [Slot -> Header] /\ call[p].id.slot \in Slot
  BY DEF BlockedOK, Kept, TypeOK, ProcType, SetsType, Call, Id
<1> DEFINE units == UnitsOf(call[p].id.slot)
<1>1. PICK vals \in [units -> 0 .. SEMVMX] :
        /\ semval' = [u \in Unit |-> IF u \in units THEN vals[u] ELSE semval[u]]
        /\ WakeCounted({<<IF vals[u] # 0 THEN "ncnt" ELSE "zcnt", u>> : u \in units})
  BY <1>0 DEF SemctlSetall
<1>2. /\ pc'[p] = "user" /\ pc[p] = "setall" /\ call'[p] = NoCall /\ Continue(p)
  BY <1>0 DEF SemctlSetall, Return, Goto, At, Continue
<1>3. Once(call'[p].sops)
  BY <1>2 DEF Once, NoCall
<1>4. semval' \in [Unit -> Int]
  BY <1>2, NextType DEF Next, BlockedOK, Kept, TypeOK, ValType
<1> HIDE DEF units
<1>5. ASSUME NEW q \in Proc, Asleep(q), Asleep(q)' PROVE Blocked(q, semval')
  <2>0. Blocked(q, semval) /\ semval \in [Unit -> Int]
    BY <1>5, ValueTypes DEF BlockedOK
  <2>1. \A u \in units : wchan[q] # <<IF vals[u] # 0 THEN "ncnt" ELSE "zcnt", u>>
    <3>1. PICK C : /\ C = {<<IF vals[u] # 0 THEN "ncnt" ELSE "zcnt", u>> : u \in units}
                   /\ WakeCounted(C)
      BY <1>1
    <3>2. wchan[q] \notin C
      BY <1>0, <1>5, <3>1, WokenGone
    <3> QED BY <3>1, <3>2
  <2>2. \A u \in Unit : /\ semval'[u] > semval[u] => wchan[q] # <<"ncnt", u>>
                        /\ semval'[u] = 0 /\ semval[u] # 0 => wchan[q] # <<"zcnt", u>>
    <3> TAKE u \in Unit
    <3>1. CASE u \notin units
      <4>1. semval'[u] = semval[u] /\ semval[u] \in Int
        BY <1>1, <2>0, <3>1
      <4> QED BY <4>1
    <3>2. CASE u \in units
      <4>1. semval'[u] = vals[u] /\ semval[u] \in 0 .. SEMVMX /\ vals[u] \in 0 .. SEMVMX
        BY <1>1, <3>2, ValueTypes
      <4> QED BY <2>1, <3>2, <4>1, SizesAssumption
    <3> QED BY <3>1, <3>2
  <2> QED BY <1>0, <1>4, <2>0, <2>2, BlockedMoves
<1>6. ~ SemopSleep(p)
  BY <1>2 DEF SemopSleep, At
<1> QED BY <1>2, <1>3, <1>5, <1>6, BlockedStep

\* An operation done: the values after it leave every sleeper blocked too.
LEMMA ApplyBlocked ==
    ASSUME BlockedOK, CopyinSleeps = FALSE, NEW p \in Proc, SemopApply(p)
    PROVE  BlockedOK'
<1>0. /\ pc \in [Proc -> Pcs] /\ call \in [Proc -> Call] /\ TypeOK
      /\ call[p] \in Call /\ call[p].n \in Nat /\ Len(call[p].sops) \in Nat
  BY DEF BlockedOK, Kept, TypeOK, ProcType, Call
<1> DEFINE n == call[p].n
           u == OpUnit(p, n + 1)
           d == Op(p, n + 1).op
<1>1. /\ pc[p] = "ops" /\ pc'[p] = "ops" /\ UNCHANGED sema /\ n + 1 \in 1 .. Len(call[p].sops)
      /\ call' = [call EXCEPT ![p].n = n + 1]
      /\ OpError(p, Op(p, n + 1), OpEntry(p, n + 1), semval[u]) = "ok"
      /\ semval' = [semval EXCEPT ![u] = @ + d]
      /\ WakeCounted(WokenBy(d, u, semval[u] + d))
      /\ Continue(p)
  BY <1>0 DEF SemopApply, At, setVars, Continue
<1>2. call'[p].n = n + 1 /\ call'[p].id = call[p].id /\ call'[p].sops = call[p].sops
  BY <1>0, <1>1 DEF Call
<1>3. u \in Unit /\ d \in Int
  BY <1>0, <1>1, OpType DEF Sembuf
<1>4. semval[u] + d \in 0 .. SEMVMX /\ semval \in [Unit -> Int]
  <2>1. semval[u] \in 0 .. SEMVMX /\ semval \in [Unit -> Int]
    BY <1>3, ValueTypes
  <2> QED BY <1>1, <1>3, <2>1, OpInRange
<1>5. PICK w \in [Unit -> 0 .. SEMVMX] : w = semval'
  <2>1. semval' \in [Unit -> 0 .. SEMVMX]
    BY <1>1, <1>3, <1>4, ValueTypes
  <2> QED BY <2>1
<1>6. PICK h : PassOK(p, h)
  BY <1>1 DEF BlockedOK
<1>7. ASSUME NEW q \in Proc, Asleep(q)' PROVE Blocked(q, w) /\ Asleep(q)
  <2>1. Asleep(q)
    BY <1>0, <1>1, <1>7, WokenGone DEF BlockedOK, Kept
  <2>2. Blocked(q, semval)
    BY <2>1 DEF BlockedOK
  <2>3. Blocked(q, [semval EXCEPT ![u] = @ + d])
    BY <1>1, <1>3, <1>4, <1>7, <2>2, WokenByLeaves
  <2> QED BY <1>1, <1>5, <2>1, <2>3
<1> DEFINE f == [j \in 0 .. n + 1 |-> IF j = n + 1 THEN w ELSE h[j]]
<1>8. PICK g : g = f
  OBVIOUS
<1>9. g[n + 1] = w /\ \A j \in 0 .. n : g[j] = h[j]
  BY <1>0, <1>8
<1>10. Pass(p, g)'
  <2>1. /\ Chain(h, n, semval, call[p].sops, sema[call[p].id.slot].base)
        /\ w = [semval EXCEPT ![sema[call[p].id.slot].base + call[p].sops[n + 1].num] = @ + call[p].sops[n + 1].op]
    BY <1>1, <1>5, <1>6 DEF PassOK, Pass, OpUnit, UnitOf, Op
  <2>2. Chain(g, n + 1, w, call[p].sops, sema[call[p].id.slot].base)
    <3>1. n \in Nat
      BY <1>0
    <3> HIDE DEF n
    <3>2. Chain(Longer(h, n, w), n + 1, w, call[p].sops, sema[call[p].id.slot].base)
      BY <1>5, <2>1, <3>1, ChainGrows
    <3> QED BY <1>8, <3>2 DEF Longer
  <2> QED BY <1>1, <1>2, <1>5, <2>2 DEF Pass
<1> HIDE DEF f
<1>11. ASSUME NEW j \in 0 .. n + 1, NEW q \in Proc, Asleep(q)' PROVE Blocked(q, g[j])'
  <2>1. Blocked(q, g[j])
    <3>1. CASE j = n + 1
      BY <1>7, <1>9, <1>11, <3>1
    <3>2. CASE j # n + 1
      <4>1. j \in 0 .. n
        BY <1>0, <3>2
      <4> QED BY <1>6, <1>7, <1>9, <1>11, <4>1 DEF PassOK
    <3> QED BY <3>1, <3>2
  <2>2. q # p \/ ~ SemopSleep(p)
    BY <1>1 DEF SemopSleep, At
  <2> QED BY <1>1, <1>11, <2>1, <2>2, SleepersStay, BlockedSame DEF BlockedOK
<1>12. ASSUME NEW j \in 0 .. n + 1, NEW x \in Unit, \A k \in 1 .. n + 1 : OpUnit(p, k) # x
       PROVE  g[j][x] = w[x]
  <2>1. w[x] = semval[x]
    <3>1. n + 1 \in 1 .. n + 1
      BY <1>0
    <3> QED BY <1>1, <1>4, <1>5, <1>12, <3>1
  <2>2. CASE j = n + 1
    BY <1>9, <2>2
  <2>3. CASE j # n + 1
    <3>1. j \in 0 .. n /\ \A k \in 1 .. n : k \in 1 .. n + 1
      BY <1>0, <2>3
    <3>2. h[j][x] = semval[x]
      BY <1>1, <1>6, <1>12, <3>1 DEF PassOK
    <3> QED BY <1>9, <2>1, <3>1, <3>2
  <2> QED BY <2>2, <2>3
<1>13. \A k : OpUnit(p, k)' = OpUnit(p, k)
  BY <1>1, <1>2 DEF OpUnit, Op, UnitOf
<1> HIDE DEF n, u, d
<1>14. PassOK(p, g)'
  <2>1. call'[p].n = n + 1 /\ pc'[p] = "ops" /\ semval' = w
    BY <1>1, <1>2, <1>5
  <2> QED BY <2>1, <1>10, <1>11, <1>12, <1>13 DEF PassOK
<1>15. Once(call'[p].sops)
  BY <1>2 DEF BlockedOK
<1>16. ~ SemopSleep(p)
  BY <1>1 DEF SemopSleep, At
<1> QED BY <1>1, <1>5, <1>7, <1>14, <1>15, <1>16, BlockedStep

\* An operation that cannot be done: it could not at any value of the pass,
\* because no earlier operation was on its semaphore.
LEMMA BlockBlocked ==
    ASSUME BlockedOK, CopyinSleeps = FALSE, NEW p \in Proc, SemopBlock(p)
    PROVE  BlockedOK'
<1>0. /\ pc \in [Proc -> Pcs] /\ call \in [Proc -> Call] /\ TypeOK
      /\ call[p] \in Call /\ call[p].n \in Nat /\ Len(call[p].sops) \in Nat
  BY DEF BlockedOK, Kept, TypeOK, ProcType, Call
<1> DEFINE n == call[p].n
<1>i. PICK i \in Nat : i = n + 1
  BY <1>0
<1> DEFINE u == OpUnit(p, i)
           e == OpError(p, Op(p, i), OpEntry(p, i), semval[u])
           c == <<IF Op(p, i).op < 0 THEN "ncnt" ELSE "zcnt", u>>
<1>1. /\ pc[p] = "ops" /\ pc'[p] = "backout" /\ UNCHANGED sema /\ i \in 1 .. Len(call[p].sops)
      /\ call' = [call EXCEPT ![p] = [@ EXCEPT !.error = e, !.chan = c]]
      /\ UNCHANGED <<semval, waitVars>> /\ Continue(p)
  BY <1>0, <1>i DEF SemopBlock, At, setVars, Continue, Goto
<1>2. /\ call'[p].n = n /\ call'[p].id = call[p].id /\ call'[p].sops = call[p].sops
      /\ call'[p].error = e /\ call'[p].chan = c
  BY <1>0, <1>1 DEF Call
<1>3. u \in Unit /\ Op(p, i).op \in Int
  BY <1>0, <1>1, OpType DEF Sembuf
<1>4. PICK h : PassOK(p, h)
  BY <1>1 DEF BlockedOK
<1>5. Pass(p, h)'
  BY <1>1, <1>2, <1>4 DEF PassOK, Pass
<1>6. ASSUME e = "SLEEP" PROVE Waits(Op(p, i), semval[u])
  <2>1. semval[u] \in 0 .. SEMVMX
    BY <1>3, ValueTypes
  <2>2. semval[u] < -Op(p, i).op \/ (Op(p, i).op = 0 /\ semval[u] # 0)
    <3>1. \A val, f : SemaoeError(p, val, f) # "SLEEP"
      BY DEF SemaoeError
    <3> QED BY <1>6, <3>1 DEF OpError
  <2> QED BY <1>3, <2>1, <2>2 DEF Waits
<1>7. \A k \in 1 .. n : OpUnit(p, k) # u
  <2> SUFFICES ASSUME NEW k \in 1 .. n, OpUnit(p, k) = u PROVE FALSE
    OBVIOUS
  <2>1. k \in 1 .. Len(call[p].sops) /\ k # i
    BY <1>0, <1>1, <1>i
  <2>2. Op(p, k).num \in Num /\ Op(p, i).num \in Num
    BY <1>0, <1>1, <2>1, OpType DEF Sembuf
  <2>3. sema[call[p].id.slot].base \in Int
    BY <1>0 DEF TypeOK, SetsType, Call, Id, Header
  <2>4. sema[call[p].id.slot].base + Op(p, k).num = sema[call[p].id.slot].base + Op(p, i).num
    BY DEF OpUnit, UnitOf
  <2>5. Op(p, k).num = Op(p, i).num
    BY <2>2, <2>3, <2>4, SizesAssumption DEF Num
  <2> QED BY <1>1, <2>1, <2>5 DEF BlockedOK, Once, Op
<1>8. \A k : OpUnit(p, k)' = OpUnit(p, k) /\ Op(p, k)' = Op(p, k)
  BY <1>1, <1>2 DEF OpUnit, Op, UnitOf
<1>9. ASSUME NEW j \in 0 .. n, NEW q \in Proc, Asleep(q)' PROVE Blocked(q, h[j])'
  <2>1. Asleep(q) /\ Blocked(q, h[j])
    BY <1>1, <1>4, <1>9 DEF PassOK, waitVars, Asleep
  <2>2. q # p \/ ~ SemopSleep(p)
    BY <1>1 DEF SemopSleep, At
  <2> QED BY <1>1, <1>9, <2>1, <2>2, SleepersStay, BlockedSame DEF BlockedOK
<1>10. e = "SLEEP" => \A j \in 0 .. n : Waits(Op(p, i), h[j][u])
  <2>1. \A j \in 0 .. n : h[j][u] = semval[u]
    BY <1>1, <1>3, <1>4, <1>7 DEF PassOK
  <2> QED BY <1>6, <2>1
<1>11. PassOK(p, h)'
  <2>1. /\ call'[p].n = n /\ pc'[p] = "backout" /\ call'[p].error = e /\ call'[p].chan = c
        /\ i \in 1 .. Len(call'[p].sops)
    BY <1>1, <1>2
  <2>2. c = <<IF Op(p, i)'.op < 0 THEN "ncnt" ELSE "zcnt", OpUnit(p, i)'>>
    BY <1>8
  <2>3. e = "SLEEP" => \A j \in 0 .. n : Waits(Op(p, i)', h[j][OpUnit(p, i)'])
    BY <1>8, <1>10
  <2> HIDE DEF n, e, c
  <2> QED BY <1>5, <1>9, <2>1, <2>2, <2>3 DEF PassOK, Waits
<1>12. Once(call'[p].sops)
  BY <1>2 DEF BlockedOK
<1>13. ~ SemopSleep(p)
  BY <1>1 DEF SemopSleep, At
<1>14. \A q \in Proc : Asleep(q) /\ Asleep(q)' => Blocked(q, semval')
  BY <1>1, SameValues
<1> QED BY <1>1, <1>11, <1>12, <1>13, <1>14, BlockedStep

\* semundo's iteration: the values of the pass before the operation taken back,
\* at which everybody was blocked.
LEMMA UndoBlocked ==
    ASSUME BlockedOK, CopyinSleeps = FALSE, NEW p \in Proc, Semundo(p)
    PROVE  BlockedOK'
<1>0. /\ pc \in [Proc -> Pcs] /\ call \in [Proc -> Call] /\ TypeOK
      /\ call[p] \in Call /\ call[p].n \in Nat /\ Len(call[p].sops) \in Nat
      /\ call[p].n <= Len(call[p].sops)
  BY DEF BlockedOK, Kept, TypeOK, ProcType, Call, LocalType
<1>1. /\ pc[p] = "backout" /\ pc'[p] = "backout" /\ UNCHANGED sema /\ call[p].n > 0
      /\ call' = [call EXCEPT ![p].n = call[p].n - 1]
      /\ semval' = [semval EXCEPT ![OpUnit(p, call[p].n)] = @ - Op(p, call[p].n).op]
      /\ UNCHANGED waitVars /\ Continue(p)
  BY <1>0 DEF Semundo, At, setVars, Continue
<1>2. PICK m \in Nat : m + 1 = call[p].n /\ m = call[p].n - 1 /\ m + 1 \in 1 .. Len(call[p].sops)
  <2>1. call[p].n - 1 \in Nat /\ (call[p].n - 1) + 1 = call[p].n /\ call[p].n \in 1 .. Len(call[p].sops)
    BY <1>0, <1>1
  <2> QED BY <2>1
<1>3. call'[p].n = m /\ call'[p].id = call[p].id /\ call'[p].sops = call[p].sops
      /\ call'[p].error = call[p].error /\ call'[p].chan = call[p].chan
  BY <1>0, <1>1, <1>2 DEF Call
<1>4. OpUnit(p, m + 1) \in Unit /\ Op(p, m + 1).op \in Int
  BY <1>0, <1>2, OpType DEF Sembuf
<1>5. PICK h : PassOK(p, h)
  BY <1>1 DEF BlockedOK
<1>6. Chain(h, m + 1, semval, call[p].sops, sema[call[p].id.slot].base)
  BY <1>2, <1>5 DEF PassOK, Pass
<1>7. /\ h[m] = semval'
      /\ Chain(Shorter(h, m), m, h[m], call[p].sops, sema[call[p].id.slot].base)
  <2>1. /\ h[m] = [semval EXCEPT ![OpUnit(p, m + 1)] = @ - Op(p, m + 1).op]
        /\ Chain(Shorter(h, m), m, h[m], call[p].sops, sema[call[p].id.slot].base)
    <3> DEFINE sops == call[p].sops
               base == sema[call[p].id.slot].base
    <3>1. /\ OpUnit(p, m + 1) = base + sops[m + 1].num /\ Op(p, m + 1) = sops[m + 1]
          /\ base + sops[m + 1].num \in Unit /\ sops[m + 1].op \in Int
          /\ Chain(h, m + 1, semval, sops, base)
      BY <1>4, <1>6 DEF OpUnit, UnitOf, Op
    <3> HIDE DEF sops, base
    <3>2. /\ h[m] = [semval EXCEPT ![base + sops[m + 1].num] = @ - sops[m + 1].op]
          /\ Chain(Shorter(h, m), m, h[m], sops, base)
      BY <3>1, ChainShrinks
    <3> QED BY <3>1, <3>2 DEF sops, base
  <2> QED BY <1>1, <1>2, <2>1
<1>8. PICK g : g = Shorter(h, m)
  OBVIOUS
<1>9. \A j \in 0 .. m : g[j] = h[j] /\ j \in 0 .. call[p].n
  BY <1>2, <1>8 DEF Shorter
<1>10. ASSUME NEW q \in Proc, Asleep(q)' PROVE Asleep(q) /\ \A j \in 0 .. m : Blocked(q, g[j])
  BY <1>1, <1>5, <1>9, <1>10 DEF PassOK, waitVars, Asleep
<1>11. ~ SemopSleep(p)
  <2>1. call[p].n # 0
    BY <1>0, <1>1
  <2> QED BY <2>1 DEF SemopSleep
<1>12. ASSUME NEW j \in 0 .. m, NEW q \in Proc, Asleep(q)' PROVE Blocked(q, g[j])'
  BY <1>1, <1>10, <1>11, <1>12, SleepersStay, BlockedSame DEF BlockedOK
<1>13. \A k : OpUnit(p, k)' = OpUnit(p, k) /\ Op(p, k)' = Op(p, k)
  BY <1>1, <1>3 DEF OpUnit, Op, UnitOf
<1>14. call[p].error = "SLEEP" =>
         \E i \in 1 .. Len(call[p].sops) :
            /\ call[p].chan = <<IF Op(p, i).op < 0 THEN "ncnt" ELSE "zcnt", OpUnit(p, i)>>
            /\ \A j \in 0 .. m : Waits(Op(p, i), g[j][OpUnit(p, i)])
  BY <1>1, <1>5, <1>9 DEF PassOK
<1>15. Pass(p, g)'
  BY <1>1, <1>3, <1>7, <1>8 DEF Pass
<1>16. PassOK(p, g)'
  BY <1>1, <1>3, <1>12, <1>13, <1>14, <1>15 DEF PassOK, Waits
<1>17. Once(call'[p].sops)
  BY <1>3 DEF BlockedOK
<1>18. \A q \in Proc : Asleep(q) /\ Asleep(q)' => Blocked(q, semval')
  <2>1. m \in 0 .. m /\ g[m] = semval'
    BY <1>7, <1>8 DEF Shorter
  <2> QED BY <1>10, <2>1
<1> QED BY <1>1, <1>11, <1>16, <1>17, <1>18, BlockedStep

\* The start of a pass, after the copyin.
LEMMA CopyinBlocked ==
    ASSUME BlockedOK, CopyinSleeps = FALSE, NEW p \in Proc, SemopCopyin(p)
    PROVE  BlockedOK'
<1>0. /\ pc \in [Proc -> Pcs] /\ call \in [Proc -> Call] /\ TypeOK /\ call[p] \in Call
  BY DEF BlockedOK, Kept, TypeOK, ProcType
<1>1. /\ pc[p] = "copyin" /\ UNCHANGED <<sema, semval, waitVars>> /\ Continue(p)
  BY DEF SemopCopyin, At, setVars, Continue
<1>2. /\ call'[p].id = call[p].id /\ call'[p].sops = call[p].sops
      /\ pc'[p] \in {"ops", "out"} /\ (pc'[p] = "ops" => call'[p].n = 0)
  <2>1. CASE /\ Goto(p, "ops")
             /\ call' = [call EXCEPT ![p] = [@ EXCEPT !.again = TRUE, !.n = 0,
                                                      !.chan = NoChan, !.error = "ok"]]
    BY <1>0, <2>1 DEF Goto, Call
  <2>2. ASSUME NEW error, Fail(p, error) PROVE pc'[p] = "out" /\ call'[p].id = call[p].id /\ call'[p].sops = call[p].sops
    BY <1>0, <2>2 DEF Fail, Goto, Call
  <2> QED BY <2>1, <2>2 DEF SemopCopyin
<1>3. ~ SemopSleep(p)
  BY <1>1 DEF SemopSleep, At
<1>4. Once(call'[p].sops)
  BY <1>2 DEF BlockedOK
<1>5. \A q \in Proc : Asleep(q) /\ Asleep(q)' => Blocked(q, semval')
  BY <1>1, SameValues
<1>6. ASSUME pc'[p] = "ops" PROVE \E h : PassOK(p, h)'
  <2>1. PICK v \in [Unit -> 0 .. SEMVMX] : v = semval
    BY ValueTypes
  <2>2. PICK g : g = [j \in 0 .. 0 |-> v]
    OBVIOUS
  <2>3. Pass(p, g)'
    BY <1>1, <1>2, <1>6, <2>1, <2>2, ChainStarts DEF Pass
  <2>4. \A j \in 0 .. 0 : g[j] = v
    BY <2>2
  <2>5. ASSUME NEW j \in 0 .. 0, NEW q \in Proc, Asleep(q)' PROVE Blocked(q, g[j])'
    <3>1. Blocked(q, g[j])
      BY <1>1, <2>1, <2>4, <2>5 DEF BlockedOK, waitVars, Asleep
    <3> QED BY <1>1, <1>3, <2>5, <3>1, SleepersStay, BlockedSame DEF BlockedOK
  <2> QED BY <1>1, <1>2, <1>6, <2>1, <2>3, <2>4, <2>5 DEF PassOK
<1> QED BY <1>1, <1>2, <1>3, <1>4, <1>5, <1>6, BlockedStep

\* A process goes to sleep on what it found impossible, at the values that
\* backing out has brought back.
LEMMA SleepBlocked ==
    ASSUME BlockedOK, CopyinSleeps = FALSE, NEW p \in Proc, SemopSleep(p)
    PROVE  BlockedOK'
<1>0. /\ pc \in [Proc -> Pcs] /\ wchan \in [Proc -> Chan \cup {NoChan}]
  BY DEF BlockedOK, Kept, TypeOK, ProcType, WaitType
<1>1. /\ pc[p] = "backout" /\ pc'[p] = "sleep" /\ UNCHANGED <<sema, semval, call>>
      /\ call[p].n = 0 /\ call[p].error = "SLEEP" /\ wchan'[p] = call[p].chan /\ Continue(p)
  BY <1>0 DEF SemopSleep, At, setVars, Continue, Goto, GoToSleep
<1>2. PICK h : PassOK(p, h)
  BY <1>1 DEF BlockedOK
<1>3. 0 \in 0 .. call[p].n /\ h[0] = semval
  BY <1>1, <1>2 DEF PassOK, Pass, Chain
<1>4. PICK i \in 1 .. Len(call[p].sops) :
        /\ call[p].chan = <<IF Op(p, i).op < 0 THEN "ncnt" ELSE "zcnt", OpUnit(p, i)>>
        /\ Waits(Op(p, i), semval[OpUnit(p, i)])
  BY <1>1, <1>2, <1>3 DEF PassOK
<1>5. Op(p, i)' = Op(p, i) /\ OpUnit(p, i)' = OpUnit(p, i)
  BY <1>1 DEF Op, OpUnit, UnitOf
<1>6. PICK w : w = semval'
  OBVIOUS
<1>7. Blocked(p, w)'
  BY <1>1, <1>4, <1>5, <1>6 DEF Blocked, Waits
<1>8. Once(call'[p].sops)
  BY <1>1 DEF BlockedOK
<1>9. \A q \in Proc : Asleep(q) /\ Asleep(q)' => Blocked(q, w)
  BY <1>1, <1>6, SameValues
<1> QED BY <1>1, <1>6, <1>7, <1>8, <1>9, BlockedStep

\* The steps that change no value and start or continue no pass.
LEMMA MoveBlocked ==
    ASSUME BlockedOK, CopyinSleeps = FALSE, NEW p \in Proc,
           \/ SemctlIpcset(p) \/ SemctlFails(p) \/ SemopDone(p) \/ SemopFail(p)
           \/ SemopAgain(p) \/ SemopInterrupted(p) \/ SemopReturn(p) \/ SemexitDone(p)
    PROVE  BlockedOK'
<1>0. /\ pc \in [Proc -> Pcs] /\ call \in [Proc -> Call] /\ TypeOK /\ call[p] \in Call
  BY DEF BlockedOK, Kept, TypeOK, ProcType
<1>1. /\ UNCHANGED semval /\ Continue(p)
      /\ \E where \in {"user", "out", "copyin"} : Goto(p, where)
      /\ UNCHANGED call \/ call' = [call EXCEPT ![p] = NoCall]
         \/ \E error : call' = [call EXCEPT ![p].error = error]
  BY DEF SemctlIpcset, SemctlFails, SemopDone, SemopFail, SemopAgain, SemopInterrupted,
         SemopReturn, SemexitDone, Return, Fail, Continue
<1>2. pc'[p] \in {"user", "out", "copyin"}
  BY <1>0, <1>1 DEF Goto
<1>3. ~ SemopSleep(p)
  BY <1>0, <1>2 DEF SemopSleep, Goto
<1>4. Once(call'[p].sops)
  <2>1. call'[p].sops = call[p].sops \/ call'[p].sops = <<>>
    BY <1>0, <1>1 DEF Call, NoCall
  <2> QED BY <2>1 DEF BlockedOK, Once
<1>5. \A q \in Proc : Asleep(q) /\ Asleep(q)' => Blocked(q, semval')
  BY <1>1, SameValues
<1> QED BY <1>1, <1>2, <1>3, <1>4, <1>5, BlockedStep

\* An adjustment on exit wakes as an operation does.
LEMMA AdjustBlocked ==
    ASSUME BlockedOK, CopyinSleeps = FALSE, NEW p \in Proc, SemexitAdjust(p)
    PROVE  BlockedOK'
<1>0. /\ TypeOK /\ sema \in [Slot -> Header] /\ semval \in [Unit -> Int]
  BY ValueTypes DEF BlockedOK, Kept, TypeOK, SetsType
<1>1. /\ pc[p] = "exit" /\ pc'[p] = "exit" /\ UNCHANGED call /\ Continue(p)
  BY DEF SemexitAdjust, At, procVars, Continue
<1>2. ~ SemopSleep(p)
  BY <1>1 DEF SemopSleep, At
<1>3. Once(call'[p].sops)
  BY <1>1 DEF BlockedOK
<1>4. PICK e \in Entries(p) :
        \/ LET u == UnitOf(e[1].slot, e[2])
               v == semval[u] + sem_undo[p][e]
           IN  /\ v \in 0 .. SEMVMX
               /\ semval' = [semval EXCEPT ![u] = v]
               /\ WakeCounted(WokenBy(sem_undo[p][e], u, v))
        \/ UNCHANGED semval
  BY DEF SemexitAdjust
<1> DEFINE u == UnitOf(e[1].slot, e[2])
           d == sem_undo[p][e]
<1>5. u \in Unit /\ d \in Int
  <2>1. e \in Entry /\ e[1].slot \in Slot /\ e[2] \in Num
    BY DEF Entries, Entry, Id
  <2>2. d \in Aoe
    BY <1>0, <2>1 DEF TypeOK, UndoType
  <2> QED BY <1>0, <2>1, <2>2, UnitOfType, SizesAssumption DEF Aoe
<1>6. ASSUME NEW q \in Proc, Asleep(q), Asleep(q)' PROVE Blocked(q, semval')
  <2>1. CASE UNCHANGED semval
    BY <1>6, <2>1, SameValues
  <2>2. CASE /\ semval[u] + d \in 0 .. SEMVMX
             /\ semval' = [semval EXCEPT ![u] = semval[u] + d]
             /\ WakeCounted(WokenBy(d, u, semval[u] + d))
    <3>1. Blocked(q, semval)
      BY <1>6 DEF BlockedOK
    <3> HIDE DEF u, d
    <3>2. Blocked(q, [semval EXCEPT ![u] = @ + d])
      BY <1>0, <1>5, <1>6, <2>2, <3>1, WokenByLeaves
    <3> QED BY <2>2, <3>2
  <2> QED BY <1>4, <2>1, <2>2
<1> QED BY <1>1, <1>2, <1>3, <1>6, BlockedStep

\* Every sleeper stays blocked, and every pass can be taken back.
LEMMA NextBlocked ==
    ASSUME CopyinSleeps = FALSE, \A sops \in Vectors : Once(sops), BlockedOK, [Next]_vars
    PROVE  BlockedOK'
<1>1. ASSUME NEW p \in Proc, Signal(p) PROVE BlockedOK'
  <2>1. UNCHANGED <<semval, pc, call>> /\ \A q \in Proc : pc[q] \notin NoPreempt
    BY <1>1 DEF Signal, procVars
  <2>2. pc'[p] \notin {"ops", "backout"} /\ ~ SemopSleep(p) /\ Once(call'[p].sops)
    BY <2>1 DEF NoPreempt, SemopSleep, At, BlockedOK
  <2>3. \A q \in Proc : Asleep(q) /\ Asleep(q)' => Blocked(q, semval')
    BY <2>1, SameValues
  <2> QED BY <1>1, <2>2, <2>3, BlockedStep
<1>2. CASE UNCHANGED vars
  <2>1. Kept' /\ ValuesOK'
    BY NextKept, NextValues DEF BlockedOK
  <2>2. UNCHANGED <<sema, semval, wchan, pc, call>>
    BY <1>2 DEF vars, setVars, waitVars, procVars
  <2> QED BY <2>1, <2>2 DEF BlockedOK, Blocked, PassOK, Pass, Op, OpUnit, UnitOf, Asleep
<1>3. ASSUME NEW p \in Proc, Continue(p) PROVE BlockedOK'
  BY <1>3, SetallBlocked, ApplyBlocked, BlockBlocked, UndoBlocked, CopyinBlocked, SleepBlocked,
     MoveBlocked, AdjustBlocked DEF Continue
<1> QED BY <1>1, <1>2, <1>3, RequestBlocked DEF Next

\* Whoever raises a semaphore's value, or brings it to zero, has woken those who
\* waited for that: when no vector names a semaphore twice, a process is on a
\* queue only while an operation of its own cannot be done.
THEOREM SleepersCannotGoOn ==
    CopyinSleeps = FALSE /\ (\A sops \in Vectors : Once(sops)) => (Spec => []SleepersBlocked)
<1> SUFFICES ASSUME CopyinSleeps = FALSE, \A sops \in Vectors : Once(sops)
             PROVE  Spec => []SleepersBlocked
  OBVIOUS
<1>1. Init => BlockedOK
  BY InitKept, InitValues DEF Init, BlockedOK, NoCall, Once, Asleep
<1>2. BlockedOK /\ [Next]_vars => BlockedOK'
  BY NextBlocked
<1>3. BlockedOK => SleepersBlocked
  BY DEF BlockedOK, Blocked, SleepersBlocked
<1> QED BY <1>1, <1>2, <1>3, PTL DEF Spec
-----------------------------------------------------------------------------
(* Sums over the operations of a vector *)

\* What the operations of c's vector in S, up to the n-th, add to entry e
Total(c, n, e, S) ==
    SumFunctionOnSet([i \in DOMAIN c.sops |-> c.sops[i].op],
                     {i \in S : i <= n /\ <<c.id, c.sops[i].num>> = e})

\* A vector has operations by number.
LEMMA VectorType ==
    ASSUME NEW c \in Call
    PROVE  /\ DOMAIN c.sops = 1 .. Len(c.sops) /\ Len(c.sops) \in Nat /\ c.n \in Nat
           /\ \A i \in 1 .. Len(c.sops) : c.sops[i] \in Sembuf /\ c.sops[i].op \in Int /\ c.sops[i].num \in Num
           /\ c.id \in Id /\ c.id.slot \in Slot
<1>1. c.sops \in Seq(Sembuf) /\ c.n \in Nat /\ c.id \in Id
  BY DEF Call
<1>2. \A i \in 1 .. Len(c.sops) : c.sops[i] \in Sembuf
  BY <1>1, ElementOfSeq
<1>3. DOMAIN c.sops = 1 .. Len(c.sops) /\ Len(c.sops) \in Nat
  BY <1>1, LenProperties
<1> QED BY <1>1, <1>2, <1>3 DEF Sembuf, Id

\* No operation adds nothing.
LEMMA TotalNone ==
    ASSUME NEW c \in Call, NEW S \in SUBSET (DOMAIN c.sops), NEW e
    PROVE  Total(c, 0, e, S) = 0
<1>1. {i \in S : i <= 0 /\ <<c.id, c.sops[i].num>> = e} = {}
  BY VectorType
<1> QED BY <1>1, SumOfNone DEF Total

\* The next operation adds to its own entry, if it is one of those added up.
LEMMA TotalMore ==
    ASSUME NEW c \in Call, NEW S \in SUBSET (DOMAIN c.sops), NEW e, NEW n \in Nat,
           n + 1 \in 1 .. Len(c.sops)
    PROVE  /\ Total(c, n, e, S) \in Int
           /\ Total(c, n + 1, e, S) = Total(c, n, e, S) +
                (IF n + 1 \in S /\ <<c.id, c.sops[n + 1].num>> = e THEN c.sops[n + 1].op ELSE 0)
<1> DEFINE f == [i \in DOMAIN c.sops |-> c.sops[i].op]
           A == {i \in S : i <= n /\ <<c.id, c.sops[i].num>> = e}
           B == {i \in S : i <= n + 1 /\ <<c.id, c.sops[i].num>> = e}
<1>1. /\ DOMAIN c.sops = 1 .. Len(c.sops) /\ Len(c.sops) \in Nat
      /\ \A i \in 1 .. Len(c.sops) : c.sops[i].op \in Int
  BY VectorType
<1>2. A \in SUBSET (1 .. Len(c.sops)) /\ n + 1 \notin A
  BY <1>1
<1>3. \A i \in 1 .. Len(c.sops) : f[i] = c.sops[i].op /\ f[i] \in Int
  BY <1>1
<1>4. IsFiniteSet(A) /\ \A i \in A : f[i] \in Int
  <2> HIDE DEF A, f
  <2>1. IsFiniteSet(1 .. Len(c.sops))
    <3>1. \A l \in Nat : IsFiniteSet(1 .. l)
      BY FS_Interval
    <3> QED BY <1>1, <3>1
  <2> QED BY <1>2, <1>3, <2>1, FS_Subset
<1>5. f[n + 1] = c.sops[n + 1].op /\ f[n + 1] \in Int
  BY <1>3
<1>6. B = IF n + 1 \in S /\ <<c.id, c.sops[n + 1].num>> = e THEN A \cup {n + 1} ELSE A
  <2>1. \A i \in S : i \in Int /\ (i <= n + 1 <=> i <= n \/ i = n + 1)
    BY <1>1
  <2> QED BY <2>1
<1>7. Total(c, n, e, S) = SumFunctionOnSet(f, A) /\ Total(c, n + 1, e, S) = SumFunctionOnSet(f, B)
  BY DEF Total
<1> HIDE DEF f, A, B
<1>8. /\ SumFunctionOnSet(f, A) \in Int
      /\ SumFunctionOnSet(f, A \cup {n + 1}) = SumFunctionOnSet(f, A) + f[n + 1]
  <2> DEFINE x == n + 1
  <2>1. f[x] \in Int /\ x \notin A
    BY <1>2, <1>5
  <2> HIDE DEF x
  <2>2. /\ SumFunctionOnSet(f, A) \in Int
        /\ SumFunctionOnSet(f, A \cup {x}) = SumFunctionOnSet(f, A) + f[x]
    BY <1>4, <2>1, SumOfMore
  <2> QED BY <2>2 DEF x
<1> QED BY <1>5, <1>6, <1>7, <1>8

\* So every such sum is an integer.
LEMMA TotalInt ==
    ASSUME NEW c \in Call, NEW S \in SUBSET (DOMAIN c.sops), NEW e, NEW n \in 0 .. Len(c.sops)
    PROVE  Total(c, n, e, S) \in Int
<1>1. CASE n = 0
  BY <1>1, TotalNone
<1>2. CASE n # 0
  <2>1. n - 1 \in Nat /\ (n - 1) + 1 = n /\ n \in 1 .. Len(c.sops) /\ Len(c.sops) \in Nat
    BY <1>2, VectorType
  <2>2. c.sops[n].op \in Int
    BY <2>1, VectorType
  <2> DEFINE m == n - 1
  <2>3. m \in Nat /\ m + 1 = n /\ m + 1 \in 1 .. Len(c.sops)
    BY <2>1
  <2> HIDE DEF m
  <2>4. Total(c, m, e, S) \in Int /\ Total(c, m + 1, e, S) = Total(c, m, e, S) +
                (IF m + 1 \in S /\ <<c.id, c.sops[m + 1].num>> = e THEN c.sops[m + 1].op ELSE 0)
    BY <2>3, TotalMore
  <2> QED BY <2>2, <2>3, <2>4
<1> QED BY <1>1, <1>2

\* The sums that SemAbs is written with are the same sums.
LEMMA AbsSums ==
    ASSUME NEW f, NEW S
    PROVE  Abs!SumFunctionOnSet(f, S) = SumFunctionOnSet(f, S)
BY DEF Abs!SumFunctionOnSet, Abs!FoldFunctionOnSet, Abs!MapThenFoldSet,
       SumFunctionOnSet, FoldFunctionOnSet, MapThenFoldSet

\* A vector's sum on a semaphore of its set.
LEMMA AbsTotal ==
    ASSUME NEW c \in Call, NEW num, NEW n \in Int, NEW S \in SUBSET (DOMAIN c.sops), \A i \in S : i <= n
    PROVE  Abs!Sum(c.sops, S, num) = Total(c, n, <<c.id, num>>, S)
<1>1. {i \in S : c.sops[i].num = num} = {i \in S : i <= n /\ <<c.id, c.sops[i].num>> = <<c.id, num>>}
  OBVIOUS
<1> QED BY <1>1, AbsSums DEF Abs!Sum, Total
-----------------------------------------------------------------------------
(* What a process in its loop hides *)

AbsStep == [Abs!Next]_<<sizeBar, valBar, adjBar, reqBar>>

\* Entry e names a semaphore that exists
Live(e) == Semconv(e[1]) /\ e[2] < sema[e[1].slot].nsems

\* Its unit
UnitAt(e) == UnitOf(e[1].slot, e[2])

\* The operations of p's vector with SEM_UNDO
Undoing(p) == {i \in DOMAIN call[p].sops : call[p].sops[i].undo}

\* What process p hides of the value of e, and of its adjustment
Hid(p, e) == IF p \in InLoop THEN Total(call[p], call[p].n, e, DOMAIN call[p].sops) ELSE 0
HidUndo(p, e) == IF p \in InLoop THEN Total(call[p], call[p].n, e, Undoing(p)) ELSE 0

\* No process but p is in its loop
Alone(p) == \A q \in Proc \ {p} : q \notin InLoop

\* What p hides is an integer
HidIsInt == TypeOK => \A p \in Proc : \A e : Hid(p, e) \in Int /\ HidUndo(p, e) \in Int

\* It is one in every state.
LEMMA HidType == HidIsInt
<1> SUFFICES ASSUME TypeOK, NEW p \in Proc, NEW e PROVE Hid(p, e) \in Int /\ HidUndo(p, e) \in Int
  BY DEF HidIsInt
<1>1. call[p] \in Call /\ call[p].n <= Len(call[p].sops)
  BY DEF TypeOK, ProcType, LocalType
<1>2. call[p].n \in 0 .. Len(call[p].sops)
  BY <1>1, VectorType
<1>3. DOMAIN call[p].sops \in SUBSET DOMAIN call[p].sops /\ Undoing(p) \in SUBSET DOMAIN call[p].sops
  BY DEF Undoing
<1> QED BY <1>1, <1>2, <1>3, TotalInt DEF Hid, HidUndo

\* Where only p is in its loop, what is hidden is what p hides.
LEMMA HiddenByOne ==
    TypeOK => \A p \in Proc : Alone(p) =>
        /\ \A e : HiddenVal(e) = Hid(p, e)
        /\ \A e : HiddenAoe(p, e) = HidUndo(p, e)
        /\ \A q \in Proc \ {p} : \A e : HiddenAoe(q, e) = 0
<1> SUFFICES ASSUME TypeOK, NEW p \in Proc, Alone(p)
             PROVE  /\ \A e : HiddenVal(e) = Hid(p, e)
                    /\ \A e : HiddenAoe(p, e) = HidUndo(p, e)
                    /\ \A q \in Proc \ {p} : \A e : HiddenAoe(q, e) = 0
  OBVIOUS
<1>1. \A e, S : Applied(p, e, S) = Total(call[p], call[p].n, e, S)
  BY DEF Applied, Total, OpEntry, Op
<1>2. ASSUME NEW e PROVE HiddenVal(e) = Hid(p, e)
  <2> DEFINE f == [q \in Proc |-> Applied(q, e, DOMAIN call[q].sops)]
  <2>1. HiddenVal(e) = SumFunctionOnSet(f, InLoop)
    BY DEF HiddenVal
  <2>2. f[p] = Total(call[p], call[p].n, e, DOMAIN call[p].sops)
    BY <1>1
  <2> HIDE DEF f
  <2>3. CASE p \in InLoop
    <3>1. InLoop = {} \cup {p}
      BY <2>3 DEF Alone, InLoop
    <3>2. f[p] \in Int /\ f[p] = Hid(p, e)
      BY <2>2, <2>3, HidType DEF HidIsInt, Hid
    <3>3. IsFiniteSet({}) /\ p \notin {} /\ \A y \in {} : f[y] \in Int
      BY FS_EmptySet
    <3>4. SumFunctionOnSet(f, {} \cup {p}) = SumFunctionOnSet(f, {}) + f[p]
      <4> DEFINE S == {}
      <4>1. IsFiniteSet(S) /\ p \notin S /\ \A y \in S : f[y] \in Int
        BY <3>3
      <4> HIDE DEF S
      <4>2. SumFunctionOnSet(f, S \cup {p}) = SumFunctionOnSet(f, S) + f[p]
        BY <3>2, <4>1, SumOfMore
      <4> QED BY <4>2 DEF S
    <3>5. SumFunctionOnSet(f, {}) = 0
      BY SumOfNone
    <3> QED BY <2>1, <3>1, <3>2, <3>4, <3>5
  <2>4. CASE p \notin InLoop
    <3>1. InLoop = {}
      BY <2>4 DEF Alone, InLoop
    <3> QED BY <2>1, <2>4, <3>1, SumOfNone DEF Hid
  <2> QED BY <2>3, <2>4
<1>3. \A e : HiddenAoe(p, e) = HidUndo(p, e)
  BY <1>1 DEF HiddenAoe, HidUndo, Undoing
<1>4. \A q \in Proc \ {p} : \A e : HiddenAoe(q, e) = 0
  BY DEF HiddenAoe, Alone
<1> QED BY <1>2, <1>3, <1>4

\* The abstract values and adjustments, where only p is in its loop
BarsOfOne ==
    TypeOK => \A p \in Proc : Alone(p) =>
        /\ valBar = [e \in Entry |-> IF Live(e) THEN semval[UnitAt(e)] - Hid(p, e) ELSE 0]
        /\ adjBar = [q \in Proc |-> [e \in Entry |->
                        sem_undo[q][e] + IF q = p THEN HidUndo(p, e) ELSE 0]]

\* They are so in every state.
LEMMA BarsSeen == BarsOfOne
<1> SUFFICES ASSUME TypeOK, NEW p \in Proc, Alone(p)
             PROVE  /\ valBar = [e \in Entry |-> IF Live(e) THEN semval[UnitAt(e)] - Hid(p, e) ELSE 0]
                    /\ adjBar = [q \in Proc |-> [e \in Entry |->
                                    sem_undo[q][e] + IF q = p THEN HidUndo(p, e) ELSE 0]]
  BY DEF BarsOfOne
<1>1. /\ \A e : HiddenVal(e) = Hid(p, e)
      /\ \A q \in Proc : \A e : HiddenAoe(q, e) = IF q = p THEN HidUndo(p, e) ELSE 0
  BY HiddenByOne
<1> QED BY <1>1 DEF valBar, adjBar, Live, UnitAt

\* A step of p that leaves the sets alone, and hides of values and adjustments
\* what it changes, is not seen in them.
LEMMA Unseen ==
    ASSUME TypeOK, TypeOK', NEW p \in Proc, Alone(p), Alone(p)', UNCHANGED sema,
           \A q \in Proc : q # p => sem_undo'[q] = sem_undo[q],
           \A e \in Entry : Live(e) => semval'[UnitAt(e)] - Hid(p, e)' = semval[UnitAt(e)] - Hid(p, e),
           \A e \in Entry : sem_undo'[p][e] + HidUndo(p, e)' = sem_undo[p][e] + HidUndo(p, e)
    PROVE  UNCHANGED <<sizeBar, valBar, adjBar>>
<1>1. sizeBar' = sizeBar
  BY DEF sizeBar, Semconv
<1>2. /\ valBar = [e \in Entry |-> IF Live(e) THEN semval[UnitAt(e)] - Hid(p, e) ELSE 0]
      /\ adjBar = [q \in Proc |-> [e \in Entry |->
                      sem_undo[q][e] + IF q = p THEN HidUndo(p, e) ELSE 0]]
  BY BarsSeen DEF BarsOfOne
<1>3. BarsOfOne'
  BY BarsSeen, PTL
<1>4. \A e : Live(e)' = Live(e) /\ UnitAt(e)' = UnitAt(e)
  BY DEF Live, UnitAt, Semconv, UnitOf
<1>5. valBar' = valBar
  BY <1>2, <1>3, <1>4 DEF BarsOfOne
<1>6. adjBar' = adjBar
  <2>1. adjBar' = [r \in Proc |-> [e \in Entry |->
                        sem_undo'[r][e] + IF r = p THEN HidUndo(p, e)' ELSE 0]]
    BY <1>3 DEF BarsOfOne
  <2> QED BY <1>2, <2>1
<1> QED BY <1>1, <1>5, <1>6
-----------------------------------------------------------------------------
(* Steps that are not seen *)

\* The request of a process that is at where with frame c
Req(where, c) ==
    IF where \in {"copyin", "ops", "backout", "sleep"}
    THEN [state |-> "pending", id |-> c.id, sops |-> c.sops]
    ELSE IF where = "out" THEN [state |-> "done", error |-> c.error]
    ELSE [state |-> "idle"]

\* A step of p changes p's request only.
LEMMA ReqStep ==
    ASSUME NEW p \in Proc, \A q \in Proc : q # p => pc'[q] = pc[q] /\ call'[q] = call[q]
    PROVE  /\ reqBar[p] = Req(pc[p], call[p])
           /\ reqBar' = [reqBar EXCEPT ![p] = Req(pc'[p], call'[p])]
           /\ Req(pc'[p], call'[p]) = Req(pc[p], call[p]) => reqBar' = reqBar
<1>1. reqBar = [q \in Proc |-> Req(pc[q], call[q])] /\ reqBar' = [q \in Proc |-> Req(pc'[q], call'[q])]
  BY DEF reqBar, Req
<1> HIDE DEF Req, reqBar
<1>2. reqBar' = [reqBar EXCEPT ![p] = Req(pc'[p], call'[p])]
  BY <1>1
<1> QED BY <1>1, <1>2

\* A process that has the processor is alone.
LEMMA RunsAlone ==
    ASSUME NEW p \in Proc, MayRun(p), \A q \in Proc : q # p => pc'[q] = pc[q]
    PROVE  Alone(p) /\ Alone(p)'
BY DEF MayRun, NoPreempt, Alone, InLoop

\* A process that is not in its loop, or has done nothing there, hides nothing
NothingHid ==
    TypeOK => \A p \in Proc : p \notin InLoop \/ call[p].n = 0 =>
                \A e : Hid(p, e) = 0 /\ HidUndo(p, e) = 0

\* That is so in every state.
LEMMA NothingIsHid == NothingHid
<1> SUFFICES ASSUME TypeOK, NEW p \in Proc, p \notin InLoop \/ call[p].n = 0, NEW e
             PROVE  Hid(p, e) = 0 /\ HidUndo(p, e) = 0
  BY DEF NothingHid
<1>1. call[p] \in Call /\ Undoing(p) \in SUBSET (DOMAIN call[p].sops)
  BY DEF TypeOK, ProcType, Undoing
<1> QED BY <1>1, TotalNone DEF Hid, HidUndo

\* A step that touches no value and no adjustment, of a process that has none of
\* its own pending.
LEMMA QuietBars ==
    ASSUME TypeOK, TypeOK', NEW p \in Proc, MayRun(p),
           \A q \in Proc : q # p => pc'[q] = pc[q] /\ call'[q] = call[q],
           UNCHANGED <<sema, semval, sem_undo>>,
           p \notin InLoop \/ call[p].n = 0,
           pc'[p] \notin {"ops", "backout"} \/ call'[p].n = 0
    PROVE  UNCHANGED <<sizeBar, valBar, adjBar>>
<1>1. Alone(p) /\ Alone(p)'
  BY RunsAlone
<1>2. \A e : Hid(p, e) = 0 /\ HidUndo(p, e) = 0
  BY NothingIsHid DEF NothingHid
<1>3. NothingHid'
  BY NothingIsHid, PTL
<1>4. \A e : Hid(p, e)' = 0 /\ HidUndo(p, e)' = 0
  BY <1>3 DEF NothingHid, InLoop
<1> QED BY <1>1, <1>2, <1>4, Unseen

\* Two entries of semaphores that exist have units of their own.
LEMMA UnitsApart ==
    ASSUME Kept, NEW e \in Entry, NEW f \in Entry, Live(e), Live(f), UnitAt(e) = UnitAt(f)
    PROVE  e = f
<1>1. /\ e = <<e[1], e[2]>> /\ f = <<f[1], f[2]>>
      /\ e[1] \in Id /\ f[1] \in Id /\ e[2] \in Nat /\ f[2] \in Nat
  BY SizesAssumption DEF Entry, Num
<1>2. /\ e[1].slot \in Slot /\ f[1].slot \in Slot
      /\ e[1] = [seq |-> e[1].seq, slot |-> e[1].slot]
      /\ f[1] = [seq |-> f[1].seq, slot |-> f[1].slot]
  BY <1>1 DEF Id
<1>3. sema[e[1].slot] \in Header /\ sema[f[1].slot] \in Header
  BY <1>2 DEF Kept, TypeOK, SetsType
<1>4. UnitAt(e) \in UnitsOf(e[1].slot) /\ UnitAt(f) \in UnitsOf(f[1].slot)
  BY <1>1, <1>3, SizesAssumption DEF Live, UnitAt, UnitOf, UnitsOf, Header
<1>5. e[1].slot = f[1].slot
  BY <1>2, <1>4 DEF Live, Semconv, Kept, SetsOK, SetsDisjoint
<1>6. e[1] = f[1]
  BY <1>2, <1>5 DEF Live, Semconv
<1>7. e[2] = f[2]
  <2> DEFINE b == sema[e[1].slot].base
  <2>1. b \in Int /\ b + e[2] = b + f[2]
    BY <1>3, <1>6, SizesAssumption DEF UnitAt, UnitOf, Header
  <2> HIDE DEF b
  <2> QED BY <1>1, <2>1
<1> QED BY <1>1, <1>6, <1>7

\* The unit of a semaphore that exists.
LEMMA UnitAtType ==
    ASSUME TypeOK, NEW e \in Entry, Live(e)
    PROVE  UnitAt(e) \in Unit /\ UnitAt(e) \in UnitsOf(e[1].slot)
<1>1. e[1].slot \in Slot /\ e[2] \in Nat
  BY SizesAssumption DEF Entry, Num, Id
<1>2. sema[e[1].slot] \in Header /\ UnitsOf(e[1].slot) \subseteq 0 .. SEMMNS - 1
  BY <1>1 DEF TypeOK, SetsType
<1>3. UnitAt(e) \in UnitsOf(e[1].slot)
  BY <1>1, <1>2, SizesAssumption DEF Live, UnitAt, UnitOf, UnitsOf, Header
<1>4. UnitAt(e) \in 0 .. SEMMNS - 1
  BY <1>2, <1>3
<1> QED BY <1>3, <1>4, SizesAssumption DEF Unit

\* Sums do not look at a frame's other fields.
LEMMA TotalSame ==
    ASSUME NEW c, NEW d, c.id = d.id, c.sops = d.sops
    PROVE  \A n, e, S : Total(c, n, e, S) = Total(d, n, e, S)
BY DEF Total

\* What operation i of p's vector adds to the value of e, and takes from p's
\* adjustment
By(p, i, e) == IF OpEntry(p, i) = e THEN Op(p, i).op ELSE 0
ByUndo(p, i, e) == IF Op(p, i).undo /\ OpEntry(p, i) = e THEN Op(p, i).op ELSE 0

\* A step in the loop that does operation i, or takes it back, hides what it does.
LEMMA HidMoves ==
    ASSUME TypeOK, NEW p \in Proc, pc[p] \in {"ops", "backout"}, pc'[p] \in {"ops", "backout"},
           call'[p].sops = call[p].sops, call'[p].id = call[p].id,
           NEW m \in Nat, m + 1 \in 1 .. Len(call[p].sops), NEW e,
           call'[p].n = IF call[p].n = m THEN m + 1 ELSE m,
           call[p].n = m \/ call[p].n = m + 1
    PROVE  IF call[p].n = m
           THEN /\ Hid(p, e)' = Hid(p, e) + By(p, m + 1, e)
                /\ HidUndo(p, e)' = HidUndo(p, e) + ByUndo(p, m + 1, e)
           ELSE /\ Hid(p, e) = Hid(p, e)' + By(p, m + 1, e)
                /\ HidUndo(p, e) = HidUndo(p, e)' + ByUndo(p, m + 1, e)
<1> DEFINE c == call[p]
           d == call'[p]
           D == DOMAIN c.sops
           U == Undoing(p)
           by == By(p, m + 1, e)
           byU == ByUndo(p, m + 1, e)
<1>1. call \in [Proc -> Call] /\ c \in Call
  BY DEF TypeOK, ProcType
<1>2. d.sops = c.sops /\ d.id = c.id /\ d.n = IF call[p].n = m THEN m + 1 ELSE m
  OBVIOUS
<1>3. p \in InLoop /\ p \in InLoop'
  BY DEF InLoop
<1>4. Undoing(p)' = U
  BY <1>2 DEF Undoing
<1>5. /\ Hid(p, e) = Total(c, c.n, e, D) /\ HidUndo(p, e) = Total(c, c.n, e, U)
      /\ Hid(p, e)' = Total(d, d.n, e, DOMAIN d.sops) /\ HidUndo(p, e)' = Total(d, d.n, e, U)
  BY <1>3, <1>4 DEF Hid, HidUndo
<1>6. Hid(p, e)' = Total(c, d.n, e, D) /\ HidUndo(p, e)' = Total(c, d.n, e, U)
  BY <1>2, <1>5, TotalSame
<1>7. D \in SUBSET D /\ U \in SUBSET D /\ (m + 1 \in D) /\ (m + 1 \in U <=> Op(p, m + 1).undo)
  BY <1>1, VectorType DEF Undoing, Op
<1>8. \A S \in SUBSET D :
        Total(c, m + 1, e, S) = Total(c, m, e, S) +
          (IF m + 1 \in S /\ <<c.id, c.sops[m + 1].num>> = e THEN c.sops[m + 1].op ELSE 0)
  BY <1>1, TotalMore
<1>9. Total(c, m + 1, e, D) = Total(c, m, e, D) + by /\ Total(c, m + 1, e, U) = Total(c, m, e, U) + byU
  BY <1>7, <1>8 DEF OpEntry, Op, By, ByUndo
<1>10. m # m + 1
  OBVIOUS
<1> HIDE DEF by, byU, D, U, c, d
<1>11. IF call[p].n = m
       THEN Hid(p, e)' = Hid(p, e) + by /\ HidUndo(p, e)' = HidUndo(p, e) + byU
       ELSE Hid(p, e) = Hid(p, e)' + by /\ HidUndo(p, e) = HidUndo(p, e)' + byU
  BY <1>2, <1>5, <1>6, <1>9, <1>10 DEF c
<1> QED BY <1>11 DEF by, byU
-----------------------------------------------------------------------------
(* Adjustments, by the history of a pass *)

\* Adjustments that fit into an undo structure
UndoMap == {f \in [Entry -> Aoe] : /\ IsFiniteSet({e \in Entry : f[e] # 0})
                                   /\ Cardinality({e \in Entry : f[e] # 0}) <= SEMUME}

\* What operation j of frame c makes of adjustments f
Adjusted(f, c, j) ==
    IF c.sops[j].undo THEN [f EXCEPT ![<<c.id, c.sops[j].num>>] = @ - c.sops[j].op] ELSE f

\* h is what the adjustments were after each of the first n operations, and f is
\* what they are now.
Adjusts(h, n, f, c) ==
    /\ h \in [0 .. n -> UndoMap] /\ h[n] = f
    /\ \A j \in 1 .. n : h[j] = Adjusted(h[j - 1], c, j)

\* Nothing done yet.
LEMMA AdjustsStarts ==
    ASSUME NEW f \in UndoMap, NEW c
    PROVE  Adjusts([j \in 0 .. 0 |-> f], 0, f, c)
BY DEF Adjusts

\* An operation with adjustments that fit lengthens the history.
LEMMA AdjustsGrows ==
    ASSUME NEW h, NEW n \in Nat, NEW f, NEW c, Adjusts(h, n, f, c),
           NEW g \in UndoMap, g = Adjusted(f, c, n + 1)
    PROVE  Adjusts(Longer(h, n, g), n + 1, g, c)
<1> DEFINE k == [j \in 0 .. n + 1 |-> IF j = n + 1 THEN g ELSE h[j]]
<1>1. \A j \in 0 .. n : j \in 0 .. n + 1 /\ j # n + 1 /\ k[j] = h[j]
  OBVIOUS
<1>2. k[n + 1] = g
  OBVIOUS
<1>3. k \in [0 .. n + 1 -> UndoMap]
  <2> HIDE DEF UndoMap
  <2> QED BY DEF Adjusts
<1>4. ASSUME NEW j \in 1 .. n + 1 PROVE k[j] = Adjusted(k[j - 1], c, j)
  <2>1. CASE j = n + 1
    <3>1. j - 1 \in 0 .. n /\ j - 1 = n
      BY <2>1
    <3>2. k[j - 1] = f
      BY <1>1, <3>1 DEF Adjusts
    <3> HIDE DEF k
    <3> QED BY <1>2, <2>1, <3>2
  <2>2. CASE j # n + 1
    <3>1. j \in 1 .. n /\ j \in 0 .. n /\ j - 1 \in 0 .. n
      BY <2>2
    <3>2. k[j] = h[j] /\ k[j - 1] = h[j - 1]
      BY <1>1, <3>1
    <3> HIDE DEF k
    <3> QED BY <3>1, <3>2 DEF Adjusts
  <2> QED BY <2>1, <2>2
<1> HIDE DEF k
<1>5. Adjusts(k, n + 1, g, c)
  BY <1>2, <1>3, <1>4 DEF Adjusts
<1> QED BY <1>5 DEF k, Longer

\* Without its last operation a history is one still.
LEMMA AdjustsShrinks ==
    ASSUME NEW h, NEW m \in Nat, NEW f, NEW c, Adjusts(h, m + 1, f, c)
    PROVE  /\ f = Adjusted(h[m], c, m + 1) /\ h[m] \in UndoMap
           /\ Adjusts(Shorter(h, m), m, h[m], c)
<1> DEFINE k == [j \in 0 .. m |-> h[j]]
<1>1. m + 1 \in 1 .. m + 1 /\ (m + 1) - 1 = m /\ m \in 0 .. m + 1
  OBVIOUS
<1>2. h[m + 1] = f /\ h[m] \in UndoMap /\ h \in [0 .. m + 1 -> UndoMap]
  BY <1>1 DEF Adjusts
<1>3. \A j \in 0 .. m : j \in 0 .. m + 1 /\ k[j] = h[j]
  OBVIOUS
<1>4. k \in [0 .. m -> UndoMap] /\ k[m] = h[m]
  BY <1>2, <1>3
<1>5. ASSUME NEW j \in 1 .. m PROVE k[j] = Adjusted(k[j - 1], c, j)
  <2>1. j \in 1 .. m + 1 /\ j \in 0 .. m /\ j - 1 \in 0 .. m
    OBVIOUS
  <2>2. k[j] = h[j] /\ k[j - 1] = h[j - 1]
    BY <1>3, <2>1
  <2> HIDE DEF k
  <2> QED BY <2>1, <2>2 DEF Adjusts
<1>6. f = Adjusted(h[m], c, m + 1)
  <2>1. \A j \in 1 .. m + 1 : h[j] = Adjusted(h[j - 1], c, j)
    BY DEF Adjusts
  <2> QED BY <1>1, <1>2, <2>1
<1> HIDE DEF k
<1>7. Adjusts(k, m, h[m], c)
  BY <1>4, <1>5 DEF Adjusts
<1> QED BY <1>2, <1>6, <1>7 DEF k, Shorter

\* Histories do not look at a frame's other fields.
LEMMA AdjustsSame ==
    ASSUME NEW c, NEW d, c.id = d.id, c.sops = d.sops
    PROVE  \A h, n, f : Adjusts(h, n, f, c) = Adjusts(h, n, f, d)
BY DEF Adjusts, Adjusted

\* What p's pass has made of its adjustments; it owns a structure if it needed one,
\* and what it has asked for was in range
UndoPass(p, h) ==
    /\ Adjusts(h, call[p].n, sem_undo[p], call[p])
    /\ \A j \in 1 .. call[p].n :
          Op(p, j).undo /\ Op(p, j).op # 0 => p \in undoers /\ Op(p, j).op \in Aoe

\* The adjustments of every process fit into a structure.
UndoFit == TypeOK /\ UndoOK => \A p \in Proc : sem_undo[p] \in UndoMap

\* They do in every state.
LEMMA UndoFits == UndoFit
<1> SUFFICES ASSUME TypeOK, UndoOK, NEW p \in Proc PROVE sem_undo[p] \in UndoMap
  BY DEF UndoFit
<1>1. sem_undo[p] \in [Entry -> Aoe]
  BY DEF TypeOK, UndoType
<1>2. IsFiniteSet(Entries(p)) /\ Cardinality(Entries(p)) <= IF p \in undoers THEN SEMUME ELSE 0
  BY DEF UndoOK
<1>3. Cardinality(Entries(p)) \in Nat
  BY <1>2, FS_CardinalityType
<1>4. Cardinality(Entries(p)) <= SEMUME
  BY <1>2, <1>3, SizesAssumption
<1> QED BY <1>1, <1>2, <1>4 DEF UndoMap, Entries

\* What semaoe is asked for it does, with the operation in front of it in the
\* way only of the errors it looks for.
LEMMA SemaoeDoes ==
    ASSUME TypeOK, NEW p \in Proc, NEW val \in Int, NEW e \in Entry,
           SemaoeError(p, val, e) = "ok", Semaoe(p, val, e)
    PROVE  sem_undo' = [sem_undo EXCEPT ![p][e] = @ - val]
<1>1. sem_undo \in [Proc -> [Entry -> Aoe]]
  BY DEF TypeOK, UndoType
<1>2. CASE val # 0
  BY <1>2 DEF Semaoe
<1>3. CASE val = 0
  <2>1. sem_undo' = sem_undo
    BY <1>3 DEF Semaoe, undoVars
  <2>2. sem_undo[p][e] \in Int
    BY <1>1, SizesAssumption DEF Aoe
  <2>3. [sem_undo[p] EXCEPT ![e] = @ - val] = sem_undo[p]
    BY <1>1, <1>3, <2>2
  <2>4. [sem_undo EXCEPT ![p] = [sem_undo[p] EXCEPT ![e] = @ - val]] = sem_undo
    BY <1>1, <2>3
  <2>5. [sem_undo EXCEPT ![p][e] = @ - val] = [sem_undo EXCEPT ![p] = [sem_undo[p] EXCEPT ![e] = @ - val]]
    OBVIOUS
  <2> QED BY <2>1, <2>4, <2>5
<1> QED BY <1>2, <1>3

\* semundo does not look at what semaoe returns, and need not: the adjustments
\* go back to what they were, which did fit.
LEMMA SemaoeTakesBack ==
    ASSUME TypeOK, UndoOK, NEW p \in Proc, NEW h, UndoPass(p, h),
           NEW m \in Nat, call[p].n = m + 1, m + 1 \in 1 .. Len(call[p].sops),
           Op(p, m + 1).undo
    PROVE  SemaoeError(p, -Op(p, m + 1).op, OpEntry(p, m + 1)) = "ok"
<1> DEFINE e == OpEntry(p, m + 1)  d == Op(p, m + 1).op  g == h[m]
<1>0. /\ call[p] \in Call /\ e \in Entry /\ d \in Int
      /\ sem_undo[p] \in [Entry -> Aoe]
  <2>1. call[p] \in Call /\ sem_undo[p] \in [Entry -> Aoe]
    BY DEF TypeOK, ProcType, UndoType
  <2>2. call[p].sops[m + 1] \in Sembuf /\ call[p].id \in Id
    BY <2>1, VectorType
  <2> QED BY <2>1, <2>2 DEF OpEntry, Op, Entry, Sembuf
<1>1. sem_undo[p] = Adjusted(g, call[p], m + 1) /\ g \in UndoMap
  <2>1. Adjusts(h, m + 1, sem_undo[p], call[p])
    BY DEF UndoPass
  <2> QED BY <2>1, AdjustsShrinks
<1>2. g \in [Entry -> Aoe] /\ IsFiniteSet({f \in Entry : g[f] # 0})
      /\ Cardinality({f \in Entry : g[f] # 0}) <= SEMUME
  BY <1>1 DEF UndoMap
<1>3. sem_undo[p] = [g EXCEPT ![e] = @ - d]
  BY <1>1 DEF Adjusted, OpEntry, Op
<1> DEFINE y == g[e]  x == sem_undo[p][e]
<1>4. y \in Aoe /\ x \in Aoe /\ x = y - d
  BY <1>0, <1>2, <1>3
<1>5. CASE d = 0
  BY <1>5 DEF SemaoeError
<1>6. CASE d # 0
  <2>1. p \in undoers /\ d \in Aoe
    <3>1. m + 1 \in 1 .. call[p].n
      OBVIOUS
    <3> QED BY <1>6, <3>1 DEF UndoPass
  <2>3. -d \in Int /\ -d # 0
    BY <1>0, <1>6
  <2>4. sem_undo[p][e] = 0 => Cardinality(Entries(p)) < SEMUME
    <3> SUFFICES ASSUME x = 0 PROVE Cardinality(Entries(p)) < SEMUME
      OBVIOUS
    <3>1. y # 0
      BY <1>0, <1>4, <1>6, SizesAssumption DEF Aoe
    <3>2. {f \in Entry : g[f] # 0} = Entries(p) \cup {e} /\ e \notin Entries(p)
      <4>1. \A f \in Entry : f # e => sem_undo[p][f] = g[f]
        BY <1>2, <1>3
      <4> QED BY <1>0, <3>1, <4>1 DEF Entries
    <3>3. IsFiniteSet(Entries(p)) /\ Cardinality(Entries(p)) \in Nat
      BY FS_CardinalityType DEF UndoOK
    <3>4. Cardinality(Entries(p) \cup {e}) = Cardinality(Entries(p)) + 1
      BY <3>2, <3>3, FS_AddElement
    <3> DEFINE k == Cardinality(Entries(p))
    <3>5. k \in Nat /\ k + 1 <= SEMUME
      BY <1>2, <3>2, <3>3, <3>4
    <3> HIDE DEF k
    <3>6. k < SEMUME
      BY <3>5, SizesAssumption
    <3> QED BY <3>6 DEF k
  <2> HIDE DEF e, d
  <2>5. -d \in Aoe
    BY <2>1, SizesAssumption DEF Aoe
  <2>6. x - (-d) \in Aoe
    <3>1. y \in Int /\ d \in Int /\ x - (-d) = y
      <4> HIDE DEF x, y
      <4> QED BY <1>0, <1>4, SizesAssumption DEF Aoe
    <3> QED BY <1>4, <3>1
  <2>7. ~ (sem_undo[p][e] = 0 /\ Cardinality(Entries(p)) >= SEMUME)
    <3> DEFINE k == Cardinality(Entries(p))
    <3>1. k \in Nat
      BY FS_CardinalityType DEF UndoOK
    <3> HIDE DEF k
    <3>2. k < SEMUME => ~ (k >= SEMUME)
      BY <3>1, SizesAssumption
    <3> QED BY <2>4, <3>2 DEF k
  <2>8. SemaoeError(p, -d, e) = "ok"
    BY <2>1, <2>3, <2>5, <2>6, <2>7 DEF SemaoeError
  <2> QED BY <2>8 DEF e, d
<1> QED BY <1>5, <1>6
-----------------------------------------------------------------------------
(* What the abstract semop sees of a pass *)

\* The abstract value that operation i of p's vector finds, with the operations
\* before it done
Before(p, i) == valBar[OpEntry(p, i)] + Abs!Sum(call[p].sops, 1 .. i - 1, Op(p, i).num)

\* It can be done
CanDo(p, i) ==
    /\ Before(p, i) + Op(p, i).op \in 0 .. SEMVMX
    /\ Op(p, i).op = 0 => Before(p, i) = 0

Denied(p) == \E i \in 1 .. Len(call[p].sops) : ~ CanDo(p, i)
Undoes(p) == \E i \in 1 .. Len(call[p].sops) : Op(p, i).undo
Nowait(p) == \E i \in 1 .. Len(call[p].sops) : Op(p, i).nowait

\* Why p takes its vector back
Reason(p) ==
    \/ call[p].error = "SLEEP"
    \/ call[p].error = "EAGAIN" /\ Denied(p) /\ Nowait(p)
    \/ call[p].error = "ERANGE" /\ (Denied(p) \/ Undoes(p))
    \/ call[p].error \in {"ENOSPC", "EINVAL"} /\ Undoes(p)

\* A pass can be taken back; what it has done so far the whole vector will do as
\* well, and what it could not do the vector cannot.
SeenOK(p) ==
    /\ pc[p] \in {"ops", "backout"} => \E h : UndoPass(p, h)
    /\ pc[p] = "ops" => \A i \in 1 .. call[p].n : CanDo(p, i)
    /\ pc[p] = "backout" => Reason(p)

NotEmpty == \A s \in Slot : sema[s].alloc => sema[s].nsems > 0

Base == Kept /\ UndoOK /\ ValuesOK /\ FreeUnitsClean /\ NotEmpty

\* The entries and units of a pass.
LEMMA PassType ==
    ASSUME Base, NEW p \in Proc, pc[p] \in {"ops", "backout"}, NEW i \in 1 .. Len(call[p].sops)
    PROVE  /\ OpEntry(p, i) \in Entry /\ Live(OpEntry(p, i)) /\ UnitAt(OpEntry(p, i)) = OpUnit(p, i)
           /\ OpUnit(p, i) \in Unit /\ Op(p, i).op \in Int
           /\ semval[OpUnit(p, i)] \in 0 .. SEMVMX /\ semval[OpUnit(p, i)] \in Int
<1>1. OpEntry(p, i) \in Entry /\ Live(OpEntry(p, i)) /\ OpUnit(p, i) \in Unit /\ Op(p, i).op \in Int
  BY OpLive DEF Base, Live
<1>2. UnitAt(OpEntry(p, i)) = OpUnit(p, i)
  BY DEF UnitAt, OpEntry, OpUnit
<1>3. semval[OpUnit(p, i)] \in 0 .. SEMVMX
  BY <1>1 DEF Base, ValuesOK, ValuesInRange
<1> QED BY <1>1, <1>2, <1>3, SizesAssumption

\* The next operation finds the value that the semaphore has now.
LEMMA BeforeNow ==
    ASSUME Base, NEW p \in Proc, Alone(p), pc[p] \in {"ops", "backout"},
           NEW n \in Nat, n = call[p].n, n + 1 \in 1 .. Len(call[p].sops)
    PROVE  Before(p, n + 1) = semval[OpUnit(p, n + 1)]
<1> DEFINE e == OpEntry(p, n + 1)
           c == call[p]
<1>0. TypeOK /\ c \in Call
  BY DEF Base, Kept, TypeOK, ProcType
<1>1. e \in Entry /\ Live(e) /\ UnitAt(e) = OpUnit(p, n + 1) /\ semval[OpUnit(p, n + 1)] \in Int
  BY PassType
<1>2. valBar[e] = semval[OpUnit(p, n + 1)] - Hid(p, e)
  BY <1>0, <1>1, BarsSeen DEF BarsOfOne
<1>3. Hid(p, e) = Total(c, n, e, DOMAIN c.sops) /\ Hid(p, e) \in Int
  BY <1>0, HidType DEF HidIsInt, Hid, InLoop
<1>4. Abs!Sum(c.sops, 1 .. n, Op(p, n + 1).num) = Total(c, n, e, 1 .. n)
  <2>1. DOMAIN c.sops = 1 .. Len(c.sops) /\ Len(c.sops) \in Nat
    BY <1>0, VectorType
  <2>2. 1 .. n \in SUBSET (DOMAIN c.sops) /\ \A i \in 1 .. n : i <= n
    BY <2>1
  <2>3. e = <<c.id, Op(p, n + 1).num>>
    BY DEF OpEntry
  <2> HIDE DEF c, e
  <2> QED BY <1>0, <2>2, <2>3, AbsTotal
<1>5. Total(c, n, e, 1 .. n) = Total(c, n, e, DOMAIN c.sops)
  <2>1. {i \in 1 .. n : i <= n /\ <<c.id, c.sops[i].num>> = e} =
        {i \in DOMAIN c.sops : i <= n /\ <<c.id, c.sops[i].num>> = e}
    <3>1. DOMAIN c.sops = 1 .. Len(c.sops) /\ Len(c.sops) \in Nat /\ n + 1 \in 1 .. Len(c.sops)
      BY <1>0, VectorType
    <3>2. \A i : i \in 1 .. n <=> i \in DOMAIN c.sops /\ i <= n
      BY <3>1
    <3> HIDE DEF c, e
    <3> QED BY <3>2
  <2> QED BY <2>1 DEF Total
<1>6. (n + 1) - 1 = n
  OBVIOUS
<1> HIDE DEF c, e
<1>7. Before(p, n + 1) = valBar[e] + Total(c, n, e, DOMAIN c.sops)
  BY <1>4, <1>5, <1>6 DEF Before, c, e
<1> QED BY <1>1, <1>2, <1>3, <1>7

\* While abstract values and the vector stay, so does what it can do.
LEMMA CanDoSame ==
    ASSUME NEW p, valBar' = valBar, call'[p].sops = call[p].sops, call'[p].id = call[p].id
    PROVE  /\ \A i : CanDo(p, i)' = CanDo(p, i)
           /\ Denied(p)' = Denied(p) /\ Undoes(p)' = Undoes(p) /\ Nowait(p)' = Nowait(p)
<1>1. \A i : Op(p, i)' = Op(p, i) /\ OpEntry(p, i)' = OpEntry(p, i)
  BY DEF Op, OpEntry
<1>2. \A i : Before(p, i)' = Before(p, i)
  BY <1>1 DEF Before
<1>3. \A i : CanDo(p, i)' = CanDo(p, i)
  BY <1>1, <1>2 DEF CanDo
<1> QED BY <1>1, <1>3 DEF Denied, Undoes, Nowait

\* An operation that is done is not seen, and the whole vector will do it too.
LEMMA ApplySeen ==
    ASSUME NEW p \in Proc, Base, SeenOK(p), TypeOK', UndoOK', SemopApply(p)
    PROVE  UNCHANGED <<sizeBar, valBar, adjBar, reqBar>> /\ SeenOK(p)'
<1> DEFINE n == call[p].n
           e == OpEntry(p, n + 1)
           u == OpUnit(p, n + 1)
           op == Op(p, n + 1)
<1>1. /\ pc[p] = "ops" /\ MayRun(p) /\ pc' = pc /\ sema' = sema
      /\ n + 1 \in 1 .. Len(call[p].sops) /\ n \in Nat
      /\ OpError(p, op, e, semval[u]) = "ok"
      /\ semval' = [semval EXCEPT ![u] = @ + op.op]
      /\ IF op.undo THEN Semaoe(p, op.op, e) ELSE UNCHANGED undoVars
      /\ call' = [call EXCEPT ![p].n = n + 1]
  <2>1. call[p] \in Call
    BY DEF Base, Kept, TypeOK, ProcType
  <2>2. n \in Nat /\ Len(call[p].sops) \in Nat
    BY <2>1, VectorType
  <2>3. n < Len(call[p].sops)
    BY DEF SemopApply
  <2>4. n + 1 \in 1 .. Len(call[p].sops)
    BY <2>2, <2>3
  <2> QED BY <2>2, <2>4 DEF SemopApply, At, setVars
<1>2. /\ TypeOK /\ call \in [Proc -> Call] /\ semval \in [Unit -> Int]
      /\ sem_undo \in [Proc -> [Entry -> Aoe]] /\ Kept
  BY DEF Base, Kept, TypeOK, ProcType, ValType, UndoType
<1>3. /\ e \in Entry /\ Live(e) /\ UnitAt(e) = u /\ u \in Unit /\ op.op \in Int
      /\ semval[u] \in 0 .. SEMVMX /\ semval[u] \in Int
  BY <1>1, PassType
<1>4. /\ \A q \in Proc : q # p => pc'[q] = pc[q] /\ call'[q] = call[q]
      /\ call'[p].n = n + 1 /\ call'[p].id = call[p].id /\ call'[p].sops = call[p].sops
      /\ call'[p].error = call[p].error
  BY <1>1, <1>2 DEF Call
<1>5. Alone(p) /\ Alone(p)'
  BY <1>1, <1>4, RunsAlone
<1>6. ASSUME NEW f
      PROVE  /\ Hid(p, f)' = Hid(p, f) + (IF e = f THEN op.op ELSE 0)
             /\ HidUndo(p, f)' = HidUndo(p, f) + (IF op.undo /\ e = f THEN op.op ELSE 0)
             /\ Hid(p, f) \in Int /\ HidUndo(p, f) \in Int
  <2>1. Hid(p, f) \in Int /\ HidUndo(p, f) \in Int
    BY <1>2, HidType DEF HidIsInt
  <2>2. PICK m \in Nat : m = n
    BY <1>1
  <2>3. /\ pc[p] \in {"ops", "backout"} /\ pc'[p] \in {"ops", "backout"}
        /\ m + 1 \in 1 .. Len(call[p].sops) /\ call[p].n = m
        /\ call'[p].n = IF call[p].n = m THEN m + 1 ELSE m
        /\ call'[p].sops = call[p].sops /\ call'[p].id = call[p].id
    BY <1>1, <1>4, <2>2
  <2> HIDE DEF n, e, u, op
  <2>4. /\ Hid(p, f)' = Hid(p, f) + By(p, m + 1, f)
        /\ HidUndo(p, f)' = HidUndo(p, f) + ByUndo(p, m + 1, f)
    BY ONLY <1>2, <2>3, HidMoves
  <2> QED BY <2>1, <2>2, <2>4 DEF By, ByUndo, n, e, op
<1>7. sem_undo' = IF op.undo THEN [sem_undo EXCEPT ![p][e] = @ - op.op] ELSE sem_undo
  <2>1. CASE op.undo
    <3>1. SemaoeError(p, op.op, e) = "ok"
      BY <1>1, <2>1 DEF OpError
    <3> HIDE DEF op, e, u, n
    <3>2. sem_undo' = [sem_undo EXCEPT ![p][e] = @ - op.op]
      BY <1>1, <1>2, <1>3, <2>1, <3>1, SemaoeDoes
    <3> QED BY <2>1, <3>2
  <2>2. CASE ~ op.undo
    BY <1>1, <2>2 DEF undoVars
  <2> QED BY <2>1, <2>2
<1> HIDE DEF e, u, op, n
<1>8. ASSUME NEW f \in Entry, Live(f)
      PROVE  semval'[UnitAt(f)] - Hid(p, f)' = semval[UnitAt(f)] - Hid(p, f)
  <2>0. UnitAt(f) \in Unit /\ semval[UnitAt(f)] \in Int
    BY <1>2, <1>8, UnitAtType
  <2>1. CASE f = e
    <3>1. semval'[u] = semval[u] + op.op
      BY <1>1, <1>2, <1>3
    <3>2. Hid(p, f)' = Hid(p, f) + op.op /\ Hid(p, f) \in Int
      BY <1>6, <2>1
    <3> QED BY <1>3, <2>1, <3>1, <3>2
  <2>2. CASE f # e
    <3>1. UnitAt(f) # u
      BY <1>2, <1>3, <1>8, <2>2, UnitsApart
    <3>2. semval'[UnitAt(f)] = semval[UnitAt(f)]
      BY <1>1, <1>2, <2>0, <3>1
    <3>3. Hid(p, f)' = Hid(p, f)
      BY <1>6, <2>2
    <3> QED BY <3>2, <3>3
  <2> QED BY <2>1, <2>2
<1>9. ASSUME NEW f \in Entry
      PROVE  sem_undo'[p][f] + HidUndo(p, f)' = sem_undo[p][f] + HidUndo(p, f)
  <2>1. sem_undo[p][f] \in Int /\ HidUndo(p, f) \in Int
    BY <1>2, <1>6, SizesAssumption DEF Aoe
  <2>2. CASE op.undo /\ f = e
    <3>1. sem_undo'[p][f] = sem_undo[p][f] - op.op
      BY <1>2, <1>3, <1>7, <2>2
    <3>2. HidUndo(p, f)' = HidUndo(p, f) + op.op
      BY <1>6, <2>2
    <3> QED BY <1>3, <2>1, <3>1, <3>2
  <2>3. CASE ~ (op.undo /\ f = e)
    <3>1. sem_undo'[p][f] = sem_undo[p][f]
      BY <1>2, <1>3, <1>7, <2>3
    <3>2. HidUndo(p, f)' = HidUndo(p, f)
      BY <1>6, <2>1, <2>3
    <3> QED BY <3>1, <3>2
  <2> QED BY <2>2, <2>3
<1>10. \A q \in Proc : q # p => sem_undo'[q] = sem_undo[q]
  BY <1>2, <1>7
<1>11. UNCHANGED <<sizeBar, valBar, adjBar>>
  BY <1>1, <1>2, <1>5, <1>8, <1>9, <1>10, Unseen
<1>12. reqBar' = reqBar
  <2>1. Req(pc'[p], call'[p]) = Req(pc[p], call[p])
    BY <1>1, <1>4 DEF Req
  <2> QED BY <1>4, <2>1, ReqStep
<1>13. \E h : UndoPass(p, h)'
  <2>1. PICK h : UndoPass(p, h)
    BY <1>1 DEF SeenOK
  <2>2. PICK g : g = sem_undo'[p]
    OBVIOUS
  <2>3. g \in UndoMap
    <3>1. UndoFit'
      BY UndoFits, PTL
    <3> QED BY <2>2, <3>1 DEF UndoFit
  <2>4. g = Adjusted(sem_undo[p], call[p], n + 1)
    <3>1. call[p].sops[n + 1] = op /\ <<call[p].id, op.num>> = e
      BY DEF op, e, Op, OpEntry
    <3>2. sem_undo'[p] = IF op.undo THEN [sem_undo[p] EXCEPT ![e] = @ - op.op] ELSE sem_undo[p]
      BY <1>2, <1>7
    <3> QED BY <2>2, <3>1, <3>2 DEF Adjusted
  <2>5. Adjusts(Longer(h, n, g), n + 1, g, call[p])
    BY <1>1, <2>1, <2>3, <2>4, AdjustsGrows DEF UndoPass, n
  <2>6. PICK k : k = Longer(h, n, g)
    OBVIOUS
  <2>7. Adjusts(k, call'[p].n, sem_undo'[p], call'[p])
    BY <1>4, <2>2, <2>5, <2>6, AdjustsSame
  <2>8. ASSUME NEW j \in 1 .. call'[p].n, Op(p, j)'.undo, Op(p, j)'.op # 0
        PROVE  p \in undoers' /\ Op(p, j)'.op \in Aoe
    <3>1. Op(p, j)' = Op(p, j)
      BY <1>4 DEF Op
    <3>2. CASE j = n + 1
      <4>1. Semaoe(p, op.op, e) /\ SemaoeError(p, op.op, e) = "ok" /\ op.op # 0
        BY <1>1, <2>8, <3>1, <3>2 DEF OpError, op
      <4>2. op.op \in Aoe /\ undoers' = undoers \cup {p}
        BY <4>1 DEF Semaoe, SemaoeError
      <4> QED BY <3>1, <3>2, <4>2 DEF op
    <3>3. CASE j # n + 1
      <4>1. j \in 1 .. n
        BY <1>1, <1>4, <3>3
      <4>2. p \in undoers /\ Op(p, j).op \in Aoe
        BY <2>1, <2>8, <3>1, <4>1 DEF UndoPass, n
      <4>3. undoers \subseteq undoers'
        BY <1>1 DEF Semaoe, undoVars
      <4> QED BY <3>1, <4>2, <4>3
    <3> QED BY <3>2, <3>3
  <2>9. UndoPass(p, k)'
    BY <2>7, <2>8 DEF UndoPass
  <2> QED BY <2>9
<1>14. ASSUME NEW i \in 1 .. n + 1 PROVE CanDo(p, i)
  <2>1. CASE i # n + 1
    <3>1. i \in 1 .. call[p].n
      BY <1>1, <2>1 DEF n
    <3> QED BY <1>1, <3>1 DEF SeenOK
  <2>2. CASE i = n + 1
    <3>1. Before(p, n + 1) = semval[u]
      BY <1>1, <1>5, BeforeNow DEF n, u
    <3>2. semval[u] + op.op \in 0 .. SEMVMX
      BY <1>1, <1>3, OpInRange
    <3>3. op.op = 0 => semval[u] = 0
      BY <1>1 DEF OpError
    <3> QED BY <2>2, <3>1, <3>2, <3>3 DEF CanDo, op
  <2> QED BY <2>1, <2>2
<1>15. \A i : CanDo(p, i)' = CanDo(p, i)
  BY <1>4, <1>11, CanDoSame
<1>16. SeenOK(p)'
  BY <1>1, <1>4, <1>13, <1>14, <1>15 DEF SeenOK
<1> QED BY <1>11, <1>12, <1>16

\* The abstract vector can be done if every operation of it can.
LEMMA DoableByOps ==
    ASSUME TypeOK, NEW p \in Proc
    PROVE  Abs!Doable(call[p].sops, Abs!Values(call[p].id)) <=> ~ Denied(p)
<1> DEFINE c == call[p]
<1>1. /\ c \in Call /\ DOMAIN c.sops = 1 .. Len(c.sops)
      /\ \A i \in 1 .. Len(c.sops) : c.sops[i].num \in Num
  BY VectorType DEF TypeOK, ProcType
<1>2. \A i \in 1 .. Len(c.sops) :
         Abs!Values(c.id)[c.sops[i].num] = valBar[<<c.id, c.sops[i].num>>]
  <2> HIDE DEF c
  <2> QED BY <1>1 DEF Abs!Values
<1>3. Abs!Doable(c.sops, Abs!Values(c.id)) <=>
        \A i \in DOMAIN c.sops :
            LET before == Abs!Values(c.id)[c.sops[i].num] + Abs!Sum(c.sops, 1 .. i - 1, c.sops[i].num)
            IN  /\ before + c.sops[i].op \in 0 .. SEMVMX
                /\ c.sops[i].op = 0 => before = 0
  BY DEF Abs!Doable
<1>4. \A i \in 1 .. Len(c.sops) :
         CanDo(p, i) <=>
            LET before == Abs!Values(c.id)[c.sops[i].num] + Abs!Sum(c.sops, 1 .. i - 1, c.sops[i].num)
            IN  /\ before + c.sops[i].op \in 0 .. SEMVMX
                /\ c.sops[i].op = 0 => before = 0
  BY <1>2 DEF CanDo, Before, Op, OpEntry
<1>5. Abs!Doable(c.sops, Abs!Values(c.id)) <=> \A i \in 1 .. Len(c.sops) : CanDo(p, i)
  BY <1>1, <1>3, <1>4
<1> QED BY <1>5 DEF Denied

\* Finding that an operation cannot be done is not seen; it is the reason of what
\* follows.
LEMMA BlockSeen ==
    ASSUME NEW p \in Proc, Base, SeenOK(p), TypeOK', SemopBlock(p)
    PROVE  UNCHANGED <<sizeBar, valBar, adjBar, reqBar>> /\ SeenOK(p)'
<1> DEFINE n == call[p].n
           e == OpEntry(p, n + 1)
           u == OpUnit(p, n + 1)
           op == Op(p, n + 1)
           error == OpError(p, op, e, semval[u])
<1>0. TypeOK /\ Kept /\ call \in [Proc -> Call] /\ pc \in [Proc -> Pcs] /\ call[p] \in Call
  BY DEF Base, Kept, TypeOK, ProcType
<1>1. /\ pc[p] = "ops" /\ MayRun(p) /\ pc' = [pc EXCEPT ![p] = "backout"]
      /\ UNCHANGED <<sema, semval, sem_undo, undoers>>
      /\ n + 1 \in 1 .. Len(call[p].sops) /\ n \in Nat
      /\ error # "ok"
      /\ \E ch : call' = [call EXCEPT ![p] = [call[p] EXCEPT !.error = error, !.chan = ch]]
  <2>2. n \in Nat /\ Len(call[p].sops) \in Nat
    BY <1>0, VectorType
  <2>3. n < Len(call[p].sops)
    BY DEF SemopBlock
  <2>4. n + 1 \in 1 .. Len(call[p].sops)
    BY <2>2, <2>3
  <2> QED BY <2>2, <2>4 DEF SemopBlock, At, setVars, undoVars, Goto
<1>3. /\ u \in Unit /\ op.op \in Int /\ semval[u] \in 0 .. SEMVMX /\ semval[u] \in Int
  BY <1>1, PassType
<1>4. /\ \A q \in Proc : q # p => pc'[q] = pc[q] /\ call'[q] = call[q]
      /\ pc'[p] = "backout"
      /\ call'[p].n = n /\ call'[p].id = call[p].id /\ call'[p].sops = call[p].sops
      /\ call'[p].error = error
  <2> HIDE DEF error
  <2> QED BY <1>0, <1>1 DEF Call
<1>5. Alone(p) /\ Alone(p)'
  BY <1>1, <1>4, RunsAlone
<1>6. \A f : Hid(p, f)' = Hid(p, f) /\ HidUndo(p, f)' = HidUndo(p, f)
  <2>1. p \in InLoop /\ p \in InLoop'
    BY <1>1, <1>4 DEF InLoop
  <2>2. \A k, f, S : Total(call[p], k, f, S) = Total(call'[p], k, f, S)
    BY <1>4, TotalSame
  <2>3. Undoing(p)' = Undoing(p)
    BY <1>4 DEF Undoing
  <2> QED BY <1>4, <2>1, <2>2, <2>3 DEF Hid, HidUndo
<1>7. UNCHANGED <<sizeBar, valBar, adjBar>>
  BY <1>0, <1>1, <1>5, <1>6, Unseen DEF UnitAt
<1>8. reqBar' = reqBar
  <2>1. Req(pc'[p], call'[p]) = Req(pc[p], call[p])
    BY <1>1, <1>4 DEF Req
  <2> QED BY <1>4, <2>1, ReqStep
<1>9. \E h : UndoPass(p, h)'
  <2>1. PICK h : UndoPass(p, h)
    BY <1>1 DEF SeenOK
  <2>2. Adjusts(h, call'[p].n, sem_undo'[p], call'[p])
    <3> HIDE DEF error, e, u, op
    <3>1. \A k, f : Adjusts(h, k, f, call[p]) = Adjusts(h, k, f, call'[p])
      BY <1>4, AdjustsSame
    <3> QED BY <1>1, <1>4, <2>1, <3>1 DEF UndoPass
  <2>3. UndoPass(p, h)'
    BY <1>1, <1>4, <2>1, <2>2 DEF UndoPass, Op
  <2> QED BY <2>3
<1>10. Before(p, n + 1) = semval[u]
  BY <1>1, <1>5, BeforeNow
<1> HIDE DEF e, u
<1>11. Reason(p)'
  <2>1. Denied(p)' = Denied(p) /\ Undoes(p)' = Undoes(p) /\ Nowait(p)' = Nowait(p)
    BY <1>4, <1>7, CanDoSame
  <2>2. \/ error = "ERANGE" /\ semval[u] + op.op > SEMVMX
        \/ error = "EAGAIN" /\ op.nowait /\ (semval[u] < -op.op \/ (op.op = 0 /\ semval[u] # 0))
        \/ error = "SLEEP"
        \/ error \in {"ERANGE", "ENOSPC", "EINVAL"} /\ op.undo
    BY <1>1 DEF OpError, SemaoeError
  <2>3. \/ semval[u] + op.op > SEMVMX
        \/ semval[u] < -op.op
        \/ op.op = 0 /\ semval[u] # 0
        => ~ CanDo(p, n + 1)
    <3>1. CanDo(p, n + 1) <=> semval[u] + op.op \in 0 .. SEMVMX /\ (op.op = 0 => semval[u] = 0)
      BY <1>10 DEF CanDo
    <3> QED BY <1>3, <3>1, SizesAssumption
  <2>4. /\ ~ CanDo(p, n + 1) => Denied(p)
        /\ op.nowait => Nowait(p)
        /\ op.undo => Undoes(p)
    BY <1>1 DEF Denied, Nowait, Undoes
  <2> HIDE DEF error, op, n
  <2> QED BY <1>4, <2>1, <2>2, <2>3, <2>4 DEF Reason
<1> QED BY <1>4, <1>7, <1>8, <1>9, <1>11 DEF SeenOK

\* An operation that is taken back is not seen either.
LEMMA TakeBackSeen ==
    ASSUME NEW p \in Proc, Base, SeenOK(p), TypeOK', Semundo(p)
    PROVE  UNCHANGED <<sizeBar, valBar, adjBar, reqBar>> /\ SeenOK(p)'
<1>0. /\ TypeOK /\ Kept /\ UndoOK /\ call \in [Proc -> Call] /\ call[p] \in Call
      /\ semval \in [Unit -> Int] /\ sem_undo \in [Proc -> [Entry -> Aoe]]
  BY DEF Base, Kept, TypeOK, ProcType, ValType, UndoType
<1>1. PICK m \in Nat : call[p].n = m + 1 /\ m + 1 \in 1 .. Len(call[p].sops)
  <2>1. /\ call[p].n \in Nat /\ Len(call[p].sops) \in Nat /\ call[p].n > 0
        /\ call[p].n <= Len(call[p].sops)
    BY <1>0, VectorType DEF Semundo, TypeOK, LocalType
  <2>2. /\ call[p].n - 1 \in Nat /\ call[p].n = (call[p].n - 1) + 1
        /\ (call[p].n - 1) + 1 \in 1 .. Len(call[p].sops)
    BY <2>1
  <2> QED BY <2>2
<1> DEFINE e == OpEntry(p, m + 1)
           u == OpUnit(p, m + 1)
           op == Op(p, m + 1)
<1>2. /\ pc[p] = "backout" /\ MayRun(p) /\ pc' = pc /\ sema' = sema
      /\ semval' = [semval EXCEPT ![u] = @ - op.op]
      /\ IF op.undo THEN Semaoe(p, -op.op, e) ELSE UNCHANGED undoVars
      /\ call' = [call EXCEPT ![p].n = m]
  <2>1. (m + 1) - 1 = m
    BY <1>1
  <2> QED BY <1>1, <2>1 DEF Semundo, At, setVars
<1>3. /\ e \in Entry /\ Live(e) /\ UnitAt(e) = u /\ u \in Unit /\ op.op \in Int
      /\ semval[u] \in Int
  BY <1>1, <1>2, PassType
<1>4. /\ \A q \in Proc : q # p => pc'[q] = pc[q] /\ call'[q] = call[q]
      /\ call'[p].n = m /\ call'[p].id = call[p].id /\ call'[p].sops = call[p].sops
      /\ call'[p].error = call[p].error
  BY <1>0, <1>2 DEF Call
<1>5. Alone(p) /\ Alone(p)'
  BY <1>2, <1>4, RunsAlone
<1> HIDE DEF e, u, op
<1>6. ASSUME NEW f
      PROVE  /\ Hid(p, f) = Hid(p, f)' + (IF e = f THEN op.op ELSE 0)
             /\ HidUndo(p, f) = HidUndo(p, f)' + (IF op.undo /\ e = f THEN op.op ELSE 0)
             /\ Hid(p, f)' \in Int /\ HidUndo(p, f)' \in Int
  <2>1. HidIsInt'
    BY HidType, PTL
  <2>2. Hid(p, f)' \in Int /\ HidUndo(p, f)' \in Int
    BY <2>1 DEF HidIsInt
  <2>3. /\ pc[p] \in {"ops", "backout"} /\ pc'[p] \in {"ops", "backout"}
        /\ m + 1 \in 1 .. Len(call[p].sops) /\ call[p].n = m + 1 /\ m # m + 1
        /\ call'[p].n = IF call[p].n = m THEN m + 1 ELSE m
        /\ call'[p].sops = call[p].sops /\ call'[p].id = call[p].id
    BY <1>1, <1>2, <1>4
  <2>4. /\ Hid(p, f) = Hid(p, f)' + By(p, m + 1, f)
        /\ HidUndo(p, f) = HidUndo(p, f)' + ByUndo(p, m + 1, f)
    BY ONLY <1>0, <2>3, HidMoves
  <2> QED BY <2>2, <2>4 DEF By, ByUndo, e, op
<1>7. PICK h : UndoPass(p, h)
  BY <1>2 DEF SeenOK
<1>8. sem_undo' = IF op.undo THEN [sem_undo EXCEPT ![p][e] = @ + op.op] ELSE sem_undo
  <2>1. CASE op.undo
    <3>1. SemaoeError(p, -op.op, e) = "ok"
      BY <1>0, <1>1, <1>7, <2>1, SemaoeTakesBack DEF op, e
    <3>2. sem_undo' = [sem_undo EXCEPT ![p][e] = @ - (-op.op)]
      <4> DEFINE d == -op.op
      <4>1. d \in Int /\ SemaoeError(p, d, e) = "ok" /\ Semaoe(p, d, e)
        BY <1>2, <1>3, <2>1, <3>1
      <4> HIDE DEF d
      <4>2. sem_undo' = [sem_undo EXCEPT ![p][e] = @ - d]
        BY <1>0, <1>3, <4>1, SemaoeDoes
      <4> QED BY <4>2 DEF d
    <3>3. sem_undo[p][e] - (-op.op) = sem_undo[p][e] + op.op
      BY <1>0, <1>3, SizesAssumption DEF Aoe
    <3> QED BY <2>1, <3>2, <3>3
  <2>2. CASE ~ op.undo
    BY <1>2, <2>2 DEF undoVars
  <2> QED BY <2>1, <2>2
<1>9. ASSUME NEW f \in Entry, Live(f)
      PROVE  semval'[UnitAt(f)] - Hid(p, f)' = semval[UnitAt(f)] - Hid(p, f)
  <2>0. UnitAt(f) \in Unit /\ semval[UnitAt(f)] \in Int
    BY <1>0, <1>9, UnitAtType
  <2>1. CASE f = e
    <3>1. semval'[u] = semval[u] - op.op
      BY <1>0, <1>2, <1>3
    <3>2. Hid(p, f) = Hid(p, f)' + op.op /\ Hid(p, f)' \in Int
      BY <1>6, <2>1
    <3> QED BY <1>3, <2>1, <3>1, <3>2
  <2>2. CASE f # e
    <3>1. UnitAt(f) # u
      BY <1>0, <1>3, <1>9, <2>2, UnitsApart
    <3>2. semval'[UnitAt(f)] = semval[UnitAt(f)]
      BY <1>0, <1>2, <2>0, <3>1
    <3>3. Hid(p, f)' = Hid(p, f)
      BY <1>6, <2>2
    <3> QED BY <3>2, <3>3
  <2> QED BY <2>1, <2>2
<1>10. ASSUME NEW f \in Entry
       PROVE  sem_undo'[p][f] + HidUndo(p, f)' = sem_undo[p][f] + HidUndo(p, f)
  <2>1. sem_undo[p][f] \in Int /\ HidUndo(p, f)' \in Int
    BY <1>0, <1>6, SizesAssumption DEF Aoe
  <2>2. CASE op.undo /\ f = e
    <3>1. sem_undo'[p][f] = sem_undo[p][f] + op.op
      BY <1>0, <1>3, <1>8, <2>2
    <3>2. HidUndo(p, f) = HidUndo(p, f)' + op.op
      BY <1>6, <2>2
    <3> QED BY <1>3, <2>1, <3>1, <3>2
  <2>3. CASE ~ (op.undo /\ f = e)
    <3>1. sem_undo'[p][f] = sem_undo[p][f]
      BY <1>0, <1>3, <1>8, <2>3
    <3>2. HidUndo(p, f)' = HidUndo(p, f)
      BY <1>6, <2>1, <2>3
    <3> QED BY <3>1, <3>2
  <2> QED BY <2>2, <2>3
<1>11. \A q \in Proc : q # p => sem_undo'[q] = sem_undo[q]
  BY <1>0, <1>8
<1>12. UNCHANGED <<sizeBar, valBar, adjBar>>
  BY <1>0, <1>2, <1>5, <1>9, <1>10, <1>11, Unseen
<1>13. reqBar' = reqBar
  <2>1. Req(pc'[p], call'[p]) = Req(pc[p], call[p])
    BY <1>2, <1>4 DEF Req
  <2> QED BY <1>4, <2>1, ReqStep
<1>14. \E k : UndoPass(p, k)'
  <2>1. /\ sem_undo[p] = Adjusted(h[m], call[p], m + 1) /\ h[m] \in UndoMap
        /\ Adjusts(Shorter(h, m), m, h[m], call[p])
    BY <1>1, <1>7, AdjustsShrinks DEF UndoPass
  <2>2. sem_undo'[p] = h[m]
    <3> DEFINE g == h[m]
    <3>0. g \in [Entry -> Aoe] /\ g[e] \in Int
      BY <1>3, <2>1, SizesAssumption DEF UndoMap, Aoe
    <3>1. sem_undo[p] = IF op.undo THEN [g EXCEPT ![e] = @ - op.op] ELSE g
      BY <2>1 DEF Adjusted, op, e, Op, OpEntry
    <3> HIDE DEF g
    <3>2. CASE op.undo
      <4>1. sem_undo'[p] = [sem_undo[p] EXCEPT ![e] = @ + op.op]
        BY <1>0, <1>8, <3>2
      <4>2. sem_undo[p][e] = g[e] - op.op
        BY <1>3, <3>0, <3>1, <3>2
      <4>3. (g[e] - op.op) + op.op = g[e]
        BY <1>3, <3>0
      <4> QED BY <3>0, <3>1, <3>2, <4>1, <4>2, <4>3 DEF g
    <3>3. CASE ~ op.undo
      BY <1>8, <3>1, <3>3 DEF g
    <3> QED BY <3>2, <3>3
  <2>3. PICK k : k = Shorter(h, m)
    OBVIOUS
  <2>4. Adjusts(k, call'[p].n, sem_undo'[p], call'[p])
    BY <1>4, <2>1, <2>2, <2>3, AdjustsSame
  <2>5. ASSUME NEW j \in 1 .. call'[p].n, Op(p, j)'.undo, Op(p, j)'.op # 0
        PROVE  p \in undoers' /\ Op(p, j)'.op \in Aoe
    <3>1. Op(p, j)' = Op(p, j) /\ j \in 1 .. call[p].n
      BY <1>1, <1>4 DEF Op
    <3>2. p \in undoers /\ Op(p, j).op \in Aoe
      BY <1>7, <2>5, <3>1 DEF UndoPass
    <3>3. undoers \subseteq undoers'
      BY <1>2 DEF Semaoe, undoVars
    <3> QED BY <3>1, <3>2, <3>3
  <2>6. UndoPass(p, k)'
    BY <2>4, <2>5 DEF UndoPass
  <2> QED BY <2>6
<1>15. Reason(p)'
  <2>1. Denied(p)' = Denied(p) /\ Undoes(p)' = Undoes(p) /\ Nowait(p)' = Nowait(p)
    BY <1>4, <1>12, CanDoSame
  <2> QED BY <1>2, <1>4, <2>1 DEF SeenOK, Reason
<1> QED BY <1>2, <1>12, <1>13, <1>14, <1>15 DEF SeenOK
-----------------------------------------------------------------------------
(* The steps that answer *)

\* An entry that no operation up to the n-th is on gets nothing from them.
LEMMA TotalOff ==
    ASSUME NEW c, NEW n, NEW e, NEW S, \A i \in S : i <= n => <<c.id, c.sops[i].num>> # e
    PROVE  Total(c, n, e, S) = 0
<1>1. {i \in S : i <= n /\ <<c.id, c.sops[i].num>> = e} = {}
  OBVIOUS
<1> QED BY <1>1, SumOfNone DEF Total

\* The values of a set with a size.
LEMMA SizeSeen ==
    ASSUME NEW id \in Id
    PROVE  sizeBar[id] = IF Semconv(id) THEN sema[id.slot].nsems ELSE 0
BY DEF sizeBar

\* A process that leaves semop's places with an error answers.
LEMMA AnswerSeen ==
    ASSUME NEW p \in Proc, \A q \in Proc : q # p => pc'[q] = pc[q] /\ call'[q] = call[q],
           pc'[p] = "out"
    PROVE  Abs!Answer(p, call'[p].error)
<1>1. Req(pc'[p], call'[p]) = [state |-> "done", error |-> call'[p].error]
  BY DEF Req
<1> QED BY <1>1, ReqStep DEF Abs!Answer

\* The last operation done, the vector has been done as a whole.
LEMMA DoneSeen ==
    ASSUME NEW p \in Proc, Base, SeenOK(p), TypeOK', SemopDone(p)
    PROVE  Abs!Perform(p)
<1> DEFINE c == call[p]  id == c.id  sops == c.sops  all == DOMAIN sops
<1>0. /\ TypeOK /\ Kept /\ call \in [Proc -> Call] /\ c \in Call /\ pc \in [Proc -> Pcs]
      /\ semval \in [Unit -> Int] /\ sem_undo \in [Proc -> [Entry -> Aoe]]
  BY DEF Base, Kept, TypeOK, ProcType, ValType, UndoType
<1>1. /\ pc[p] = "ops" /\ MayRun(p) /\ pc' = [pc EXCEPT ![p] = "out"]
      /\ c.n = Len(sops) /\ call' = [call EXCEPT ![p].error = "ok"]
      /\ UNCHANGED <<sema, semval, sem_undo>>
  BY DEF SemopDone, At, Fail, Goto, setVars, undoVars
<1>2. /\ id \in Id /\ all = 1 .. Len(sops) /\ Len(sops) \in Nat
      /\ \A i \in all : sops[i].num \in Num
  BY <1>0, VectorType
<1>3. /\ \A q \in Proc : q # p => pc'[q] = pc[q] /\ call'[q] = call[q]
      /\ pc'[p] = "out" /\ call'[p].error = "ok"
  BY <1>0, <1>1 DEF Call
<1>4. Alone(p) /\ Alone(p)'
  BY <1>1, <1>3, RunsAlone
<1>5. reqBar[p] = [state |-> "pending", id |-> id, sops |-> sops]
  BY <1>1, <1>3, ReqStep DEF Req
<1>6. \A i \in all : Live(<<id, sops[i].num>>)
  BY <1>0, <1>1, <1>2, OpLive DEF Base, OpEntry, Op, Live
<1>7. \A i \in all : sops[i].num < sizeBar[id]
  BY <1>2, <1>6, SizeSeen DEF Live
<1>8. Abs!Doable(sops, Abs!Values(id))
  <2>1. ~ Denied(p)
    BY <1>1 DEF SeenOK, Denied
  <2> QED BY <1>0, <2>1, DoableByOps
<1> HIDE DEF c, id, sops, all
<1>9. \A e \in Entry : Hid(p, e) = (IF e[1] = id THEN Abs!Sum(sops, all, e[2]) ELSE 0)
                   /\ HidUndo(p, e) = (IF e[1] = id THEN Abs!UndoSum(sops, all, e[2]) ELSE 0)
  <2> SUFFICES ASSUME NEW e \in Entry
               PROVE  /\ Hid(p, e) = (IF e[1] = id THEN Abs!Sum(sops, all, e[2]) ELSE 0)
                      /\ HidUndo(p, e) = (IF e[1] = id THEN Abs!UndoSum(sops, all, e[2]) ELSE 0)
    OBVIOUS
  <2> DEFINE U == {i \in all : sops[i].undo}  n == Len(sops)
  <2>1. Hid(p, e) = Total(c, n, e, all) /\ HidUndo(p, e) = Total(c, n, e, U)
    BY <1>1 DEF Hid, HidUndo, InLoop, Undoing, all, sops, c
  <2>2. e = <<e[1], e[2]>>
    BY DEF Entry
  <2>3. n \in Int /\ \A i \in all : i <= n
    BY <1>2
  <2>4. CASE e[1] = id
    <3>1. e = <<c.id, e[2]>>
      BY <2>2, <2>4 DEF id
    <3>2. all \in SUBSET (DOMAIN c.sops) /\ U \in SUBSET (DOMAIN c.sops)
      BY DEF all, sops
    <3> HIDE DEF U, n
    <3>3. /\ Abs!Sum(c.sops, all, e[2]) = Total(c, n, <<c.id, e[2]>>, all)
          /\ Abs!Sum(c.sops, U, e[2]) = Total(c, n, <<c.id, e[2]>>, U)
      <4>1. \A i \in U : i <= n
        BY <2>3 DEF U
      <4> QED BY <1>0, <2>3, <3>2, <4>1, AbsTotal
    <3>4. Abs!UndoSum(sops, all, e[2]) = Abs!Sum(sops, U, e[2])
      BY DEF Abs!UndoSum, U
    <3> QED BY <2>1, <2>4, <3>1, <3>3, <3>4 DEF sops
  <2>5. CASE e[1] # id
    <3>1. \A i : <<c.id, c.sops[i].num>> # e
      BY <2>5 DEF id
    <3> HIDE DEF U, n
    <3> QED BY <2>1, <2>5, <3>1, TotalOff
  <2> QED BY <2>4, <2>5
<1>10. \A e \in Entry : ~ Live(e) => Hid(p, e) = 0
  <2> SUFFICES ASSUME NEW e \in Entry, ~ Live(e) PROVE Hid(p, e) = 0
    OBVIOUS
  <2>1. Hid(p, e) = Total(c, c.n, e, all)
    BY <1>1 DEF Hid, InLoop, all, sops, c
  <2>2. \A i \in all : <<c.id, c.sops[i].num>> # e
    BY <1>6 DEF id, sops
  <2> QED BY <2>1, <2>2, TotalOff
<1>11. /\ valBar = [e \in Entry |-> IF Live(e) THEN semval[UnitAt(e)] - Hid(p, e) ELSE 0]
       /\ adjBar = [q \in Proc |-> [e \in Entry |->
                      sem_undo[q][e] + IF q = p THEN HidUndo(p, e) ELSE 0]]
  BY <1>0, <1>4, BarsSeen DEF BarsOfOne
<1>12. /\ valBar' = [e \in Entry |-> IF Live(e) THEN semval[UnitAt(e)] ELSE 0]
       /\ adjBar' = [q \in Proc |-> [e \in Entry |-> sem_undo[q][e]]]
  <2>1. BarsOfOne' /\ NothingHid'
    BY BarsSeen, NothingIsHid, PTL
  <2>2. \A e : Hid(p, e)' = 0 /\ HidUndo(p, e)' = 0
    BY <1>3, <2>1 DEF NothingHid, InLoop
  <2>3. \A e : Live(e)' = Live(e) /\ UnitAt(e)' = UnitAt(e)
    BY <1>1 DEF Live, UnitAt, Semconv, UnitOf
  <2>4. /\ \A e \in Entry : Live(e) => semval[UnitAt(e)] - 0 = semval[UnitAt(e)]
        /\ \A q \in Proc : \A e \in Entry : sem_undo[q][e] + 0 = sem_undo[q][e]
    BY <1>0, UnitAtType, SizesAssumption DEF Aoe
  <2>5. /\ valBar' = [e \in Entry |-> IF Live(e) THEN semval[UnitAt(e)] - 0 ELSE 0]
        /\ adjBar' = [q \in Proc |-> [e \in Entry |-> sem_undo[q][e] + 0]]
    BY <1>1, <1>4, <2>1, <2>2, <2>3 DEF BarsOfOne
  <2> QED BY <2>4, <2>5
<1>13. valBar' = [e \in Entry |-> valBar[e] +
                    IF e[1] = id THEN Abs!Sum(sops, all, e[2]) ELSE 0]
  <2>1. ASSUME NEW e \in Entry PROVE valBar'[e] = valBar[e] + Hid(p, e)
    <3>1. Hid(p, e) \in Int /\ (Live(e) => semval[UnitAt(e)] \in Int)
      BY <1>0, HidType, UnitAtType DEF HidIsInt
    <3> QED BY <1>10, <1>11, <1>12, <3>1
  <2> QED BY <1>9, <1>12, <2>1
<1>14. adjBar' = [adjBar EXCEPT ![p] = [e \in Entry |-> adjBar[p][e] -
                    IF e[1] = id THEN Abs!UndoSum(sops, all, e[2]) ELSE 0]]
  <2>1. ASSUME NEW e \in Entry PROVE adjBar'[p][e] = adjBar[p][e] - HidUndo(p, e)
    <3>1. HidUndo(p, e) \in Int /\ sem_undo[p][e] \in Int
      BY <1>0, HidType, SizesAssumption DEF HidIsInt, Aoe
    <3> QED BY <1>11, <1>12, <3>1
  <2>2. ASSUME NEW q \in Proc, q # p PROVE adjBar'[q] = adjBar[q]
    <3>1. \A e \in Entry : sem_undo[q][e] + 0 = sem_undo[q][e]
      BY <1>0, SizesAssumption DEF Aoe
    <3> QED BY <1>11, <1>12, <2>2, <3>1
  <2>3. adjBar'[p] = [e \in Entry |-> adjBar[p][e] -
                    IF e[1] = id THEN Abs!UndoSum(sops, all, e[2]) ELSE 0]
    BY <1>9, <1>12, <2>1
  <2> QED BY <1>11, <1>12, <2>2, <2>3
<1>15. Abs!Answer(p, "ok") /\ sizeBar' = sizeBar
  <2>1. Abs!Answer(p, "ok")
    BY <1>3, AnswerSeen
  <2> QED BY <1>1, <2>1 DEF sizeBar, Semconv
<1>16. /\ reqBar[p].state = "pending" /\ reqBar[p].id = id /\ reqBar[p].sops = sops
  BY <1>5
<1>17. Abs!Entry = Entry
  BY DEF Abs!Entry, Entry
<1> QED BY <1>7, <1>8, <1>13, <1>14, <1>15, <1>16, <1>17 DEF Abs!Perform, all

\* A step to out with an error that has its reason, and nothing else seen.
LEMMA RefuseSeen ==
    ASSUME NEW p \in Proc, Base, \A q \in Proc : q # p => pc'[q] = pc[q] /\ call'[q] = call[q],
           pc[p] \in {"copyin", "ops", "backout", "sleep"}, pc'[p] = "out",
           UNCHANGED <<sizeBar, valBar, adjBar>>,
           \/ call'[p].error = "EIDRM" /\ ~ Semconv(call[p].id)
           \/ /\ call'[p].error \in {"EAGAIN", "ERANGE", "ENOSPC", "EINVAL"} /\ Semconv(call[p].id)
              /\ Reason(p) /\ call'[p].error = call[p].error
           \/ /\ call'[p].error = "EFBIG" /\ Semconv(call[p].id)
              /\ \E i \in 1 .. Len(call[p].sops) : call[p].sops[i].num >= sema[call[p].id.slot].nsems
           \/ call'[p].error \in {"EINTR", "EFAULT"}
    PROVE  AbsStep
<1> DEFINE c == call[p]  id == c.id  sops == c.sops  error == call'[p].error
           undoes == \E i \in DOMAIN sops : sops[i].undo
           denied == sizeBar[id] > 0 /\ ~ Abs!Doable(sops, Abs!Values(id))
<1>1. /\ TypeOK /\ id \in Id /\ id.slot \in Slot /\ DOMAIN sops = 1 .. Len(sops)
  BY VectorType DEF Base, Kept, TypeOK, ProcType
<1>2. reqBar[p].state = "pending" /\ reqBar[p].id = id /\ reqBar[p].sops = sops
  <2> HIDE DEF id, sops, error, undoes, denied
  <2>1. reqBar[p] = Req(pc[p], call[p])
    BY ReqStep
  <2>2. Req(pc[p], call[p]) = [state |-> "pending", id |-> id, sops |-> sops]
    BY DEF Req, id, sops
  <2> QED BY <2>1, <2>2
<1>3. Abs!Answer(p, error)
  BY AnswerSeen
<1>4. Undoes(p) => undoes
  BY <1>1 DEF Undoes, Op
<1>5. Nowait(p) => \E i \in DOMAIN sops : sops[i].nowait
  BY <1>1 DEF Nowait, Op
<1>6. Semconv(id) => sizeBar[id] > 0 /\ sizeBar[id] = sema[id.slot].nsems
  BY <1>1, SizeSeen DEF Base, NotEmpty, Semconv
<1>7. Semconv(id) /\ Denied(p) => denied
  BY <1>1, <1>6, DoableByOps
<1>8. ~ Semconv(id) => sizeBar[id] = 0
  BY <1>1, SizeSeen
<1> HIDE DEF undoes, denied
<1>9. \/ error = "EIDRM" /\ sizeBar[id] = 0
      \/ error = "EAGAIN" /\ denied /\ \E i \in DOMAIN sops : sops[i].nowait
      \/ error = "ERANGE" /\ (denied \/ undoes)
      \/ error \in {"ENOSPC", "EINVAL"} /\ undoes
      \/ error = "EFBIG" /\ \E i \in DOMAIN sops : sops[i].num >= sizeBar[id]
      \/ error \in {"EINTR", "EFAULT"}
  <2>1. CASE error = "EIDRM" /\ ~ Semconv(id)
    BY <1>8, <2>1
  <2>2. CASE error \in {"EAGAIN", "ERANGE", "ENOSPC", "EINVAL"} /\ Semconv(id) /\ Reason(p) /\ error = c.error
    BY <1>4, <1>5, <1>7, <2>2 DEF Reason
  <2>3. CASE error = "EFBIG" /\ Semconv(id) /\ \E i \in 1 .. Len(sops) : sops[i].num >= sema[id.slot].nsems
    BY <1>1, <1>6, <2>3
  <2>4. CASE error \in {"EINTR", "EFAULT"}
    BY <2>4
  <2> HIDE DEF error, id, sops, c
  <2> QED BY <2>1, <2>2, <2>3, <2>4 DEF error, id, sops, c
<1>10. error \in {"EIDRM", "EAGAIN", "ERANGE", "ENOSPC", "EINVAL", "EFBIG", "EINTR", "EFAULT"}
  BY <1>9
<1>11. Abs!Refuse(p, error)
  <2> HIDE DEF error, id, sops
  <2> QED BY <1>2, <1>3, <1>9 DEF Abs!Refuse, undoes, denied
<1> HIDE DEF error
<1>12. Abs!Next
  BY <1>10, <1>11 DEF Abs!Next
<1> QED BY <1>12 DEF AbsStep
-----------------------------------------------------------------------------
(* The other steps of semop *)

\* A step that is not seen is a step of SemAbs.
LEMMA StutterSeen ==
    ASSUME UNCHANGED <<sizeBar, valBar, adjBar, reqBar>>
    PROVE  AbsStep
BY DEF AbsStep

\* What semop relies on between its steps.
LEMMA BaseType ==
    ASSUME Base, NEW p \in Proc
    PROVE  /\ TypeOK /\ Kept /\ UndoOK /\ ValuesOK /\ OnSet(p)
           /\ call \in [Proc -> Call] /\ pc \in [Proc -> Pcs] /\ call[p] \in Call
           /\ call[p].id \in Id /\ call[p].id.slot \in Slot /\ call[p].n \in Nat
           /\ DOMAIN call[p].sops = 1 .. Len(call[p].sops) /\ Len(call[p].sops) \in Nat
<1>1. /\ TypeOK /\ Kept /\ UndoOK /\ ValuesOK /\ OnSet(p)
      /\ call \in [Proc -> Call] /\ pc \in [Proc -> Pcs] /\ call[p] \in Call
  BY DEF Base, Kept, SetsOK, TypeOK, ProcType
<1> QED BY <1>1, VectorType

\* The checks are passed, or an error tells that they are not.
LEMMA CopyinSeen ==
    ASSUME NEW p \in Proc, Base, TypeOK', UndoOK', SemopCopyin(p)
    PROVE  AbsStep /\ SeenOK(p)'
<1>0. /\ TypeOK /\ OnSet(p) /\ call \in [Proc -> Call] /\ pc \in [Proc -> Pcs] /\ call[p] \in Call
      /\ call[p].id.slot \in Slot /\ Len(call[p].sops) \in Nat
  BY BaseType
<1>1. /\ pc[p] = "copyin" /\ MayRun(p) /\ UNCHANGED <<sema, semval, sem_undo, undoers>>
      /\ p \notin InLoop
  BY DEF SemopCopyin, At, setVars, undoVars, InLoop
<1>2. \A q \in Proc : q # p => pc'[q] = pc[q] /\ call'[q] = call[q]
  BY <1>0, StepOfOne DEF Continue
<1>3. Semconv(call[p].id) /\ sema[call[p].id.slot].alloc
  BY <1>0, <1>1 DEF OnSet, Semconv
<1>4. CASE VerifyError(p) = "ok" /\ Goto(p, "ops")
           /\ call' = [call EXCEPT ![p] = [@ EXCEPT !.again = TRUE, !.n = 0,
                                                    !.chan = NoChan, !.error = "ok"]]
  <2>1. /\ pc'[p] = "ops" /\ call'[p].n = 0 /\ call'[p].id = call[p].id
        /\ call'[p].sops = call[p].sops
    BY <1>0, <1>4 DEF Goto, Call
  <2>2. UNCHANGED <<sizeBar, valBar, adjBar>>
    BY <1>0, <1>1, <1>2, <2>1, QuietBars
  <2>3. reqBar' = reqBar
    <3>1. Req(pc'[p], call'[p]) = Req(pc[p], call[p])
      BY <1>1, <2>1 DEF Req
    <3> QED BY <1>2, <3>1, ReqStep
  <2>4. \E h : UndoPass(p, h)'
    <3>1. PICK f : f = sem_undo'[p]
      OBVIOUS
    <3>2. f \in UndoMap
      <4>1. UndoFit'
        BY UndoFits, PTL
      <4> QED BY <3>1, <4>1 DEF UndoFit
    <3>3. PICK h : h = [j \in 0 .. 0 |-> f]
      OBVIOUS
    <3>4. Adjusts(h, 0, f, call'[p])
      BY <3>2, <3>3, AdjustsStarts
    <3>5. UndoPass(p, h)'
      BY <2>1, <3>1, <3>4 DEF UndoPass
    <3> QED BY <3>5
  <2>5. SeenOK(p)'
    <3>1. \A i \in 1 .. call'[p].n : FALSE
      BY <2>1
    <3> QED BY <2>1, <2>4, <3>1 DEF SeenOK
  <2> QED BY <2>2, <2>3, <2>5, StutterSeen
<1>5. ASSUME NEW error, Fail(p, error),
             \/ error = "EFAULT"
             \/ /\ error = "EFBIG"
                /\ \E i \in 1 .. Len(call[p].sops) : call[p].sops[i].num >= sema[call[p].id.slot].nsems
      PROVE  AbsStep /\ SeenOK(p)'
  <2>1. pc'[p] = "out" /\ call'[p].error = error
    BY <1>0, <1>5 DEF Fail, Goto, Call
  <2>2. UNCHANGED <<sizeBar, valBar, adjBar>>
    BY <1>0, <1>1, <1>2, <2>1, QuietBars
  <2>3. AbsStep
    BY <1>1, <1>2, <1>3, <1>5, <2>1, <2>2, RefuseSeen
  <2> QED BY <2>1, <2>3 DEF SeenOK
<1>6. CASE VerifyError(p) # "ok" /\ Fail(p, VerifyError(p))
  <2>1. /\ VerifyError(p) = "EFBIG"
        /\ \E i \in 1 .. Len(call[p].sops) : call[p].sops[i].num >= sema[call[p].id.slot].nsems
    BY <1>3, <1>6 DEF VerifyError, Ipcaccess
  <2> QED BY <1>5, <1>6, <2>1
<1> QED BY <1>4, <1>5, <1>6 DEF SemopCopyin

\* Going to sleep is not seen.
LEMMA SleepSeen ==
    ASSUME NEW p \in Proc, Base, TypeOK', SemopSleep(p)
    PROVE  AbsStep /\ SeenOK(p)'
<1>0. TypeOK /\ pc \in [Proc -> Pcs]
  BY BaseType
<1>1. /\ pc[p] = "backout" /\ MayRun(p) /\ UNCHANGED <<sema, semval, sem_undo, call>>
      /\ call[p].n = 0 /\ pc'[p] = "sleep"
  BY <1>0 DEF SemopSleep, At, setVars, undoVars, Goto
<1>2. \A q \in Proc : q # p => pc'[q] = pc[q] /\ call'[q] = call[q]
  BY <1>0, StepOfOne DEF Continue
<1>3. UNCHANGED <<sizeBar, valBar, adjBar>>
  BY <1>0, <1>1, <1>2, QuietBars
<1>4. reqBar' = reqBar
  <2>1. Req(pc'[p], call'[p]) = Req(pc[p], call[p])
    BY <1>1 DEF Req
  <2> QED BY <1>2, <2>1, ReqStep
<1> QED BY <1>1, <1>3, <1>4, StutterSeen DEF SeenOK

\* The error that made p take its vector back has its reason.
LEMMA FailSeen ==
    ASSUME NEW p \in Proc, Base, SeenOK(p), TypeOK', SemopFail(p)
    PROVE  AbsStep /\ SeenOK(p)'
<1>0. TypeOK /\ pc \in [Proc -> Pcs] /\ OnSet(p)
  BY BaseType
<1>1. /\ pc[p] = "backout" /\ MayRun(p) /\ UNCHANGED <<sema, semval, sem_undo, call>>
      /\ call[p].n = 0 /\ call[p].error # "SLEEP" /\ pc'[p] = "out"
  BY <1>0 DEF SemopFail, At, setVars, undoVars, Goto
<1>2. \A q \in Proc : q # p => pc'[q] = pc[q] /\ call'[q] = call[q]
  BY <1>0, StepOfOne DEF Continue
<1>3. UNCHANGED <<sizeBar, valBar, adjBar>>
  BY <1>0, <1>1, <1>2, QuietBars
<1>4. Semconv(call[p].id) /\ Reason(p)
  BY <1>0, <1>1 DEF OnSet, SeenOK
<1>5. call'[p].error \in {"EAGAIN", "ERANGE", "ENOSPC", "EINVAL"} /\ call'[p].error = call[p].error
  BY <1>1, <1>4 DEF Reason
<1>6. AbsStep
  BY <1>1, <1>2, <1>3, <1>4, <1>5, RefuseSeen
<1> QED BY <1>1, <1>6 DEF SeenOK

\* The set is gone, or the vector is tried again.
LEMMA AgainSeen ==
    ASSUME NEW p \in Proc, Base, TypeOK', SemopAgain(p)
    PROVE  AbsStep /\ SeenOK(p)'
<1>0. TypeOK /\ pc \in [Proc -> Pcs] /\ call \in [Proc -> Call]
  BY BaseType
<1>1. /\ pc[p] = "sleep" /\ MayRun(p) /\ UNCHANGED <<sema, semval, sem_undo>> /\ p \notin InLoop
      /\ \/ pc'[p] = "copyin" /\ UNCHANGED call
         \/ ~ Semconv(call[p].id) /\ pc'[p] = "out" /\ call'[p].error = "EIDRM"
  BY <1>0 DEF SemopAgain, At, setVars, undoVars, Goto, Fail, InLoop, Call
<1>2. \A q \in Proc : q # p => pc'[q] = pc[q] /\ call'[q] = call[q]
  BY <1>0, StepOfOne DEF Continue
<1>3. UNCHANGED <<sizeBar, valBar, adjBar>>
  BY <1>0, <1>1, <1>2, QuietBars
<1>4. CASE pc'[p] = "copyin" /\ UNCHANGED call
  <2>1. Req(pc'[p], call'[p]) = Req(pc[p], call[p])
    BY <1>1, <1>4 DEF Req
  <2>2. reqBar' = reqBar
    BY <1>2, <2>1, ReqStep
  <2> QED BY <1>3, <1>4, <2>2, StutterSeen DEF SeenOK
<1>5. CASE ~ Semconv(call[p].id) /\ pc'[p] = "out" /\ call'[p].error = "EIDRM"
  <2>1. AbsStep
    BY <1>1, <1>2, <1>3, <1>5, RefuseSeen
  <2> QED BY <1>5, <2>1 DEF SeenOK
<1> QED BY <1>1, <1>4, <1>5

\* A signal ends the call.
LEMMA InterruptedSeen ==
    ASSUME NEW p \in Proc, Base, TypeOK', SemopInterrupted(p)
    PROVE  AbsStep /\ SeenOK(p)'
<1>0. TypeOK /\ pc \in [Proc -> Pcs] /\ call \in [Proc -> Call]
  BY BaseType
<1>1. /\ pc[p] = "sleep" /\ MayRun(p) /\ UNCHANGED <<sema, semval, sem_undo>> /\ p \notin InLoop
      /\ pc'[p] = "out" /\ call'[p].error = "EINTR"
  BY <1>0 DEF SemopInterrupted, At, setVars, undoVars, Goto, Fail, InLoop, Call
<1>2. \A q \in Proc : q # p => pc'[q] = pc[q] /\ call'[q] = call[q]
  BY <1>0, StepOfOne DEF Continue
<1>3. UNCHANGED <<sizeBar, valBar, adjBar>>
  BY <1>0, <1>1, <1>2, QuietBars
<1>4. AbsStep
  BY <1>1, <1>2, <1>3, RefuseSeen
<1> QED BY <1>1, <1>4 DEF SeenOK

\* The return to user mode.
LEMMA ReturnSeen ==
    ASSUME NEW p \in Proc, Base, TypeOK', SemopReturn(p)
    PROVE  AbsStep /\ SeenOK(p)'
<1>0. TypeOK /\ pc \in [Proc -> Pcs] /\ call \in [Proc -> Call]
  BY BaseType
<1>1. /\ pc[p] = "out" /\ MayRun(p) /\ UNCHANGED <<sema, semval, sem_undo>> /\ p \notin InLoop
      /\ pc'[p] = "user"
  BY <1>0 DEF SemopReturn, At, setVars, undoVars, Goto, Return, InLoop
<1>2. \A q \in Proc : q # p => pc'[q] = pc[q] /\ call'[q] = call[q]
  BY <1>0, StepOfOne DEF Continue
<1>3. UNCHANGED <<sizeBar, valBar, adjBar>>
  BY <1>0, <1>1, <1>2, QuietBars
<1>4. reqBar[p].state = "done" /\ reqBar' = [reqBar EXCEPT ![p] = [state |-> "idle"]]
  <2>1. reqBar[p] = Req(pc[p], call[p]) /\ reqBar' = [reqBar EXCEPT ![p] = Req(pc'[p], call'[p])]
    BY <1>2, ReqStep
  <2>2. Req(pc[p], call[p]).state = "done" /\ Req(pc'[p], call'[p]) = [state |-> "idle"]
    BY <1>1 DEF Req
  <2> QED BY <2>1, <2>2
<1>5. Abs!Leave(p)
  BY <1>3, <1>4 DEF Abs!Leave, Abs!Idle
<1>6. AbsStep
  BY <1>5 DEF AbsStep, Abs!Next
<1> QED BY <1>1, <1>6 DEF SeenOK
-----------------------------------------------------------------------------
(* Steps outside semop *)

\* Where nobody is in its loop nothing is hidden
BarsAtRest ==
    TypeOK => (InLoop = {} =>
        /\ valBar = [e \in Entry |-> IF Live(e) THEN semval[UnitAt(e)] ELSE 0]
        /\ adjBar = sem_undo)

\* That is so in every state.
LEMMA RestSeen == BarsAtRest
<1> SUFFICES ASSUME TypeOK, InLoop = {}
             PROVE  /\ valBar = [e \in Entry |-> IF Live(e) THEN semval[UnitAt(e)] ELSE 0]
                    /\ adjBar = sem_undo
  BY DEF BarsAtRest
<1>1. semval \in [Unit -> Int] /\ sem_undo \in [Proc -> [Entry -> Aoe]]
  BY DEF TypeOK, ValType, UndoType
<1>2. \A e : HiddenVal(e) = 0
  BY SumOfNone DEF HiddenVal
<1>3. \A q, e : HiddenAoe(q, e) = 0
  BY DEF HiddenAoe
<1>4. valBar = [e \in Entry |-> IF Live(e) THEN semval[UnitAt(e)] - 0 ELSE 0]
  BY <1>2 DEF valBar, Live, UnitAt
<1>5. \A e \in Entry : Live(e) => semval[UnitAt(e)] - 0 = semval[UnitAt(e)]
  <2> SUFFICES ASSUME NEW e \in Entry, Live(e) PROVE semval[UnitAt(e)] \in Int
    OBVIOUS
  <2> QED BY <1>1, UnitAtType
<1>6. adjBar = [q \in Proc |-> [e \in Entry |-> sem_undo[q][e] + 0]]
  BY <1>3 DEF adjBar
<1>7. \A q \in Proc, e \in Entry : sem_undo[q][e] + 0 = sem_undo[q][e]
  BY <1>1, SizesAssumption DEF Aoe
<1>8. \A q \in Proc : [e \in Entry |-> sem_undo[q][e] + 0] = sem_undo[q]
  BY <1>1, <1>7
<1> QED BY <1>1, <1>4, <1>5, <1>6, <1>8

\* A step of a process that has the processor and is in no loop, before or after.
LEMMA RestStep ==
    ASSUME TypeOK, TypeOK', NEW p \in Proc, MayRun(p),
           pc[p] \notin {"ops", "backout"}, pc'[p] \notin {"ops", "backout"},
           \A q \in Proc : q # p => pc'[q] = pc[q]
    PROVE  /\ InLoop = {} /\ (InLoop = {})'
           /\ valBar = [e \in Entry |-> IF Live(e) THEN semval[UnitAt(e)] ELSE 0]
           /\ valBar' = [e \in Entry |-> IF Live(e)' THEN semval'[UnitAt(e)'] ELSE 0]
           /\ adjBar = sem_undo /\ adjBar' = sem_undo'
<1>1. InLoop = {} /\ (InLoop = {})'
  BY DEF InLoop, MayRun, NoPreempt
<1>2. BarsAtRest /\ BarsAtRest'
  BY RestSeen, PTL
<1>3. valBar' = [e \in Entry |-> IF Live(e)' THEN semval'[UnitAt(e)'] ELSE 0] /\ adjBar' = sem_undo'
  BY <1>1, <1>2 DEF BarsAtRest, UnitAt
<1> QED BY <1>1, <1>2, <1>3 DEF BarsAtRest

\* A step that leaves what SemAbs can see of sets, values and adjustments, and
\* the process where it has no semop.
LEMMA PlainSeen ==
    ASSUME TypeOK, TypeOK', NEW p \in Proc, MayRun(p),
           pc[p] \in {"user", "setall", "ipcset", "exit"},
           pc'[p] \in {"user", "setall", "ipcset", "exit"},
           \A q \in Proc : q # p => pc'[q] = pc[q] /\ call'[q] = call[q],
           UNCHANGED <<sema, semval, sem_undo>>
    PROVE  AbsStep /\ SeenOK(p)'
<1>1. UNCHANGED <<sizeBar, valBar, adjBar>>
  BY QuietBars DEF InLoop
<1>2. Req(pc'[p], call'[p]) = Req(pc[p], call[p])
  BY DEF Req
<1>3. reqBar' = reqBar
  BY <1>2, ReqStep
<1> QED BY <1>1, <1>3, StutterSeen DEF SeenOK

\* A vector is asked for.
LEMMA AskSeen ==
    ASSUME NEW p \in Proc, Base, TypeOK', NEW id \in Id, NEW sops \in Vectors, Semop(p, id, sops)
    PROVE  AbsStep /\ SeenOK(p)'
<1>0. TypeOK /\ pc \in [Proc -> Pcs] /\ call \in [Proc -> Call]
  BY BaseType
<1>1. /\ pc[p] = "user" /\ MayRun(p) /\ UNCHANGED <<sema, semval, sem_undo>> /\ p \notin InLoop
      /\ Semconv(id) /\ pc'[p] = "copyin" /\ call'[p].id = id /\ call'[p].sops = sops
  BY <1>0 DEF Semop, At, setVars, undoVars, Goto, InLoop, Call, NoCall
<1>2. \A q \in Proc : q # p => pc'[q] = pc[q] /\ call'[q] = call[q]
  BY <1>0, <1>1 DEF Semop, Goto
<1>3. UNCHANGED <<sizeBar, valBar, adjBar>>
  BY <1>0, <1>1, <1>2, QuietBars
<1>4. /\ reqBar[p] = [state |-> "idle"]
      /\ reqBar' = [reqBar EXCEPT ![p] = [state |-> "pending", id |-> id, sops |-> sops]]
  <2>1. reqBar[p] = Req(pc[p], call[p]) /\ reqBar' = [reqBar EXCEPT ![p] = Req(pc'[p], call'[p])]
    BY <1>2, ReqStep
  <2>2. /\ Req(pc[p], call[p]) = [state |-> "idle"]
        /\ Req(pc'[p], call'[p]) = [state |-> "pending", id |-> id, sops |-> sops]
    BY <1>1 DEF Req
  <2> QED BY <2>1, <2>2
<1>5. sizeBar[id] > 0
  <2>1. id.slot \in Slot /\ sizeBar[id] = sema[id.slot].nsems
    BY <1>1, SizeSeen DEF Id
  <2> QED BY <1>1, <2>1 DEF Base, NotEmpty, Semconv
<1>6. Abs!Ask(p, id, sops)
  BY <1>3, <1>4, <1>5 DEF Abs!Ask, Abs!Idle
<1>7. AbsStep
  BY <1>6 DEF AbsStep, Abs!Next
<1> QED BY <1>1, <1>7 DEF SeenOK

\* semctl's and semexit's steps that only move the process.
LEMMA MovesSeen ==
    ASSUME NEW p \in Proc, Base, TypeOK',
           \/ Semexit(p) \/ SemexitDone(p) \/ SemctlFails(p)
           \/ \E id \in Id : SemctlCopyin(p, id, "SETALL", "setall")
                             \/ SemctlCopyin(p, id, "IPC_SET", "ipcset")
    PROVE  AbsStep /\ SeenOK(p)'
<1>0. TypeOK /\ pc \in [Proc -> Pcs] /\ call \in [Proc -> Call]
  BY BaseType
<1>1. /\ pc[p] \in {"user", "setall", "ipcset", "exit"} /\ MayRun(p)
      /\ pc'[p] \in {"user", "setall", "ipcset", "exit"}
      /\ UNCHANGED <<sema, semval, sem_undo>>
      /\ \A q \in Proc : q # p => pc'[q] = pc[q] /\ call'[q] = call[q]
  BY <1>0 DEF Semexit, SemexitDone, SemctlFails, SemctlCopyin, At, Goto, Return, setVars, undoVars
<1> QED BY <1>0, <1>1, PlainSeen

\* IPC_SET.
LEMMA IpcsetSeen ==
    ASSUME NEW p \in Proc, Base, TypeOK', CopyinSleeps = FALSE, SemctlIpcset(p)
    PROVE  AbsStep /\ SeenOK(p)'
<1>0. TypeOK /\ Kept /\ pc \in [Proc -> Pcs] /\ call \in [Proc -> Call]
  BY BaseType
<1>1. UNCHANGED sema
  BY <1>0, IpcsetStays
<1>2. /\ pc[p] = "ipcset" /\ MayRun(p) /\ pc'[p] = "user" /\ UNCHANGED <<semval, sem_undo>>
      /\ \A q \in Proc : q # p => pc'[q] = pc[q] /\ call'[q] = call[q]
  BY <1>0 DEF SemctlIpcset, At, Goto, Return, undoVars
<1> QED BY <1>0, <1>1, <1>2, PlainSeen

\* A signal, or no step.
LEMMA NothingSeen ==
    ASSUME UNCHANGED <<sema, semval, undoVars, pc, call>>
    PROVE  AbsStep /\ \A p : SeenOK(p) => SeenOK(p)'
<1>0. UNCHANGED <<sem_undo, undoers>>
  BY DEF undoVars
<1>1. sizeBar' = sizeBar
  BY DEF sizeBar, Semconv
<1>2. InLoop' = InLoop
  BY DEF InLoop
<1>3. \A q, e, S : Applied(q, e, S)' = Applied(q, e, S)
  BY DEF Applied, OpEntry, Op
<1>4. \A e : HiddenVal(e)' = HiddenVal(e)
  BY <1>2, <1>3 DEF HiddenVal
<1>5. valBar' = valBar
  BY <1>4 DEF valBar, Semconv, UnitOf
<1>6. adjBar' = adjBar
  BY <1>0, <1>2, <1>3 DEF adjBar, HiddenAoe
<1>7. reqBar' = reqBar
  BY DEF reqBar
<1>8. ASSUME NEW p, SeenOK(p) PROVE SeenOK(p)'
  <2>1. \A h : UndoPass(p, h)' = UndoPass(p, h)
    BY <1>0 DEF UndoPass, Op
  <2>2. /\ \A i : CanDo(p, i)' = CanDo(p, i)
        /\ Denied(p)' = Denied(p) /\ Undoes(p)' = Undoes(p) /\ Nowait(p)' = Nowait(p)
    BY <1>5, CanDoSame
  <2>3. Reason(p)' = Reason(p)
    BY <2>2 DEF Reason
  <2> QED BY <1>8, <2>1, <2>2, <2>3 DEF SeenOK
<1> QED BY <1>1, <1>5, <1>6, <1>7, <1>8, StutterSeen
-----------------------------------------------------------------------------
(* Steps that change sets, values and adjustments *)

\* A new set: its units are zero.
LEMMA CreateSeen ==
    ASSUME NEW p \in Proc, Base, TypeOK', NEW key \in Key, NEW n \in 0 .. SEMMSL + 1,
           Semget(p, key, n)
    PROVE  AbsStep /\ SeenOK(p)' /\ NotEmpty'
<1>0. /\ TypeOK /\ Kept /\ pc \in [Proc -> Pcs] /\ sema \in [Slot -> Header]
      /\ semmap \subseteq 0 .. SEMMNS - 1
  BY BaseType DEF TypeOK, SetsType
<1>1. pc[p] = "user" /\ MayRun(p) /\ UNCHANGED <<semval, sem_undo, pc, call>>
  BY DEF Semget, At, undoVars, procVars
<1>2. PICK s \in Slot :
        /\ ~ sema[s].alloc
        /\ \/ /\ n \in 1 .. SEMMSL
              /\ \E a \in Windows(semmap, n) :
                    sema' = [sema EXCEPT ![s] = [@ EXCEPT !.alloc = TRUE, !.key = key,
                                                          !.base = a, !.nsems = n]]
           \/ sema' = [sema EXCEPT ![s].key = key]
  BY DEF Semget
<1>3. \A t \in Slot : t # s => sema'[t] = sema[t]
  BY <1>0, <1>2
<1>4. \A i \in Id : i.slot \in Slot /\ i = [seq |-> i.seq, slot |-> i.slot]
  BY DEF Id
<1>5. \A i \in Id : i.slot # s => /\ Semconv(i)' = Semconv(i)
                                  /\ sizeBar'[i] = sizeBar[i]
  BY <1>3, <1>4 DEF Semconv, sizeBar
<1>6. \A i \in Id : i.slot = s => ~ Semconv(i) /\ sizeBar[i] = 0
  BY <1>2 DEF Semconv, sizeBar
<1>7. /\ valBar = [e \in Entry |-> IF Live(e) THEN semval[UnitAt(e)] ELSE 0]
      /\ valBar' = [e \in Entry |-> IF Live(e)' THEN semval[UnitAt(e)'] ELSE 0]
      /\ adjBar' = adjBar
  <2>1. /\ valBar = [e \in Entry |-> IF Live(e) THEN semval[UnitAt(e)] ELSE 0]
        /\ valBar' = [e \in Entry |-> IF Live(e)' THEN semval'[UnitAt(e)'] ELSE 0]
        /\ adjBar = sem_undo /\ adjBar' = sem_undo'
    BY <1>0, <1>1, RestStep
  <2> QED BY <1>1, <2>1
<1>8. ASSUME NEW e \in Entry, e[1].slot # s PROVE valBar'[e] = valBar[e]
  <2>1. e[1] \in Id
    BY DEF Entry
  <2>2. Live(e)' = Live(e) /\ UnitAt(e)' = UnitAt(e)
    BY <1>3, <1>4, <1>5, <1>8, <2>1 DEF Live, UnitAt, UnitOf
  <2> QED BY <1>7, <2>2
<1>9. \A e \in Entry : e[1].slot = s => ~ Live(e) /\ valBar[e] = 0
  BY <1>6, <1>7 DEF Live, Entry
<1>10. reqBar' = reqBar /\ SeenOK(p)'
  BY <1>1 DEF reqBar, SeenOK
<1>11. CASE sema' = [sema EXCEPT ![s].key = key]
  <2>1. ~ sema'[s].alloc
    BY <1>0, <1>2, <1>11 DEF Header
  <2>2. \A i \in Id : i.slot = s => ~ Semconv(i)' /\ sizeBar'[i] = 0
    BY <2>1 DEF Semconv, sizeBar
  <2>3. sizeBar' = sizeBar
    <3>1. \A i \in Id : sizeBar'[i] = sizeBar[i]
      BY <1>5, <1>6, <2>2
    <3> QED BY <3>1 DEF sizeBar
  <2>4. \A e \in Entry : e[1].slot = s => valBar'[e] = 0
    BY <1>7, <2>2 DEF Live, Entry
  <2>5. valBar' = valBar
    <3>1. \A e \in Entry : valBar'[e] = valBar[e]
      BY <1>8, <1>9, <2>4
    <3> QED BY <1>7, <3>1
  <2>6. NotEmpty'
    BY <1>3, <2>1 DEF Base, NotEmpty
  <2> QED BY <1>7, <1>10, <2>3, <2>5, <2>6, StutterSeen
<1>12. ASSUME n \in 1 .. SEMMSL, NEW a \in Windows(semmap, n),
              sema' = [sema EXCEPT ![s] = [@ EXCEPT !.alloc = TRUE, !.key = key,
                                                    !.base = a, !.nsems = n]]
       PROVE  AbsStep /\ SeenOK(p)' /\ NotEmpty'
  <2> DEFINE id == [seq |-> sema[s].seq, slot |-> s]
  <2>1. sema'[s].alloc /\ sema'[s].seq = sema[s].seq /\ sema'[s].base = a /\ sema'[s].nsems = n
    BY <1>0, <1>12 DEF Header
  <2>2. id \in Id /\ id.slot = s /\ id.seq = sema[s].seq
    BY <1>0 DEF Id, Header
  <2> HIDE DEF id
  <2>3. \A i \in Id : i.slot = s => (Semconv(i)' <=> i = id)
    BY <1>4, <2>1, <2>2 DEF Semconv
  <2>4. sizeBar' = [sizeBar EXCEPT ![id] = n]
    <3>1. \A i \in Id : i # id => sizeBar'[i] = sizeBar[i]
      <4>1. \A i \in Id : i.slot = s /\ i # id => sizeBar'[i] = 0
        BY <2>3 DEF sizeBar
      <4> QED BY <1>5, <1>6, <4>1
    <3>2. sizeBar'[id] = n
      BY <2>1, <2>2, <2>3 DEF sizeBar
    <3> QED BY <3>1, <3>2 DEF sizeBar
  <2>5. ASSUME NEW e \in Entry, e[1].slot = s, Live(e)' PROVE semval[UnitAt(e)'] = 0
    <3>1. e[1] = id /\ e[2] \in Num /\ e[2] < n
      BY <2>1, <2>3, <2>5 DEF Live, Entry
    <3>2. UnitAt(e)' = a + e[2]
      BY <2>1, <2>2, <3>1 DEF UnitAt, UnitOf
    <3>3. a \in semmap /\ a .. a + n - 1 \subseteq semmap /\ a \in Int
      BY <1>0, <1>12 DEF Windows
    <3>4. a + e[2] \in a .. a + n - 1
      BY <3>1, <3>3, SizesAssumption DEF Num
    <3> DEFINE u == a + e[2]
    <3> HIDE DEF u
    <3>5. u \in semmap
      BY <3>3, <3>4 DEF u
    <3>6. u \in Unit
      BY <1>0, <3>5, SizesAssumption DEF Unit
    <3>7. \A t \in Slot : sema[t].alloc => u \notin UnitsOf(t)
      BY <1>0, <3>5 DEF Kept, SetsOK, SetsDisjoint
    <3>8. semval[u] = 0
      BY <3>6, <3>7 DEF Base, FreeUnitsClean
    <3> QED BY <3>2, <3>8 DEF u
  <2>6. valBar' = valBar
    <3>1. \A e \in Entry : valBar'[e] = valBar[e]
      BY <1>7, <1>8, <1>9, <2>5
    <3> QED BY <1>7, <3>1
  <2>7. NotEmpty'
    BY <1>3, <1>12, <2>1 DEF Base, NotEmpty
  <2>8. n \in 1 .. Cardinality(Num)
    <3>1. Cardinality(Num) = SEMMSL
      <4> DEFINE m == SEMMSL - 1
      <4>1. m \in Int /\ 0 <= m /\ m - 0 + 1 = SEMMSL
        BY SizesAssumption
      <4> HIDE DEF m
      <4>2. Cardinality(0 .. m) = m - 0 + 1
        BY <4>1, FS_Interval
      <4> QED BY <4>1, <4>2 DEF m, Num
    <3> QED BY <1>12, <3>1
  <2>9. Abs!Create(id, n)
    <3>1. \A other \in Id : other.slot = id.slot => sizeBar[other] = 0
      BY <1>6, <2>2
    <3> QED BY <1>7, <1>10, <2>4, <2>6, <3>1 DEF Abs!Create
  <2>10. AbsStep
    <3>1. \E i \in Id : \E m \in 1 .. Cardinality(Num) : Abs!Create(i, m)
      BY <2>2, <2>8, <2>9
    <3>2. Abs!Cardinality(Num) = Cardinality(Num)
      BY DEF Abs!Cardinality, Cardinality, Abs!IsFiniteSet, IsFiniteSet
    <3>3. Abs!Next
      BY <3>1, <3>2 DEF Abs!Next
    <3> QED BY <3>3 DEF AbsStep
  <2> QED BY <1>10, <2>7, <2>10
<1> QED BY <1>2, <1>11, <1>12

\* A set is removed, with its values and the adjustments that name it.
LEMMA RemoveSeen ==
    ASSUME NEW p \in Proc, Base, TypeOK', NEW id \in Id, SemctlRmid(p, id)
    PROVE  AbsStep /\ SeenOK(p)' /\ NotEmpty'
<1>0. /\ TypeOK /\ Kept /\ UndoOK /\ pc \in [Proc -> Pcs] /\ sema \in [Slot -> Header]
      /\ sem_undo \in [Proc -> [Entry -> Aoe]]
  BY BaseType DEF TypeOK, SetsType, UndoType
<1>1. /\ pc[p] = "user" /\ MayRun(p) /\ UNCHANGED <<pc, call>> /\ Semconv(id) /\ id.slot \in Slot
      /\ Semunrm(id, 0, sema[id.slot].nsems)
      /\ semval' = [u \in Unit |-> IF u \in UnitsOf(id.slot) THEN 0 ELSE semval[u]]
      /\ \A t \in Slot : t # id.slot => sema'[t] = sema[t]
      /\ ~ sema'[id.slot].alloc
  BY <1>0 DEF SemctlRmid, At, procVars, Id, Header
<1>2. \A i \in Id : i.slot \in Slot /\ i = [seq |-> i.seq, slot |-> i.slot]
  BY DEF Id
<1>3. /\ \A i \in Id : i.slot # id.slot => Semconv(i)' = Semconv(i)
      /\ \A i \in Id : i.slot = id.slot => ~ Semconv(i)' /\ (Semconv(i) <=> i = id)
  BY <1>1, <1>2 DEF Semconv
<1>4. sizeBar' = [sizeBar EXCEPT ![id] = 0]
  <2>1. \A i \in Id : sizeBar'[i] = IF i = id THEN 0 ELSE sizeBar[i]
    BY <1>1, <1>2, <1>3 DEF sizeBar
  <2> QED BY <2>1 DEF sizeBar
<1>5. sizeBar[id] > 0
  BY <1>1, SizeSeen DEF Base, NotEmpty, Semconv
<1>6. /\ valBar = [e \in Entry |-> IF Live(e) THEN semval[UnitAt(e)] ELSE 0]
      /\ valBar' = [e \in Entry |-> IF Live(e)' THEN semval'[UnitAt(e)'] ELSE 0]
      /\ adjBar = sem_undo /\ adjBar' = sem_undo'
  BY <1>0, <1>1, RestStep
<1>7. valBar' = [e \in Entry |-> IF e[1] = id THEN 0 ELSE valBar[e]]
  <2> SUFFICES ASSUME NEW e \in Entry PROVE valBar'[e] = IF e[1] = id THEN 0 ELSE valBar[e]
    BY <1>6
  <2>1. e[1] \in Id /\ e[1].slot \in Slot
    BY <1>2 DEF Entry
  <2>2. CASE e[1].slot = id.slot
    <3>1. ~ Live(e)' /\ (e[1] # id => ~ Live(e))
      BY <1>3, <2>1, <2>2 DEF Live
    <3> QED BY <1>6, <3>1
  <2>3. CASE e[1].slot # id.slot
    <3>1. Live(e)' = Live(e) /\ UnitAt(e)' = UnitAt(e)
      BY <1>1, <1>3, <2>1, <2>3 DEF Live, UnitAt, UnitOf
    <3>2. Live(e) => semval'[UnitAt(e)] = semval[UnitAt(e)]
      <4> SUFFICES ASSUME Live(e) PROVE semval'[UnitAt(e)] = semval[UnitAt(e)]
        OBVIOUS
      <4>1. UnitAt(e) \in Unit /\ UnitAt(e) \in UnitsOf(e[1].slot)
        BY <1>0, UnitAtType
      <4>2. UnitAt(e) \notin UnitsOf(id.slot)
        BY <1>0, <1>1, <2>1, <2>3, <4>1 DEF Live, Semconv, Kept, SetsOK, SetsDisjoint
      <4> QED BY <1>1, <4>1, <4>2
    <3> QED BY <1>6, <2>3, <3>1, <3>2
  <2> QED BY <2>2, <2>3
<1>8. Abs!Forget(id, Num)
  <2>1. \A q \in Proc, e \in Entry : e[1] = id /\ e[2] \notin 0 .. sema[id.slot].nsems => sem_undo[q][e] = 0
    <3> SUFFICES ASSUME NEW q \in Proc, NEW e \in Entry, e[1] = id,
                        e[2] \notin 0 .. sema[id.slot].nsems, sem_undo[q][e] # 0
                 PROVE  FALSE
      OBVIOUS
    <3>1. e \in Entries(q)
      BY DEF Entries
    <3>2. e[2] < sema[id.slot].nsems
      BY <1>0, <3>1 DEF UndoOK
    <3>3. e[2] \in Nat /\ sema[id.slot].nsems \in Nat
      BY <1>0, <1>1, SizesAssumption DEF Entry, Num, Header
    <3> QED BY <3>2, <3>3
  <2>2. \A e \in Entry : e[2] \in Num
    BY DEF Entry
  <2>3. sem_undo' = [q \in Proc |-> [e \in Entry |->
          IF e[1] = id /\ e[2] \in 0 .. sema[id.slot].nsems THEN 0 ELSE sem_undo[q][e]]]
    BY <1>1 DEF Semunrm
  <2>4. sem_undo' = [q \in Proc |-> [e \in Entry |->
          IF e[1] = id /\ e[2] \in Num THEN 0 ELSE sem_undo[q][e]]]
    BY <2>1, <2>2, <2>3
  <2> QED BY <1>6, <2>4 DEF Abs!Forget, Abs!Entry, Entry
<1>9. reqBar' = reqBar /\ SeenOK(p)'
  BY <1>1 DEF reqBar, SeenOK
<1>10. NotEmpty'
  BY <1>1 DEF Base, NotEmpty
<1>11. Abs!Remove(id)
  <2>1. Abs!Entry = Entry
    BY DEF Abs!Entry, Entry
  <2> QED BY <1>4, <1>5, <1>7, <1>8, <1>9, <2>1 DEF Abs!Remove
<1>12. AbsStep
  BY <1>11 DEF AbsStep, Abs!Next
<1> QED BY <1>9, <1>10, <1>12

\* One unit gets a new value.
LEMMA OneUnit ==
    ASSUME TypeOK, Kept, NEW e \in Entry, Live(e), NEW w \in Int,
           semval' = [semval EXCEPT ![UnitAt(e)] = w]
    PROVE  \A f \in Entry : Live(f) => semval'[UnitAt(f)] = IF f = e THEN w ELSE semval[UnitAt(f)]
<1> SUFFICES ASSUME NEW f \in Entry, Live(f)
             PROVE  semval'[UnitAt(f)] = IF f = e THEN w ELSE semval[UnitAt(f)]
  OBVIOUS
<1>1. semval \in [Unit -> Int] /\ UnitAt(f) \in Unit /\ UnitAt(e) \in Unit
  BY UnitAtType DEF TypeOK, ValType
<1>2. CASE f = e
  BY <1>1, <1>2
<1>3. CASE f # e
  <2>1. UnitAt(f) # UnitAt(e)
    BY <1>3, UnitsApart
  <2> QED BY <1>1, <1>3, <2>1
<1> QED BY <1>2, <1>3

\* The entry of a semaphore, by number.
LEMMA EntryOf ==
    ASSUME TypeOK, NEW id \in Id, Semconv(id), NEW num \in Num, num < sema[id.slot].nsems
    PROVE  /\ <<id, num>> \in Entry /\ Live(<<id, num>>)
           /\ UnitAt(<<id, num>>) = UnitOf(id.slot, num)
BY DEF Entry, Live, UnitAt

\* Where sets stay, so do the semaphores that exist and their units.
LEMMA SetsSeen ==
    ASSUME UNCHANGED sema
    PROVE  sizeBar' = sizeBar /\ \A e : Live(e)' = Live(e) /\ UnitAt(e)' = UnitAt(e)
BY DEF sizeBar, Semconv, Live, UnitAt, UnitOf

\* SETVAL.
LEMMA SetvalSeen ==
    ASSUME NEW p \in Proc, Base, TypeOK', NEW id \in Id, NEW num \in Num, NEW val \in 0 .. SEMVMX,
           SemctlSetval(p, id, num, val)
    PROVE  AbsStep /\ SeenOK(p)'
<1>0. TypeOK /\ Kept
  BY BaseType
<1>1. /\ pc[p] = "user" /\ MayRun(p) /\ UNCHANGED <<sema, pc, call>> /\ Semconv(id)
      /\ num < sema[id.slot].nsems /\ Semunrm(id, num, num)
      /\ semval' = [semval EXCEPT ![UnitOf(id.slot, num)] = val]
  BY DEF SemctlSetval, At, procVars, setVars
<1> DEFINE g == <<id, num>>
<1>2. g \in Entry /\ Live(g) /\ UnitAt(g) = UnitOf(id.slot, num) /\ g[1] = id /\ g[2] = num
  BY <1>0, <1>1, EntryOf
<1>3. \A e \in Entry : e[1] = id /\ e[2] = num <=> e = g
  BY DEF Entry
<1> HIDE DEF g
<1>4. /\ valBar = [e \in Entry |-> IF Live(e) THEN semval[UnitAt(e)] ELSE 0]
      /\ valBar' = [e \in Entry |-> IF Live(e)' THEN semval'[UnitAt(e)'] ELSE 0]
      /\ adjBar = sem_undo /\ adjBar' = sem_undo'
  BY <1>0, <1>1, RestStep
<1>5. sizeBar' = sizeBar /\ \A e : Live(e)' = Live(e) /\ UnitAt(e)' = UnitAt(e)
  BY <1>1, SetsSeen
<1>6. \A e \in Entry : Live(e) => semval'[UnitAt(e)] = IF e = g THEN val ELSE semval[UnitAt(e)]
  <2>1. val \in Int /\ semval' = [semval EXCEPT ![UnitAt(g)] = val]
    BY <1>1, <1>2
  <2> QED BY <1>0, <1>2, <2>1, OneUnit
<1>7. \A e \in Entry : valBar'[e] = IF e = g THEN val ELSE valBar[e]
  BY <1>2, <1>4, <1>5, <1>6
<1>8. \A e \in Entry : e[2] \in num .. num <=> e[2] \in {num}
  BY SizesAssumption DEF Entry, Num
<1>9. Abs!Entry = Entry
  BY DEF Abs!Entry, Entry
<1>10. Abs!Forget(id, {num})
  <2>1. sem_undo' = [q \in Proc |-> [e \in Entry |->
          IF e[1] = id /\ e[2] \in num .. num THEN 0 ELSE sem_undo[q][e]]]
    BY <1>1 DEF Semunrm
  <2>2. sem_undo' = [q \in Proc |-> [e \in Entry |->
          IF e[1] = id /\ e[2] \in {num} THEN 0 ELSE sem_undo[q][e]]]
    BY <1>8, <2>1
  <2> QED BY <1>4, <1>9, <2>2 DEF Abs!Forget
<1>11. reqBar' = reqBar /\ SeenOK(p)'
  BY <1>1 DEF reqBar, SeenOK
<1>12. Abs!Set(id, {num})
  <2>1. \A m \in {num} : m < sizeBar[id]
    BY <1>1, SizeSeen
  <2>2. \A e \in Entry : IF e[1] = id /\ e[2] \in {num}
                         THEN valBar'[e] \in 0 .. SEMVMX ELSE valBar'[e] = valBar[e]
    BY <1>3, <1>7
  <2> QED BY <1>5, <1>9, <1>10, <1>11, <2>1, <2>2 DEF Abs!Set
<1>13. AbsStep
  <2>1. \E i \in Id : \E nums \in SUBSET Num : Abs!Set(i, nums)
    BY <1>12
  <2> QED BY <2>1 DEF AbsStep, Abs!Next
<1> QED BY <1>11, <1>13

\* SETALL.
LEMMA SetallSeen ==
    ASSUME NEW p \in Proc, Base, TypeOK', SemctlSetall(p)
    PROVE  AbsStep /\ SeenOK(p)'
<1> DEFINE id == call[p].id
           nums == {num \in Num : num < sema[id.slot].nsems}
<1>0. /\ TypeOK /\ Kept /\ UndoOK /\ OnSet(p) /\ pc \in [Proc -> Pcs] /\ call \in [Proc -> Call]
      /\ id \in Id /\ id.slot \in Slot /\ sema \in [Slot -> Header]
      /\ sem_undo \in [Proc -> [Entry -> Aoe]]
  BY BaseType DEF TypeOK, SetsType, UndoType
<1>1. /\ pc[p] = "setall" /\ MayRun(p) /\ pc'[p] = "user" /\ UNCHANGED sema
      /\ \A q \in Proc : q # p => pc'[q] = pc[q] /\ call'[q] = call[q]
      /\ Semunrm(id, 0, sema[id.slot].nsems)
  BY <1>0 DEF SemctlSetall, At, Return, Goto, setVars
<1>2. PICK vals \in [UnitsOf(id.slot) -> 0 .. SEMVMX] :
         semval' = [u \in Unit |-> IF u \in UnitsOf(id.slot) THEN vals[u] ELSE semval[u]]
  BY DEF SemctlSetall
<1>3. Semconv(id)
  BY <1>0, <1>1 DEF OnSet
<1> HIDE DEF id
<1>4. /\ valBar = [e \in Entry |-> IF Live(e) THEN semval[UnitAt(e)] ELSE 0]
      /\ valBar' = [e \in Entry |-> IF Live(e)' THEN semval'[UnitAt(e)'] ELSE 0]
      /\ adjBar = sem_undo /\ adjBar' = sem_undo'
  BY <1>0, <1>1, RestStep
<1>5. sizeBar' = sizeBar /\ \A e : Live(e)' = Live(e) /\ UnitAt(e)' = UnitAt(e)
  BY <1>1, SetsSeen
<1>6. \A e \in Entry : e[1] \in Id /\ e[2] \in Num /\ e[2] \in Nat
  BY SizesAssumption DEF Entry, Num
<1>7. ASSUME NEW e \in Entry
      PROVE  IF e[1] = id /\ e[2] \in nums THEN valBar'[e] \in 0 .. SEMVMX ELSE valBar'[e] = valBar[e]
  <2>1. CASE e[1] = id /\ e[2] \in nums
    <3>1. Live(e)
      BY <1>3, <2>1 DEF Live
    <3>2. UnitAt(e) \in Unit /\ UnitAt(e) \in UnitsOf(id.slot)
      BY <1>0, <2>1, <3>1, UnitAtType
    <3>3. semval'[UnitAt(e)] = vals[UnitAt(e)]
      BY <1>2, <3>2
    <3> QED BY <1>4, <1>5, <2>1, <3>1, <3>2, <3>3
  <2>2. CASE ~ (e[1] = id /\ e[2] \in nums)
    <3>1. Live(e) => e[1] # id
      BY <1>6, <2>2 DEF Live
    <3>2. Live(e) => semval'[UnitAt(e)] = semval[UnitAt(e)]
      <4> SUFFICES ASSUME Live(e) PROVE semval'[UnitAt(e)] = semval[UnitAt(e)]
        OBVIOUS
      <4>1. UnitAt(e) \in Unit /\ UnitAt(e) \in UnitsOf(e[1].slot)
        BY <1>0, UnitAtType
      <4>2. e[1].slot \in Slot /\ e[1].slot # id.slot
        <5>1. e[1] = [seq |-> e[1].seq, slot |-> e[1].slot] /\ id = [seq |-> id.seq, slot |-> id.slot]
              /\ e[1].slot \in Slot
          BY <1>0, <1>6 DEF Id
        <5>2. Semconv(e[1]) /\ e[1] # id
          BY <3>1 DEF Live
        <5> QED BY <1>3, <5>1, <5>2 DEF Semconv
      <4>3. UnitAt(e) \notin UnitsOf(id.slot)
        BY <1>0, <1>3, <4>1, <4>2 DEF Live, Semconv, Kept, SetsOK, SetsDisjoint
      <4> QED BY <1>2, <4>1, <4>3
    <3>3. valBar'[e] = valBar[e]
      BY <1>4, <1>5, <3>2
    <3> QED BY <2>2, <3>3
  <2> QED BY <2>1, <2>2
<1>8. Abs!Entry = Entry
  BY DEF Abs!Entry, Entry
<1>9. Abs!Forget(id, nums)
  <2>1. \A q \in Proc, e \in Entry :
          (IF e[1] = id /\ e[2] \in 0 .. sema[id.slot].nsems THEN 0 ELSE sem_undo[q][e])
            = IF e[1] = id /\ e[2] \in nums THEN 0 ELSE sem_undo[q][e]
    <3> SUFFICES ASSUME NEW q \in Proc, NEW e \in Entry, e[1] = id
                 PROVE  (IF e[2] \in 0 .. sema[id.slot].nsems THEN 0 ELSE sem_undo[q][e])
                          = IF e[2] \in nums THEN 0 ELSE sem_undo[q][e]
      OBVIOUS
    <3>1. sema[id.slot].nsems \in Nat /\ e[2] \in Nat /\ e[2] \in Num
      BY <1>0, <1>6, SizesAssumption DEF Header
    <3>2. e[2] \in nums => e[2] \in 0 .. sema[id.slot].nsems
      BY <3>1
    <3>3. e[2] \notin nums => sem_undo[q][e] = 0
      <4> SUFFICES ASSUME sem_undo[q][e] # 0 PROVE e[2] \in nums
        OBVIOUS
      <4>1. e \in Entries(q)
        BY DEF Entries
      <4>2. e[2] < sema[id.slot].nsems
        BY <1>0, <4>1 DEF UndoOK
      <4> QED BY <3>1, <4>2
    <3> HIDE DEF nums
    <3> QED BY <3>2, <3>3
  <2> HIDE DEF nums
  <2>2. sem_undo' = [q \in Proc |-> [e \in Entry |->
          IF e[1] = id /\ e[2] \in 0 .. sema[id.slot].nsems THEN 0 ELSE sem_undo[q][e]]]
    BY <1>1 DEF Semunrm
  <2>3. sem_undo' = [q \in Proc |-> [e \in Entry |->
          IF e[1] = id /\ e[2] \in nums THEN 0 ELSE sem_undo[q][e]]]
    BY <2>1, <2>2
  <2> QED BY <1>4, <1>8, <2>3 DEF Abs!Forget
<1>10. reqBar' = reqBar
  <2>1. Req(pc'[p], call'[p]) = Req(pc[p], call[p])
    BY <1>1 DEF Req
  <2> QED BY <1>1, <2>1, ReqStep
<1>11. nums \in SUBSET Num /\ \A num \in nums : num < sizeBar[id]
  BY <1>0, <1>3, SizeSeen
<1> HIDE DEF nums
<1>12. Abs!Set(id, nums)
  BY <1>5, <1>7, <1>8, <1>9, <1>10, <1>11 DEF Abs!Set
<1>13. AbsStep
  <2>1. \E i \in Id : \E ns \in SUBSET Num : Abs!Set(i, ns)
    BY <1>0, <1>11, <1>12
  <2> QED BY <2>1 DEF AbsStep, Abs!Next
<1> QED BY <1>1, <1>13 DEF SeenOK

\* One adjustment on exit.
LEMMA AdjustSeen ==
    ASSUME NEW p \in Proc, Base, TypeOK', SemexitAdjust(p)
    PROVE  AbsStep /\ SeenOK(p)'
<1>0. /\ TypeOK /\ Kept /\ UndoOK /\ sem_undo \in [Proc -> [Entry -> Aoe]]
      /\ semval \in [Unit -> Int]
  BY BaseType DEF TypeOK, UndoType, ValType
<1>1. /\ pc[p] = "exit" /\ MayRun(p) /\ UNCHANGED <<sema, pc, call>>
  BY DEF SemexitAdjust, At, procVars, setVars
<1>2. PICK e \in Entries(p) :
        /\ LET u == UnitOf(e[1].slot, e[2])
               v == semval[u] + sem_undo[p][e]
           IN  IF Semconv(e[1]) /\ v \in 0 .. SEMVMX
               THEN semval' = [semval EXCEPT ![u] = v]
               ELSE UNCHANGED semval
        /\ sem_undo' = [sem_undo EXCEPT ![p][e] = 0]
  BY DEF SemexitAdjust
<1>3. e \in Entry /\ sem_undo[p][e] # 0 /\ Live(e) /\ UnitAt(e) \in Unit
  <2>1. e \in Entry /\ sem_undo[p][e] # 0
    BY DEF Entries
  <2>2. Live(e)
    BY <1>0 DEF UndoOK, Live
  <2> QED BY <1>0, <2>1, <2>2, UnitAtType
<1> DEFINE v == semval[UnitAt(e)] + sem_undo[p][e]
<1>4. v \in Int
  BY <1>0, <1>3, SizesAssumption DEF Aoe
<1>5. IF v \in 0 .. SEMVMX THEN semval' = [semval EXCEPT ![UnitAt(e)] = v] ELSE UNCHANGED semval
  BY <1>2, <1>3 DEF Live, UnitAt
<1>6. /\ valBar = [f \in Entry |-> IF Live(f) THEN semval[UnitAt(f)] ELSE 0]
      /\ valBar' = [f \in Entry |-> IF Live(f)' THEN semval'[UnitAt(f)'] ELSE 0]
      /\ adjBar = sem_undo /\ adjBar' = sem_undo'
  BY <1>0, <1>1, RestStep
<1>7. sizeBar' = sizeBar /\ \A f : Live(f)' = Live(f) /\ UnitAt(f)' = UnitAt(f)
  BY <1>1, SetsSeen
<1>8. v = valBar[e] + adjBar[p][e]
  BY <1>3, <1>6
<1> HIDE DEF v
<1>9. valBar' = [valBar EXCEPT ![e] = IF v \in 0 .. SEMVMX THEN v ELSE valBar[e]]
  <2>1. CASE v \in 0 .. SEMVMX
    <3>1. \A f \in Entry : Live(f) => semval'[UnitAt(f)] = IF f = e THEN v ELSE semval[UnitAt(f)]
      BY <1>0, <1>3, <1>4, <1>5, <2>1, OneUnit
    <3>2. \A f \in Entry : valBar'[f] = IF f = e THEN v ELSE valBar[f]
      BY <1>3, <1>6, <1>7, <3>1
    <3>3. valBar' = [f \in Entry |-> IF f = e THEN v ELSE valBar[f]]
      BY <1>6, <3>2
    <3>4. [valBar EXCEPT ![e] = v] = [f \in Entry |-> IF f = e THEN v ELSE valBar[f]]
      BY <1>6
    <3> QED BY <2>1, <3>3, <3>4
  <2>2. CASE v \notin 0 .. SEMVMX
    <3>1. valBar' = valBar
      BY <1>5, <1>6, <1>7, <2>2
    <3>2. [valBar EXCEPT ![e] = valBar[e]] = valBar
      BY <1>6
    <3> QED BY <2>2, <3>1, <3>2
  <2> QED BY <2>1, <2>2
<1>10. adjBar' = [adjBar EXCEPT ![p][e] = 0]
  BY <1>2, <1>6
<1>11. /\ reqBar' = reqBar /\ reqBar[p] = Abs!Idle
  BY <1>1 DEF reqBar, Abs!Idle
<1>12. adjBar[p][e] # 0
  BY <1>3, <1>6
<1>13. Abs!Adjust(p, e)
  BY <1>7, <1>8, <1>9, <1>10, <1>11, <1>12 DEF Abs!Adjust
<1>14. AbsStep
  <2>1. \E f \in Abs!Entry : Abs!Adjust(p, f)
    BY <1>3, <1>13 DEF Abs!Entry, Entry
  <2> QED BY <2>1 DEF AbsStep, Abs!Next
<1> QED BY <1>1, <1>14 DEF SeenOK

\* Sets without semaphores come from no step that leaves the sets alone.
LEMMA NotEmptyStays ==
    ASSUME Base, UNCHANGED sema
    PROVE  NotEmpty'
BY DEF Base, NotEmpty

\* Every system call is a step of SemAbs or not seen.
LEMMA RequestSeen ==
    ASSUME Base, NEW p \in Proc, TypeOK', Request(p)
    PROVE  AbsStep /\ SeenOK(p)' /\ NotEmpty'
<1>1. ASSUME NEW key \in Key, NEW n \in 0 .. SEMMSL + 1, Semget(p, key, n)
      PROVE  AbsStep /\ SeenOK(p)' /\ NotEmpty'
  BY <1>1, CreateSeen
<1>2. ASSUME NEW id \in Id, SemctlRmid(p, id) PROVE AbsStep /\ SeenOK(p)' /\ NotEmpty'
  BY <1>2, RemoveSeen
<1>3. ASSUME NEW id \in Id, NEW num \in Num, NEW val \in 0 .. SEMVMX, SemctlSetval(p, id, num, val)
      PROVE  AbsStep /\ SeenOK(p)' /\ NotEmpty'
  <2>1. UNCHANGED sema
    BY <1>3 DEF SemctlSetval, setVars
  <2> QED BY <1>3, <2>1, SetvalSeen, NotEmptyStays
<1>4. ASSUME NEW id \in Id,
             SemctlCopyin(p, id, "SETALL", "setall") \/ SemctlCopyin(p, id, "IPC_SET", "ipcset")
      PROVE  AbsStep /\ SeenOK(p)' /\ NotEmpty'
  <2>1. UNCHANGED sema
    BY <1>4 DEF SemctlCopyin, setVars
  <2> QED BY <1>4, <2>1, MovesSeen, NotEmptyStays
<1>5. ASSUME NEW id \in Id, NEW sops \in Vectors, Semop(p, id, sops)
      PROVE  AbsStep /\ SeenOK(p)' /\ NotEmpty'
  <2>1. UNCHANGED sema
    BY <1>5 DEF Semop, setVars
  <2> QED BY <1>5, <2>1, AskSeen, NotEmptyStays
<1>6. CASE Semexit(p)
  <2>1. UNCHANGED sema
    BY <1>6 DEF Semexit, setVars
  <2> QED BY <1>6, <2>1, MovesSeen, NotEmptyStays
<1> QED BY <1>1, <1>2, <1>3, <1>4, <1>5, <1>6 DEF Request

\* So is every step inside the kernel.
LEMMA ContinueSeen ==
    ASSUME CopyinSleeps = FALSE, Base, NEW p \in Proc, SeenOK(p), TypeOK', UndoOK', Continue(p)
    PROVE  AbsStep /\ SeenOK(p)' /\ NotEmpty'
<1>1. AbsStep /\ SeenOK(p)'
  <2>1. CASE SemctlSetall(p) \/ SemctlIpcset(p) \/ SemctlFails(p)
    BY <2>1, SetallSeen, IpcsetSeen, MovesSeen
  <2>2. CASE SemopCopyin(p)
    BY <2>2, CopyinSeen
  <2>3. CASE SemopApply(p) \/ SemopBlock(p) \/ Semundo(p)
    BY <2>3, ApplySeen, BlockSeen, TakeBackSeen, StutterSeen
  <2>4. CASE SemopDone(p)
    <3>1. Abs!Perform(p)
      BY <2>4, DoneSeen
    <3>2. Abs!Next
      BY <3>1 DEF Abs!Next
    <3>3. pc'[p] = "out"
      BY <2>4, BaseType DEF SemopDone, Fail, Goto
    <3> QED BY <3>2, <3>3 DEF AbsStep, SeenOK
  <2>5. CASE SemopSleep(p) \/ SemopFail(p) \/ SemopAgain(p) \/ SemopInterrupted(p) \/ SemopReturn(p)
    BY <2>5, SleepSeen, FailSeen, AgainSeen, InterruptedSeen, ReturnSeen
  <2>6. CASE SemexitAdjust(p) \/ SemexitDone(p)
    BY <2>6, AdjustSeen, MovesSeen
  <2> QED BY <2>1, <2>2, <2>3, <2>4, <2>5, <2>6 DEF Continue
<1>2. UNCHANGED sema
  <2>1. CASE SemctlIpcset(p)
    BY <2>1, IpcsetStays DEF Base
  <2>2. CASE ~ SemctlIpcset(p)
    BY <2>2 DEF Continue, SemctlSetall, SemctlFails, SemopCopyin, SemopApply, SemopBlock, SemopDone,
                Semundo, SemopSleep, SemopFail, SemopAgain, SemopInterrupted, SemopReturn,
                SemexitAdjust, SemexitDone, setVars
  <2> QED BY <2>1, <2>2
<1> QED BY <1>1, <1>2, NotEmptyStays

\* What the mapping relies on
RefInv == Base /\ \A p \in Proc : SeenOK(p)

\* Init is Init of SemAbs.
LEMMA InitSeen == Init => RefInv /\ Abs!Init
<1> SUFFICES ASSUME Init PROVE RefInv /\ Abs!Init
  OBVIOUS
<1>1. Kept /\ ValuesOK /\ TypeOK
  BY InitKept, InitValues, InitType
<1>2. undoers = {} /\ \A q \in Proc : Entries(q) = {}
  BY DEF Init, Entries
<1>3. UndoOK
  BY <1>2, FS_EmptySet, SizesAssumption DEF UndoOK
<1>4. FreeUnitsClean
  BY UnitChannels DEF Init, FreeUnitsClean
<1>5. NotEmpty /\ \A p \in Proc : SeenOK(p)
  BY DEF Init, NotEmpty, SeenOK
<1>6. InLoop = {}
  BY DEF Init, InLoop
<1>7. \A id \in Id : ~ Semconv(id)
  BY DEF Init, Semconv, Id
<1>8. /\ valBar = [e \in Entry |-> IF Live(e) THEN semval[UnitAt(e)] ELSE 0]
      /\ adjBar = sem_undo
  BY <1>1, <1>6, RestSeen DEF BarsAtRest
<1>9. valBar = [e \in Entry |-> 0]
  BY <1>7, <1>8 DEF Live, Entry
<1>10. sizeBar = [id \in Id |-> 0]
  BY <1>7 DEF sizeBar
<1>11. reqBar = [p \in Proc |-> Abs!Idle]
  BY DEF Init, reqBar, Abs!Idle
<1>12. Abs!Init
  <2>1. Abs!Entry = Entry
    BY DEF Abs!Entry, Entry
  <2> QED BY <1>8, <1>9, <1>10, <1>11, <2>1 DEF Init, Abs!Init
<1> QED BY <1>1, <1>3, <1>4, <1>5, <1>12 DEF RefInv, Base

\* What the other theorems say of every step.
LEMMA NextBase ==
    ASSUME CopyinSleeps = FALSE, Base, [Next]_vars
    PROVE  Kept' /\ UndoOK' /\ ValuesOK' /\ FreeUnitsClean'
<1>0. Kept /\ UndoOK /\ ValuesOK /\ FreeUnitsClean
  BY DEF Base
<1>1. Kept' /\ ValuesOK'
  BY <1>0, NextKept, NextValues
<1>2. UndoOK' /\ FreeUnitsClean'
  <2>1. ASSUME NEW p \in Proc, Signal(p) PROVE UndoOK' /\ FreeUnitsClean'
    <3>1. UNCHANGED <<sema, semval, cnt, undoVars>>
      BY <2>1 DEF Signal, setVars
    <3> QED BY <1>0, <3>1, UndoStays, CleanUnchanged
  <2>2. CASE UNCHANGED vars
    <3>1. UNCHANGED <<sema, semval, cnt, undoVars>>
      BY <2>2 DEF vars, setVars, waitVars
    <3> QED BY <1>0, <3>1, UndoStays, CleanUnchanged
  <2> QED BY <1>0, <2>1, <2>2, RequestUndo, ContinueUndo, RequestClean, ContinueClean DEF Next
<1> QED BY <1>1, <1>2

\* Every step is a step of SemAbs or not seen.
LEMMA NextSeen ==
    ASSUME CopyinSleeps = FALSE, RefInv, [Next]_vars
    PROVE  RefInv' /\ AbsStep
<1>0. Base /\ \A p \in Proc : SeenOK(p)
  BY DEF RefInv
<1>1. Kept' /\ UndoOK' /\ ValuesOK' /\ FreeUnitsClean' /\ TypeOK'
  BY <1>0, NextBase DEF Kept
<1>2. ASSUME NEW p \in Proc, Request(p) \/ Continue(p)
      PROVE  RefInv' /\ AbsStep
  <2>1. AbsStep /\ SeenOK(p)' /\ NotEmpty'
    BY <1>0, <1>1, <1>2, RequestSeen, ContinueSeen
  <2>2. ASSUME NEW q \in Proc, q # p PROVE SeenOK(q)'
    <3>1. pc'[q] \notin {"ops", "backout"}
      BY <1>0, <1>2, <2>2, StepOfOne DEF Base, Kept, NoPreempt
    <3> QED BY <3>1 DEF SeenOK
  <2>3. \A q \in Proc : SeenOK(q)'
    BY <2>1, <2>2
  <2> QED BY <1>1, <2>1, <2>3 DEF RefInv, Base
<1>3. ASSUME UNCHANGED <<sema, semval, undoVars, pc, call>> PROVE RefInv' /\ AbsStep
  <2>1. AbsStep /\ \A p : SeenOK(p) => SeenOK(p)'
    BY <1>3, NothingSeen
  <2>2. \A p \in Proc : SeenOK(p)'
    BY <1>0, <2>1
  <2>3. NotEmpty'
    BY <1>0, <1>3, NotEmptyStays
  <2> QED BY <1>1, <2>1, <2>2, <2>3 DEF RefInv, Base
<1>4. ASSUME NEW p \in Proc, Signal(p) PROVE RefInv' /\ AbsStep
  <2>1. UNCHANGED <<sema, semval, undoVars, pc, call>>
    BY <1>4 DEF Signal, setVars, procVars
  <2> QED BY <1>3, <2>1
<1>5. CASE UNCHANGED vars
  <2>1. UNCHANGED <<sema, semval, undoVars, pc, call>>
    BY <1>5 DEF vars, setVars, procVars
  <2> QED BY <1>3, <2>1
<1> QED BY <1>2, <1>4, <1>5 DEF Next

\* semop's loop, with its sleeps, its backing out and everything that others do
\* between a sleep and the next pass, does a vector at once or not at all.
THEOREM SemImplementsAbs == CopyinSleeps = FALSE => (Spec => AtomicSemop)
<1> SUFFICES ASSUME CopyinSleeps = FALSE PROVE Spec => AtomicSemop
  OBVIOUS
<1>1. Init => RefInv /\ Abs!Init
  BY InitSeen
<1>2. RefInv /\ [Next]_vars => RefInv'
  BY NextSeen
<1>3. RefInv /\ [Next]_vars => [Abs!Next]_<<sizeBar, valBar, adjBar, reqBar>>
  BY NextSeen DEF AbsStep
<1>4. Spec => Abs!Init /\ [][Abs!Next]_<<sizeBar, valBar, adjBar, reqBar>>
  BY <1>1, <1>2, <1>3, PTL DEF Spec
<1> QED BY <1>4 DEF AtomicSemop, Abs!Spec, Abs!absVars
=============================================================================
