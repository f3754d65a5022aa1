-------------------------------- MODULE Msg ---------------------------------
(***************************************************************************)
(* System V message queues: proc/ipc/msg.c.                                *)
(*                                                                         *)
(* All queues share the message headers (msgfp) and the segments that hold *)
(* texts (msgmap).  copyin and copyout may sleep, on a page fault, so a    *)
(* process locks the queue it works on; it gives the lock up before it     *)
(* waits for a message, for room on the queue, for a header or for         *)
(* segments.  A step is the code between two places where the process may  *)
(* sleep, cut at msgconv (see MayRun).                                     *)
(*                                                                         *)
(* A definition named Faulty... is not part of the model: it is what a     *)
(* likely bug would make of the definition after it.                       *)
(***************************************************************************)
EXTENDS SequencesExt, KSleep, FreeMap

CONSTANTS
    MSGMNI,     \* queues
    MSGTQL,     \* message headers
    MSGSEG,     \* segments of the message buffer
    MSGSSZ,     \* bytes of a segment
    MSGMAP,     \* structures of msgmap
    MSGMNB,     \* msg_qbytes of a new queue
    Limits,     \* msg_qbytes given to IPC_SET
    SEQMAX,     \* largest sequence number: the one before the id overflows
    Sends,      \* messages sent
    Receives,   \* arguments of msgrcv
    Calls       \* system calls the processes make

Slot == 0 .. MSGMNI - 1
Id   == [seq : 0 .. SEQMAX, slot : Slot]
Seg  == 1 .. MSGSEG

\* Channels: a queue's lock, its msg_qnum and its address, msgfp and msgmap
Lock(s) == <<"lock", s>>
Qnum(s) == <<"qnum", s>>
Qp(s)   == <<"qp", s>>
Msgfp   == <<"msgfp", 0>>
Msgmap  == <<"msgmap", 0>>
Chan    == ({"lock", "qnum", "qp"} \X Slot) \cup {Msgfp, Msgmap}

\* Arguments of msgsnd and msgrcv; a message on a queue, whose text starts at
\* segment spot
Argument == [type : Int, size : Nat, nowait : BOOLEAN, noerror : BOOLEAN]
Message  == [type : Nat \ {0}, ts : Nat, spot : Seg \cup {0}]

Pcs == {"user", "conv", "lockwait", "type", "getres", "wwait", "hwait", "mwait",
        "text", "wintr", "intr", "check", "findmsg", "rwait", "copyout", "rmid", "set"}

ASSUME SizesAssumption ==
    /\ MSGMNI \in Nat \ {0} /\ MSGTQL \in Nat \ {0} /\ MSGSEG \in Nat
    /\ MSGSSZ \in Nat \ {0} /\ MSGMAP \in Nat \ {0, 1} /\ MSGMNB \in Nat
    /\ Limits \subseteq Nat /\ SEQMAX \in Nat
ASSUME InputsAssumption ==
    /\ Sends \subseteq {a \in Argument : a.type > 0}
    /\ Receives \subseteq Argument
ASSUME NoChanAssumption == NoChan \notin Chan

VARIABLES
    msgque,     \* queue headers with the messages linked to them
    msglock,    \* the lock of each queue
    msgfp,      \* headers on the free list
    msgmap,     \* free segments
    mapwant,    \* mapwant(msgmap) is not zero
    pc,         \* where each process is
    call        \* arguments and locals of its system call

poolVars == <<msgfp, msgmap, mapwant>>
procVars == <<pc, call>>
vars     == <<msgque, msglock, poolVars, wchan, procVars>>

Call == [op : {"none", "msgctl", "msgrcv", "msgsnd"}, id : Id, arg : Argument,
         pick : Nat, spot : Seg \cup {0}, then : Pcs]

NoCall == [op |-> "none", id |-> [seq |-> 0, slot |-> 0],
           arg |-> [type |-> 0, size |-> 0, nowait |-> FALSE, noerror |-> FALSE],
           pick |-> 0, spot |-> 0, then |-> "user"]

Init ==
    /\ msgque = [s \in Slot |-> [alloc |-> FALSE, seq |-> 0, qbytes |-> 0, cbytes |-> 0,
                                 qnum |-> 0, msgs |-> <<>>, rwait |-> FALSE, wwait |-> FALSE]]
    /\ msglock = [s \in Slot |-> FALSE]
    /\ msgfp = MSGTQL
    /\ msgmap = Seg
    /\ mapwant = FALSE
    /\ wchan = [p \in Proc |-> NoChan]
    /\ pc = [p \in Proc |-> "user"]
    /\ call = [p \in Proc |-> NoCall]
-----------------------------------------------------------------------------
(* Processes and the processor *)

\* Places where a process cannot give the processor up
NoPreempt == {"conv", "getres", "wintr", "intr", "check", "findmsg", "rmid"}

MayRun(p) == \A q \in Proc \ {p} : pc[q] \notin NoPreempt

At(p, where) == pc[p] = where /\ MayRun(p)

Goto(p, where) == pc' = [pc EXCEPT ![p] = where]

Return(p) == Goto(p, "user") /\ call' = [call EXCEPT ![p] = NoCall]

\* The queue p's call is about
Q(p) == call[p].id.slot

Live(id) == msgque[id.slot].alloc /\ msgque[id.slot].seq = id.seq

\* msgunlock does not wake
FaultyUnlocked(s, C) == msglock' = [msglock EXCEPT ![s] = FALSE] /\ Wakeprocs(C)

\* msgunlock, and wakeups on the channels of C before it
Unlocked(s, C) ==
    /\ msglock' = [msglock EXCEPT ![s] = FALSE]
    /\ Wakeprocs(C \cup {Lock(s)})

\* msgunlock, sleep
UnlockedAsleep(p, C, c, where) ==
    /\ msglock' = [msglock EXCEPT ![Q(p)] = FALSE]
    /\ wchan' = [q \in Proc |-> IF q = p THEN c
                                ELSE IF wchan[q] \in C \cup {Lock(Q(p))} THEN NoChan
                                ELSE wchan[q]]
    /\ Goto(p, where) /\ UNCHANGED call
-----------------------------------------------------------------------------
(* msgconv: lock the queue, if there is one *)

\* The call enters msgconv and then goes on at the place `then`
Enter(p, op, id, arg, then) ==
    /\ At(p, "user") /\ Live(id)
    /\ Goto(p, "conv")
    /\ call' = [call EXCEPT ![p] =
         [NoCall EXCEPT !.op = op, !.id = id, !.arg = arg, !.then = then]]
    /\ UNCHANGED <<msgque, msglock, poolVars, wchan>>

\* It enters msgconv again after a sleep
Reenter(p, then) ==
    Goto(p, "conv") /\ call' = [call EXCEPT ![p].then = then]

\* The lock is not looked at again after the sleep
FaultyMsgconv(p) ==
    /\ At(p, "conv")
    /\ \/ /\ Live(call[p].id)
          /\ msglock' = [msglock EXCEPT ![Q(p)] = TRUE]
          /\ Goto(p, call[p].then) /\ UNCHANGED <<wchan, call>>
       \/ ~ Live(call[p].id) /\ Unlocked(Q(p), {}) /\ Return(p)
    /\ UNCHANGED <<msgque, poolVars>>

Msgconv(p) ==
    /\ At(p, "conv")
    /\ \/ /\ msglock[Q(p)]
          /\ GoToSleep(p, Lock(Q(p))) /\ Goto(p, "lockwait") /\ UNCHANGED <<msglock, call>>
       \/ /\ ~ msglock[Q(p)] /\ Live(call[p].id)
          /\ msglock' = [msglock EXCEPT ![Q(p)] = TRUE]
          /\ Goto(p, call[p].then) /\ UNCHANGED <<wchan, call>>
       \/ /\ ~ msglock[Q(p)] /\ ~ Live(call[p].id)
          /\ Unlocked(Q(p), {}) /\ Return(p)
    /\ UNCHANGED <<msgque, poolVars>>

\* sleep(lockp, PMSG) returns, or on a signal jumps out of the system call
LockWaited(p) ==
    /\ At(p, "lockwait") /\ ~ Asleep(p)
    /\ (Goto(p, "conv") /\ UNCHANGED call) \/ Return(p)
    /\ UNCHANGED <<msgque, msglock, poolVars, wchan>>
-----------------------------------------------------------------------------
(* Headers and segments *)

Btoq(n) == (n + MSGSSZ - 1) \div MSGSSZ

Segs(spot, n) == spot .. spot + Btoq(n) - 1

\* msgmap when the segments of size bytes at spot are freed
Mapped(free, spot, n) ==
    IF n = 0 THEN free ELSE Freed(free, Segs(spot, n), MSGMAP - 2)

\* What is woken when n headers go back, and when rmfree makes msgmap free
HeaderWakes(n)  == {c \in {Msgfp} : msgfp = 0 /\ n > 0}
MapWakes(free)  == {c \in {Msgmap} : mapwant /\ free # msgmap}

FreeMsgmap(free) ==
    msgmap' = free /\ mapwant' = (mapwant /\ free = msgmap)
-----------------------------------------------------------------------------
(* msgget *)

\* The call that creates a queue.  msg_cbytes is not set.
Msgget(p) ==
    /\ "msgget" \in Calls
    /\ At(p, "user")
    /\ \E s \in Slot :
         /\ ~ msgque[s].alloc
         /\ \A t \in Slot : t < s => msgque[t].alloc
         /\ msgque' = [msgque EXCEPT ![s] =
              [@ EXCEPT !.alloc = TRUE, !.msgs = <<>>, !.qnum = 0, !.qbytes = MSGMNB]]
    /\ UNCHANGED <<msglock, poolVars, wchan, procVars>>
-----------------------------------------------------------------------------
(* msgctl *)

NextSeq(seq) == IF seq = SEQMAX THEN 0 ELSE seq + 1

\* Bound: SEQMAX + 1 removals of one slot do not pass during one call, so an
\* id is not issued again while a process is still inside a call on it.  Nobody
\* can enter with the next id before this one is removed, so that it is enough
\* to look when the removal begins.
NotHeld(id) == \A q \in Proc : pc[q] # "user" => call[q].id # id

\* Texts of removed messages go back one after the other
FreeAll(free, msgs) ==
    FoldLeft(LAMBDA f, m : Mapped(f, m.spot, m.ts), free, msgs)

RmidWakes(s) ==
    {c \in {Qnum(s)} : msgque[s].rwait} \cup {c \in {Qp(s)} : msgque[s].wwait}

\* ipcaccess or the check of the owner refuses, or the queue goes
MsgctlRmid(p) ==
    /\ At(p, "rmid")
    /\ \/ Unlocked(Q(p), {}) /\ UNCHANGED <<msgque, poolVars>>
       \/ LET s    == Q(p)
              q    == msgque[s]
              free == FreeAll(msgmap, q.msgs)
          IN  /\ msgque' = [msgque EXCEPT ![s] =
                   [@ EXCEPT !.alloc = FALSE, !.seq = NextSeq(q.seq), !.msgs = <<>>,
                             !.qnum = q.qnum - Len(q.msgs), !.cbytes = 0,
                             !.rwait = FALSE, !.wwait = FALSE]]
              /\ msgfp' = msgfp + Len(q.msgs)
              /\ FreeMsgmap(free)
              /\ Unlocked(s, RmidWakes(s) \cup HeaderWakes(Len(q.msgs)) \cup MapWakes(free))
    /\ Return(p)

\* IPC_SET; IPC_STAT, and an error, change nothing
MsgctlSet(p) ==
    /\ At(p, "set")
    /\ \/ \E limit \in Limits : msgque' = [msgque EXCEPT ![Q(p)].qbytes = limit]
       \/ UNCHANGED msgque
    /\ Unlocked(Q(p), {}) /\ Return(p)
    /\ UNCHANGED poolVars
-----------------------------------------------------------------------------
\* msgsnd and msgrcv begin with checks, msgsnd with the copyin of the type too.
\* An error ends the call.  Otherwise the lock is given up and at once taken
\* again, by the msgconv at getres or findmsg.
Checks(p) ==
    /\ \/ At(p, "type") /\ Goto(p, "getres")
       \/ At(p, "check") /\ Goto(p, "findmsg")
    /\ Wakeprocs({Lock(Q(p))})
    /\ UNCHANGED <<msgque, msglock, poolVars, call>>

ChecksFail(p) ==
    /\ At(p, "type") \/ At(p, "check")
    /\ Unlocked(Q(p), {}) /\ Return(p)
    /\ UNCHANGED <<msgque, poolVars>>
-----------------------------------------------------------------------------
(* msgrcv *)

\* The last message of the lowest type
FaultyFindmsg(msgs, type) ==
    IF msgs = <<>> \/ type = 0 THEN Len(msgs)
    ELSE FoldLeftDomain(LAMBDA best, i :
           IF type > 0 THEN IF best = 0 /\ msgs[i].type = type THEN i ELSE best
           ELSE IF msgs[i].type <= -type /\ (best = 0 \/ msgs[i].type <= msgs[best].type)
                THEN i ELSE best, 0, msgs)

\* The loop that looks for a message; 0 when there is none
Findmsg(msgs, type) ==
    IF msgs = <<>> \/ type = 0 THEN IF msgs = <<>> THEN 0 ELSE 1
    ELSE FoldLeftDomain(LAMBDA best, i :
           IF type > 0 THEN IF best = 0 /\ msgs[i].type = type THEN i ELSE best
           ELSE IF msgs[i].type <= -type /\ (best = 0 \/ msgs[i].type < msgs[best].type)
                THEN i ELSE best, 0, msgs)

MsgrcvFind(p) ==
    /\ At(p, "findmsg")
    /\ LET q   == msgque[Q(p)]
           arg == call[p].arg
           i   == Findmsg(q.msgs, arg.type)
       IN  \/ /\ i # 0 /\ (q.msgs[i].ts <= arg.size \/ arg.noerror)
              /\ Goto(p, "copyout")
              /\ call' = [call EXCEPT ![p].pick = i]
              /\ UNCHANGED <<msgque, msglock, wchan>>
           \/ /\ i # 0 /\ q.msgs[i].ts > arg.size /\ ~ arg.noerror       \* E2BIG
              /\ Unlocked(Q(p), {}) /\ Return(p) /\ UNCHANGED msgque
           \/ /\ i = 0 /\ arg.nowait                                     \* ENOMSG
              /\ Unlocked(Q(p), {}) /\ Return(p) /\ UNCHANGED msgque
           \/ /\ i = 0 /\ ~ arg.nowait
              /\ msgque' = [msgque EXCEPT ![Q(p)].rwait = TRUE]
              /\ UnlockedAsleep(p, {}, Qnum(Q(p)), "rwait")
    /\ UNCHANGED poolVars

\* What msgrcv subtracts from msg_cbytes: all of the message, also when only a
\* part of it was copied out
Taken(p) == msgque[Q(p)].msgs[call[p].pick].ts

\* copyout has done, or given EFAULT.  msgfree takes the message off.
MsgrcvCopyout(p) ==
    /\ At(p, "copyout")
    /\ LET s    == Q(p)
           q    == msgque[s]
           m    == q.msgs[call[p].pick]
           free == Mapped(msgmap, m.spot, m.ts)
       IN  \/ /\ msgque' = [msgque EXCEPT ![s] =
                   [@ EXCEPT !.msgs = RemoveAt(q.msgs, call[p].pick), !.qnum = q.qnum - 1,
                             !.cbytes = q.cbytes - Taken(p), !.wwait = FALSE]]
              /\ msgfp' = msgfp + 1
              /\ FreeMsgmap(free)
              /\ Unlocked(s, {c \in {Qp(s)} : q.wwait} \cup HeaderWakes(1) \cup MapWakes(free))
           \/ Unlocked(s, {}) /\ UNCHANGED <<msgque, poolVars>>
    /\ Return(p)

\* sleep(&qp->msg_qnum) returns 0, or 1 on a signal
MsgrcvWaited(p) ==
    /\ At(p, "rwait") /\ ~ Asleep(p)
    /\ Reenter(p, "findmsg") \/ Return(p)
    /\ UNCHANGED <<msgque, msglock, poolVars, wchan>>
-----------------------------------------------------------------------------
(* msgsnd *)

NoRoom(p) == call[p].arg.size + msgque[Q(p)].cbytes > msgque[Q(p)].qbytes

NoSegments(p) ==
    call[p].arg.size > 0 /\ Windows(msgmap, Btoq(call[p].arg.size)) = {}

\* Something is missing: EAGAIN, or a sleep until it may be there
MsgsndBlocked(p) ==
    /\ At(p, "getres")
    /\ LET s == Q(p)  C == {c \in {Msgfp} : ~ NoRoom(p) /\ msgfp = 1} IN
         \/ /\ NoRoom(p) \/ msgfp = 0 \/ NoSegments(p)
            /\ call[p].arg.nowait
            /\ Unlocked(s, C) /\ Return(p) /\ UNCHANGED <<msgque, mapwant>>
         \/ /\ NoRoom(p) /\ ~ call[p].arg.nowait
            /\ msgque' = [msgque EXCEPT ![s].wwait = TRUE]
            /\ UnlockedAsleep(p, {}, Qp(s), "wwait")
            /\ UNCHANGED mapwant
         \/ /\ ~ NoRoom(p) /\ msgfp = 0 /\ ~ call[p].arg.nowait
            /\ UnlockedAsleep(p, {}, Msgfp, "hwait")
            /\ UNCHANGED <<msgque, mapwant>>
         \* The header taken for it goes back
         \/ /\ ~ NoRoom(p) /\ msgfp # 0 /\ NoSegments(p) /\ ~ call[p].arg.nowait
            /\ mapwant' = TRUE
            /\ UnlockedAsleep(p, C, Msgmap, "mwait")
            /\ UNCHANGED msgque
    /\ UNCHANGED <<msgfp, msgmap>>

\* Put the message on the queue and unlock it
Enqueue(p, spot) ==
    LET s == Q(p)  q == msgque[s]  arg == call[p].arg
        m == [type |-> arg.type, ts |-> arg.size, spot |-> spot]
    IN  /\ msgque' = [msgque EXCEPT ![s] =
             [@ EXCEPT !.msgs = Append(q.msgs, m), !.qnum = q.qnum + 1,
                       !.cbytes = q.cbytes + arg.size, !.rwait = FALSE]]
        /\ Unlocked(s, {c \in {Qnum(s)} : q.rwait})
        /\ Return(p)

\* Everything is there: a message without text is done, one with a text goes on
\* to copyin
MsgsndTake(p) ==
    /\ At(p, "getres")
    /\ ~ NoRoom(p) /\ msgfp # 0 /\ ~ NoSegments(p)
    /\ msgfp' = msgfp - 1
    /\ \/ /\ call[p].arg.size = 0
          /\ Enqueue(p, 0)
          /\ UNCHANGED msgmap
       \/ /\ call[p].arg.size > 0
          /\ \E spot \in Windows(msgmap, Btoq(call[p].arg.size)) :
               /\ Fits(msgmap, Btoq(call[p].arg.size), spot)
               /\ msgmap' = msgmap \ Segs(spot, call[p].arg.size)
               /\ call' = [call EXCEPT ![p].spot = spot]
          /\ Goto(p, "text")
          /\ UNCHANGED <<msgque, msglock, wchan>>
    /\ UNCHANGED mapwant

\* EFAULT keeps the header
FaultyMsgsndText(p) ==
    /\ At(p, "text")
    /\ \/ Enqueue(p, call[p].spot) /\ UNCHANGED poolVars
       \/ LET free == Mapped(msgmap, call[p].spot, call[p].arg.size) IN
          /\ FreeMsgmap(free)
          /\ Unlocked(Q(p), MapWakes(free)) /\ Return(p)
          /\ UNCHANGED <<msgque, msgfp>>

\* The text is copied in; or EFAULT, and what was taken goes back
MsgsndText(p) ==
    /\ At(p, "text")
    /\ \/ Enqueue(p, call[p].spot) /\ UNCHANGED poolVars
       \/ LET free == Mapped(msgmap, call[p].spot, call[p].arg.size) IN
          /\ FreeMsgmap(free) /\ msgfp' = msgfp + 1
          /\ Unlocked(Q(p), HeaderWakes(1) \cup MapWakes(free)) /\ Return(p)
          /\ UNCHANGED msgque

\* A sleep in msgsnd returns 0: try all again; or 1, on a signal
MsgsndWaited(p) ==
    /\ pc[p] \in {"wwait", "hwait", "mwait"} /\ MayRun(p) /\ ~ Asleep(p)
    /\ Reenter(p, "getres") \/ Reenter(p, IF pc[p] = "wwait" THEN "wintr" ELSE "intr")
    /\ UNCHANGED <<msgque, msglock, poolVars, wchan>>

\* MSG_WWAIT is cleared as if nobody else waited
FaultyMsgsndInterrupted(p) ==
    /\ \/ /\ At(p, "wintr")
          /\ msgque' = [msgque EXCEPT ![Q(p)].wwait = FALSE]
          /\ Unlocked(Q(p), {})
       \/ At(p, "intr") /\ Unlocked(Q(p), {}) /\ UNCHANGED msgque
    /\ Return(p)
    /\ UNCHANGED poolVars

\* After a signal, with the queue locked.  MSG_WWAIT is cleared, so all who wait
\* for room are woken.
MsgsndInterrupted(p) ==
    /\ \/ /\ At(p, "wintr")
          /\ msgque' = [msgque EXCEPT ![Q(p)].wwait = FALSE]
          /\ Unlocked(Q(p), {Qp(Q(p))})
       \/ At(p, "intr") /\ Unlocked(Q(p), {}) /\ UNCHANGED msgque
    /\ Return(p)
    /\ UNCHANGED poolVars
-----------------------------------------------------------------------------
\* A signal, or SIGCONT after a stop, takes p off its sleep queue
Signal(p) ==
    /\ "signal" \in Calls
    /\ Setrun(p)
    /\ \A q \in Proc : pc[q] \notin NoPreempt
    /\ UNCHANGED <<msgque, msglock, poolVars, procVars>>

Request(p) ==
    \/ Msgget(p)
    \/ \E id \in Id :
         \/ /\ "IPC_RMID" \in Calls /\ NotHeld([id EXCEPT !.seq = NextSeq(@)])
            /\ Enter(p, "msgctl", id, NoCall.arg, "rmid")
         \/ "IPC_SET" \in Calls /\ Enter(p, "msgctl", id, NoCall.arg, "set")
         \/ \E arg \in Sends : Enter(p, "msgsnd", id, arg, "type")
         \/ \E arg \in Receives : Enter(p, "msgrcv", id, arg, "check")

\* What a process inside the kernel does next
Continue(p) ==
    \/ Msgconv(p) \/ LockWaited(p)
    \/ Checks(p) \/ ChecksFail(p)
    \/ MsgctlRmid(p) \/ MsgctlSet(p)
    \/ MsgrcvFind(p) \/ MsgrcvCopyout(p) \/ MsgrcvWaited(p)
    \/ MsgsndBlocked(p) \/ MsgsndTake(p) \/ MsgsndText(p)
    \/ MsgsndWaited(p) \/ MsgsndInterrupted(p)

Next == \E p \in Proc : Request(p) \/ Continue(p) \/ Signal(p)

Spec == Init /\ [][Next]_vars

\* A page fault in copyin or copyout ends, and the dispatcher gives the
\* processor to every process that is ready, however often others run.
FairSpec == Spec /\ \A p \in Proc : SF_vars(Continue(p))
-----------------------------------------------------------------------------
(* Properties *)

Header == [alloc : BOOLEAN, seq : 0 .. SEQMAX, qbytes : Nat, cbytes : Nat, qnum : Nat,
           msgs : Seq(Message), rwait : BOOLEAN, wwait : BOOLEAN]

\* Types; msg_qnum and msg_cbytes, unsigned in the code, never go below zero
TypeOK ==
    /\ msgque \in [Slot -> Header]
    /\ msglock \in [Slot -> BOOLEAN]
    /\ msgfp \in Nat /\ msgmap \subseteq Seg /\ mapwant \in BOOLEAN
    /\ wchan \in [Proc -> Chan \cup {NoChan}]
    /\ pc \in [Proc -> Pcs] /\ call \in [Proc -> Call]

\* Places where a process works on a queue it has locked
Locked == {"type", "getres", "text", "wintr", "intr", "check", "findmsg", "copyout", "rmid", "set"}

\* A queue is locked exactly when one process works on it, which is still the
\* queue the call named; no return, no signal that jumps out of msgconv and no
\* removal leaves a lock behind, and page faults let nobody else in.
LocksHeld ==
    \A s \in Slot :
        LET holders == {p \in Proc : pc[p] \in Locked /\ Q(p) = s} IN
        /\ Cardinality(holders) = IF msglock[s] THEN 1 ELSE 0
        /\ \A p \in holders : Live(call[p].id)

Texts(s) == {i \in DOMAIN msgque[s].msgs : msgque[s].msgs[i].ts > 0}
TextSegs(s, i) == Segs(msgque[s].msgs[i].spot, msgque[s].msgs[i].ts)

Senders == {p \in Proc : pc[p] = "text"}
SenderSegs(p) == Segs(call[p].spot, call[p].arg.size)

\* Every message, and every sender that copies its text in, owns one header
HeadersConserved ==
    msgfp + Cardinality(Senders)
      + MapThenSumSet(LAMBDA s : Len(msgque[s].msgs), Slot) = MSGTQL

\* and its segments, which nobody else owns and which are not free
SegmentsConserved ==
    /\ \A p \in Senders :
         /\ SenderSegs(p) \subseteq Seg \ msgmap
         /\ \A q \in Senders \ {p} : SenderSegs(p) \cap SenderSegs(q) = {}
         /\ \A s \in Slot : \A i \in Texts(s) : SenderSegs(p) \cap TextSegs(s, i) = {}
    /\ \A s \in Slot : \A i \in Texts(s) :
         /\ TextSegs(s, i) \subseteq Seg \ msgmap
         /\ \A t \in Slot : \A j \in Texts(t) :
               <<s, i>> # <<t, j>> => TextSegs(s, i) \cap TextSegs(t, j) = {}

\* msg_qnum and msg_cbytes count what is on the queue: msgget, which does not
\* set msg_cbytes, finds it zero, and msgrcv takes off what msgsnd put on
CountsRight ==
    \A s \in Slot :
        LET q == msgque[s] IN
        /\ q.qnum = Len(q.msgs)
        /\ q.cbytes = FoldLeft(LAMBDA n, m : n + m.ts, 0, q.msgs)
        /\ ~ q.alloc => q.msgs = <<>> /\ ~ q.rwait /\ ~ q.wwait

\* Headers, segments and bytes of the queues are neither lost nor owned twice, on
\* any way through msgsnd, msgrcv and msgrmid, the failing ones included.
ResourcesConserved == TypeOK /\ HeadersConserved /\ SegmentsConserved /\ CountsRight

\* Nobody sleeps for something that is there, and whoever sleeps will be woken
\* when it comes: a lock is held, no message fits and MSG_RWAIT is set, the
\* queue lives and MSG_WWAIT is set, no header or not enough segments are free
\* and mapwant is set.
SleepersStarved ==
    \A p \in Proc : Asleep(p) =>
        LET q == msgque[Q(p)] IN
        /\ pc[p] \in {"lockwait", "rwait", "wwait", "hwait", "mwait"}
        /\ pc[p] = "lockwait" => msglock[Q(p)]
        /\ pc[p] = "rwait" => /\ Live(call[p].id) /\ q.rwait
                             /\ Findmsg(q.msgs, call[p].arg.type) = 0
        /\ pc[p] = "wwait" => Live(call[p].id) /\ q.wwait
        /\ pc[p] = "hwait" => msgfp = 0
        /\ pc[p] = "mwait" => mapwant /\ NoSegments(p)
=============================================================================
