----------------------------- MODULE MsgRefine ------------------------------
(***************************************************************************)
(* Msg implements MsgAbs, and what a fair Msg comes to.                    *)
(***************************************************************************)
EXTENDS Msg

\* What is seen of the messages of a queue
Seen(msgs) == [i \in DOMAIN msgs |-> <<msgs[i].type, msgs[i].ts>>]

queueBar == [s \in Slot |->
    [exists |-> msgque[s].alloc, msgs |-> Seen(msgque[s].msgs)]]

\* What a system call with the locals f asks for
Asked(f) ==
    IF f.op = "none" THEN [op |-> "none"]
    ELSE IF f.op = "msgctl" THEN [op |-> "msgctl", slot |-> f.id.slot]
    ELSE IF f.op = "msgsnd" THEN [op |-> "msgsnd", slot |-> f.id.slot,
                                  msg |-> <<f.arg.type, f.arg.size>>]
    ELSE [op |-> "msgrcv", slot |-> f.id.slot, type |-> f.arg.type]

reqBar == [p \in Proc |-> Asked(call[p])]

Abs == INSTANCE MsgAbs WITH
    queue <- queueBar, req <- reqBar,
    Sends <- {<<a.type, a.size>> : a \in Sends}, Wanted <- {a.type : a \in Receives}

\* msgsnd and msgrcv are atomic although both may sleep in the middle: the
\* message a receiver takes off after its copyout is the oldest of those it
\* asked for at that moment, it is there when its sender returns and not
\* before, and each is received once.
AtomicMessages == Abs!Spec

\* At rest: outside the kernel, or asleep for a message or room on a queue that
\* exists, or for a header or segments
AtRest(p) ==
    \/ pc[p] = "user"
    \/ Asleep(p) /\ pc[p] \in {"hwait", "mwait"}
    \/ Asleep(p) /\ pc[p] \in {"rwait", "wwait"} /\ Live(call[p].id)

\* When the processes make no more calls and get no more signals, all of them
\* come to rest: nobody waits for a lock for ever, those whose queue was removed
\* return, and a sender that takes a header, finds no segments and gives the
\* header back does not keep others awake that do the same to it.
Settles ==
    <>[][\A p \in Proc : ~ Request(p) /\ ~ Signal(p)]_vars =>
        <>[](\A p \in Proc : AtRest(p))
=============================================================================
