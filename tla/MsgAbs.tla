------------------------------- MODULE MsgAbs -------------------------------
(***************************************************************************)
(* What message queues promise: each is a sequence of messages; msgsnd     *)
(* appends one, msgrcv takes out the oldest of those it asks for, both at  *)
(* once or not at all; a new queue is empty, and a removed one is gone     *)
(* with its messages.  Ids, locks, headers and segments are not seen.      *)
(***************************************************************************)
EXTENDS Integers, SequencesExt

CONSTANTS
    Proc,
    Slot,       \* queues
    Sends,      \* messages sent, as pairs of a type and a size
    Wanted      \* types that receivers ask for

VARIABLES
    queue,      \* the messages of each queue that exists
    req         \* what each process's system call asks for

Idle == [op |-> "none"]
None == [exists |-> FALSE, msgs |-> <<>>]

Requests ==
    {[op |-> "msgctl", slot |-> s] : s \in Slot}
    \cup {[op |-> "msgsnd", slot |-> s, msg |-> m] : s \in Slot, m \in Sends}
    \cup {[op |-> "msgrcv", slot |-> s, type |-> t] : s \in Slot, t \in Wanted}

Init ==
    /\ queue = [s \in Slot |-> None]
    /\ req = [p \in Proc |-> Idle]

\* The oldest message; the oldest of type t; the oldest of the lowest type that
\* is not above -t
Receivable(q, t) ==
    LET types == {q[i][1] : i \in DOMAIN q}
        among == IF t = 0 THEN types
                 ELSE IF t > 0 THEN types \cap {t}
                 ELSE {u \in types : u <= -t /\ \A v \in types : u <= v}
    IN  {i \in DOMAIN q : q[i][1] \in among /\ \A j \in 1 .. i - 1 : q[j][1] \notin among}

Ask(p) ==
    /\ req[p] = Idle
    /\ \E r \in Requests : req' = [req EXCEPT ![p] = r]
    /\ UNCHANGED queue

Answer(p) == req[p] # Idle /\ req' = [req EXCEPT ![p] = Idle]

\* An error, or a call that changes no messages
Nothing(p) == Answer(p) /\ UNCHANGED queue

CreateQueue(s) ==
    /\ ~ queue[s].exists
    /\ queue' = [queue EXCEPT ![s] = [exists |-> TRUE, msgs |-> <<>>]]
    /\ UNCHANGED req

RemoveQueue(p) ==
    /\ req[p].op = "msgctl" /\ queue[req[p].slot].exists
    /\ queue' = [queue EXCEPT ![req[p].slot] = None]
    /\ Answer(p)

Send(p) ==
    /\ req[p].op = "msgsnd" /\ queue[req[p].slot].exists
    /\ queue' = [queue EXCEPT ![req[p].slot].msgs = Append(@, req[p].msg)]
    /\ Answer(p)

Receive(p) ==
    /\ req[p].op = "msgrcv"
    /\ \E i \in Receivable(queue[req[p].slot].msgs, req[p].type) :
         queue' = [queue EXCEPT ![req[p].slot].msgs = RemoveAt(@, i)]
    /\ Answer(p)

Next ==
    \/ \E s \in Slot : CreateQueue(s)
    \/ \E p \in Proc : Ask(p) \/ Nothing(p) \/ RemoveQueue(p) \/ Send(p) \/ Receive(p)

Spec == Init /\ [][Next]_<<queue, req>>
=============================================================================
