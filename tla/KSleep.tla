------------------------------- MODULE KSleep -------------------------------
(***************************************************************************)
(* Sleep and wakeup of proc/slp.c, as the code that calls them sees them.  *)
(*                                                                         *)
(* A process that sleeps has p_wchan set to the channel, an address; a     *)
(* process that does not has p_wchan 0.  wakeprocs takes every process of  *)
(* the channel off its queue at once.  setrun takes ONE process off its    *)
(* queue, whatever it waits for: a signal does so, and so does SIGCONT to  *)
(* a process that was stopped in its sleep.  sleep's header tells callers  *)
(* to "be prepared for premature return".                                  *)
(*                                                                         *)
(* Being woken and running again are different steps: between the two any  *)
(* other process may run.  The order of the queue, which decides only who  *)
(* is put on the dispatch queue first, is not kept.                        *)
(***************************************************************************)
CONSTANTS
    Proc,       \* process table slots
    NoChan      \* p_wchan = 0

VARIABLE
    wchan       \* p_wchan of each process

Asleep(p) == wchan[p] # NoChan

\* sleep() up to the swtch() that gives the processor away
GoToSleep(p, c) == wchan' = [wchan EXCEPT ![p] = c]

\* wakeprocs() on every channel of the set C
Wakeprocs(C) == 
    wchan' = [p \in Proc |-> IF wchan[p] \in C THEN NoChan ELSE wchan[p]]

\* setrun(): the process leaves its queue although nobody woke its channel
Setrun(p) == Asleep(p) /\ wchan' = [wchan EXCEPT ![p] = NoChan]

\* wake_oneproc(): one process of the channel, with stopped processes before it
WakeSome(c, P) ==
    /\ \A p \in P : wchan[p] = c
    /\ wchan' = [p \in Proc |-> IF p \in P THEN NoChan ELSE wchan[p]]

\* The promise: processes enter one channel at a time and leave it by a wakeup
\* of that channel or alone
NobodyAsleep == wchan = [p \in Proc |-> NoChan]

SleepOrWake(Channels) ==
    \/ \E p \in Proc, c \in Channels : ~ Asleep(p) /\ GoToSleep(p, c)
    \/ \E c \in Channels : Wakeprocs({c}) \/ \E P \in SUBSET Proc : WakeSome(c, P)
    \/ \E p \in Proc : Setrun(p)
=============================================================================
