----------------------------- MODULE SlpProofs ------------------------------
(***************************************************************************)
(* Theorems about Slp, for every set of processes, channels and buckets,   *)
(* every hash function and every choice of signals and dispositions.       *)
(*                                                                         *)
(* The first part does not rest on the order of the queues: what happens   *)
(* to the state, the channel, the flags and the signals of a process       *)
(* depends only on which processes a routine takes off, not on how they    *)
(* are linked.  The second part is about the links.                        *)
(***************************************************************************)
EXTENDS Slp, InductionLemmas, TLAPS

\* A leaf is tried with SMT, then with Zenon, then with more time for each
USE SMT, Zenon, SMTT(30), ZenonT(60)

States == {"SONPROC", "SRUN", "SSLEEP", "SSTOP"}
Flags  == {"SNWAKE", "SNOSTOP", "SXSTART", "SPSTART", "SPRSTOP"}

\* The part of TypeOK that leaves out the links of the queues
ProcTypeOK ==
    /\ p_stat \in [Proc -> States]
    /\ p_wchan \in [Proc -> Chan \cup {NoChan}]
    /\ p_flag \in [Proc -> SUBSET Flags]
    /\ p_whystop \in [Proc -> {"none", "PR_JOBCONTROL", "PR_REQUESTED"}]
    /\ p_sig \in [Proc -> SUBSET (Signals \ {"SIGCONT"})]
    /\ at \in [Proc -> {"run", "issig", "swtch", "nwake"}]

\* A process in an interruptible sleep can be reached by a signal
Interruptible ==
    \A p \in Proc : at[p] \in {"issig", "swtch"} => "SNWAKE" \notin p_flag[p]

\* What a step leaves of every process when it wakes the processes of W: they
\* are off their queues, and only those that sleep are set running
Woken(W) ==
    /\ p_wchan' = [p \in Proc |-> IF p \in W THEN NoChan ELSE p_wchan[p]]
    /\ Rouse(W)
    /\ UNCHANGED <<p_flag, p_whystop, p_sig, at>>

\* What unsleep does to the channels
OffQueue(p) == p_wchan' = [p_wchan EXCEPT ![p] = NoChan]

-----------------------------------------------------------------------------
(* What the routines do to processes *)

\* unsleep leaves p off the queues, and every other process where it was,
\* whether p was on a queue or not.
LEMMA UnsleepChannel ==
    ASSUME NEW p \in Proc, ProcTypeOK, Unsleep(p)
    PROVE  OffQueue(p)
<1>1. CASE p_wchan[p] = NoChan
  BY <1>1 DEF Unsleep, OffQueue, queueVars, ProcTypeOK
<1>2. CASE p_wchan[p] # NoChan
  BY <1>2 DEF Unsleep, OffQueue
<1> QED BY <1>1, <1>2

\* wakeprocs takes only processes of its channel.
LEMMA WakeprocsWakes ==
    ASSUME NEW c \in Chan, Wakeprocs(c)
    PROVE  \E W : Woken(W) /\ \A p \in W : p_wchan[p] = c
BY DEF Wakeprocs, Unlink, Woken, stopVars

\* wake_oneproc takes only processes of its channel.
LEMMA WakeOneprocWakes ==
    ASSUME NEW c \in Chan, WakeOneproc(c)
    PROVE  \E W : Woken(W) /\ \A p \in W : p_wchan[p] = c
<1> DEFINE q == Queue(sqhash[c])
           W == {p \in Range(q) : p_wchan[p] = c /\
                  ~ \E i, j \in DOMAIN q : i < j /\ q[j] = p /\ p_wchan[q[i]] = c
                                                     /\ p_stat[q[i]] = "SSLEEP"}
<1>1. Woken(W)
  BY DEF WakeOneproc, Unlink, Woken, stopVars
<1> QED BY <1>1

\* The outcome of setrun for a process whose flags are to be f
Ran(p, f) ==
    /\ OffQueue(p)
    /\ p_flag' = [p_flag EXCEPT ![p] = f]
    /\ \/ /\ p_stat[p] = "SSTOP" /\ ~ {"SXSTART", "SPSTART"} \subseteq f
          /\ UNCHANGED <<p_stat, p_whystop>>
       \/ /\ p_stat[p] = "SSTOP" => {"SXSTART", "SPSTART"} \subseteq f
          /\ p_stat' = [p_stat EXCEPT ![p] = "SRUN"]
          /\ p_whystop' = [p_whystop EXCEPT ![p] = "none"]

\* setrun takes the process off its queue, and leaves it stopped when one of
\* those who may hold it still does.
LEMMA SetrunRuns ==
    ASSUME NEW p \in Proc, NEW f, ProcTypeOK, Setrun(p, f)
    PROVE  Ran(p, f)
BY UnsleepChannel DEF Setrun, Ran

\* sleep puts the process on the queue of one channel.
LEMMA SleepSleeps ==
    ASSUME NEW p \in Proc, NEW c \in Chan, NEW disp \in Disps, Sleep(p, c, disp)
    PROVE  p_wchan' = [p_wchan EXCEPT ![p] = c]
BY DEF Sleep

-----------------------------------------------------------------------------
(* Types *)

\* In the initial state every process is ready and off the queues.
LEMMA InitProcType == Init => ProcTypeOK
BY ConstantsAssumption DEF Init, ProcTypeOK, States, Flags

\* A wakeup keeps the types.
LEMMA WokenType ==
    ASSUME NEW W, ProcTypeOK, Woken(W) PROVE ProcTypeOK'
BY DEF ProcTypeOK, Woken, Rouse, States

\* setrun keeps the types of what it sets.
LEMMA RanType ==
    ASSUME NEW p \in Proc, NEW f \in SUBSET Flags, ProcTypeOK, Ran(p, f)
    PROVE  /\ p_stat' \in [Proc -> States]
           /\ p_wchan' \in [Proc -> Chan \cup {NoChan}]
           /\ p_flag' \in [Proc -> SUBSET Flags]
           /\ p_whystop' \in [Proc -> {"none", "PR_JOBCONTROL", "PR_REQUESTED"}]
BY DEF ProcTypeOK, Ran, OffQueue, States

\* The outcome of posting a signal: nothing but the signal; the process set
\* running with flags f; or a stopped process taken off its queue.
SignalOutcome(p, sig) ==
    /\ p_sig' = [p_sig EXCEPT ![p] = Posted(p, sig)]
    /\ UNCHANGED at
    /\ \/ /\ sig = "SIGCONT" \/ p_stat[p] # "SSLEEP" \/ "SNWAKE" \in p_flag[p]
          /\ sig # "SIGKILL" \/ p_stat[p] # "SSTOP"
          /\ UNCHANGED <<p_stat, p_wchan, p_flag, p_whystop>>
       \/ \E f \in SUBSET Flags :
            /\ p_flag[p] \subseteq f
            /\ f \subseteq p_flag[p] \cup {"SXSTART", "SPSTART"}
            /\ p_stat[p] \in {"SSLEEP", "SSTOP"}
            /\ sig = "SIGKILL" /\ p_stat[p] = "SSTOP" => {"SXSTART", "SPSTART"} \subseteq f
            /\ Ran(p, f)
       \/ /\ p_stat[p] = "SSTOP" /\ sig # "SIGKILL"
          /\ OffQueue(p)
          /\ UNCHANGED <<p_stat, p_flag, p_whystop>>

\* A signal wakes an interruptible sleeper, SIGKILL ends a stop and SIGCONT
\* one side of it, and nothing else changes the process.
LEMMA PsignalOutcome ==
    ASSUME NEW p \in Proc, NEW sig \in Signals, ProcTypeOK, Psignal(p, sig)
    PROVE  SignalOutcome(p, sig)
<1>1. p_flag[p] \in SUBSET Flags
  BY DEF ProcTypeOK
<1>2. ASSUME NEW f \in SUBSET Flags, Setrun(p, f)  PROVE Ran(p, f)
  BY <1>2, SetrunRuns
<1>3. Untouched => UNCHANGED <<p_stat, p_wchan, p_flag, p_whystop>>
  BY DEF Untouched, queueVars, stopVars
<1>4. p_sig' = [p_sig EXCEPT ![p] = Posted(p, sig)] /\ UNCHANGED at
  BY DEF Psignal
<1>5. CASE sig = "SIGCONT"
  <2>1. CASE Stopped(p, "PR_JOBCONTROL")
    <3>1. Ran(p, p_flag[p] \cup {"SXSTART"})
      BY <1>1, <1>2, <1>5, <2>1 DEF Psignal, Flags
    <3> QED BY <1>1, <1>4, <1>5, <2>1, <3>1 DEF SignalOutcome, Stopped, Flags
  <2>2. CASE ~ Stopped(p, "PR_JOBCONTROL")
    BY <1>3, <1>4, <1>5, <2>2 DEF Psignal, SignalOutcome
  <2> QED BY <2>1, <2>2
<1>6. CASE sig # "SIGCONT" /\ p_stat[p] = "SSLEEP"
  <2>1. CASE "SNWAKE" \in p_flag[p]
    BY <1>3, <1>4, <1>6, <2>1 DEF Psignal, SignalOutcome
  <2>2. CASE "SNWAKE" \notin p_flag[p]
    BY <1>1, <1>2, <1>4, <1>6, <2>2 DEF Psignal, SignalOutcome
  <2> QED BY <2>1, <2>2
<1>7. CASE sig # "SIGCONT" /\ p_stat[p] = "SSTOP"
  <2>1. CASE sig = "SIGKILL"
    <3>1. Ran(p, p_flag[p] \cup {"SXSTART", "SPSTART"})
      BY <1>1, <1>2, <1>7, <2>1 DEF Psignal, Flags
    <3> QED BY <1>1, <1>4, <1>7, <2>1, <3>1 DEF SignalOutcome, Flags
  <2>2. CASE sig # "SIGKILL"
    <3>1. Unsleep(p) /\ UNCHANGED <<p_stat, stopVars>>
      BY <1>7, <2>2 DEF Psignal
    <3> QED BY <1>4, <1>7, <2>2, <3>1, UnsleepChannel DEF SignalOutcome, stopVars
  <2> QED BY <2>1, <2>2
<1>8. CASE sig # "SIGCONT" /\ p_stat[p] \notin {"SSLEEP", "SSTOP"}
  <2>1. Untouched
    BY <1>8 DEF Psignal
  <2> QED BY <1>3, <1>4, <1>8, <2>1 DEF SignalOutcome
<1> QED BY <1>5, <1>6, <1>7, <1>8

\* Posting a signal keeps the types: SIGCONT is not kept.
LEMMA SignalType ==
    ASSUME NEW p \in Proc, NEW sig \in Signals, ProcTypeOK, SignalOutcome(p, sig)
    PROVE  ProcTypeOK'
<1>1. Posted(p, sig) \in SUBSET (Signals \ {"SIGCONT"})
  BY DEF Posted, ProcTypeOK
<1>2. /\ p_sig' \in [Proc -> SUBSET (Signals \ {"SIGCONT"})]
      /\ at' \in [Proc -> {"run", "issig", "swtch", "nwake"}]
  BY <1>1 DEF ProcTypeOK, SignalOutcome
<1>3. CASE \E f \in SUBSET Flags : Ran(p, f)
  BY <1>2, <1>3, RanType DEF ProcTypeOK
<1>4. CASE UNCHANGED <<p_stat, p_flag, p_whystop>> /\ (OffQueue(p) \/ UNCHANGED p_wchan)
  BY <1>2, <1>4 DEF ProcTypeOK, OffQueue
<1> QED BY <1>3, <1>4 DEF SignalOutcome

-----------------------------------------------------------------------------
(* The inductive invariant *)

Inv == ProcTypeOK /\ StatesMatchQueues /\ NothingSleptThrough /\ Interruptible

\* Every process that a step does not touch keeps what the invariant says.
Same(q) ==
    /\ p_stat'[q] = p_stat[q]
    /\ p_wchan'[q] = p_wchan[q]
    /\ p_flag'[q] = p_flag[q]
    /\ p_sig'[q] = p_sig[q]
    /\ at'[q] = at[q]

\* What the invariant says of one process
Good(p) ==
    /\ p_wchan[p] # NoChan => p_stat[p] \in {"SSLEEP", "SSTOP"}
    /\ p_stat[p] = "SSLEEP" => p_wchan[p] # NoChan
    /\ p_stat[p] = "SSLEEP" /\ at[p] = "swtch" => p_sig[p] = {} /\ ~ Requested(p)
    /\ p_stat[p] = "SSTOP" => "SIGKILL" \notin p_sig[p]
    /\ at[p] \in {"issig", "swtch"} => "SNWAKE" \notin p_flag[p]

OneExecutes == \A p, q \in Proc : Executes(p) /\ Executes(q) => p = q

\* The invariant says something of each process, and that one at most executes.
LEMMA InvParts ==
    Inv <=> ProcTypeOK /\ OneExecutes /\ \A p \in Proc : Good(p)
BY DEF Inv, OneExecutes, Good, StatesMatchQueues, NothingSleptThrough, Interruptible

\* A step that touches one process only keeps the invariant if it keeps it for
\* that process.
LEMMA OneTouched ==
    ASSUME NEW p \in Proc, Inv, ProcTypeOK', \A q \in Proc \ {p} : Same(q),
           Good(p)', Executes(p)' => \A q \in Proc \ {p} : ~ Executes(q)
    PROVE  Inv'
<1>1. \A q \in Proc \ {p} : Good(q)' /\ (Executes(q)' <=> Executes(q))
  BY InvParts DEF Same, Good, Executes, InSleepEntry, Requested, JustLooking, MayStop
<1>2. OneExecutes' /\ \A q \in Proc : Good(q)'
  BY <1>1, InvParts DEF OneExecutes
<1> QED
  BY <1>2 DEF Inv, OneExecutes, Good, StatesMatchQueues, NothingSleptThrough, Interruptible

\* A wakeup keeps the invariant: who is taken off the queue asleep is set
\* running, who is taken off stopped stays stopped.
LEMMA WokenInv ==
    ASSUME NEW W, Inv, Woken(W), ~ SplHi
    PROVE  Inv'
<1>1. ProcTypeOK'
  BY WokenType DEF Inv
<1>2. \A q \in Proc : Good(q)' /\ (Executes(q)' => Executes(q))
  BY InvParts, <1>1 DEF Good, Woken, Rouse, Executes, InSleepEntry, SplHi, Requested,
     JustLooking, MayStop, ProcTypeOK, States
<1> QED
  BY <1>1, <1>2, InvParts DEF Inv, OneExecutes, Good, StatesMatchQueues,
     NothingSleptThrough, Interruptible

\* A signal keeps the invariant: it does not stay unseen in an interruptible
\* sleep, since the sleeper is set running, and SIGKILL ends a stop.
LEMMA SignalInv ==
    ASSUME NEW p \in Proc, NEW sig \in Signals, Inv, SignalOutcome(p, sig), ~ SplHi
    PROVE  Inv'
<1>1. ProcTypeOK /\ ProcTypeOK'
  BY SignalType DEF Inv
<1>2. \A q \in Proc \ {p} : Same(q)
  BY <1>1 DEF SignalOutcome, Ran, OffQueue, Same, ProcTypeOK
<1>3. Good(p) /\ ~ InSleepEntry(p)
  BY InvParts DEF SplHi
<1>4. sig # "SIGKILL" /\ "SIGKILL" \notin p_sig[p] => "SIGKILL" \notin Posted(p, sig)
  BY DEF Posted
<1>5. sig = "SIGCONT" => Posted(p, sig) \subseteq p_sig[p]
  BY DEF Posted
<1>6. Good(p)' /\ ~ (Executes(p)' /\ ~ Executes(p))
  <2>1. p_sig'[p] = Posted(p, sig) /\ at'[p] = at[p]
    BY <1>1 DEF SignalOutcome, ProcTypeOK
  <2>2. CASE /\ sig = "SIGCONT" \/ p_stat[p] # "SSLEEP" \/ "SNWAKE" \in p_flag[p]
             /\ sig # "SIGKILL" \/ p_stat[p] # "SSTOP"
             /\ UNCHANGED <<p_stat, p_wchan, p_flag, p_whystop>>
    BY <1>1, <1>3, <1>4, <1>5, <2>1, <2>2 DEF SignalOutcome, Good, Executes, InSleepEntry,
       Requested, JustLooking, MayStop, Posted
  <2>3. ASSUME NEW f \in SUBSET Flags, Ran(p, f),
               f \subseteq p_flag[p] \cup {"SXSTART", "SPSTART"},
               sig = "SIGKILL" /\ p_stat[p] = "SSTOP" => {"SXSTART", "SPSTART"} \subseteq f
        PROVE  Good(p)' /\ ~ (Executes(p)' /\ ~ Executes(p))
    <3>1. /\ p_wchan'[p] = NoChan /\ p_flag'[p] = f
          /\ \/ p_stat'[p] = "SRUN"
             \/ p_stat[p] = "SSTOP" /\ p_stat'[p] = "SSTOP" /\ sig # "SIGKILL"
      BY <1>1, <2>3 DEF Ran, OffQueue, ProcTypeOK
    <3>2. at[p] \in {"issig", "swtch"} => "SNWAKE" \notin f
      BY <1>3, <2>3 DEF Good
    <3> QED BY <1>3, <1>4, <2>1, <3>1, <3>2 DEF Good, Executes, InSleepEntry
  <2>4. CASE p_stat[p] = "SSTOP" /\ sig # "SIGKILL" /\ OffQueue(p)
               /\ UNCHANGED <<p_stat, p_flag, p_whystop>>
    BY <1>1, <1>3, <1>4, <2>1, <2>4 DEF OffQueue, ProcTypeOK, Good, Executes, InSleepEntry
  <2> QED BY <2>2, <2>3, <2>4 DEF SignalOutcome
<1>7. Executes(p)' => \A q \in Proc \ {p} : ~ Executes(q)
  BY <1>6, InvParts DEF OneExecutes
<1> QED BY <1>1, <1>2, <1>6, <1>7, OneTouched

\* sleep puts the process that executes on one queue and makes it wait there;
\* an interruptible sleep can be reached by signals.
LEMMA SleepInv ==
    ASSUME NEW p \in Proc, NEW c \in Chan, NEW disp \in Disps, Inv, Sleep(p, c, disp)
    PROVE  Inv'
<1>1. ProcTypeOK /\ Good(p) /\ p_stat[p] = "SONPROC" /\ at[p] = "run"
  BY InvParts DEF Sleep
<1>2. ProcTypeOK'
  BY <1>1, ConstantsAssumption DEF Sleep, ProcTypeOK, States, Flags
<1>3. \A q \in Proc \ {p} : Same(q)
  BY <1>1 DEF Sleep, Same, ProcTypeOK
<1>4. Good(p)'
  BY <1>1, ConstantsAssumption DEF Sleep, Good, ProcTypeOK
<1>5. \A q \in Proc \ {p} : ~ Executes(q)
  BY <1>1, InvParts DEF OneExecutes, Executes
<1> QED BY <1>2, <1>3, <1>4, <1>5, OneTouched

\* issig stops the process that executes, which is not killed.
LEMMA IssigStopInv ==
    ASSUME NEW p \in Proc, Inv, IssigStop(p)
    PROVE  Inv'
<1>1. ProcTypeOK /\ Good(p) /\ Executes(p)
  BY InvParts DEF IssigStop
<1>2. ProcTypeOK'
  BY <1>1 DEF IssigStop, Stop, ProcTypeOK, States, Flags, queueVars
<1>3. \A q \in Proc \ {p} : Same(q)
  BY <1>1 DEF IssigStop, Stop, Same, ProcTypeOK, queueVars
<1>4. Good(p)'
  BY <1>1 DEF IssigStop, Stop, Good, ProcTypeOK, queueVars, Requested, MayStop
<1>5. \A q \in Proc \ {p} : ~ Executes(q)
  BY <1>1, InvParts DEF OneExecutes
<1> QED BY <1>2, <1>3, <1>4, <1>5, OneTouched

\* sleep comes back with a signal: off the queue, and running.
LEMMA IssigSignalInv ==
    ASSUME NEW p \in Proc, Inv, IssigSignal(p)
    PROVE  Inv'
<1>1. ProcTypeOK /\ Good(p) /\ Executes(p)
  BY InvParts DEF IssigSignal
<1>2. \/ /\ p_stat[p] = "SSLEEP" /\ OffQueue(p)
         /\ p_stat' = [p_stat EXCEPT ![p] = "SONPROC"]
      \/ p_stat[p] = "SONPROC" /\ UNCHANGED <<p_stat, p_wchan>>
  BY <1>1, UnsleepChannel DEF IssigSignal, Executes, InSleepEntry, queueVars
<1>3. ProcTypeOK'
  BY <1>1, <1>2 DEF IssigSignal, Out, OffQueue, ProcTypeOK, States, Flags
<1>4. \A q \in Proc \ {p} : Same(q)
  BY <1>1, <1>2 DEF IssigSignal, Out, OffQueue, Same, ProcTypeOK
<1>5. Good(p)'
  BY <1>1, <1>2 DEF IssigSignal, Out, OffQueue, Good, ProcTypeOK
<1>6. \A q \in Proc \ {p} : ~ Executes(q)
  BY <1>1, InvParts DEF OneExecutes
<1> QED BY <1>3, <1>4, <1>5, <1>6, OneTouched

\* sleep gives the processor up only after it saw no signal and no request to
\* stop, on the queue; otherwise it comes back.
LEMMA IssigFalseInv ==
    ASSUME NEW p \in Proc, Inv, IssigFalse(p)
    PROVE  Inv'
<1>1. ProcTypeOK /\ Good(p) /\ Executes(p)
  BY InvParts DEF IssigFalse
<1>2. ProcTypeOK'
  BY <1>1 DEF IssigFalse, Out, ProcTypeOK, Flags, queueVars, stopVars
<1>3. \A q \in Proc \ {p} : Same(q)
  BY <1>1 DEF IssigFalse, Out, Same, ProcTypeOK, queueVars, stopVars
<1>4. Good(p)'
  <2>1. p_stat[p] = "SSLEEP" => at[p] = "issig" /\ p_wchan[p] # NoChan
    BY <1>1 DEF Executes, InSleepEntry, Good
  <2>2. CASE at[p] = "issig" /\ p_wchan[p] # NoChan
    BY <1>1, <2>2 DEF IssigFalse, Good, ProcTypeOK, queueVars, stopVars, Requested,
       JustLooking, MayStop
  <2>3. CASE ~ (at[p] = "issig" /\ p_wchan[p] # NoChan)
    BY <1>1, <2>1, <2>3 DEF IssigFalse, Out, Good, ProcTypeOK, queueVars
  <2> QED BY <2>2, <2>3
<1>5. \A q \in Proc \ {p} : ~ Executes(q)
  BY <1>1, InvParts DEF OneExecutes
<1> QED BY <1>2, <1>3, <1>4, <1>5, OneTouched

\* An uninterruptible sleep comes back when the process runs again.
LEMMA SleepNwakeInv ==
    ASSUME NEW p \in Proc, Inv, SleepNwake(p)
    PROVE  Inv'
<1>1. ProcTypeOK /\ Good(p) /\ Executes(p)
  BY InvParts DEF SleepNwake, Executes
<1>2. ProcTypeOK'
  BY <1>1 DEF SleepNwake, Out, ProcTypeOK, Flags, queueVars
<1>3. \A q \in Proc \ {p} : Same(q)
  BY <1>1 DEF SleepNwake, Out, Same, ProcTypeOK, queueVars
<1>4. Good(p)'
  BY <1>1 DEF SleepNwake, Out, Good, ProcTypeOK, queueVars
<1>5. \A q \in Proc \ {p} : ~ Executes(q)
  BY <1>1, InvParts DEF OneExecutes
<1> QED BY <1>2, <1>3, <1>4, <1>5, OneTouched

\* psig acts on a signal outside sleep.
LEMMA PsigInv ==
    ASSUME NEW p \in Proc, Inv, Psig(p)
    PROVE  Inv'
<1>1. ProcTypeOK /\ Good(p) /\ Executes(p)
  BY InvParts DEF Psig, Executes
<1>2. ProcTypeOK'
  BY <1>1 DEF Psig, ProcTypeOK, Flags, queueVars
<1>3. \A q \in Proc \ {p} : Same(q)
  BY <1>1 DEF Psig, Same, ProcTypeOK, queueVars
<1>4. Good(p)'
  BY <1>1 DEF Psig, Good, ProcTypeOK, queueVars
<1>5. \A q \in Proc \ {p} : ~ Executes(q)
  BY <1>1, InvParts DEF OneExecutes
<1> QED BY <1>2, <1>3, <1>4, <1>5, OneTouched

\* pswtch takes a process that is ready, when no process executes.
LEMMA DispatchInv ==
    ASSUME NEW p \in Proc, Inv, Dispatch(p)
    PROVE  Inv'
<1>1. ProcTypeOK /\ Good(p)
  BY InvParts
<1>2. ProcTypeOK'
  BY <1>1 DEF Dispatch, ProcTypeOK, States, Flags, queueVars
<1>3. \A q \in Proc \ {p} : Same(q)
  BY <1>1 DEF Dispatch, Same, ProcTypeOK, queueVars
<1>4. Good(p)'
  BY <1>1 DEF Dispatch, Good, ProcTypeOK, queueVars
<1>5. \A q \in Proc \ {p} : ~ Executes(q)
  BY DEF Dispatch
<1> QED BY <1>2, <1>3, <1>4, <1>5, OneTouched

\* A preempted process is ready.
LEMMA PreemptInv ==
    ASSUME NEW p \in Proc, Inv, Preempt(p)
    PROVE  Inv'
<1>1. ProcTypeOK /\ Good(p) /\ Executes(p)
  BY InvParts DEF Preempt, Executes
<1>2. ProcTypeOK'
  BY <1>1 DEF Preempt, ProcTypeOK, States, queueVars, stopVars
<1>3. \A q \in Proc \ {p} : Same(q)
  BY <1>1 DEF Preempt, Same, ProcTypeOK, queueVars, stopVars
<1>4. Good(p)'
  BY <1>1 DEF Preempt, Good, ProcTypeOK, queueVars, stopVars
<1>5. \A q \in Proc \ {p} : ~ Executes(q)
  BY <1>1, InvParts DEF OneExecutes
<1> QED BY <1>2, <1>3, <1>4, <1>5, OneTouched

\* PIOCSTOP stops an interruptible sleeper at once, and does so only if it was
\* not killed.  A request it leaves to a sleeper is one the sleeper ignores.
LEMMA PrStopInv ==
    ASSUME NEW p \in Proc, Inv, PrStop(p), ~ SplHi
    PROVE  Inv'
<1>1. ProcTypeOK /\ Good(p)
  BY InvParts
<1>2. ProcTypeOK'
  BY <1>1 DEF PrStop, Stop, ProcTypeOK, States, Flags, queueVars
<1>3. \A q \in Proc \ {p} : Same(q)
  BY <1>1 DEF PrStop, Stop, Same, ProcTypeOK, queueVars
<1>4. Good(p)'
  <2>1. CASE p_stat[p] = "SSLEEP" /\ p_flag[p] \cap {"SNWAKE", "SNOSTOP"} = {} /\ MayStop(p)
    BY <1>1, <2>1 DEF PrStop, Stop, Good, ProcTypeOK, queueVars, MayStop
  <2>2. CASE ~ (p_stat[p] = "SSLEEP" /\ p_flag[p] \cap {"SNWAKE", "SNOSTOP"} = {} /\ MayStop(p))
    <3>1. UNCHANGED <<p_stat, p_wchan, p_sig, at>>
      BY <2>2 DEF PrStop, queueVars
    <3>2. p_flag[p] \subseteq p_flag'[p] /\ p_flag'[p] \subseteq p_flag[p] \cup {"SPRSTOP"}
      BY <1>1, <2>2 DEF PrStop, ProcTypeOK
    <3>3. p_stat[p] = "SSLEEP" /\ at[p] = "swtch" =>
             "SNOSTOP" \in p_flag[p] \/ ~ MayStop(p)
      BY <1>1, <2>2 DEF Good
    <3> QED BY <1>1, <3>1, <3>2, <3>3 DEF Good, Requested, JustLooking, MayStop
  <2> QED BY <2>1, <2>2
<1>5. ~ Executes(p)'
  <2>1. p_stat[p] # "SONPROC" /\ ~ InSleepEntry(p)
    BY DEF PrStop, SplHi
  <2>2. p_stat'[p] \in {p_stat[p], "SSTOP"} /\ at'[p] = at[p]
    BY <1>1 DEF PrStop, Stop, ProcTypeOK
  <2> QED BY <2>1, <2>2 DEF Executes, InSleepEntry
<1> QED BY <1>2, <1>3, <1>4, <1>5, OneTouched

\* PIOCRUN takes the process off its queue, and sets it running unless job
\* control holds it too.
LEMMA PrRunInv ==
    ASSUME NEW p \in Proc, Inv, PrRun(p), ~ SplHi
    PROVE  Inv'
<1> DEFINE f == p_flag[p] \cup {"SPSTART"}
<1>1. ProcTypeOK /\ Good(p) /\ f \in SUBSET Flags
  BY InvParts DEF ProcTypeOK, Flags
<1>2. Ran(p, f) /\ UNCHANGED <<p_sig, at>> /\ p_stat[p] = "SSTOP"
  BY <1>1, SetrunRuns DEF PrRun
<1>3. ProcTypeOK'
  BY <1>1, <1>2, RanType DEF ProcTypeOK
<1>4. \A q \in Proc \ {p} : Same(q)
  BY <1>1, <1>2 DEF Ran, OffQueue, Same, ProcTypeOK
<1>5. /\ p_wchan'[p] = NoChan /\ p_stat'[p] \in {"SRUN", "SSTOP"}
      /\ p_sig'[p] = p_sig[p] /\ at'[p] = at[p] /\ p_flag'[p] = f
  BY <1>1, <1>2 DEF Ran, OffQueue, ProcTypeOK
<1>6. Good(p)' /\ ~ Executes(p)'
  BY <1>1, <1>2, <1>5 DEF Good, Executes, InSleepEntry
<1> QED BY <1>3, <1>4, <1>6, OneTouched

\* Every process is ready at first.
LEMMA InitInv == Init => Inv
<1> SUFFICES ASSUME Init PROVE Inv
  OBVIOUS
<1>1. ProcTypeOK
  BY InitProcType
<1>2. \A p \in Proc : Good(p) /\ ~ Executes(p)
  BY DEF Init, Good, Executes, InSleepEntry
<1> QED BY <1>1, <1>2, InvParts DEF OneExecutes

\* Every step keeps the invariant.
LEMMA NextInv == Inv /\ [Next]_vars => Inv'
<1> SUFFICES ASSUME Inv, [Next]_vars PROVE Inv'
  OBVIOUS
<1>1. CASE \E p \in Proc : \E c \in Chan, disp \in Disps : Sleep(p, c, disp)
  BY <1>1, SleepInv
<1>2. CASE \E p \in Proc : IssigStop(p)
  BY <1>2, IssigStopInv
<1>3. CASE \E p \in Proc : InSleep(p)
  BY <1>3, IssigSignalInv, IssigFalseInv, SleepNwakeInv DEF InSleep
<1>4. CASE \E p \in Proc : Psig(p) \/ Dispatch(p) \/ Preempt(p)
  BY <1>4, PsigInv, DispatchInv, PreemptInv
<1>5. CASE Others
  <2>1. ~ SplHi
    BY <1>5 DEF Others
  <2>2. CASE \E c \in Chan : Wakeprocs(c) \/ WakeOneproc(c)
    BY <2>1, <2>2, WakeprocsWakes, WakeOneprocWakes, WokenInv
  <2>3. CASE \E p \in Proc, sig \in Signals : Psignal(p, sig)
    BY <2>1, <2>3, PsignalOutcome, SignalInv DEF Inv
  <2>4. CASE \E p \in Proc : PrStop(p) \/ PrRun(p)
    BY <2>1, <2>4, PrStopInv, PrRunInv
  <2> QED BY <1>5, <2>2, <2>3, <2>4 DEF Others
<1>6. CASE UNCHANGED vars
  <2>1. ProcTypeOK'
    BY <1>6 DEF Inv, ProcTypeOK, vars, queueVars, stopVars
  <2>2. \A q \in Proc : Good(q)' /\ (Executes(q)' <=> Executes(q))
    BY <1>6, InvParts DEF Good, Executes, InSleepEntry, Requested, JustLooking, MayStop,
       vars, queueVars, stopVars
  <2> QED
    BY <2>1, <2>2, InvParts DEF Inv, OneExecutes, Good, StatesMatchQueues,
       NothingSleptThrough, Interruptible
<1> QED BY <1>1, <1>2, <1>3, <1>4, <1>5, <1>6 DEF Next

\* The inductive invariant holds.
LEMMA Invariance == Spec => []Inv
BY InitInv, NextInv, PTL DEF Spec

\* The assertions on p_stat in sleep, wakeprocs, setrun and pswtch never fail:
\* whoever stops, signals, wakes and continues a sleeper in whatever order, the
\* processes on queues are asleep or stopped, no process is asleep off the
\* queues, and one process at most executes.
THEOREM StatesMatch == Spec => []StatesMatchQueues
<1>1. Inv => StatesMatchQueues
  BY DEF Inv
<1> QED BY <1>1, Invariance, PTL

\* A signal or a request to stop that comes before a process goes to sleep,
\* while it is stopped in its sleep, or between being woken and running, is
\* seen by issig; and a process that was killed is not held stopped.
THEOREM SignalsSeen == Spec => []NothingSleptThrough
<1>1. Inv => NothingSleptThrough
  BY DEF Inv
<1> QED BY <1>1, Invariance, PTL

-----------------------------------------------------------------------------
(* Steps *)

\* What StopsHold says of one step
StopHeld ==
    \A p \in Proc : p_stat[p] = "SSTOP" /\ p_stat'[p] # "SSTOP" =>
        {"SXSTART", "SPSTART"} \subseteq p_flag'[p]

\* setrun sets a stopped process running only with both flags.
LEMMA RanHolds ==
    ASSUME NEW p \in Proc, NEW f \in SUBSET Flags, ProcTypeOK, Ran(p, f)
    PROVE  StopHeld
<1>1. p_flag'[p] = f /\ \A q \in Proc \ {p} : p_stat'[q] = p_stat[q]
  BY DEF Ran, ProcTypeOK
<1>2. p_stat[p] = "SSTOP" /\ p_stat'[p] # "SSTOP" => {"SXSTART", "SPSTART"} \subseteq f
  BY DEF Ran, ProcTypeOK
<1> QED BY <1>1, <1>2 DEF StopHeld

\* No step but the setrun of a stopped process ends a stop.
LEMMA NextHolds == Inv /\ [Next]_vars => StopHeld
<1> SUFFICES ASSUME Inv, [Next]_vars PROVE StopHeld
  OBVIOUS
<1>1. ProcTypeOK
  BY DEF Inv
<1>2. CASE \E p \in Proc : \/ \E c \in Chan, disp \in Disps : Sleep(p, c, disp)
                           \/ IssigStop(p) \/ IssigSignal(p) \/ Preempt(p) \/ Dispatch(p)
  <2>1. PICK p \in Proc : /\ p_stat[p] # "SSTOP"
                          /\ \E s \in States : p_stat' \in {p_stat, [p_stat EXCEPT ![p] = s]}
    BY <1>2 DEF Sleep, IssigStop, Stop, IssigSignal, Preempt, Dispatch, Executes,
       InSleepEntry, States
  <2> QED BY <1>1, <2>1 DEF StopHeld, ProcTypeOK
<1>3. CASE \E p \in Proc : IssigFalse(p) \/ SleepNwake(p) \/ Psig(p)
  BY <1>3 DEF IssigFalse, SleepNwake, Psig, StopHeld
<1>4. CASE \E c \in Chan : Wakeprocs(c) \/ WakeOneproc(c)
  <2>1. PICK W : Woken(W)
    BY <1>4, WakeprocsWakes, WakeOneprocWakes
  <2> QED BY <2>1 DEF Woken, Rouse, StopHeld
<1>5. CASE \E p \in Proc, sig \in Signals : Psignal(p, sig)
  <2>1. PICK p \in Proc, sig \in Signals : SignalOutcome(p, sig)
    BY <1>1, <1>5, PsignalOutcome
  <2>2. CASE \E f \in SUBSET Flags : Ran(p, f)
    BY <1>1, <2>2, RanHolds
  <2>3. CASE UNCHANGED p_stat
    BY <2>3 DEF StopHeld
  <2> QED BY <2>1, <2>2, <2>3 DEF SignalOutcome
<1>6. CASE \E p \in Proc : PrStop(p)
  <2>1. PICK p \in Proc : p_stat' \in {p_stat, [p_stat EXCEPT ![p] = "SSTOP"]}
    BY <1>6 DEF PrStop, Stop
  <2> QED BY <1>1, <2>1 DEF StopHeld, ProcTypeOK
<1>7. CASE \E p \in Proc : PrRun(p)
  <2>1. PICK p \in Proc : PrRun(p)
    BY <1>7
  <2>2. p_flag[p] \cup {"SPSTART"} \in SUBSET Flags
    BY <1>1 DEF ProcTypeOK, Flags
  <2>3. Ran(p, p_flag[p] \cup {"SPSTART"})
    BY <1>1, <2>1, SetrunRuns DEF PrRun
  <2> QED BY <1>1, <2>2, <2>3, RanHolds
<1>8. CASE UNCHANGED vars
  BY <1>8 DEF vars, StopHeld
<1> QED BY <1>2, <1>3, <1>4, <1>5, <1>6, <1>7, <1>8 DEF Next, InSleep, Others

\* A wakeup, or any signal but SIGKILL, never ends a stop by itself: a stopped
\* process is set running only when job control and /proc have both let it go.
THEOREM StopsAreHeld == Spec => StopsHold
<1>1. Inv /\ [Next]_vars =>
        [\A p \in Proc : p_stat[p] = "SSTOP" /\ p_stat'[p] # "SSTOP" =>
            {"SXSTART", "SPSTART"} \subseteq p_flag'[p]]_vars
  BY NextHolds DEF StopHeld
<1> QED BY <1>1, Invariance, PTL DEF Spec, StopsHold

-----------------------------------------------------------------------------
(* Slp implements KSleep *)

\* The wakeups of slp.c are wakeups of KSleep.
LEMMA WokenAbstract ==
    ASSUME NEW W, NEW c \in Chan, ProcTypeOK, Woken(W), \A p \in W : p_wchan[p] = c
    PROVE  K!SleepOrWake(Chan)
<1> DEFINE P == W \cap Proc
<1>1. p_wchan' = [p \in Proc |-> IF p \in P THEN NoChan ELSE p_wchan[p]]
  BY DEF Woken
<1>2. P \in SUBSET Proc /\ K!WakeSome(c, P)
  BY <1>1 DEF K!WakeSome
<1> QED BY <1>2 DEF K!SleepOrWake

\* A process that leaves its queue alone is one that setrun or unsleep took
\* off it.
LEMMA OffQueueAbstract ==
    ASSUME NEW p \in Proc, ProcTypeOK, OffQueue(p)
    PROVE  [K!SleepOrWake(Chan)]_p_wchan
<1>1. CASE p_wchan[p] = NoChan
  BY <1>1 DEF OffQueue, ProcTypeOK
<1>2. CASE p_wchan[p] # NoChan
  BY <1>2 DEF OffQueue, K!SleepOrWake, K!Setrun, K!Asleep
<1> QED BY <1>1, <1>2

\* Every step of Slp is a step of KSleep, or leaves the channels alone.
LEMMA StepAbstract == Inv /\ [Next]_vars => [K!SleepOrWake(Chan)]_p_wchan
<1> SUFFICES ASSUME Inv, [Next]_vars PROVE [K!SleepOrWake(Chan)]_p_wchan
  OBVIOUS
<1>1. ProcTypeOK
  BY DEF Inv
<1>2. CASE \E p \in Proc : \E c \in Chan, disp \in Disps : Sleep(p, c, disp)
  <2>1. PICK p \in Proc, c \in Chan, disp \in Disps : Sleep(p, c, disp)
    BY <1>2
  <2>2. p_stat[p] = "SONPROC" /\ Good(p)
    BY <2>1, InvParts DEF Sleep
  <2>3. ~ K!Asleep(p) /\ K!GoToSleep(p, c)
    BY <2>1, <2>2 DEF Sleep, Good, K!Asleep, K!GoToSleep
  <2> QED BY <2>3 DEF K!SleepOrWake
<1>3. CASE \E c \in Chan : Wakeprocs(c) \/ WakeOneproc(c)
  BY <1>1, <1>3, WakeprocsWakes, WakeOneprocWakes, WokenAbstract
<1>4. CASE \E p \in Proc : OffQueue(p)
  BY <1>1, <1>4, OffQueueAbstract
<1>5. CASE UNCHANGED p_wchan
  BY <1>5
<1>6. \/ \E p \in Proc : \E c \in Chan, disp \in Disps : Sleep(p, c, disp)
      \/ \E c \in Chan : Wakeprocs(c) \/ WakeOneproc(c)
      \/ \E p \in Proc : OffQueue(p)
      \/ UNCHANGED p_wchan
  <2>1. CASE \E p \in Proc : IssigSignal(p)
    BY <1>1, <2>1, UnsleepChannel DEF IssigSignal, queueVars
  <2>2. CASE \E p \in Proc : \/ IssigStop(p) \/ IssigFalse(p) \/ SleepNwake(p) \/ Psig(p)
                             \/ Dispatch(p) \/ Preempt(p) \/ PrStop(p)
    BY <2>2 DEF IssigStop, IssigFalse, SleepNwake, Psig, Dispatch, Preempt, PrStop, queueVars
  <2>3. CASE \E p \in Proc, sig \in Signals : Psignal(p, sig)
    BY <1>1, <2>3, PsignalOutcome DEF SignalOutcome, Ran
  <2>4. CASE \E p \in Proc : PrRun(p)
    BY <1>1, <2>4, SetrunRuns DEF PrRun, Ran
  <2>5. CASE UNCHANGED vars
    BY <2>5 DEF vars, queueVars
  <2> QED BY <2>1, <2>2, <2>3, <2>4, <2>5 DEF Next, InSleep, Others
<1> QED BY <1>2, <1>3, <1>4, <1>5, <1>6

\* The queues of slp.c keep the promise the rest of the kernel relies on: a
\* process enters one channel at a time, and leaves it by a wakeup of that
\* channel or alone.
THEOREM SlpImplementsKSleep == Spec => ImplementsKSleep
<1>1. Init => K!NobodyAsleep
  BY DEF Init, K!NobodyAsleep
<1> QED BY <1>1, StepAbstract, Invariance, PTL DEF Spec, ImplementsKSleep

-----------------------------------------------------------------------------
(* The links of the queues *)

LinkTypeOK ==
    /\ p_link \in [Proc -> Proc \cup {Null}]
    /\ sq_first \in [Bucket -> Proc \cup {Null}]
    /\ sq_last \in [Bucket -> Proc \cup {Null}]

\* p sleeps on a channel of bucket b
OnBucket(p, b) == p_wchan[p] # NoChan /\ sqhash[p_wchan[p]] = b

\* q lists the processes of bucket b in the order of their links
IsList(q, b) ==
    /\ q \in Seq(Proc)
    /\ \A i, j \in 1..Len(q) : q[i] = q[j] => i = j
    /\ \A p \in Proc : OnBucket(p, b) <=> \E i \in 1..Len(q) : q[i] = p
    /\ sq_first[b] = IF Len(q) = 0 THEN Null ELSE q[1]
    /\ sq_last[b] = IF Len(q) = 0 THEN Null ELSE q[Len(q)]
    /\ \A i \in 1..Len(q) : p_link[q[i]] = IF i = Len(q) THEN Null ELSE q[i + 1]

\* The inductive invariant of the links
ListInv == LinkTypeOK /\ \A b \in Bucket : \E q : IsList(q, b)

\* A queue holds at most every process.
LEMMA ListLength ==
    ASSUME NEW b \in Bucket, NEW q, IsList(q, b)
    PROVE  Len(q) = Cardinality(Range(q)) /\ Len(q) <= Cardinality(Proc)
<1>1. q \in Seq(Proc) /\ Len(q) \in Nat
  BY DEF IsList
<1>2. Range(q) = {q[i] : i \in 1..Len(q)}
  BY <1>1 DEF Range
<1>3. Cardinality(Range(q)) = Len(q)
  <2>1. \A i, j \in 1..Len(q) : q[i] = q[j] => i = j
    BY DEF IsList
  <2> DEFINE l == Len(q)
  <2>2. l \in Nat /\ \A i, j \in 1..l : q[i] = q[j] => i = j
    BY <1>1, <2>1
  <2> HIDE DEF l
  <2> DEFINE R == Range(q)
  <2>3. \A x : x \in R <=> \E i \in 1..l : x = q[i]
    BY <1>2 DEF l
  <2> HIDE DEF R
  <2>4. Cardinality(R) = l
    BY <2>2, <2>3, InjectiveLength
  <2> QED BY <2>4 DEF l, R
<1>4. Range(q) \subseteq Proc
  BY <1>1, <1>2
<1> QED BY <1>3, <1>4, FS_Subset, ConstantsAssumption

\* The walk of unsleep and wakeprocs along the links meets every process of the
\* list, in its order, and ends.
LEMMA QueueIsList ==
    ASSUME NEW b \in Bucket, NEW q, IsList(q, b), LinkTypeOK
    PROVE  Queue(b) = q
<1> DEFINE next(s) == IF s = <<>> THEN sq_first[b] ELSE p_link[Last(s)]
           to(s) == IF next(s) = Null THEN s ELSE Append(s, next(s))
           step == [s \in Seq(Proc) |-> to(s)]
           IsWalk(w) == w = [n \in Nat |-> IF n = 0 THEN <<>> ELSE to(w[n - 1])]
           walk == CHOOSE w : IsWalk(w)
           N == Cardinality(Proc)
           l == Len(q)
           part == [n \in 0..l |-> [i \in 1..n |-> q[i]]]
<1>1. q \in Seq(Proc)
  BY DEF IsList
<1>2. l \in Nat /\ N \in Nat /\ l <= N
  BY <1>1, ListLength, ConstantsAssumption, FS_CardinalityType
<1>3. IsWalk(walk)
  <2>1. step \in [Seq(Proc) -> Seq(Proc)] /\ <<>> \in Seq(Proc)
    <3>1. ASSUME NEW s \in Seq(Proc) PROVE to(s) \in Seq(Proc)
      <4>1. s # <<>> => Last(s) \in Proc
        BY DEF Last
      <4>2. next(s) \in Proc \cup {Null}
        BY <4>1 DEF LinkTypeOK
      <4> HIDE DEF next
      <4> QED BY <4>2
    <3> QED BY <3>1
  <2>2. PICK f \in [Nat -> Seq(Proc)] : f[0] = <<>> /\ \A n \in Nat : f[n + 1] = step[f[n]]
    <3> DEFINE V == Seq(Proc)
               e == <<>>
    <3>1. e \in V /\ step \in [V -> V]
      BY <2>1
    <3> HIDE DEF step, V, e
    <3>2. \E f \in [Nat -> V] : f[0] = e /\ \A n \in Nat : f[n + 1] = step[f[n]]
      BY <3>1, Iteration
    <3> QED BY <3>2 DEF V, e
  <2>3. ASSUME NEW n \in Nat, n # 0 PROVE f[n] = to(f[n - 1])
    <3>1. n - 1 \in Nat /\ n = (n - 1) + 1
      BY <2>3
    <3>2. f[n] = step[f[n - 1]] /\ f[n - 1] \in Seq(Proc)
      BY <2>2, <3>1
    <3> HIDE DEF to
    <3> QED BY <3>2
  <2>4. IsWalk(f)
    <3> HIDE DEF to
    <3> QED BY <2>2, <2>3
  <2> HIDE DEF IsWalk
  <2> QED BY <2>4
<1>4. walk[0] = <<>> /\ \A n \in Nat : walk[n + 1] = to(walk[n])
  <2> HIDE DEF to, walk
  <2>1. \A n \in Nat : n + 1 \in Nat /\ n + 1 # 0 /\ (n + 1) - 1 = n
    OBVIOUS
  <2> QED BY <1>3, <2>1
<1>5. ASSUME NEW n \in 0..l
      PROVE  /\ part[n] \in Seq(Proc) /\ Len(part[n]) = n
             /\ n # 0 => part[n][n] = q[n]
             /\ n < l => Append(part[n], q[n + 1]) = part[n + 1]
  <2> DEFINE s == [i \in 1..n |-> q[i]]
             t == [i \in 1..(n + 1) |-> q[i]]
  <2>1. /\ s \in Seq(Proc) /\ Len(s) = n
        /\ n < l => Append(s, q[n + 1]) = t
    BY <1>1, Prefix
  <2> HIDE DEF l
  <2>2. part[n] = s /\ (n < l => part[n + 1] = t) /\ (n # 0 => s[n] = q[n])
    BY <1>2
  <2> HIDE DEF s, t, part
  <2> QED BY <2>1, <2>2
<1>6. part[0] = <<>> /\ part[l] = q
  <2>1. q = [i \in 1..l |-> q[i]]
    BY <1>1, LenProperties
  <2> HIDE DEF l
  <2> QED BY <1>2, <2>1
<1>7. \A n \in 1..l : q[n] \in Proc /\ q[n] # Null
  <2>1. \A n \in 1..l : q[n] \in Proc
    BY <1>1, ElementOfSeq
  <2> QED BY <2>1, ConstantsAssumption
<1>8. /\ sq_first[b] = IF l = 0 THEN Null ELSE q[1]
      /\ \A i \in 1..l : p_link[q[i]] = IF i = l THEN Null ELSE q[i + 1]
  BY DEF IsList
<1>9. q = <<>> <=> l = 0
  BY <1>1, EmptySeq
<1> HIDE DEF walk, part, N, l
<1>10. ASSUME NEW n \in 0..l, walk[n] = part[n], n < l
       PROVE  walk[n + 1] = part[n + 1]
  <2>1. n + 1 \in 1..l /\ n \in Nat
    BY <1>2, <1>10
  <2>2. next(part[n]) = q[n + 1]
    <3>1. CASE n = 0
      BY <1>6, <1>8, <1>10, <2>1, <3>1
    <3>2. CASE n # 0
      <4>1. n \in 1..l /\ n # l
        BY <1>2, <1>10, <3>2
      <4>2. part[n] # <<>> /\ Last(part[n]) = q[n]
        BY <1>5, <3>2, EmptySeq DEF Last
      <4> QED BY <1>8, <4>1, <4>2
    <3> QED BY <3>1, <3>2
  <2>3. next(part[n]) # Null
    BY <1>7, <2>1, <2>2
  <2> HIDE DEF next
  <2>4. to(part[n]) = Append(part[n], q[n + 1])
    BY <2>2, <2>3
  <2> HIDE DEF to
  <2> QED BY <1>4, <1>5, <1>10, <2>1, <2>4
<1>11. ASSUME NEW n \in Nat, walk[n] = q
       PROVE  walk[n + 1] = q
  <2>1. next(q) = Null
    <3>1. l # 0 => Last(q) = q[l] /\ l \in 1..l
      BY <1>2 DEF Last, l
    <3> QED BY <1>8, <1>9, <3>1
  <2> HIDE DEF next
  <2> QED BY <1>4, <1>11, <2>1
<1>12. \A n \in Nat : walk[n] = IF n <= l THEN part[n] ELSE q
  <2> DEFINE S == {n \in Nat : walk[n] = IF n <= l THEN part[n] ELSE q}
  <2>1. 0 \in S
    BY <1>2, <1>4, <1>6
  <2>2. ASSUME NEW n \in Nat, n \in S PROVE n + 1 \in S
    <3>1. CASE n < l
      BY <1>2, <1>10, <2>2, <3>1
    <3>2. CASE ~ (n < l)
      <4>1. walk[n] = q
        BY <1>2, <1>6, <2>2, <3>2
      <4> QED BY <1>2, <1>11, <3>2, <4>1
    <3> QED BY <3>1, <3>2
  <2> HIDE DEF S
  <2>3. \A n \in Nat : n \in S
    BY <2>1, <2>2, SetInduction
  <2> QED BY <2>3 DEF S
<1>13. Queue(b) = walk[N + 1]
  BY DEF Queue, walk, N
<1> QED BY <1>2, <1>12, <1>13

\* A queue that a step does not touch stays as it is.
LEMMA OtherQueue ==
    ASSUME NEW b \in Bucket, NEW q, IsList(q, b),
           sq_first'[b] = sq_first[b], sq_last'[b] = sq_last[b],
           \A p \in Proc : OnBucket(p, b)' <=> OnBucket(p, b),
           \A p \in Proc : OnBucket(p, b) => p_link'[p] = p_link[p]
    PROVE  IsList(q, b)'
<1>1. \A i \in 1..Len(q) : q[i] \in Proc /\ OnBucket(q[i], b)
  BY ElementOfSeq DEF IsList
<1> QED BY <1>1 DEF IsList

\* The places of the processes that stay on queue q without those of W are
\* h[1], h[2] ... h[m], and NextKept leads from one to the next
Places(q, W, m, h) ==
    /\ \A i, j \in 1..m : i < j => h[i] < h[j]
    /\ \A i \in 1..m : q[h[i]] \notin W
    /\ \A k \in 1..Len(q) : q[k] \notin W => \E i \in 1..m : h[i] = k
    /\ NextKept(q, W, 0) = IF m = 0 THEN Null ELSE q[h[1]]
    /\ LastKept(q, W) = IF m = 0 THEN Null ELSE q[h[m]]
    /\ \A i \in 1..m : NextKept(q, W, h[i]) = IF i = m THEN Null ELSE q[h[i + 1]]

\* What wakeprocs leaves of a queue is in the order it was in.
LEMMA KeptPlaces ==
    ASSUME NEW q \in Seq(Proc), NEW W
    PROVE  \E m \in Nat : \E h \in [1..m -> 1..Len(q)] : Places(q, W, m, h)
<1> DEFINE l == Len(q)
           Stay == {k \in 1..l : q[k] \notin W}
<1>1. l \in Nat /\ Stay \in SUBSET (1..l) /\ DOMAIN q = 1..l
  BY LenProperties
<1>2. PICK m \in Nat : \E h \in [1..m -> Stay] :
             /\ \A i, j \in 1..m : i < j => h[i] < h[j]
             /\ \A k \in Stay : \E i \in 1..m : h[i] = k
  <2> HIDE DEF Stay, l
  <2> QED BY <1>1, Enumeration
<1>3. PICK h \in [1..m -> Stay] :
             /\ \A i, j \in 1..m : i < j => h[i] < h[j]
             /\ \A k \in Stay : \E i \in 1..m : h[i] = k
  BY <1>2
<1>4. ASSUME NEW i \in 0..m, NEW j \in 0..l,
             i = 0 => j = 0, i # 0 => j = h[i]
      PROVE  NextKept(q, W, j) = IF i = m THEN Null ELSE q[h[i + 1]]
  <2> DEFINE kept == {k \in DOMAIN q : k > j /\ q[k] \notin W}
  <2>1. kept = {k \in Stay : k > j}
    BY <1>1
  <2>2. CASE i = m
    <3>1. \A k \in Stay : ~ (k > j)
      <4> SUFFICES ASSUME NEW k \in Stay PROVE k <= j
        BY <1>1
      <4>1. PICK n \in 1..m : h[n] = k
        BY <1>3
      <4>2. m # 0 /\ m \in 1..m /\ j = h[m]
        BY <1>4, <2>2
      <4>3. n = m \/ h[n] < h[m]
        BY <1>3, <4>2
      <4> QED BY <1>1, <4>1, <4>2, <4>3
    <3>2. kept = {}
      <4> HIDE DEF Stay
      <4> QED BY <2>1, <3>1
    <3> QED BY <2>2, <3>2 DEF NextKept
  <2>3. CASE i # m
    <3>1. i + 1 \in 1..m /\ h[i + 1] \in Stay
      BY <2>3
    <3>2. h[i + 1] > j
      BY <1>1, <1>3, <1>4, <3>1
    <3>3. ASSUME NEW k \in Stay, k > j PROVE h[i + 1] <= k
      <4>1. PICK n \in 1..m : h[n] = k
        BY <1>3
      <4>2. ~ (n < i) /\ n # i
        BY <1>1, <1>3, <1>4, <3>3, <4>1
      <4>3. n = i + 1 \/ i + 1 < n
        BY <4>2
      <4>4. n = i + 1 \/ h[i + 1] < h[n]
        BY <1>3, <3>1, <4>3
      <4> QED BY <1>1, <3>1, <4>1, <4>4
    <3>4. h[i + 1] \in kept /\ \A k \in kept : h[i + 1] <= k
      BY <2>1, <3>1, <3>2, <3>3
    <3>5. \A x \in kept : (\A y \in kept : x <= y) => x = h[i + 1]
      BY <1>1, <3>4
    <3>6. Min(kept) = h[i + 1] /\ kept # {}
      <4> HIDE DEF kept
      <4> QED BY <3>4, <3>5 DEF Min
    <3> QED BY <2>3, <3>6 DEF NextKept
  <2> QED BY <2>2, <2>3
<1>5. LastKept(q, W) = IF m = 0 THEN Null ELSE q[h[m]]
  <2>1. {k \in DOMAIN q : q[k] \notin W} = Stay
    BY <1>1
  <2>2. CASE m = 0
    <3>1. Stay = {}
      BY <1>3, <2>2
    <3> HIDE DEF Stay
    <3> QED BY <2>1, <2>2, <3>1 DEF LastKept
  <2>3. CASE m # 0
    <3>1. m \in 1..m /\ h[m] \in Stay
      BY <2>3
    <3>2. ASSUME NEW k \in Stay PROVE k <= h[m]
      <4>1. PICK n \in 1..m : h[n] = k
        BY <1>3
      <4>2. n = m \/ h[n] < h[m]
        BY <1>3, <3>1
      <4> QED BY <1>1, <3>1, <4>1, <4>2
    <3>3. \A x \in Stay : (\A y \in Stay : x >= y) => x = h[m]
      BY <1>1, <3>1, <3>2
    <3>4. Max(Stay) = h[m] /\ Stay # {}
      <4>1. \A k \in Stay : h[m] >= k
        BY <1>1, <3>1, <3>2
      <4> HIDE DEF Stay
      <4> QED BY <3>1, <3>3, <4>1 DEF Max
    <3> HIDE DEF Stay
    <3> QED BY <2>1, <2>3, <3>4 DEF LastKept
  <2> QED BY <2>2, <2>3
<1>6. /\ NextKept(q, W, 0) = IF m = 0 THEN Null ELSE q[h[1]]
      /\ \A i \in 1..m : NextKept(q, W, h[i]) = IF i = m THEN Null ELSE q[h[i + 1]]
  <2>1. \A i \in 1..m : h[i] \in 0..l /\ i \in 0..m /\ i # 0
    BY <1>1
  <2>2. 0 \in 0..m /\ 0 \in 0..l /\ 0 + 1 = 1
    BY <1>1
  <2> HIDE DEF l, Stay
  <2> QED BY <1>4, <2>1, <2>2
<1>7. h \in [1..m -> 1..l] /\ \A i \in 1..m : q[h[i]] \notin W
  BY <1>1
<1>8. \A k \in 1..l : q[k] \notin W => \E i \in 1..m : h[i] = k
  BY <1>3
<1>9. \A i, j \in 1..m : i < j => h[i] < h[j]
  BY <1>3
<1> HIDE DEF Stay
<1>10. Places(q, W, m, h)
  BY <1>5, <1>6, <1>7, <1>8, <1>9 DEF Places
<1> QED BY <1>7, <1>10

\* wakeprocs and wake_oneproc leave a list: the processes taken off are no
\* longer on it, and the others stand in the order they stood in.
LEMMA UnlinkList ==
    ASSUME NEW b \in Bucket, NEW q, IsList(q, b), LinkTypeOK, ProcTypeOK,
           NEW W \in SUBSET Range(q), Unlink(b, W),
           sq_last' = [sq_last EXCEPT ![b] = LastKept(q, W)]
    PROVE  LinkTypeOK' /\ \E r : IsList(r, b)'
<1> DEFINE l == Len(q)
<1>0. q \in Seq(Proc)
  BY DEF IsList
<1>1. /\ Queue(b) = q
      /\ \A p \in Proc : OnBucket(p, b) <=> \E i \in 1..l : q[i] = p
  BY QueueIsList DEF IsList
<1>13. \A i, j \in 1..l : q[i] = q[j] => i = j
  BY DEF IsList
<1>2. l \in Nat /\ DOMAIN q = 1..l /\ \A i \in 1..l : q[i] \in Proc
  BY <1>0, LenProperties, ElementOfSeq
<1>3. PICK m \in Nat : \E h \in [1..m -> 1..l] : Places(q, W, m, h)
  BY <1>0, KeptPlaces
<1>4. PICK h \in [1..m -> 1..l] : Places(q, W, m, h)
  BY <1>3
<1>14. \A i, j \in 1..m : i < j => h[i] < h[j]
  BY <1>4 DEF Places
<1>15. /\ \A i \in 1..m : q[h[i]] \notin W
       /\ \A k \in 1..l : q[k] \notin W => \E i \in 1..m : h[i] = k
  BY <1>4 DEF Places
<1>16. /\ NextKept(q, W, 0) = IF m = 0 THEN Null ELSE q[h[1]]
       /\ LastKept(q, W) = IF m = 0 THEN Null ELSE q[h[m]]
       /\ \A i \in 1..m : NextKept(q, W, h[i]) = IF i = m THEN Null ELSE q[h[i + 1]]
  BY <1>4 DEF Places
<1> HIDE DEF l
<1> DEFINE r == [i \in 1..m |-> q[h[i]]]
<1>5. r \in [1..m -> Proc] /\ \A i \in 1..m : r[i] = q[h[i]] /\ h[i] \in 1..l
  BY <1>2
<1> HIDE DEF r
<1>6. r \in Seq(Proc) /\ Len(r) = m
  BY <1>5, FunctionIsSeq
<1>7. \A i, j \in 1..m : r[i] = r[j] => i = j
  <2> SUFFICES ASSUME NEW i \in 1..m, NEW j \in 1..m, r[i] = r[j] PROVE i = j
    OBVIOUS
  <2>1. h[i] = h[j]
    BY <1>5, <1>13
  <2>2. h[i] \in Int /\ h[j] \in Int
    BY <1>2, <1>5
  <2> QED BY <1>14, <2>1, <2>2
<1>8. \A p \in Proc : OnBucket(p, b)' <=> \E i \in 1..m : r[i] = p
  <2> SUFFICES ASSUME NEW p \in Proc PROVE OnBucket(p, b)' <=> \E i \in 1..m : r[i] = p
    OBVIOUS
  <2>1. OnBucket(p, b)' <=> OnBucket(p, b) /\ p \notin W
    BY DEF Unlink, OnBucket
  <2>2. ASSUME OnBucket(p, b), p \notin W PROVE \E i \in 1..m : r[i] = p
    <3>1. PICK k \in 1..l : q[k] = p
      BY <1>1, <2>2
    <3>2. PICK i \in 1..m : h[i] = k
      BY <1>15, <2>2, <3>1
    <3> QED BY <1>5, <3>1, <3>2
  <2>3. ASSUME NEW i \in 1..m, r[i] = p PROVE OnBucket(p, b) /\ p \notin W
    <3>1. h[i] \in 1..l /\ q[h[i]] = p /\ q[h[i]] \notin W
      BY <1>5, <1>15, <2>3
    <3> QED BY <1>1, <3>1
  <2> QED BY <2>1, <2>2, <2>3
<1>9. ASSUME NEW i \in 1..m PROVE p_link'[r[i]] = IF i = m THEN Null ELSE r[i + 1]
  <2>1. r[i] \in Range(q) /\ r[i] \in Proc /\ r[i] \notin W
    BY <1>2, <1>5, <1>15 DEF Range
  <2>2. (CHOOSE j \in DOMAIN q : q[j] = r[i]) = h[i]
    <3>1. \A j \in 1..l : q[j] = r[i] <=> j = h[i]
      BY <1>5, <1>13
    <3> QED BY <1>2, <1>5, <3>1
  <2>3. p_link'[r[i]] = NextKept(q, W, h[i])
    BY <1>1, <2>1, <2>2 DEF Unlink
  <2>4. i # m => i + 1 \in 1..m
    OBVIOUS
  <2> QED BY <1>5, <1>16, <2>3, <2>4
<1>10. /\ sq_first'[b] = IF m = 0 THEN Null ELSE r[1]
       /\ sq_last'[b] = IF m = 0 THEN Null ELSE r[m]
  <2>1. sq_first'[b] = NextKept(q, W, 0) /\ sq_last'[b] = LastKept(q, W)
    BY <1>1 DEF Unlink, LinkTypeOK
  <2>2. m # 0 => 1 \in 1..m /\ m \in 1..m
    OBVIOUS
  <2> QED BY <1>5, <1>16, <2>1, <2>2
<1>11. IsList(r, b)'
  BY <1>6, <1>7, <1>8, <1>9, <1>10 DEF IsList
<1>12. LinkTypeOK'
  <2>1. NextKept(q, W, 0) \in Proc \cup {Null} /\ LastKept(q, W) \in Proc \cup {Null}
    <3>1. m # 0 => 1 \in 1..m /\ m \in 1..m
      OBVIOUS
    <3> QED BY <1>2, <1>5, <1>16, <3>1
  <2>2. sq_first' \in [Bucket -> Proc \cup {Null}] /\ sq_last' \in [Bucket -> Proc \cup {Null}]
    BY <1>1, <2>1 DEF Unlink, LinkTypeOK
  <2>3. ASSUME NEW p \in Proc PROVE p_link'[p] \in Proc \cup {Null}
    <3>1. CASE p \in W
      BY <3>1 DEF Unlink
    <3>2. CASE p \notin W /\ p \notin Range(q)
      BY <1>1, <3>2 DEF Unlink, LinkTypeOK
    <3>3. CASE p \notin W /\ p \in Range(q)
      <4>1. PICK k \in 1..l : q[k] = p
        BY <1>2, <3>3 DEF Range
      <4>2. PICK i \in 1..m : h[i] = k
        BY <1>15, <3>3, <4>1
      <4>3. i # m => i + 1 \in 1..m
        OBVIOUS
      <4> QED BY <1>5, <1>9, <4>1, <4>2, <4>3
    <3> QED BY <3>1, <3>2, <3>3
  <2>4. p_link' \in [Proc -> Proc \cup {Null}]
    BY <2>3 DEF Unlink
  <2> QED BY <2>2, <2>4 DEF LinkTypeOK
<1> QED BY <1>11, <1>12

\* unsleep leaves a list, wherever in it the process stood.
LEMMA UnsleepList ==
    ASSUME NEW p \in Proc, p_wchan[p] # NoChan, NEW b \in Bucket, b = sqhash[p_wchan[p]],
           NEW q, IsList(q, b), LinkTypeOK, ProcTypeOK, Unsleep(p)
    PROVE  LinkTypeOK' /\ \E r : IsList(r, b)'
<1> DEFINE l == Len(q)
<1>0. q \in Seq(Proc)
  BY DEF IsList
<1>17. \A i, j \in 1..l : q[i] = q[j] => i = j
  BY DEF IsList
<1>1. /\ Queue(b) = q
      /\ \A x \in Proc : OnBucket(x, b) <=> \E i \in 1..l : q[i] = x
      /\ sq_first[b] = IF l = 0 THEN Null ELSE q[1]
      /\ sq_last[b] = IF l = 0 THEN Null ELSE q[l]
      /\ \A i \in 1..l : p_link[q[i]] = IF i = l THEN Null ELSE q[i + 1]
  BY QueueIsList DEF IsList
<1>2. l \in Nat /\ \A i \in 1..l : q[i] \in Proc /\ q[i] # Null
  BY <1>0, LenProperties, ElementOfSeq, ConstantsAssumption
<1>3. PICK k \in 1..l : q[k] = p
  BY <1>1 DEF OnBucket
<1>4. q # <<>> /\ Head(q) = q[1]
  <2>1. l # 0
    BY <1>2
  <2> QED BY <1>0, <2>1, HeadTailProperties, EmptySeq
<1> HIDE DEF l
<1> DEFINE prp == IF k = 1 THEN Null ELSE q[k - 1]
           r == [i \in 1..(l - 1) |-> IF i < k THEN q[i] ELSE q[i + 1]]
<1>5. Before(q, p) = prp
  <2>1. CASE k = 1
    BY <1>3, <1>4, <2>1 DEF Before
  <2>2. CASE k # 1
    <3>1. Head(q) # p
      BY <1>2, <1>3, <1>4, <1>17, <2>2
    <3>2. \A i \in 1..(l - 1) : q[i + 1] = p <=> i = k - 1
      BY <1>2, <1>3, <1>17
    <3>3. k - 1 \in 1..(l - 1)
      BY <1>2, <2>2
    <3>4. (CHOOSE i \in 1..(Len(q) - 1) : q[i + 1] = p) = k - 1
      BY <3>2, <3>3 DEF l
    <3>5. Before(q, p) = q[k - 1]
      BY <3>1, <3>4 DEF Before
    <3> QED BY <2>2, <3>5
  <2> QED BY <2>1, <2>2
<1>6. /\ p_wchan' = [p_wchan EXCEPT ![p] = NoChan]
      /\ IF prp = Null
         THEN /\ sq_first' = [sq_first EXCEPT ![b] = p_link[p]]
              /\ p_link' = [p_link EXCEPT ![p] = Null]
         ELSE /\ p_link' = [p_link EXCEPT ![prp] = p_link[p], ![p] = Null]
              /\ UNCHANGED sq_first
      /\ sq_last' = [sq_last EXCEPT ![b] = IF p_link[p] = Null THEN prp ELSE @]
  BY <1>1, <1>5 DEF Unsleep
<1>7. r \in [1..(l - 1) -> Proc] /\ l - 1 \in Nat
  BY <1>2, <1>3
<1>8. \A i \in 1..(l - 1) : r[i] = IF i < k THEN q[i] ELSE q[i + 1]
  OBVIOUS
<1>9. /\ p_link[p] = IF k = l THEN Null ELSE q[k + 1]
      /\ prp = Null <=> k = 1
      /\ prp # Null => prp \in Proc /\ prp = q[k - 1]
      /\ p_link[p] = Null <=> k = l
  BY <1>1, <1>2, <1>3
<1> HIDE DEF r, prp
<1>10. r \in Seq(Proc) /\ Len(r) = l - 1
  BY <1>7, FunctionIsSeq
<1>11. \A i, j \in 1..(l - 1) : r[i] = r[j] => i = j
  <2> SUFFICES ASSUME NEW i \in 1..(l - 1), NEW j \in 1..(l - 1), r[i] = r[j] PROVE i = j
    OBVIOUS
  <2> DEFINE x == IF i < k THEN i ELSE i + 1
             y == IF j < k THEN j ELSE j + 1
  <2>1. x \in 1..l /\ y \in 1..l /\ r[i] = q[x] /\ r[j] = q[y]
    BY <1>2, <1>8
  <2>2. x = y
    <3> HIDE DEF x, y
    <3> QED BY <1>17, <2>1
  <2> QED BY <1>2, <2>2
<1>12. \A x \in Proc : OnBucket(x, b)' <=> \E i \in 1..(l - 1) : r[i] = x
  <2> SUFFICES ASSUME NEW x \in Proc
               PROVE  OnBucket(x, b)' <=> \E i \in 1..(l - 1) : r[i] = x
    OBVIOUS
  <2>1. OnBucket(x, b)' <=> OnBucket(x, b) /\ x # p
    BY <1>6 DEF OnBucket, ProcTypeOK
  <2>2. ASSUME OnBucket(x, b), x # p PROVE \E i \in 1..(l - 1) : r[i] = x
    <3>1. PICK j \in 1..l : q[j] = x
      BY <1>1, <2>2
    <3>2. j # k
      BY <1>3, <2>2, <3>1
    <3>3. CASE j < k
      <4>1. j \in 1..(l - 1) /\ r[j] = x
        BY <1>2, <1>8, <3>1, <3>3
      <4> QED BY <4>1
    <3>4. CASE j > k
      <4>1. j - 1 \in 1..(l - 1) /\ ~ (j - 1 < k) /\ (j - 1) + 1 = j
        BY <1>2, <3>4
      <4> QED BY <1>8, <3>1, <4>1
    <3> QED BY <1>2, <3>2, <3>3, <3>4
  <2>3. ASSUME NEW i \in 1..(l - 1), r[i] = x PROVE OnBucket(x, b) /\ x # p
    <3> DEFINE j == IF i < k THEN i ELSE i + 1
    <3>1. j \in 1..l /\ j # k /\ q[j] = x
      BY <1>2, <1>8, <2>3
    <3> HIDE DEF j
    <3> QED BY <1>1, <1>3, <1>17, <3>1
  <2> QED BY <2>1, <2>2, <2>3
<1>13. ASSUME NEW i \in 1..(l - 1)
       PROVE  p_link'[r[i]] = IF i = l - 1 THEN Null ELSE r[i + 1]
  <2>1. CASE i < k - 1
    <3>1. i \in 1..l /\ i # l /\ r[i] = q[i] /\ r[i + 1] = q[i + 1] /\ i # l - 1
      BY <1>2, <1>8, <2>1
    <3>2. q[i] # p /\ q[i] # prp
      <4>1. k - 1 \in 1..l /\ k # 1
        BY <1>2, <2>1
      <4> QED BY <1>3, <1>9, <1>17, <2>1, <3>1, <4>1
    <3>3. p_link'[q[i]] = p_link[q[i]]
      BY <1>2, <1>6, <3>1, <3>2 DEF LinkTypeOK
    <3> QED BY <1>1, <3>1, <3>3
  <2>2. CASE i = k - 1
    <3>1. i \in 1..l /\ k # 1 /\ r[i] = q[i] /\ q[i] # p /\ q[i] = prp
      BY <1>2, <1>3, <1>8, <1>9, <1>17, <2>2
    <3>2. p_link'[q[i]] = p_link[p]
      BY <1>2, <1>6, <1>9, <3>1 DEF LinkTypeOK
    <3>3. k # l => r[i + 1] = q[k + 1] /\ i # l - 1
      BY <1>2, <1>8, <2>2
    <3>4. k = l => i = l - 1
      BY <2>2
    <3> QED BY <1>9, <3>1, <3>2, <3>3, <3>4
  <2>3. CASE i > k - 1
    <3>1. i + 1 \in 1..l /\ r[i] = q[i + 1] /\ i + 1 # k /\ i + 1 # k - 1
      BY <1>2, <1>8, <2>3
    <3>2. q[i + 1] # p /\ q[i + 1] # prp
      <4>1. k # 1 => k - 1 \in 1..l
        BY <1>2
      <4> QED BY <1>2, <1>3, <1>9, <1>17, <3>1, <4>1
    <3>3. p_link'[q[i + 1]] = p_link[q[i + 1]]
      BY <1>2, <1>6, <3>1, <3>2 DEF LinkTypeOK
    <3>4. i # l - 1 => r[i + 1] = q[(i + 1) + 1] /\ i + 1 # l
      BY <1>2, <1>8, <2>3
    <3>5. i = l - 1 => i + 1 = l
      BY <1>2
    <3> QED BY <1>1, <3>1, <3>3, <3>4, <3>5
  <2> QED BY <1>2, <2>1, <2>2, <2>3
<1>14. /\ sq_first'[b] = IF l - 1 = 0 THEN Null ELSE r[1]
       /\ sq_last'[b] = IF l - 1 = 0 THEN Null ELSE r[l - 1]
  <2>1. CASE k = 1
    <3>1. sq_first'[b] = p_link[p]
      BY <1>6, <1>9, <2>1 DEF LinkTypeOK
    <3>2. l # 1 => r[1] = q[2] /\ r[l - 1] = q[l]
      BY <1>2, <1>8, <2>1
    <3>3. sq_last'[b] = IF k = l THEN Null ELSE q[l]
      BY <1>1, <1>2, <1>6, <1>9, <2>1 DEF LinkTypeOK
    <3> QED BY <1>2, <1>9, <2>1, <3>1, <3>2, <3>3
  <2>2. CASE k # 1
    <3>1. l - 1 # 0 /\ r[1] = q[1]
      BY <1>2, <1>8, <2>2
    <3>2. sq_first'[b] = q[1]
      BY <1>1, <1>2, <1>6, <1>9, <2>2
    <3>3. r[l - 1] = IF k = l THEN q[k - 1] ELSE q[l]
      BY <1>2, <1>8, <2>2
    <3>4. sq_last'[b] = IF k = l THEN q[k - 1] ELSE q[l]
      BY <1>1, <1>2, <1>6, <1>9, <2>2 DEF LinkTypeOK
    <3> QED BY <3>1, <3>2, <3>3, <3>4
  <2> QED BY <2>1, <2>2
<1>15. IsList(r, b)'
  BY <1>10, <1>11, <1>12, <1>13, <1>14 DEF IsList
<1>16. LinkTypeOK'
  <2>1. p_link[p] \in Proc \cup {Null} /\ prp \in Proc \cup {Null}
    BY <1>9 DEF LinkTypeOK
  <2> QED BY <1>6, <2>1 DEF LinkTypeOK
<1> QED BY <1>15, <1>16

\* A wakeup leaves every queue a list.
LEMMA UnlinkLists ==
    ASSUME ListInv, ProcTypeOK, NEW b \in Bucket, NEW W \in SUBSET Range(Queue(b)),
           Unlink(b, W), sq_last' = [sq_last EXCEPT ![b] = LastKept(Queue(b), W)]
    PROVE  ListInv'
<1>1. PICK q : IsList(q, b)
  BY DEF ListInv
<1>2. LinkTypeOK /\ Queue(b) = q
  BY <1>1, QueueIsList DEF ListInv
<1>3. LinkTypeOK' /\ \E r : IsList(r, b)'
  BY <1>1, <1>2, UnlinkList
<1>4. \A p \in Proc : p \in Range(q) => OnBucket(p, b)
  BY <1>1, LenProperties DEF IsList, Range
<1>5. ASSUME NEW d \in Bucket, d # b PROVE \E r : IsList(r, d)'
  <2>1. PICK r : IsList(r, d)
    BY DEF ListInv
  <2>2. ASSUME NEW p \in Proc
        PROVE  /\ OnBucket(p, d)' <=> OnBucket(p, d)
               /\ OnBucket(p, d) => p_link'[p] = p_link[p]
    <3>1. OnBucket(p, d) => ~ OnBucket(p, b)
      BY <1>5 DEF OnBucket
    <3>2. p \in W => p \in Range(q)
      BY <1>2
    <3> QED BY <1>2, <1>4, <3>1, <3>2 DEF Unlink, OnBucket
  <2>3. sq_first'[d] = sq_first[d] /\ sq_last'[d] = sq_last[d]
    BY <1>2, <1>5 DEF Unlink, LinkTypeOK
  <2>4. IsList(r, d)'
    BY <2>1, <2>2, <2>3, OtherQueue
  <2> QED BY <2>4
<1> QED BY <1>3, <1>5 DEF ListInv

\* wakeprocs leaves every queue a list.
LEMMA WakeprocsLists ==
    ASSUME ListInv, ProcTypeOK, NEW c \in Chan, Wakeprocs(c)
    PROVE  ListInv'
<1> DEFINE b == sqhash[c]
           W == {p \in Range(Queue(b)) : p_wchan[p] = c}
<1>1. b \in Bucket
  BY ConstantsAssumption
<1>2. Unlink(b, W) /\ sq_last' = [sq_last EXCEPT ![b] = LastKept(Queue(b), W)]
  BY DEF Wakeprocs
<1>3. W \in SUBSET Range(Queue(b))
  OBVIOUS
<1> HIDE DEF b, W
<1> QED BY <1>1, <1>2, <1>3, UnlinkLists

\* wake_oneproc leaves every queue a list, although it corrects the last
\* process of the queue only when it took it off.
LEMMA WakeOneprocLists ==
    ASSUME ListInv, ProcTypeOK, NEW c \in Chan, WakeOneproc(c)
    PROVE  ListInv'
<1> DEFINE b == sqhash[c]
           q == Queue(b)
           W == {p \in Range(q) : p_wchan[p] = c /\
                  ~ \E i, j \in DOMAIN q : i < j /\ q[j] = p /\ p_wchan[q[i]] = c
                                                     /\ p_stat[q[i]] = "SSLEEP"}
<1>1. b \in Bucket
  BY ConstantsAssumption
<1>2. /\ Unlink(b, W)
      /\ sq_last' = [sq_last EXCEPT ![b] =
           IF q # <<>> /\ Last(q) \in W THEN LastKept(q, W) ELSE @]
  BY DEF WakeOneproc
<1>3. W \in SUBSET Range(q)
  OBVIOUS
<1>4. IsList(q, b)
  <2>1. PICK r : IsList(r, b)
    BY <1>1 DEF ListInv
  <2> QED BY <1>1, <2>1, QueueIsList DEF ListInv
<1> HIDE DEF b, W, q
<1>5. q \in Seq(Proc) /\ sq_last[b] = IF Len(q) = 0 THEN Null ELSE q[Len(q)]
  BY <1>4 DEF IsList
<1>6. ASSUME ~ (q # <<>> /\ Last(q) \in W) PROVE sq_last[b] = LastKept(q, W)
  <2>1. PICK m \in Nat : \E h \in [1..m -> 1..Len(q)] : Places(q, W, m, h)
    BY <1>5, KeptPlaces
  <2>2. PICK h \in [1..m -> 1..Len(q)] : Places(q, W, m, h)
    BY <2>1
  <2> DEFINE l == Len(q)
  <2>3. l \in Nat /\ (q = <<>> <=> l = 0) /\ Last(q) = q[l]
    BY <1>5, LenProperties, EmptySeq DEF Last
  <2>4. LastKept(q, W) = IF m = 0 THEN Null ELSE q[h[m]]
    BY <2>2 DEF Places
  <2>5. \A i, j \in 1..m : i < j => h[i] < h[j]
    BY <2>2 DEF Places
  <2>6. \A k \in 1..l : q[k] \notin W => \E i \in 1..m : h[i] = k
    BY <2>2 DEF Places
  <2>7. h \in [1..m -> 1..l]
    BY <2>2
  <2>8. sq_last[b] = IF l = 0 THEN Null ELSE q[l]
    BY <1>5
  <2> HIDE DEF l
  <2>9. CASE l = 0
    <3>1. m = 0
      <4> SUFFICES ASSUME m # 0 PROVE FALSE
        OBVIOUS
      <4>1. 1 \in 1..m
        OBVIOUS
      <4>2. h[1] \in 1..l
        BY <2>7, <4>1
      <4> QED BY <2>9, <4>2
    <3> QED BY <2>4, <2>8, <2>9, <3>1
  <2>10. CASE l # 0
    <3>1. l \in 1..l /\ q[l] \notin W
      BY <1>6, <2>3, <2>10
    <3>2. PICK i \in 1..m : h[i] = l
      BY <2>6, <3>1
    <3>3. m \in 1..m /\ m # 0
      BY <3>2
    <3>4. h[m] \in 1..l
      BY <2>7, <3>3
    <3>5. i = m
      <4>1. i # m => i < m
        OBVIOUS
      <4>2. i # m => l < h[m]
        BY <2>5, <3>2, <3>3, <4>1
      <4> QED BY <2>3, <3>4, <4>2
    <3> QED BY <2>4, <2>8, <2>10, <3>2, <3>3, <3>5
  <2> QED BY <2>9, <2>10
<1>7. sq_last' = [sq_last EXCEPT ![b] = LastKept(Queue(b), W)]
  <2>1. LinkTypeOK
    BY DEF ListInv
  <2>2. CASE q # <<>> /\ Last(q) \in W
    BY <1>2, <2>2 DEF q
  <2>3. CASE ~ (q # <<>> /\ Last(q) \in W)
    <3>1. sq_last' = [sq_last EXCEPT ![b] = sq_last[b]]
      BY <1>2, <2>3
    <3> QED BY <1>6, <2>3, <3>1 DEF q
  <2> QED BY <2>2, <2>3
<1> QED BY <1>1, <1>2, <1>3, <1>7, UnlinkLists DEF q

\* unsleep leaves every queue a list.
LEMMA UnsleepLists ==
    ASSUME ListInv, ProcTypeOK, NEW p \in Proc, Unsleep(p)
    PROVE  ListInv'
<1>1. CASE p_wchan[p] = NoChan
  <2>1. UNCHANGED queueVars
    BY <1>1 DEF Unsleep
  <2> QED BY <2>1 DEF ListInv, LinkTypeOK, IsList, OnBucket, queueVars
<1>2. CASE p_wchan[p] # NoChan
  <2>1. PICK b \in Bucket : b = sqhash[p_wchan[p]]
    BY <1>2, ConstantsAssumption DEF ProcTypeOK
  <2>2. PICK q : IsList(q, b)
    BY <2>1 DEF ListInv
  <2>3. LinkTypeOK /\ Queue(b) = q
    BY <2>1, <2>2, QueueIsList DEF ListInv
  <2>4. LinkTypeOK' /\ \E r : IsList(r, b)'
    BY <1>2, <2>1, <2>2, <2>3, UnsleepList
  <2>5. \/ Before(q, p) = Null
        \/ Before(q, p) \in Proc /\ OnBucket(Before(q, p), b)
    <3> DEFINE l == Len(q)
    <3>1. /\ q \in Seq(Proc)
          /\ \A x \in Proc : OnBucket(x, b) <=> \E i \in 1..l : q[i] = x
      BY <2>2 DEF IsList
    <3>2. l \in Nat /\ \A i \in 1..l : q[i] \in Proc
      BY <3>1, LenProperties, ElementOfSeq
    <3>3. PICK k \in 1..l : q[k] = p
      BY <1>2, <2>1, <3>1 DEF OnBucket
    <3>4. Head(q) = q[1]
      <4>1. l # 0
        BY <3>2
      <4> QED BY <3>1, <4>1, HeadTailProperties, EmptySeq
    <3> DEFINE B == {i \in 1..(Len(q) - 1) : q[i + 1] = p}
    <3>5. CASE Head(q) # p
      <4>1. k # 1
        BY <3>3, <3>4, <3>5
      <4>2. k - 1 \in B
        <5> HIDE DEF l
        <5>1. k - 1 \in 1..(l - 1) /\ (k - 1) + 1 = k
          BY <3>2, <4>1
        <5> QED BY <3>3, <5>1 DEF l
      <4>3. Before(q, p) = q[CHOOSE i \in B : TRUE]
        BY <3>5 DEF Before
      <4>4. \A i \in B : i \in 1..l
        <5>1. \A i \in B : i \in 1..(l - 1)
          OBVIOUS
        <5> HIDE DEF l, B
        <5> QED BY <3>2, <5>1
      <4> HIDE DEF B, l
      <4>5. (CHOOSE i \in B : TRUE) \in 1..l
        BY <4>2, <4>4
      <4> QED BY <3>1, <3>2, <4>3, <4>5
    <3> QED BY <3>5 DEF Before
  <2>6. ASSUME NEW d \in Bucket, d # b PROVE \E r : IsList(r, d)'
    <3>1. PICK r : IsList(r, d)
      BY DEF ListInv
    <3>2. ~ OnBucket(p, d) /\ ~ OnBucket(p, d)'
      BY <1>2, <2>1, <2>6 DEF Unsleep, OnBucket, ProcTypeOK
    <3>3. ASSUME NEW x \in Proc
          PROVE  /\ OnBucket(x, d)' <=> OnBucket(x, d)
                 /\ OnBucket(x, d) => p_link'[x] = p_link[x]
      <4>1. p_wchan' = [p_wchan EXCEPT ![p] = NoChan]
        BY <1>2 DEF Unsleep
      <4>2. OnBucket(x, d)' <=> OnBucket(x, d)
        BY <3>2, <4>1 DEF OnBucket, ProcTypeOK
      <4>3. OnBucket(x, d) => x # p /\ x # Before(q, p)
        BY <2>5, <2>6, <3>2, ConstantsAssumption DEF OnBucket
      <4>4. p_link' = [p_link EXCEPT ![p] = Null]
            \/ p_link' = [p_link EXCEPT ![Before(q, p)] = p_link[p], ![p] = Null]
        BY <1>2, <2>1, <2>3 DEF Unsleep
      <4> QED BY <2>3, <4>2, <4>3, <4>4 DEF LinkTypeOK
    <3>4. sq_first'[d] = sq_first[d] /\ sq_last'[d] = sq_last[d]
      BY <1>2, <2>1, <2>3, <2>6 DEF Unsleep, LinkTypeOK
    <3>5. IsList(r, d)'
      BY <3>1, <3>3, <3>4, OtherQueue
    <3> QED BY <3>5
  <2> QED BY <2>4, <2>6 DEF ListInv
<1> QED BY <1>1, <1>2

\* sleep puts the process at the end of the queue of its channel.
LEMMA SleepLists ==
    ASSUME ListInv, ProcTypeOK, NEW p \in Proc, NEW c \in Chan, NEW disp \in Disps,
           p_wchan[p] = NoChan, Sleep(p, c, disp)
    PROVE  ListInv'
<1> DEFINE b == sqhash[c]
<1>1. b \in Bucket /\ c # NoChan /\ LinkTypeOK /\ p # Null
  BY ConstantsAssumption DEF ListInv
<1>2. PICK q : IsList(q, b)
  BY <1>1 DEF ListInv
<1> DEFINE l == Len(q)
           r == Append(q, p)
<1>3. q \in Seq(Proc)
  BY <1>2 DEF IsList
<1>4. l \in Nat /\ \A i \in 1..l : q[i] \in Proc /\ q[i] # Null
  BY <1>3, LenProperties, ElementOfSeq, ConstantsAssumption
<1>5. /\ r \in Seq(Proc) /\ Len(r) = l + 1
      /\ \A i \in 1..l : r[i] = q[i]
      /\ r[l + 1] = p
  BY <1>3, AppendProperties
<1>6. \A i, j \in 1..l : q[i] = q[j] => i = j
  BY <1>2 DEF IsList
<1>7. \A x \in Proc : OnBucket(x, b) <=> \E i \in 1..l : q[i] = x
  BY <1>2 DEF IsList
<1>8. /\ sq_first[b] = IF l = 0 THEN Null ELSE q[1]
      /\ sq_last[b] = IF l = 0 THEN Null ELSE q[l]
      /\ \A i \in 1..l : p_link[q[i]] = IF i = l THEN Null ELSE q[i + 1]
  BY <1>2 DEF IsList
<1>9. /\ p_wchan' = [p_wchan EXCEPT ![p] = c]
      /\ IF sq_first[b] = Null
         THEN /\ sq_first' = [sq_first EXCEPT ![b] = p]
              /\ p_link' = [p_link EXCEPT ![p] = Null]
         ELSE /\ p_link' = [p_link EXCEPT ![sq_last[b]] = p, ![p] = Null]
              /\ UNCHANGED sq_first
      /\ sq_last' = [sq_last EXCEPT ![b] = p]
  BY DEF Sleep
<1> HIDE DEF b, l, r
<1>10. sq_first[b] = Null <=> l = 0
  <2>1. l # 0 => 1 \in 1..l
    BY <1>4
  <2> QED BY <1>4, <1>8, <2>1
<1>11. \A i \in 1..l : q[i] # p
  BY <1>7 DEF OnBucket
<1>12. LinkTypeOK'
  BY <1>1, <1>9 DEF LinkTypeOK
<1>13. IsList(r, b)'
  <2>1. \A i, j \in 1..(l + 1) : r[i] = r[j] => i = j
    <3>1. \A i \in 1..(l + 1) : i \in 1..l \/ i = l + 1
      BY <1>4
    <3>2. \A i, j \in 1..l : r[i] = r[j] => i = j
      BY <1>5, <1>6
    <3>3. \A i \in 1..l : r[i] # p
      BY <1>5, <1>11
    <3> QED BY <1>5, <3>1, <3>2, <3>3
  <2>2. \A x \in Proc : OnBucket(x, b)' <=> OnBucket(x, b) \/ x = p
    BY <1>1, <1>9 DEF OnBucket, ProcTypeOK, b
  <2>3. \A x \in Proc : OnBucket(x, b)' <=> \E i \in 1..(l + 1) : r[i] = x
    <3>1. \A i \in 1..(l + 1) : i \in 1..l \/ i = l + 1
      BY <1>4
    <3>2. l + 1 \in 1..(l + 1) /\ \A i \in 1..l : i \in 1..(l + 1)
      BY <1>4
    <3> QED BY <1>5, <1>7, <2>2, <3>1, <3>2
  <2>4. ASSUME NEW i \in 1..(l + 1)
        PROVE  p_link'[r[i]] = IF i = l + 1 THEN Null ELSE r[i + 1]
    <3>1. CASE i = l + 1
      BY <1>1, <1>5, <1>9, <3>1 DEF LinkTypeOK
    <3>2. CASE i = l
      <4>1. l # 0 /\ l \in 1..l /\ r[l] = q[l] /\ sq_last[b] = q[l] /\ q[l] \in Proc /\ q[l] # p
        BY <1>4, <1>5, <1>8, <1>11, <3>2
      <4> QED BY <1>1, <1>4, <1>5, <1>9, <1>10, <3>2, <4>1 DEF LinkTypeOK
    <3>3. CASE i # l /\ i # l + 1
      <4>1. i \in 1..l /\ i + 1 \in 1..l /\ l \in 1..l /\ l # 0
        BY <1>4, <3>3
      <4>2. q[i] \in Proc /\ q[i] # p /\ q[i] # q[l]
        BY <1>4, <1>6, <1>11, <3>3, <4>1
      <4>3. p_link'[q[i]] = p_link[q[i]]
        BY <1>1, <1>8, <1>9, <1>10, <4>1, <4>2 DEF LinkTypeOK
      <4> QED BY <1>5, <1>8, <3>3, <4>1, <4>3
    <3> QED BY <3>1, <3>2, <3>3
  <2>5. sq_last'[b] = p /\ sq_first'[b] = r[1]
    <3>1. l = 0 => r[1] = p
      BY <1>5
    <3>2. l # 0 => 1 \in 1..l
      BY <1>4
    <3> QED BY <1>1, <1>5, <1>8, <1>9, <1>10, <3>1, <3>2 DEF LinkTypeOK
  <2>6. l + 1 # 0
    BY <1>4
  <2> QED BY <1>5, <2>1, <2>3, <2>4, <2>5, <2>6 DEF IsList
<1>14. ASSUME NEW d \in Bucket, d # b PROVE \E s : IsList(s, d)'
  <2>1. PICK s : IsList(s, d)
    BY DEF ListInv
  <2>2. ASSUME NEW x \in Proc
        PROVE  /\ OnBucket(x, d)' <=> OnBucket(x, d)
               /\ OnBucket(x, d) => p_link'[x] = p_link[x]
    <3>1. OnBucket(x, d)' <=> OnBucket(x, d)
      BY <1>9, <1>14 DEF OnBucket, ProcTypeOK, b
    <3>2. OnBucket(x, d) => x # p
      BY DEF OnBucket
    <3>3. l # 0 => sq_last[b] \in Proc /\ OnBucket(sq_last[b], b)
      <4>1. l # 0 => l \in 1..l
        BY <1>4
      <4> QED BY <1>4, <1>7, <1>8, <4>1
    <3>4. OnBucket(x, d) => l = 0 \/ x # sq_last[b]
      BY <1>14, <3>3 DEF OnBucket
    <3> QED BY <1>1, <1>9, <1>10, <3>1, <3>2, <3>4 DEF LinkTypeOK
  <2>3. sq_first'[d] = sq_first[d] /\ sq_last'[d] = sq_last[d]
    BY <1>1, <1>9, <1>14 DEF LinkTypeOK
  <2>4. IsList(s, d)'
    BY <2>1, <2>2, <2>3, OtherQueue
  <2> QED BY <2>4
<1> QED BY <1>12, <1>13, <1>14 DEF ListInv

\* At first every queue is empty.
LEMMA InitLists == Init => ListInv
<1> SUFFICES ASSUME Init PROVE ListInv
  OBVIOUS
<1>1. <<>> \in Seq(Proc) /\ Len(<<>>) = 0
  OBVIOUS
<1>2. \A b \in Bucket : IsList(<<>>, b)
  BY <1>1 DEF Init, IsList, OnBucket
<1> QED BY <1>2 DEF Init, ListInv, LinkTypeOK

\* Steps that leave the queues alone keep them.
LEMMA SameLists == ListInv /\ UNCHANGED queueVars => ListInv'
BY DEF ListInv, LinkTypeOK, IsList, OnBucket, queueVars

\* Every step leaves every queue a list.
LEMMA NextLists == Inv /\ ListInv /\ [Next]_vars => ListInv'
<1> SUFFICES ASSUME Inv, ListInv, [Next]_vars PROVE ListInv'
  OBVIOUS
<1>1. ProcTypeOK
  BY DEF Inv
<1>2. CASE \E p \in Proc : \E c \in Chan, disp \in Disps : Sleep(p, c, disp)
  <2>1. PICK p \in Proc, c \in Chan, disp \in Disps : Sleep(p, c, disp)
    BY <1>2
  <2>2. p_stat[p] = "SONPROC" /\ Good(p)
    BY <2>1, InvParts DEF Sleep
  <2>3. p_wchan[p] = NoChan
    BY <2>2 DEF Good
  <2> QED BY <1>1, <2>1, <2>3, SleepLists
<1>3. CASE \E c \in Chan : Wakeprocs(c)
  BY <1>1, <1>3, WakeprocsLists
<1>4. CASE \E c \in Chan : WakeOneproc(c)
  BY <1>1, <1>4, WakeOneprocLists
<1>5. CASE \E p \in Proc : Unsleep(p)
  BY <1>1, <1>5, UnsleepLists
<1>6. CASE UNCHANGED queueVars
  BY <1>6, SameLists
<1>7. \/ \E p \in Proc : \E c \in Chan, disp \in Disps : Sleep(p, c, disp)
      \/ \E c \in Chan : Wakeprocs(c) \/ WakeOneproc(c)
      \/ \E p \in Proc : Unsleep(p)
      \/ UNCHANGED queueVars
  <2>1. CASE \E p \in Proc : IssigSignal(p)
    BY <2>1 DEF IssigSignal
  <2>2. CASE \E p \in Proc : \/ IssigStop(p) \/ IssigFalse(p) \/ SleepNwake(p) \/ Psig(p)
                             \/ Dispatch(p) \/ Preempt(p) \/ PrStop(p)
    BY <2>2 DEF IssigStop, IssigFalse, SleepNwake, Psig, Dispatch, Preempt, PrStop
  <2>3. CASE \E p \in Proc, sig \in Signals : Psignal(p, sig)
    BY <2>3 DEF Psignal, Setrun, Untouched
  <2>4. CASE \E p \in Proc : PrRun(p)
    BY <2>4 DEF PrRun, Setrun
  <2>5. CASE UNCHANGED vars
    BY <2>5 DEF vars
  <2> QED BY <2>1, <2>2, <2>3, <2>4, <2>5 DEF Next, InSleep, Others
<1> QED BY <1>2, <1>3, <1>4, <1>5, <1>6, <1>7

\* The lists are what QueuesLinked says of the queues.
LEMMA ListsAreQueues == ProcTypeOK /\ ListInv => QueuesLinked
<1> SUFFICES ASSUME ProcTypeOK, ListInv PROVE QueuesLinked
  OBVIOUS
<1>1. TypeOK
  BY DEF TypeOK, ProcTypeOK, ListInv, LinkTypeOK, States, Flags
<1>2. ASSUME NEW b \in Bucket
      PROVE  LET q == Queue(b) IN
             /\ Range(q) = {p \in Proc : p_wchan[p] # NoChan /\ sqhash[p_wchan[p]] = b}
             /\ Len(q) = Cardinality(Range(q))
             /\ sq_last[b] = IF q = <<>> THEN Null ELSE Last(q)
  <2>1. PICK q : IsList(q, b)
    BY DEF ListInv
  <2>2. Queue(b) = q
    BY <2>1, QueueIsList DEF ListInv
  <2>3. q \in Seq(Proc)
    BY <2>1 DEF IsList
  <2>4. DOMAIN q = 1..Len(q) /\ (q = <<>> <=> Len(q) = 0)
    BY <2>3, LenProperties, EmptySeq
  <2>5. Range(q) = {p \in Proc : p_wchan[p] # NoChan /\ sqhash[p_wchan[p]] = b}
    <3>1. \A p : p \in Range(q) <=> \E i \in 1..Len(q) : q[i] = p
      BY <2>4 DEF Range
    <3>2. \A i \in 1..Len(q) : q[i] \in Proc
      BY <2>3, ElementOfSeq
    <3>3. \A p \in Proc : OnBucket(p, b) <=> \E i \in 1..Len(q) : q[i] = p
      BY <2>1 DEF IsList
    <3> QED BY <3>1, <3>2, <3>3 DEF OnBucket
  <2>6. sq_last[b] = IF q = <<>> THEN Null ELSE Last(q)
    BY <2>1, <2>4 DEF IsList, Last
  <2> QED BY <2>1, <2>2, <2>5, <2>6, ListLength
<1> QED BY <1>1, <1>2 DEF QueuesLinked

\* Every queue is a list from sq_first to sq_last of exactly the processes that
\* sleep on its channels, whoever took processes out of its middle or off its
\* end, for any number of processes and any hash function.
THEOREM QueuesAreLinked == Spec => []QueuesLinked
<1>1. Spec => [](Inv /\ ListInv)
  BY InitInv, InitLists, NextInv, NextLists, PTL DEF Spec
<1>2. Inv /\ ListInv => QueuesLinked
  BY ListsAreQueues DEF Inv
<1> QED BY <1>1, <1>2, PTL

\* wake_oneproc sets the first sleeper of the channel running that is not
\* stopped, if there is one.
LEMMA WakeOneprocWakesOne ==
    ASSUME Inv, ListInv, NEW c \in Chan, WakeOneproc(c)
    PROVE  LET asleep == {p \in Proc : p_wchan[p] = c /\ p_stat[p] = "SSLEEP"}
           IN  Cardinality({p \in asleep : p_stat'[p] = "SRUN"}) =
                 IF asleep = {} THEN 0 ELSE 1
<1> DEFINE asleep == {p \in Proc : p_wchan[p] = c /\ p_stat[p] = "SSLEEP"}
           woken == {p \in asleep : p_stat'[p] = "SRUN"}
           b == sqhash[c]
           q == Queue(b)
           W == {p \in Range(q) : p_wchan[p] = c /\
                  ~ \E i, j \in DOMAIN q : i < j /\ q[j] = p /\ p_wchan[q[i]] = c
                                                     /\ p_stat[q[i]] = "SSLEEP"}
<1>1. b \in Bucket /\ c # NoChan
  BY ConstantsAssumption
<1>2. IsList(q, b)
  <2>1. PICK r : IsList(r, b)
    BY <1>1 DEF ListInv
  <2> QED BY <1>1, <2>1, QueueIsList DEF ListInv
<1>3. p_stat' = [p \in Proc |-> IF p \in W /\ p_stat[p] = "SSLEEP" THEN "SRUN" ELSE p_stat[p]]
  BY DEF WakeOneproc, Rouse
<1>4. \A p \in asleep : p \in woken <=> p \in W
  <2> HIDE DEF W
  <2> QED BY <1>3
<1> HIDE DEF q
<1>5. /\ q \in Seq(Proc)
      /\ \A p \in Proc : OnBucket(p, b) <=> \E i \in 1..Len(q) : q[i] = p
  BY <1>2 DEF IsList
<1>6. Len(q) \in Nat /\ DOMAIN q = 1..Len(q) /\ \A i \in 1..Len(q) : q[i] \in Proc
  BY <1>5, LenProperties, ElementOfSeq
<1>7. \A i, j \in 1..Len(q) : q[i] = q[j] => i = j
  BY <1>2 DEF IsList
<1>8. CASE asleep = {}
  <2>1. woken = {}
    BY <1>8
  <2> HIDE DEF asleep, woken
  <2> QED BY <1>8, <2>1, FS_EmptySet DEF asleep, woken
<1>9. CASE asleep # {}
  <2> DEFINE T == {i \in 1..Len(q) : p_wchan[q[i]] = c /\ p_stat[q[i]] = "SSLEEP"}
  <2>1. T \in SUBSET Nat /\ T # {}
    <3>1. PICK p \in Proc : p_wchan[p] = c /\ p_stat[p] = "SSLEEP"
      BY <1>9
    <3>2. OnBucket(p, b)
      BY <1>1, <3>1 DEF OnBucket
    <3>3. PICK i \in 1..Len(q) : q[i] = p
      BY <1>5, <3>2
    <3> QED BY <3>1, <3>3
  <2>2. PICK k \in T : \A i \in T : k <= i
    <3> HIDE DEF T
    <3> QED BY <2>1, NatLeast
  <2>3. k \in 1..Len(q) /\ q[k] \in asleep
    BY <1>6, <2>2
  <2>4. q[k] \in W
    <3>1. q[k] \in Range(q) /\ p_wchan[q[k]] = c
      BY <1>6, <2>2, <2>3 DEF Range
    <3>2. ASSUME NEW i \in DOMAIN q, NEW j \in DOMAIN q, i < j, q[j] = q[k],
                 p_wchan[q[i]] = c, p_stat[q[i]] = "SSLEEP"
          PROVE  FALSE
      <4>1. j = k
        BY <1>6, <1>7, <2>3, <3>2
      <4>2. i \in T /\ i \in Nat /\ k \in Nat
        BY <1>6, <2>3, <3>2
      <4> HIDE DEF T
      <4> QED BY <2>2, <3>2, <4>1, <4>2
    <3> QED BY <3>1, <3>2
  <2>5. ASSUME NEW p \in asleep, p \in W PROVE p = q[k]
    <3>1. PICK j \in 1..Len(q) : q[j] = p
      BY <1>6, <2>5 DEF Range
    <3>2. j \in T
      BY <2>5, <3>1
    <3>3. k \in 1..Len(q) /\ p_wchan[q[k]] = c /\ p_stat[q[k]] = "SSLEEP"
      BY <2>2
    <3>4. k <= j
      BY <2>2, <3>2
    <3>5. ~ (k < j)
      BY <1>6, <2>5, <3>1, <3>3
    <3>6. k = j
      BY <1>6, <3>3, <3>4, <3>5
    <3> QED BY <3>1, <3>6
  <2> HIDE DEF W, T
  <2>6. woken = {q[k]}
    BY <1>4, <2>3, <2>4, <2>5
  <2>7. Cardinality(woken) = 1
    <3> HIDE DEF woken
    <3> QED BY <2>6, FS_Singleton
  <2> HIDE DEF asleep, woken
  <2> QED BY <1>9, <2>7 DEF asleep, woken
<1> QED BY <1>8, <1>9

\* wake_oneproc neither loses a wakeup to the stopped processes that stand
\* before a sleeper, nor wakes two.
THEOREM WakesOneSleeper == Spec => WakesOne
<1>1. Spec => [](Inv /\ ListInv)
  BY InitInv, InitLists, NextInv, NextLists, PTL DEF Spec
<1>2. Inv /\ ListInv /\ [Next]_vars =>
        [\A c \in Chan : WakeOneproc(c) =>
          LET asleep == {p \in Proc : p_wchan[p] = c /\ p_stat[p] = "SSLEEP"}
          IN  Cardinality({p \in asleep : p_stat'[p] = "SRUN"}) =
                IF asleep = {} THEN 0 ELSE 1]_vars
  BY WakeOneprocWakesOne
<1> QED BY <1>1, <1>2, PTL DEF Spec, WakesOne
=============================================================================
