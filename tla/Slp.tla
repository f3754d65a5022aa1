-------------------------------- MODULE Slp ---------------------------------
(***************************************************************************)
(* The sleep queues of proc/slp.c, with the parts of proc/sig.c,           *)
(* fs/procfs/prioctl.c and proc/disp.c that take processes off them.       *)
(*                                                                         *)
(* A process that sleeps is on the queue its channel hashes to, a singly   *)
(* linked list with a pointer to its last process, and stays there while a *)
(* stop signal or /proc holds it stopped.  Wakeups, signals, SIGCONT and   *)
(* PIOCRUN come from other processes or from interrupts.                   *)
(*                                                                         *)
(* sleep runs with interrupts blocked until it gives the processor up      *)
(* (SplHi); every other routine here is one step.  SIGTERM stands for any  *)
(* signal that is caught or ends the process, SIGSTOP for any that stops   *)
(* it; ignored and held signals, which do nothing, ptrace, u_sysabort and  *)
(* swapping are left out.                                                  *)
(*                                                                         *)
(* A definition named Faulty... is not part of the model: it is what a     *)
(* likely bug would make of the definition after it.                       *)
(***************************************************************************)
EXTENDS Naturals, SequencesExt

CONSTANTS
    Proc,       \* process table slots
    Chan,       \* channels slept on
    Bucket,     \* entries of sleepq[]
    sqhash,     \* the bucket of each channel
    NoChan,     \* p_wchan = 0
    Null,       \* the null proc pointer
    Signals,    \* signals posted
    Disps,      \* disp arguments given to sleep
    Debugged    \* /proc stops processes and runs them

ASSUME ConstantsAssumption ==
    /\ sqhash \in [Chan -> Bucket]
    /\ NoChan \notin Chan /\ Null \notin Proc
    /\ IsFiniteSet(Proc)
    /\ Signals \subseteq {"SIGKILL", "SIGTERM", "SIGSTOP", "SIGCONT"}
    /\ Disps \subseteq {"PZERO", "PCATCH", "PNOSTOP"}
    /\ Debugged \in BOOLEAN

VARIABLES
    p_stat,     \* SONPROC, SRUN, SSLEEP or SSTOP
    p_wchan,    \* the channel of a process that is on a queue
    p_link,     \* the next process of the queue
    sq_first,
    sq_last,
    p_flag,     \* flags that are set
    p_whystop,  \* why a process is stopped
    p_sig,      \* signals posted and not yet acted on (p_sig and p_cursig)
    at          \* where a process is: not in sleep, or in its first ISSIG,
                \* its swtch with the ISSIG that follows, or the swtch of an
                \* uninterruptible sleep

queueVars == <<p_wchan, p_link, sq_first, sq_last>>
stopVars  == <<p_flag, p_whystop>>
vars      == <<p_stat, queueVars, stopVars, p_sig, at>>

Init ==
    /\ p_stat = [p \in Proc |-> "SRUN"]
    /\ p_wchan = [p \in Proc |-> NoChan]
    /\ p_link = [p \in Proc |-> Null]
    /\ sq_first = [b \in Bucket |-> Null]
    /\ sq_last = [b \in Bucket |-> Null]
    /\ p_flag = [p \in Proc |-> {}]
    /\ p_whystop = [p \in Proc |-> "none"]
    /\ p_sig = [p \in Proc |-> {}]
    /\ at = [p \in Proc |-> "run"]

\* p executes: it was dispatched, or it has put itself on a queue and has not
\* given the processor up yet
InSleepEntry(p) == at[p] = "issig" /\ p_stat[p] = "SSLEEP"
Executes(p)     == p_stat[p] = "SONPROC" \/ InSleepEntry(p)

SplHi == \E p \in Proc : InSleepEntry(p)
-----------------------------------------------------------------------------
(* The queues *)

\* The processes met on the way from sq_first, at most one too many
Queue(b) ==
    LET walk[n \in Nat] ==
          IF n = 0 THEN <<>>
          ELSE LET q    == walk[n - 1]
                   next == IF q = <<>> THEN sq_first[b] ELSE p_link[Last(q)]
               IN  IF next = Null THEN q ELSE Append(q, next)
    IN  walk[Cardinality(Proc) + 1]

Before(q, p) ==
    IF Head(q) = p THEN Null ELSE q[CHOOSE i \in 1..(Len(q) - 1) : q[i + 1] = p]

\* sq_last is not corrected
FaultyUnsleep(p) ==
    IF p_wchan[p] = NoChan THEN UNCHANGED queueVars
    ELSE LET b   == sqhash[p_wchan[p]]
             prp == Before(Queue(b), p)
         IN  /\ p_wchan' = [p_wchan EXCEPT ![p] = NoChan]
             /\ IF prp = Null
                THEN p_link' = p_link /\ sq_first' = [sq_first EXCEPT ![b] = p_link[p]]
                ELSE sq_first' = sq_first /\ p_link' = [p_link EXCEPT ![prp] = p_link[p]]
             /\ UNCHANGED sq_last

\* p_link of a process that leaves its queue belongs to the dispatch queues,
\* which are not modelled: it is set to Null here.

\* unsleep: walk to p, link its neighbours, and correct sq_last if p was last
Unsleep(p) ==
    IF p_wchan[p] = NoChan THEN UNCHANGED queueVars
    ELSE LET b   == sqhash[p_wchan[p]]
             prp == Before(Queue(b), p)
         IN  /\ p_wchan' = [p_wchan EXCEPT ![p] = NoChan]
             /\ IF prp = Null
                THEN /\ sq_first' = [sq_first EXCEPT ![b] = p_link[p]]
                     /\ p_link' = [p_link EXCEPT ![p] = Null]
                ELSE /\ p_link' = [p_link EXCEPT ![prp] = p_link[p], ![p] = Null]
                     /\ UNCHANGED sq_first
             /\ sq_last' = [sq_last EXCEPT ![b] = IF p_link[p] = Null THEN prp ELSE @]

\* The first process of queue q behind place i that is not taken off with the
\* processes of W, and the last one
NextKept(q, W, i) ==
    LET kept == {j \in DOMAIN q : j > i /\ q[j] \notin W}
    IN  IF kept = {} THEN Null ELSE q[Min(kept)]

LastKept(q, W) ==
    LET kept == {j \in DOMAIN q : q[j] \notin W}
    IN  IF kept = {} THEN Null ELSE q[Max(kept)]

\* What the loops of wakeprocs and wake_oneproc leave of queue b without the
\* processes of W: each kept process points to the next one kept
Unlink(b, W) ==
    LET q == Queue(b) IN
    /\ p_wchan' = [p \in Proc |-> IF p \in W THEN NoChan ELSE p_wchan[p]]
    /\ sq_first' = [sq_first EXCEPT ![b] = NextKept(q, W, 0)]
    /\ p_link' = [p \in Proc |->
         IF p \in W THEN Null
         ELSE IF p \notin Range(q) THEN p_link[p]
         ELSE NextKept(q, W, CHOOSE i \in DOMAIN q : q[i] = p)]

\* Stopped processes are set running too
FaultyRouse(W) == p_stat' = [p \in Proc |-> IF p \in W THEN "SRUN" ELSE p_stat[p]]

\* Nobody is set running
FaultyRouseNobody(W) == UNCHANGED p_stat

\* Processes in SSLEEP are set running, stopped ones are not
Rouse(W) ==
    p_stat' = [p \in Proc |-> IF p \in W /\ p_stat[p] = "SSLEEP" THEN "SRUN" ELSE p_stat[p]]

\* Everybody on the queue, whatever the channel
FaultyWakeprocs(c) ==
    LET W == Range(Queue(sqhash[c])) IN
    /\ Unlink(sqhash[c], W) /\ Rouse(W)
    /\ sq_last' = [sq_last EXCEPT ![sqhash[c]] = Null]
    /\ UNCHANGED <<stopVars, p_sig, at>>

Wakeprocs(c) ==
    LET b == sqhash[c]
        W == {p \in Range(Queue(b)) : p_wchan[p] = c}
    IN  /\ Unlink(b, W) /\ Rouse(W)
        /\ sq_last' = [sq_last EXCEPT ![b] = LastKept(Queue(b), W)]
        /\ UNCHANGED <<stopVars, p_sig, at>>

\* The first process of the channel, asleep or stopped
FaultyWakeOneproc(c) ==
    LET b == sqhash[c]
        q == Queue(b)
        W == {p \in Range(q) : p_wchan[p] = c /\
                ~ \E i, j \in DOMAIN q : i < j /\ q[j] = p /\ p_wchan[q[i]] = c}
    IN  /\ Unlink(b, W) /\ Rouse(W)
        /\ sq_last' = [sq_last EXCEPT ![b] = LastKept(Queue(b), W)]
        /\ UNCHANGED <<stopVars, p_sig, at>>

\* wake_oneproc takes processes off up to the first that is not stopped, and
\* touches sq_last only when it took the last one of the queue
WakeOneproc(c) ==
    LET b == sqhash[c]
        q == Queue(b)
        W == {p \in Range(q) : p_wchan[p] = c /\
                ~ \E i, j \in DOMAIN q : i < j /\ q[j] = p /\ p_wchan[q[i]] = c
                                                   /\ p_stat[q[i]] = "SSLEEP"}
    IN  /\ Unlink(b, W) /\ Rouse(W)
        /\ sq_last' = [sq_last EXCEPT ![b] =
             IF q # <<>> /\ Last(q) \in W THEN LastKept(q, W) ELSE @]
        /\ UNCHANGED <<stopVars, p_sig, at>>
-----------------------------------------------------------------------------
(* Setting a process running *)

\* The process stays on its queue
FaultySetrun(p, f) ==
    /\ p_flag' = [p_flag EXCEPT ![p] = f]
    /\ p_stat' = [p_stat EXCEPT ![p] = "SRUN"]
    /\ p_whystop' = [p_whystop EXCEPT ![p] = "none"]
    /\ UNCHANGED queueVars

\* setrun, for a process whose flags are to be f
Setrun(p, f) ==
    IF p_stat[p] = "SSTOP" /\ ~ {"SXSTART", "SPSTART"} \subseteq f
    THEN Unsleep(p) /\ p_flag' = [p_flag EXCEPT ![p] = f] /\ UNCHANGED <<p_stat, p_whystop>>
    ELSE /\ Unsleep(p)
         /\ p_flag' = [p_flag EXCEPT ![p] = f]
         /\ p_stat' = [p_stat EXCEPT ![p] = "SRUN"]
         /\ p_whystop' = [p_whystop EXCEPT ![p] = "none"]

Stopped(p, why) == p_stat[p] = "SSTOP" /\ p_whystop[p] = why

Untouched == UNCHANGED <<p_stat, queueVars, stopVars>>

\* SIGCONT takes stop signals back and is itself forgotten
Posted(p, sig) == IF sig = "SIGCONT" THEN p_sig[p] \ {"SIGSTOP"} ELSE p_sig[p] \cup {sig}

\* sigtoproc
Psignal(p, sig) ==
    /\ p_sig' = [p_sig EXCEPT ![p] = Posted(p, sig)]
    /\ \/ /\ sig = "SIGCONT"
          /\ IF Stopped(p, "PR_JOBCONTROL")
             THEN Setrun(p, p_flag[p] \cup {"SXSTART"}) ELSE Untouched
       \/ /\ sig # "SIGCONT" /\ p_stat[p] = "SSLEEP"
          /\ IF "SNWAKE" \in p_flag[p] THEN Untouched ELSE Setrun(p, p_flag[p])
       \/ /\ sig # "SIGCONT" /\ p_stat[p] = "SSTOP"
          /\ IF sig = "SIGKILL" THEN Setrun(p, p_flag[p] \cup {"SXSTART", "SPSTART"})
             ELSE Unsleep(p) /\ UNCHANGED <<p_stat, stopVars>>
       \/ sig # "SIGCONT" /\ p_stat[p] \notin {"SSLEEP", "SSTOP"} /\ Untouched
    /\ UNCHANGED at

FaultyMayStop(p) == TRUE

\* stop: a killed process is not stopped
MayStop(p) == "SIGKILL" \notin p_sig[p]

Stop(p, why) ==
    /\ p_stat' = [p_stat EXCEPT ![p] = "SSTOP"]
    /\ p_whystop' = [p_whystop EXCEPT ![p] = why]
    /\ p_flag' = [p_flag EXCEPT ![p] =
         IF why = "PR_JOBCONTROL" THEN (@ \ {"SXSTART"}) \cup {"SPSTART"}
         ELSE (@ \ {"SPSTART", "SPRSTOP"}) \cup {"SXSTART"}]

\* PIOCSTOP: stop an interruptible sleeper at once, let any other process find
\* the request
PrStop(p) ==
    /\ p_stat[p] # "SONPROC"
    /\ IF p_stat[p] = "SSLEEP" /\ p_flag[p] \cap {"SNWAKE", "SNOSTOP"} = {} /\ MayStop(p)
       THEN Stop(p, "PR_REQUESTED")
       ELSE /\ p_flag' = [p_flag EXCEPT ![p] =
                 IF p_stat[p] # "SSTOP" \/ "SPSTART" \in @ THEN @ \cup {"SPRSTOP"} ELSE @]
            /\ UNCHANGED <<p_stat, p_whystop>>
    /\ UNCHANGED <<queueVars, p_sig, at>>

\* PIOCRUN
PrRun(p) ==
    /\ p_stat[p] = "SSTOP" /\ "SPSTART" \notin p_flag[p]
    /\ Setrun(p, p_flag[p] \cup {"SPSTART"})
    /\ UNCHANGED <<p_sig, at>>
-----------------------------------------------------------------------------
(* sleep *)

Sleep(p, c, disp) ==
    /\ p_stat[p] = "SONPROC" /\ at[p] = "run"
    /\ LET b == sqhash[c] IN
         /\ p_wchan' = [p_wchan EXCEPT ![p] = c]
         /\ IF sq_first[b] = Null
            THEN /\ sq_first' = [sq_first EXCEPT ![b] = p]
                 /\ p_link' = [p_link EXCEPT ![p] = Null]
            ELSE /\ p_link' = [p_link EXCEPT ![sq_last[b]] = p, ![p] = Null]
                 /\ UNCHANGED sq_first
         /\ sq_last' = [sq_last EXCEPT ![b] = p]
    /\ p_stat' = [p_stat EXCEPT ![p] = "SSLEEP"]
    /\ \/ disp = "PZERO" /\ at' = [at EXCEPT ![p] = "nwake"]
          /\ p_flag' = [p_flag EXCEPT ![p] = @ \cup {"SNWAKE"}]
       \/ disp = "PCATCH" /\ at' = [at EXCEPT ![p] = "issig"]
          /\ p_flag' = [p_flag EXCEPT ![p] = @ \ {"SNWAKE", "SNOSTOP"}]
       \/ disp = "PNOSTOP" /\ at' = [at EXCEPT ![p] = "issig"]
          /\ p_flag' = [p_flag EXCEPT ![p] = (@ \ {"SNWAKE"}) \cup {"SNOSTOP"}]
    /\ UNCHANGED <<p_whystop, p_sig>>

\* sleep returns
Out(p) ==
    /\ at' = [at EXCEPT ![p] = "run"]
    /\ p_flag' = [p_flag EXCEPT ![p] = @ \ {"SNWAKE", "SNOSTOP"}]
    /\ UNCHANGED <<p_whystop, p_sig>>

JustLooking(p) == "SNOSTOP" \in p_flag[p]

Requested(p) == "SPRSTOP" \in p_flag[p] /\ ~ JustLooking(p) /\ MayStop(p)

\* issig stops p, in sleep or on the way back to user mode
IssigStop(p) ==
    /\ Executes(p) /\ at[p] # "nwake"
    /\ \/ Requested(p) /\ Stop(p, "PR_REQUESTED") /\ UNCHANGED p_sig
       \/ /\ ~ Requested(p) /\ ~ JustLooking(p) /\ MayStop(p)
          /\ "SIGSTOP" \in p_sig[p]
          /\ Stop(p, "PR_JOBCONTROL")
          /\ p_sig' = [p_sig EXCEPT ![p] = @ \ {"SIGSTOP"}]
    /\ UNCHANGED <<queueVars, at>>

\* The signals issig may return
Deliverable(p) ==
    IF Requested(p) THEN {}
    ELSE IF ~ MayStop(p) THEN {"SIGKILL"}
    ELSE IF JustLooking(p) THEN p_sig[p] ELSE p_sig[p] \ {"SIGSTOP"}

\* ISSIG is true: sleep returns 1, or jumps to u_qsav
IssigSignal(p) ==
    /\ Executes(p) /\ at[p] \in {"issig", "swtch"}
    /\ Deliverable(p) # {}
    /\ IF p_stat[p] = "SSLEEP"
       THEN Unsleep(p) /\ p_stat' = [p_stat EXCEPT ![p] = "SONPROC"]
       ELSE UNCHANGED <<p_stat, queueVars>>
    /\ Out(p)

\* ISSIG is false: swtch, unless p was stopped meanwhile and taken off its queue
IssigFalse(p) ==
    /\ Executes(p) /\ at[p] \in {"issig", "swtch"}
    /\ ~ Requested(p) /\ p_sig[p] = {}
    /\ IF at[p] = "issig" /\ p_wchan[p] # NoChan
       THEN at' = [at EXCEPT ![p] = "swtch"] /\ UNCHANGED <<stopVars, p_sig>>
       ELSE Out(p)
    /\ UNCHANGED <<p_stat, queueVars>>

SleepNwake(p) ==
    /\ p_stat[p] = "SONPROC" /\ at[p] = "nwake"
    /\ Out(p)
    /\ UNCHANGED <<p_stat, queueVars>>

InSleep(p) == IssigSignal(p) \/ IssigFalse(p) \/ SleepNwake(p)

\* psig, on the way back to user mode.  A killed process exits, and a new
\* process takes the slot.
Psig(p) ==
    /\ p_stat[p] = "SONPROC" /\ at[p] = "run"
    /\ \E sig \in Deliverable(p) :
         IF sig = "SIGKILL"
         THEN p_sig' = [p_sig EXCEPT ![p] = {}] /\ p_flag' = [p_flag EXCEPT ![p] = {}]
         ELSE p_sig' = [p_sig EXCEPT ![p] = @ \ {sig}] /\ UNCHANGED p_flag
    /\ UNCHANGED <<p_stat, queueVars, p_whystop, at>>
-----------------------------------------------------------------------------
(* pswtch *)

\* Only the setrun of a stopped process reads SXSTART and SPSTART, and stop
\* sets both: they are forgotten here.
Dispatch(p) ==
    /\ \A q \in Proc : ~ Executes(q)
    /\ p_stat[p] = "SRUN"
    /\ p_stat' = [p_stat EXCEPT ![p] = "SONPROC"]
    /\ p_flag' = [p_flag EXCEPT ![p] = @ \ {"SXSTART", "SPSTART"}]
    /\ UNCHANGED <<queueVars, p_whystop, p_sig, at>>

Preempt(p) ==
    /\ p_stat[p] = "SONPROC" /\ at[p] = "run"
    /\ p_stat' = [p_stat EXCEPT ![p] = "SRUN"]
    /\ UNCHANGED <<queueVars, stopVars, p_sig, at>>

\* What processes and interrupts do to other processes
Others ==
    /\ ~ SplHi
    /\ \/ \E c \in Chan : Wakeprocs(c) \/ WakeOneproc(c)
       \/ \E p \in Proc :
            \/ \E sig \in Signals : Psignal(p, sig)
            \/ Debugged /\ (PrStop(p) \/ PrRun(p))

Next ==
    \/ \E p \in Proc :
         \/ \E c \in Chan, disp \in Disps : Sleep(p, c, disp)
         \/ IssigStop(p) \/ InSleep(p) \/ Psig(p) \/ Dispatch(p) \/ Preempt(p)
    \/ Others

Spec == Init /\ [][Next]_vars

\* The dispatcher runs every process that is ready, whoever else becomes ready.
\* A process that has the processor goes on in sleep, and outside sleep gives
\* the processor up again and again: its time slice ends, and no caller goes to
\* sleep for ever on end when each sleep returns 1 at once.
Fairness ==
    \A p \in Proc : /\ SF_vars(Dispatch(p))
                    /\ WF_vars(IssigStop(p) \/ InSleep(p))
                    /\ SF_vars(Preempt(p))

FairSpec == Spec /\ Fairness
-----------------------------------------------------------------------------
(* Properties *)

\* Types; a posted SIGCONT is not kept
TypeOK ==
    /\ p_stat \in [Proc -> {"SONPROC", "SRUN", "SSLEEP", "SSTOP"}]
    /\ p_wchan \in [Proc -> Chan \cup {NoChan}]
    /\ p_link \in [Proc -> Proc \cup {Null}]
    /\ sq_first \in [Bucket -> Proc \cup {Null}]
    /\ sq_last \in [Bucket -> Proc \cup {Null}]
    /\ p_flag \in [Proc -> SUBSET {"SNWAKE", "SNOSTOP", "SXSTART", "SPSTART", "SPRSTOP"}]
    /\ p_whystop \in [Proc -> {"none", "PR_JOBCONTROL", "PR_REQUESTED"}]
    /\ p_sig \in [Proc -> SUBSET (Signals \ {"SIGCONT"})]
    /\ at \in [Proc -> {"run", "issig", "swtch", "nwake"}]

\* Every queue is a list from sq_first to sq_last of exactly the processes
\* whose channel hashes to it, whoever took processes out of its middle or off
\* its end.
QueuesLinked ==
    TypeOK /\ \A b \in Bucket :
        LET q == Queue(b) IN
        /\ Range(q) = {p \in Proc : p_wchan[p] # NoChan /\ sqhash[p_wchan[p]] = b}
        /\ Len(q) = Cardinality(Range(q))
        /\ sq_last[b] = IF q = <<>> THEN Null ELSE Last(q)

\* The assertions on p_stat in sleep, wakeprocs, setrun and pswtch: a process
\* on a queue is asleep or stopped, never ready, and no process is asleep off
\* the queues, where no wakeup would find it.  At most one process executes.
StatesMatchQueues ==
    \A p \in Proc :
        /\ p_wchan[p] # NoChan => p_stat[p] \in {"SSLEEP", "SSTOP"}
        /\ p_stat[p] = "SSLEEP" => p_wchan[p] # NoChan
        /\ \A q \in Proc \ {p} : ~ (Executes(p) /\ Executes(q))

\* No signal and no request to stop is slept through: one posted before the
\* process went to sleep, while it was stopped in its sleep or between being
\* woken and running is seen, and a killed process is not held stopped.
NothingSleptThrough ==
    \A p \in Proc :
        /\ p_stat[p] = "SSLEEP" /\ at[p] = "swtch" => p_sig[p] = {} /\ ~ Requested(p)
        /\ p_stat[p] = "SSTOP" => "SIGKILL" \notin p_sig[p]

\* A wakeup does not end a stop: a stopped process is set running only when
\* both those who may hold it, job control or ptrace and /proc, have let it go.
StopsHold ==
    [][\A p \in Proc : p_stat[p] = "SSTOP" /\ p_stat'[p] # "SSTOP" =>
          {"SXSTART", "SPSTART"} \subseteq p_flag'[p]]_vars

\* wake_oneproc sets one sleeper of the channel running if there is one,
\* although stopped processes may stand before it on the queue, and no other.
WakesOne ==
    [][\A c \in Chan : WakeOneproc(c) =>
          LET asleep == {p \in Proc : p_wchan[p] = c /\ p_stat[p] = "SSLEEP"}
          IN  Cardinality({p \in asleep : p_stat'[p] = "SRUN"}) =
                IF asleep = {} THEN 0 ELSE 1]_vars

\* The sleep and wakeup that proc/ipc builds on
K == INSTANCE KSleep WITH wchan <- p_wchan
ImplementsKSleep == K!NobodyAsleep /\ [][K!SleepOrWake(Chan)]_p_wchan

\* A process that was killed, or that is off its queue, comes back from sleep,
\* unless it is stopped.
KilledReturns ==
    \A p \in Proc : ("SIGKILL" \in p_sig[p] /\ at[p] # "nwake") ~> at[p] = "run"

WokenReturns ==
    \A p \in Proc : (at[p] # "run" /\ p_wchan[p] = NoChan)
                        ~> (at[p] = "run" \/ p_stat[p] = "SSTOP")
=============================================================================
