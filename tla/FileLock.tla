------------------------------ MODULE FileLock ------------------------------
(***************************************************************************)
(* Record locks on a file: reclock, chklock and cleanlocks of fs/flock.c.  *)
(*                                                                         *)
(* Owners are the processes of this machine and the processes of others    *)
(* (Remote), for which the lock daemon asks with RCMDLCK.  A local process *)
(* that must wait puts its request on sleeplcks with the owner that blocks *)
(* it, which deadflck follows, and sleeps on the lock in its way.  A       *)
(* remote request is only noted there; the daemon asks again later.        *)
(*                                                                         *)
(* reclock gives the processor up nowhere but in sleep and in VOP_RWLOCK,  *)
(* so a step is reclock from its start, or from the end of its sleep, to   *)
(* its next sleep or its return.  Requests that change nothing (F_GETLK,   *)
(* EAGAIN) are no steps.                                                   *)
(*                                                                         *)
(* A definition named Faulty... is not part of the model: it is what a     *)
(* likely bug would make of the definition after it.                       *)
(***************************************************************************)
EXTENDS LockList, KSleep

CONSTANTS
    Remote,     \* owners on other machines
    Requests,   \* regions asked for: [type, start, end]
    Mem,        \* how many times kmem_zalloc may give memory to one call
    NoProc,     \* nobody
    Calls       \* what the owners do

Owner == Proc \cup Remote
Chan  == {"lock"} \X (Owner \X Byte)

ASSUME SizesAssumption == FLCKREC \in Nat \ {0} /\ MAXEND \in Nat /\ Mem \subseteq Nat
ASSUME InputsAssumption ==
    Requests \subseteq {r \in [type : {"rd", "wr"}, start : Byte, end : Byte] : r.start <= r.end}
ASSUME OwnersAssumption == IsFiniteSet(Owner)
ASSUME NamesAssumption == NoChan \notin Chan /\ NoProc \notin Owner /\ Proc \cap Remote = {}

VARIABLES
    filocks,    \* v_filocks of the file
    sleeplcks,  \* requests that wait, the latest first
    rwlock,     \* who has the lock that VOP_RWLOCK takes
    pc,         \* where each process is
    call        \* its request, and how it asked

vars == <<filocks, sleeplcks, rwlock, wchan, pc, call>>

LockType == [owner : Owner, type : {"rd", "wr"}, start : Byte, end : Byte,
             wakeflg : BOOLEAN]
Waiting  == [owner : Owner, type : {"rd", "wr"}, start : Byte, end : Byte, blk : Owner]
Call     == [req : Region(Owner, {"rd", "wr"}), set : BOOLEAN]
NoCall   == [req |-> <<>>, set |-> FALSE]

Init ==
    /\ filocks = <<>> /\ sleeplcks = <<>>
    /\ rwlock = NoProc
    /\ wchan = [p \in Proc |-> NoChan]
    /\ pc = [p \in Proc |-> "user"]
    /\ call = [p \in Proc |-> NoCall]
-----------------------------------------------------------------------------
(* Structures and the list of sleeping requests *)

Room(sleeping) == FLCKREC - Len(filocks) - Len(sleeping)

Asked(o, r, type) == [owner |-> o, type |-> type, start |-> r.start, end |-> r.end]

Waits(req, blk) == [owner |-> req.owner, type |-> req.type, start |-> req.start,
                    end |-> req.end, blk |-> blk]

\* delflck(&sleeplcks, sf) by the process that slept, which has no other request
Without(p) == Omit(sleeplcks, {w \in ToSet(sleeplcks) : w.owner = p})

\* RM_SLEEPLCKS: requests of the owner that are inside the region
Forget(o, r) ==
    Omit(sleeplcks, {w \in ToSet(sleeplcks) :
                       w.owner = o /\ w.start >= r.start /\ w.end <= r.end})

\* The owner that o waits for, by the first request of o on the list
Blk(sleeping, o) ==
    LET i == SelectInSeq(sleeping, LAMBDA w : w.owner = o)
    IN  IF i = 0 THEN NoProc ELSE sleeping[i].blk

\* The owners deadflck comes by when it starts at o; NoProc if it ends
Chain(sleeping, o) ==
    LET n == Cardinality(Owner)
        at[i \in 0 .. n] == IF i = 0 THEN o ELSE Blk(sleeping, at[i - 1])
    IN  {at[i] : i \in 0 .. n}

\* Only the blocking process itself is looked at
FaultyDeadflck(sleeping, found, req) ==
    found.owner = req.owner \/ Blk(sleeping, found.owner) = req.owner

Deadflck(sleeping, found, req) == req.owner \in Chain(sleeping, found.owner)

\* deadflck returns 0
NoDeadlock(sleeping, found, req) ==
    ~ Deadflck(sleeping, found, req) /\ NoProc \in Chain(sleeping, found.owner)
-----------------------------------------------------------------------------
(* reclock() for a process of this machine *)

Chans(ats) == {"lock"} \X ats

\* blocked() finds nothing: the lock is set, or the read or write may go on
Unblocked(p, c, sleeping) ==
    /\ Blocked(filocks, c.req) = 0
    /\ \E mem \in Mem :
         LET s == Flckadj(filocks, Insrt(filocks, c.req), c.req, Room(sleeping), mem)
         IN  /\ filocks' = IF c.set THEN s.list ELSE filocks
             /\ Wakeprocs(IF c.set THEN Chans(s.woken) ELSE {})
    /\ sleeplcks' = sleeping
    /\ pc' = [pc EXCEPT ![p] = IF c.set THEN "user" ELSE "io"]
    /\ call' = [call EXCEPT ![p] = NoCall]
    /\ rwlock' = IF c.set THEN rwlock ELSE p

\* The error returns of a request that would have to wait; whoever came to read
\* or write gives the file's lock back
GivenUp(p, c, sleeping) ==
    /\ sleeplcks' = sleeping
    /\ pc' = [pc EXCEPT ![p] = "user"]
    /\ call' = [call EXCEPT ![p] = NoCall]
    /\ rwlock' = IF c.set THEN rwlock ELSE NoProc
    /\ UNCHANGED <<filocks, wchan>>

Edeadlk(p, c, sleeping) ==
    LET b == Blocked(filocks, c.req)
    IN  /\ b # 0 /\ Deadflck(sleeping, filocks[b], c.req)
        /\ GivenUp(p, c, sleeping)

\* No structure for the request, or no memory for the structure
Enolck(p, c, sleeping) ==
    LET b == Blocked(filocks, c.req)
    IN  /\ b # 0 /\ NoDeadlock(sleeping, filocks[b], c.req)
        /\ Room(sleeping) = 0 \/ 0 \in Mem
        /\ GivenUp(p, c, sleeping)

\* It waits; INOFLCK: without the file's lock
Sleeps(p, c, sleeping) ==
    LET b == Blocked(filocks, c.req)
        f == filocks[b]
    IN  /\ b # 0 /\ NoDeadlock(sleeping, f, c.req)
        /\ Room(sleeping) > 0 /\ Mem # {0}
        /\ filocks' = [filocks EXCEPT ![b].wakeflg = TRUE]
        /\ sleeplcks' = <<Waits(c.req, f.owner)>> \o sleeping
        /\ rwlock' = IF c.set THEN rwlock ELSE NoProc
        /\ GoToSleep(p, <<"lock", At(f)>>)
        /\ pc' = [pc EXCEPT ![p] = "sleep"]
        /\ call' = [call EXCEPT ![p] = c]

Reclock(p, c, sleeping) ==
    \/ Unblocked(p, c, sleeping)
    \/ Edeadlk(p, c, sleeping)
    \/ Enolck(p, c, sleeping)
    \/ Sleeps(p, c, sleeping)

\* fcntl(F_SETLKW); F_SETLK is the same when nothing is in the way
Frlock(p, r) ==
    /\ "setlkw" \in Calls /\ pc[p] = "user"
    /\ Reclock(p, [req |-> Asked(p, r, r.type), set |-> TRUE], sleeplcks)

\* chklock: a read or write of a file with mandatory locks, inside VOP_RWLOCK
Chklock(p, r) ==
    /\ "chklock" \in Calls /\ pc[p] = "user" /\ rwlock = NoProc
    /\ Reclock(p, [req |-> Asked(p, r, r.type), set |-> FALSE], sleeplcks)

\* The read or write is done
IoDone(p) ==
    /\ pc[p] = "io"
    /\ rwlock' = NoProc
    /\ pc' = [pc EXCEPT ![p] = "user"]
    /\ UNCHANGED <<filocks, sleeplcks, wchan, call>>

\* fcntl(F_SETLK) with F_UNLCK
Unlock(p, r) ==
    /\ pc[p] = "user"
    /\ \E mem \in Mem :
         LET s == Flckadj(filocks, NULL, Asked(p, r, "un"), Room(sleeplcks), mem)
         IN  filocks' = s.list /\ Wakeprocs(Chans(s.woken))
    /\ UNCHANGED <<sleeplcks, rwlock, pc, call>>

\* close()
Close(p) ==
    /\ "close" \in Calls /\ pc[p] = "user"
    /\ filocks' = Cleanlocks(filocks, p).list
    /\ Wakeprocs(Chans(Cleanlocks(filocks, p).woken))
    /\ UNCHANGED <<sleeplcks, rwlock, pc, call>>

\* A signal takes the process off its queue, or it is stopped and continued
Signal(p) ==
    /\ "signal" \in Calls /\ Setrun(p)
    /\ UNCHANGED <<filocks, sleeplcks, rwlock, pc, call>>

\* The sleep is over and VOP_RWLOCK has been taken again
Ready(p) == pc[p] = "sleep" /\ ~ Asleep(p) /\ (call[p].set \/ rwlock = NoProc)

\* The lock is taken without another look at who has it
FaultyResume(p) ==
    /\ Ready(p)
    /\ \E mem \in Mem :
         LET c == call[p]
             s == Flckadj(filocks, Insrt(filocks, c.req), c.req, Room(Without(p)), mem)
         IN  /\ filocks' = IF c.set THEN s.list ELSE filocks
             /\ Wakeprocs(IF c.set THEN Chans(s.woken) ELSE {})
    /\ sleeplcks' = Without(p)
    /\ pc' = [pc EXCEPT ![p] = "user"]
    /\ call' = [call EXCEPT ![p] = NoCall]
    /\ UNCHANGED rwlock

\* sleep returned 0: the request leaves the list and is tried again
Resume(p) == Ready(p) /\ Reclock(p, call[p], Without(p))

\* The request stays on the list
FaultyInterrupted(p) == "signal" \in Calls /\ Ready(p) /\ GivenUp(p, call[p], sleeplcks)

\* sleep returned 1
Interrupted(p) == "signal" \in Calls /\ Ready(p) /\ GivenUp(p, call[p], Without(p))
-----------------------------------------------------------------------------
(* reclock() and cleanlocks() for an owner on another machine *)

\* F_RSETLKW, granted.  The request and what it covers leave the list
RemoteGranted(o, r) ==
    /\ Blocked(filocks, r) = 0
    /\ \E mem \in Mem :
         LET s == Flckadj(filocks, Insrt(filocks, r), r, Room(sleeplcks), mem)
         IN  filocks' = s.list /\ Wakeprocs(Chans(s.woken)) /\ sleeplcks' = Forget(o, s.ld)
    /\ UNCHANGED <<rwlock, pc, call>>

\* F_RSETLKW, blocked: noted, once
RemoteNoted(o, r) ==
    LET b == Blocked(filocks, r)
        w == Waits(r, filocks[b].owner)
    IN  /\ b # 0 /\ NoDeadlock(sleeplcks, filocks[b], r)
        /\ w \notin ToSet(sleeplcks)
        /\ Room(sleeplcks) > 0 /\ Mem # {0}
        /\ sleeplcks' = <<w>> \o sleeplcks
        /\ UNCHANGED <<filocks, rwlock, wchan, pc, call>>

\* F_RSETLK with F_UNLCK, also when the client gives up waiting
RemoteUnlock(o, r) ==
    /\ \E mem \in Mem :
         LET s == Flckadj(filocks, NULL, r, Room(sleeplcks), mem)
         IN  filocks' = s.list /\ Wakeprocs(Chans(s.woken)) /\ sleeplcks' = Forget(o, s.ld)
    /\ UNCHANGED <<rwlock, pc, call>>

\* The other machine is gone: its locks are cleaned up, its requests stay
RemoteGone(o) ==
    /\ "crash" \in Calls
    /\ filocks' = Cleanlocks(filocks, o).list
    /\ Wakeprocs(Chans(Cleanlocks(filocks, o).woken))
    /\ UNCHANGED <<sleeplcks, rwlock, pc, call>>
-----------------------------------------------------------------------------
Next ==
    \/ \E p \in Proc :
         \/ \E r \in Requests : Frlock(p, r) \/ Chklock(p, r) \/ Unlock(p, r)
         \/ Close(p) \/ Signal(p) \/ Resume(p) \/ Interrupted(p) \/ IoDone(p)
    \/ \E o \in Remote :
         \/ \E r \in Requests : \/ RemoteGranted(o, Asked(o, r, r.type))
                                \/ RemoteNoted(o, Asked(o, r, r.type))
                                \/ RemoteUnlock(o, Asked(o, r, "un"))
         \/ RemoteGone(o)

Spec == Init /\ [][Next]_vars
-----------------------------------------------------------------------------
(* Properties *)

\* Types
TypeOK ==
    /\ filocks \in Seq(LockType) /\ sleeplcks \in Seq(Waiting)
    /\ rwlock \in Proc \cup {NoProc}
    /\ wchan \in [Proc -> Chan \cup {NoChan}]
    /\ pc \in [Proc -> {"user", "sleep", "io"}]
    /\ \A p \in Proc : call[p] \in IF pc[p] = "sleep" THEN Call ELSE {NoCall}

\* What deadflck follows is there: a process in reclock's sleep has one request on
\* sleeplcks and no other process has any, whichever way a sleep ended; sleepers
\* and locks together never exceed t_flckrec (insflck, delflck)
RequestsListed ==
    /\ TypeOK
    /\ Len(filocks) + Len(sleeplcks) <= FLCKREC
    /\ \A p \in Proc :
         /\ Asleep(p) => pc[p] = "sleep"
         /\ Cardinality({i \in DOMAIN sleeplcks : sleeplcks[i].owner = p})
              = IF pc[p] = "sleep" THEN 1 ELSE 0

\* What blocked and flckadj rely on: the list is in order of the first byte, the
\* locks of one owner do not overlap, and those of one type do not even touch
ListOrdered ==
    \A i, j \in DOMAIN filocks : i < j =>
      LET f == filocks[i]
          g == filocks[j]
      IN  /\ At(f) # At(g) /\ f.start <= g.start
          /\ f.owner = g.owner => f.end < (IF f.type = g.type THEN g.start - 1 ELSE g.start)

\* Nobody reads or writes what another has locked for writing, whatever was
\* split, joined, trimmed or lost to a full table on the way (flckadj)
NoConflict == \A i, j \in DOMAIN filocks : ~ Conflict(filocks[i], filocks[j])

\* Whoever is on a queue sleeps on a lock that exists, is in the way of its
\* request and will wake it (delflck, WAKEUP): the lock was not freed, cut off or
\* given to somebody else under the sleeper
SleepersBlocked ==
    \A p \in Proc : Asleep(p) =>
      \E f \in ToSet(filocks) : /\ wchan[p] = <<"lock", At(f)>>
                                /\ f.wakeflg
                                /\ Conflict(f, call[p].req)

\* The requests that wait never form a circle, so deadflck ends, and nobody waits
\* for itself: a request that would close a circle is refused (reclock, deadflck)
NoWaitCycle ==
    \A o \in Owner : Blk(sleeplcks, o) # NoProc => o \notin Chain(sleeplcks, Blk(sleeplcks, o))
=============================================================================
