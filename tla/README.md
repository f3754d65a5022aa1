# Verification of the SVR4.2 kernel: sleep/wakeup, IPC, record locks, buffer cache

The repository is UNIX System V Release 4.2: a kernel (`common/uts`, `i386/uts`,
`i386at/uts`), commands, libraries and X11R5. This project models the part of
the kernel where processes meet: the sleep queues they block on, the signals and
stops that disturb a sleep, System V semaphores and message queues with the
resource maps they allocate from, record locks on files, and the buffer cache.
Each part is a TLA+ module translated from the
C source. TLC checks small instances. TLAPS proves, for every size, every safety
invariant that TLC checks of these parts, and that four of the modules implement
their abstract specifications.

## 1. Inventory

The kernel runs on one processor. A process inside the kernel keeps the
processor until it calls `sleep`, faults a page in (`copyin`, `copyout`,
`kmem_alloc(KM_SLEEP)`) or returns; interrupts may run `wakeprocs` and post
signals unless `splhi` blocks them. Everything hard comes from what may happen
during a sleep.

| Part | Source | State | Operations | Meets |
|---|---|---|---|---|
| Semaphores | `common/uts/proc/ipc/sem.c` | set headers, units and their map, values, `semncnt`/`semzcnt`, undo structures | `semget`, `semctl`, `semop`, `semexit` | sleep, signals, exit, resource map, page faults |
| Message queues | `common/uts/proc/ipc/msg.c` | queue headers, per-queue locks, shared headers and segments | `msgget`, `msgctl`, `msgsnd`, `msgrcv` | the same |
| Sleep/wakeup | `common/uts/proc/slp.c` | hashed queues, `p_stat`, `p_wchan`, `p_link` | `sleep`, `wakeprocs`, `wake_oneproc`, `setrun`, `unsleep` | everything that blocks |
| Signals, job control, /proc | `i386/uts/proc/sig.c`, `i386/uts/fs/procfs/prioctl.c` | pending signals, stop reasons, start flags | `sigtoproc`, `issig`, `stop`, `psig`, PIOCSTOP, PIOCRUN | sleep queues |
| Dispatcher | `i386/uts/proc/disp.c` | who has the processor | `pswtch`, `preempt` | sleep |
| Resource maps | `common/uts/util/malloc.c` | sorted table of free runs, `mapwant` | `rmalloc`, `rmfree` | sem.c, msg.c |
| IPC common | `common/uts/proc/ipc/ipc.c` | - | `ipcget`, `ipcaccess` | sem.c, msg.c, shm.c |
| Record locks | `i386/uts/fs/flock.c` | a list of locks per vnode, the list of waiting requests (`sleeplcks`) | `reclock` (set, clear, wait, deadlock detection), `chklock`, `cleanlocks` | sleep, signals, the file's read/write lock, lock requests of other machines |
| Buffer cache | `common/uts/fs/bio.c`, `common/uts/fs/fsflush.c` | hash queues, free list, memory left, flags of each buffer | `getblk`, `bread`, `breada`, `bwrite`, `bdwrite`, `bawrite`, `brelse`, `blkflush`, `biowait`, `biodone` | sleep, drivers and their interrupts, the flush daemon, last close |
| Callouts, STREAMS, VM, VFS, ... | see `PROJECT.json` | | | |

What makes each modelled part correct:

* semaphores: a vector is atomic; nobody is left asleep who could go on; no
  wakeup is lost to the counters; sets do not share units; a removed set leaves
  no sleeper, no undo entry and no dirt in its units; values stay in range;
* message queues: a queue is worked on by one process at a time, across page
  faults and signals; headers and segments are conserved; messages come in the
  promised order, once; nobody sleeps for what is there;
* sleep queues: the lists stay lists; a process is on a queue exactly when it
  waits; no signal is slept through; a stop holds until both who may hold it
  let go;
* resource maps: the table stays sorted and terminated; units are lost only when
  the table is full; whoever wants units is woken when some come;
* record locks: a request changes exactly the bytes it names, whatever has to be
  split, trimmed or joined; locks of two owners do not conflict; whoever sleeps is
  woken when the lock in its way goes or shrinks; requests never wait in a circle;
* buffer cache: a block is in one buffer; no buffer and no memory is lost; whoever
  waits for a buffer is woken; nothing written is lost or comes back; `blkflush`
  returns when the block is on the disk.

`PROJECT.json` lists every part with its status, and the hazards of the code line
by line with the properties that watch them.

## 2. Modules

| Module | Models | Composition |
|---|---|---|
| `KSleep` | sleep, wakeup and setrun as callers see them: `wchan[p]` | extended by Sem, Msg, RMap; implemented by Slp |
| `FreeMap` | rmalloc and rmfree on the set of free units | extended by Sem, Msg, RMap; RMap shows that the table does this |
| `Sem` | sem.c, ipcget | KSleep + FreeMap |
| `SemAbs` | what semaphores promise: atomic vectors | |
| `SemRefine` | the mapping Sem -> SemAbs, and liveness | Sem, INSTANCE SemAbs |
| `SemProofs` | theorems about Sem: sleepers, sets, undo entries, values, the refinement | SemRefine, InductionLemmas |
| `InductionLemmas` | induction and recursion stated with sets; lists, folds, counting and sums | TLAPS |
| `Msg` | msg.c | KSleep + FreeMap |
| `MsgAbs`, `MsgRefine` | queues with atomic send and receive; the mapping and liveness | Msg, INSTANCE MsgAbs |
| `MsgProofs` | theorems about Msg: locks, sleepers, resources, the refinement | MsgRefine, InductionLemmas |
| `Slp` | slp.c, and sig.c, prioctl.c, disp.c where they touch the queues | INSTANCE KSleep |
| `SlpProofs` | theorems about Slp, with its lists | Slp, InductionLemmas |
| `RMap` | malloc.c with its array | KSleep + FreeMap |
| `RMapProofs` | theorems about RMap | RMap, InductionLemmas |
| `LockList` | blocked, flckadj and cleanlocks as operators on a list of locks | |
| `FileLock` | reclock and its callers: waiting, deadlock detection, remote owners | LockList + KSleep |
| `FileLockAbs`, `FileLockRefine` | a map from bytes to locks; the mapping | FileLock, INSTANCE FileLockAbs |
| `FlckadjProofs` | lemmas about LockList: what flckadj and cleanlocks make of any list | FileLock, InductionLemmas |
| `FileLockProofs` | theorems about FileLock | FileLockRefine, FlckadjProofs |
| `Bio` | bio.c, the buffers of fsflush.c, a driver that ends requests | KSleep |
| `BioProofs` | theorems about Bio | Bio, InductionLemmas |
| `MCSem`, `MCMsg`, `MCSlp`, `MCRMap`, `MCFileLock`, `MCBio` | instances for TLC: argument sets, symmetry | |

Definitions keep the names of the C functions (capitalised). `PROJECT.json` maps
each one to its lines. A definition named `Faulty...` is not part of the model:
it is a likely bug put in the place of the definition that follows it, and for
each checked property there is one that TLC must catch.

### How steps correspond to code

*Sem, Msg.* `pc[p]` says where process p is, `call[p]` holds its arguments and
locals. A step is the code between two points where the process may lose the
processor. Where one stretch of code is worth several steps (semop's loop,
semundo, semexit's loop; msgconv and the code behind it) `MayRun` keeps all
other processes still in between, as the kernel does. `CopyinSleeps` says
whether semaphore calls may lose the processor in copyin; message calls always
may.

* semop: `Semop` (checks, to the first copyin), `SemopCopyin` (verification
  loop, or the copy after a sleep), `SemopApply` (one operation),
  `SemopBlock` (one that cannot be done), `Semundo` (one taken back),
  `SemopSleep`, `SemopAgain`/`SemopInterrupted` (sleep returned 0 or 1),
  `SemopDone`, `SemopFail`, `SemopReturn`.
* semctl: `SemctlRmid`, `SemctlSetval`; SETALL and IPC_SET are `SemctlCopyin`
  followed by `SemctlSetall`, `SemctlIpcset` or `SemctlFails`. semexit:
  `Semexit`, `SemexitAdjust` per entry, `SemexitDone`.
* msgconv: `Msgconv`, `LockWaited`, before each place a call goes on at.
  `Checks`/`ChecksFail` are the beginnings of msgsnd and msgrcv up to their
  second msgconv. msgrcv: `MsgrcvFind`, `MsgrcvCopyout`, `MsgrcvWaited`.
  msgsnd: `MsgsndBlocked` (no room, header or segments), `MsgsndTake`,
  `MsgsndText` (copyin ended), `MsgsndWaited`, `MsgsndInterrupted`. msgctl:
  `MsgctlRmid`, `MsgctlSet`.

*Slp.* One step per routine; `sleep` is cut at its two looks for signals and at
`swtch`. `p_link`, `sq_first` and `sq_last` are the C lists, pointer by pointer.
`Queue(b)` walks them. While a process is between putting itself on a queue and
`swtch`, interrupts are blocked (`SplHi`).

*RMap.* rmalloc and rmfree run at splhi and are one step each; the table `X` is
the array from `mapstart` on.

*LockList, FileLock.* `Flckadj` is the routine as a fold of its switch over the
rest of the list; `Regflck` gives the two digits of the region type, and each case
of `FlckadjOwn` is one case of the switch with those it falls through to. Its
result carries the new list, the locks whose sleepers are to be woken and whether
a structure was missing. reclock gives the processor up only in its sleep and in
VOP_RWLOCK, so a step is reclock from its start, or from the end of its sleep
(`Resume`, `Interrupted`), to its next sleep or its return: `Unblocked`, `Edeadlk`,
`Enolck`, `Sleeps`. `Frlock` and `Unlock` are fcntl, `Chklock` and `IoDone` a read
or write of a file with mandatory locks, `Close` calls cleanlocks. The lock daemon
asks for remote owners and never sleeps: `RemoteGranted`, `RemoteNoted`,
`RemoteUnlock`; `RemoteGone` is the cleaning up after a client that died. The
address of a lock, which is the channel of its sleepers, is its owner and first
byte: no case of flckadj changes the first byte of a lock that is on the list.

*Bio.* Routines such as `Brelse` and `Reclaim` map a cache to a cache, so that a
step may call several. `getblk` is `Getblk` with its four ways on: the block is
busy, found, not there with a buffer in hand, or not there; `Got` is what the
caller does with the buffer up to its own next wait. The memory of a new buffer is
allocated in `GetblkAlloc`, a step of its own since kmem_zalloc may sleep.
`DeviceClose` is bflush and binval at the last close. `Biodone` ends a request of
the driver, well or with an error, at any later time. getfreeblk's loop is one
step with the writes that it starts: it reads the head of the list anew in each
turn, so a write that ends inside the loop is one that ends right after it.

### What is abstracted

* Access control is reduced, in Sem, to what matters for removed sets: mode 0
  stops everybody but a privileged process. In Msg a check may fail at any time.
* `sempid`, the times, `msg_lspid`, `msg_lrpid`, IPC_STAT and the GET commands
  change nothing another operation reads. MAC, ACL, audit and the covert channel
  limiter are left out.
* Message texts are their sizes and the segments they occupy. Keys are modelled
  in Sem only; msgget creates private queues.
* The undo entries, a sorted array in the code, are a function from entries to
  adjustments; the sorting is kept where it matters, in the order of exit.
* sem.c:798 (a value that becomes zero by a positive operation) and the tests
  `qp1 != qp` of msg.c are never true and are left out.
* Slp leaves out swapping, ptrace, `u_sysabort`, ignored and held signals.
  SIGTERM stands for every signal that ends or is caught, SIGSTOP for every
  stop signal. `p_link` of a process off the queues belongs to the dispatch
  queues and is Null here; `SXSTART` and `SPSTART` are forgotten at dispatch,
  since `stop` sets both before anybody reads them.
* KSleep does not keep the order of a queue.
* FileLock has one file. Offsets are bytes from the start (convoff is left out), and
  F_GETLK, EAGAIN, EBADF and the XENIX modes, which change nothing, are no steps.
  RM_SLEEPLCKS does not compare files: with a second file it could also drop
  requests for that one. `wakeflg` counts in the code and is a flag here; only
  zero matters. Memory for a structure may be refused at any call (`Mem`).
* Bio has one device. B_READ is part of a request. A buffer that bremhash unhooked
  has no block. The data of a block is one value; a stale or reused buffer loses
  it. Requests for one block end in their order, which the drivers' queues are
  relied on for; requests for different blocks end in any order. Buffers for paging
  and physical I/O (`pgetblk`, `pageio_setup`, `buf_breakup`), `b_iodone` and
  `b_writestrat` hooks are left out. A caller that saw an error does not write.

### Bounds, by name

| Bound | Where | Why it is enough |
|---|---|---|
| `SEQMAX`, `NotHeld` | Sem, Msg | an id comes round after SEQMAX + 1 removals; in the code that is thousands (SHRT_MAX or INT_MAX over the number of slots). NotHeld keeps an id from being issued again while a process is inside a call on it. SEQMAX = 1 lets ids be reused across calls |
| `CNTMAX` | Sem | 65535 in the code; the model stops before the unsigned short wraps (hazard at sem.c:828). This stop is why the semaphore runs do not check for deadlock |
| `NotFree` | Sem | with CopyinSleeps, IPC_SET can bring a freed set back; freeing its units twice is not modelled |
| units above SEMMNS | Sem | `Unit` has SEMMSL units behind the array so that a stale base stays in the model |
| `Vectors`, `Sends`, `Receives`, `Limits`, `Signals`, `Disps` | MC modules | one of each kind of operation, argument and signal |
| `FLCKREC`, `Mem` | FileLock | structures run out in the middle of a split |
| `MAXEND` | FileLock | the last byte of a file; regions up to it and inside exist |
| `MEM`, `AWRITEMIN` | Bio | memory for two small buffers or one large one; bawrite is asynchronous when any buffer is free (4 in the code, out of reach with two) |
| `Calls` | Sem, Msg, FileLock, Bio | the system calls of a run; between them the runs make all of them |

## 3. Runs

| Run | Instance | Shows |
|---|---|---|
| `sem_core` | 3 processes, 1 set of 2, values to 2, undo limits of 1, exit, signals | types; no process behind a zero counter (`SleepersCounted`); whoever sleeps waits for something that cannot be done (`SleepersBlocked`); values never leave their range; Sem implements SemAbs (`AtomicSemop`) |
| `sem_life` | 2 processes, 2 slots, 3 units, a map that overflows, id reuse | sleepers and loops only on live sets, no shared unit, clean free units, no leftover undo entry |
| `sem_live` | 3 processes, fair | no vector that can be done waits for ever, IPC_RMID releases its sleepers, processes left alone come to rest |
| `slp` | 3 processes, 2 channels on 1 queue, stops and /proc | lists, states, `StopsHold`, `WakesOne`, and KSleep implemented |
| `slp_signals` | 2 processes, all signals and dispositions, fair | no signal slept through; killed and woken processes return |
| `rmap` | 7 units, 3 entries, 2 processes | table sorted and terminated; implements FreeMap; nobody sleeps for units that are free |
| `msg` | 3 processes, 1 queue of 1 byte, 2 headers, 1 segment, IPC_RMID, IPC_SET, signals | locks, counts and resources right; nobody sleeps for what is there |
| `msg_order` | 2 processes, two types, three sizes, 2 segments, fair | Msg implements MsgAbs (`AtomicMessages`); processes left alone come to rest |
| `flock` | a local and a remote owner, 4 bytes, 4 structures, failing memory, signals, close, a client that dies | every request has its place on sleeplcks (`RequestsListed`); the list is sorted and joined (`ListOrdered`); no conflicting locks; whoever sleeps has a lock in its way that will wake it; FileLock implements FileLockAbs (`ExactBytes`) |
| `flock_wait` | 3 local processes, 3 bytes, locks, reads and writes | requests never wait in a circle (`NoWaitCycle`) |
| `flock_cycle` | 2 local processes and a remote owner; violation | they do once an owner has two requests (flock.c:446) |
| `bio` | 2 processes, 2 blocks, 2 buffers, the daemon, last close, failing I/O | one buffer for a block (`OneBuffer`); buffers and memory are conserved; no waiter is forgotten; nothing is lost (`NothingLost`); `blkflush` waits for the disk (`FlushedToDisk`) |

The instances are small, but each limit is reached: full tables, no header, no
segment, no room, the last undo structure, a map without entries, no lock
structure, no buffer and no memory for one. Two processes
show every race of a pair; a third is there where a waker, a sleeper and an
interrupted process have to meet (`sem_core`, `msg`, `slp`). Processes are
interchangeable, so symmetry is used for invariants and safety; runs with
fairness do without it.

`flock_cycle` is a disagreement between the code and its comments. "deadflck does
deadlock detection for a given record" (flock.c:424), and a blocked remote request
is put on sleeplcks "for deadlock detection" (flock.c:541). But a remote owner may
have more than one request there, for another region or, when the lock in its way
has changed hands, for the same one; deadflck follows only the newest. r1 waits for
p1 and then for p2; p1 asks for a byte that r1 has: deadflck goes from r1 to p2, who
waits for nobody, and lets p1 sleep. When the newer request leaves the list the
circle p1, r1, p1 is on it, and a deadflck that enters it from a third process
never returns. `RemoteNoted` and `Sleeps` have no step in that case (`NoDeadlock`).

`SleepersBlocked` and `Settles` of Sem are about vectors without repeated
semaphores: one that takes 1 and then waits for zero sleeps until the value is 0
(sem.c:815), though it could be done at value 1. `Settles` is also about vectors
that wait before they give: two that give and then wait may wake each other for
ever (sem.c:796). `SleepersCounted` says that a counter with sleepers is above
zero, not that it counts them all: after a signal and a wakeup it may be short
(sem.c:830), which only GETNCNT and GETZCNT show. With `CopyinSleeps` a set removed
during a copyin that follows the check for it is operated on (sem.c:771); the runs
and the theorems about live sets are for copyin that does not sleep.

## 4. Fairness

* `SF(Continue(p))` in Sem and Msg: a process that is ready gets the processor
  again and again. It is strong because others run in between and `MayRun` then
  disables it. The time-sharing class raises the priority of processes that
  wait. Page faults end.
* Slp: `SF(Dispatch(p))` for the same reason; `WF` of the steps inside sleep, for
  a process that has the processor; `SF(Preempt(p))`, since a time slice ends and
  no caller goes back to sleep for ever when each sleep returns at once.
* FileLock and Bio state safety only. Their counterpart of "everybody goes on" is
  that whoever sleeps will be woken by a step that must come (`SleepersBlocked`,
  `WaitersWoken`) and that TLC finds no deadlock. The lock that blocks a request
  may never be released, and getblk hands no buffer over, so neither promises that
  a waiter gets what it waits for.
* Nothing is assumed of signals, system calls or wakeups: they may never come.

Msg has no property that a removed queue's waiters return whatever the others do:
the lock is not handed over, so a waiter may find it taken every time it runs.
`Settles` says that they return once the others stop calling.

## 5. Proofs

A theorem holds for every value of the constants that meets the assumptions of
its module, which say no more than that sizes are numbers and names differ; for
record locks, that there are finitely many owners (process ids are bounded); for the
buffer cache, that a block contains something, that processes and headers are finitely
many, and that headers do not run out before the memory does (getfreeblk allocates more
of them when it needs to, and a buffer has one unit of memory at least).

### Semaphores (`SemProofs`)

| Theorem | Says | Rests on |
|---|---|---|
| `TypeCorrect` | `[]TypeOK` | itself |
| `NoLostWakeup` | `[]SleepersCounted` | TypeOK |
| `SetsKeptApart`, `NoSleeperLeftBehind`, `OpsStayOnSet` | `[]SetsDisjoint`, `[]SleepersOnLiveSets`, `[]OpsOnLiveSet` | `Kept` |
| `NoStaleUndo` | `[]UndoNamesLiveSets` | `UndoOK` |
| `FreedUnitsAreClean` | `[]FreeUnitsClean` | itself, with Kept |
| `ValuesStayInRange` | `[]ValuesInRange` | `ValuesOK` |
| `SleepersCannotGoOn` | `[]SleepersBlocked` | `BlockedOK` |
| `SemImplementsAbs` | `AtomicSemop` | `RefInv` |

The theorems on sets, undo entries, clean units, blocked sleepers and the refinement have the
hypothesis `CopyinSleeps = FALSE`, as the runs of these properties have: when
copyin sleeps, SETALL and IPC_SET work on a set that may be gone (hazard at
sem.c:531), and they do not hold. `TypeCorrect`, `NoLostWakeup` and
`ValuesStayInRange` hold either way. `SleepersCannotGoOn` further says that no vector
names a semaphore twice, which the vectors of its run do not. Without that a
process may sleep on at a value where its operation could be done (hazard at
sem.c:798).

* TypeOK is inductive because it says what the locals of a call mean at each place
  (`LocalType`), and that headers name units of the array.
* SleepersCounted: a counter goes to zero only by `WakeCounted`, which takes
  everybody counted off that queue, or in `SemopInterrupted`, where the last one
  counted wakes the whole channel. That the interrupted process may have been left
  out of the count does not matter, which is the point of sem.c:830-834.
* `Kept`: a process keeps what it learned from semconv until it sleeps, since
  nobody else runs in between (`OneRuns`); an id that no set has now is held by no
  call (`IdsNotReused`), so semconv after a sleep fails when the set is gone; when it
  does not fail, the numbers verified after the first copyin still are semaphores
  of it. IPC_RMID empties both queues of each unit, because whoever is on them is
  counted (SleepersCounted).
* `FreeUnitsClean` needs that whoever is still inside semop's sleep when its set is
  removed comes back to a failing semconv and counts nothing down.
* `ValuesOK`: semundo subtracts without looking. What it leaves is in range since it is a
  value that the pass had before: a pass at its nth operation has a history of n + 1
  values (`Chain`), each made of the one before by one operation, and
  backing out walks along it backwards.
* `BlockedOK`: a sleeper is blocked at every value of the history of the pass under way.
  So it is blocked when that pass is taken back, and whoever leaves a blocking
  value behind wakes it.
* `RefInv` (`SemImplementsAbs`): while a process is in its loop, what it has applied is not
  yet done for the others, so `SemRefine` takes it off: values and adjustments less the sum
  of the applied operations (`Hid`, `HidUndo`). Only one process is in its loop at a time
  (`BarsSeen`), so each iteration and each one taken back changes a unit and what is hidden of it
  alike (`HidMoves`), and two semaphores have units of their own (`UnitsApart`): nobody sees it.
  That takes two more facts. semundo ignores semaoe's answer, so the adjustments must go back to
  what they were: a history of them, each of which fit into the undo structure, shows that semaoe
  does not refuse (`UndoPass`, `SemaoeTakesBack`). And the answer must be that of the whole vector
  on the abstract values: what the pass has done the vector can do (`CanDo`, so the last
  iteration is the abstract step, `DoneSeen`), and the operation at which it stopped cannot be done
  there, which is the reason of the error (`Reason`, `BlockSeen`, `RefuseSeen`). The calls around
  the loop follow from `NoStaleUndo` (an exit gives back to semaphores that exist),
  `FreedUnitsAreClean` (a new set is zero) and `SetsKeptApart` (SETALL and IPC_RMID touch no other set).

### Message queues (`MsgProofs`)

| Theorem | Says | Rests on |
|---|---|---|
| `QueuesLocked` | `[]LocksHeld` | `Inv` |
| `NobodyStarved` | `[]SleepersStarved` | `Inv` |
| `NothingLost` | `[]ResourcesConserved` | Inv, `Res` |
| `MsgImplementsAbs` | `Spec => AtomicMessages` | Inv, Res |

`Inv` says that each queue's lock has one holder, who is at a place between
msgconv and its unlock or waits for a page (`OneHolder`, `LockOwned`), and for each process
what its place promises (`Good`): the queue it names is live, the message it has picked
is still there since it holds the lock, and, if it sleeps, why. `Res` adds up
headers, segments and bytes over queues and processes. The refinement maps each step: a
send takes effect when the text is in, a receive when the message is
unlinked; everything else stutters. That it takes the right message is a lemma on the
search loops (`Found`, `Seen`), by induction on the position.

### Sleep queues (`SlpProofs`)

| Theorem | Says | Rests on |
|---|---|---|
| `StatesMatch`, `SignalsSeen` | `[]StatesMatchQueues`, `[]NothingSleptThrough` | `Inv` |
| `StopsAreHeld` | `StopsHold` | Inv, step by step |
| `SlpImplementsKSleep` | `ImplementsKSleep` | Inv, step by step |
| `QueuesAreLinked` | `[]QueuesLinked` | `ListInv` |
| `WakesOneSleeper` | `WakesOne` | ListInv, step by step |

`Inv` strengthens the two invariants by `Interruptible`: a process in an
interruptible sleep has no unseen signal unless it is on its way to look. `ListInv`
gives each hash bucket a sequence that the links follow from `sq_first` to
`sq_last`; the loops of unsleep, wakeprocs and wake_oneproc, written as
functions on the links, are shown to do to the sequence what the routine promises.

### Resource maps (`RMapProofs`)

`TablesStaySorted`, `NobodyWantsInVain` and `RMapImplementsFreeMap`
(`[]TableSorted`, `[]WantersStarved`, `ImplementsFreeMap`). The inductive invariant
names the number k of runs: the first k entries are sorted with units between them, the rest
are empty, `mapsize` is what is left. `Shift` up and down are recursive
functions; lemmas say what they do to the k entries.

### Record locks (`FlckadjProofs`, `FileLockProofs`)

| Theorem | Says | Rests on |
|---|---|---|
| `ListStaysOrdered`, `LocksNeverConflict` | `[]ListOrdered`, `[]NoConflict` | `Inv` |
| `RequestsAreListed`, `SleepersAreBlocked` | `[]RequestsListed`, `[]SleepersBlocked` | Inv |
| `FileLockImplementsAbs` | `Spec => ExactBytes` | Inv, step by step |
| `WaitersFormNoCircle` | `Remote = {} => (Spec => []NoWaitCycle)` | Inv, `Ranked` |

Everything rests on two lemmas about flckadj, `LockAdjusts` and `UnlockAdjusts`. They
say, for every ordered list, every region and any number of structures, memory failing
at any call: the list that results is ordered; no structure is lost or gained; whoever
was told to wait for a lock that is gone or was cut is woken; and the request is
either `Granted`, which changes exactly its bytes to its type, or `Refused`, which
gives nothing and takes only bytes it names or of its own type. Three layers
lead there:

* `TurnOutcome`: the thirteen region types with their falls through have six
  outcomes: the lock is before ld, or behind it, which stops the scan; there is nothing
  to do, or no structure to do it with; ld takes the lock, trims it, or splits it.
* `LockScans`: each outcome keeps `Scan`, the loop's invariant, which has two parts.
  `Kept` is about bytes: outside ld the owner has what it had before, and ld grows
  only over bytes of its own type. `Settled` and the place are about order: the own locks
  looked at are before ld or behind it, and insrt leads to where ld would be
  put. The lock that is looked at next is still on the list.
* `LoopScans` follows the fold, `PutAdjusts` the last insertion.

`Inv` joins to the ordered list that locks do not conflict, that a sleeper's lock is on
the list, flagged and in its way, and that a process has one request on
sleeplcks exactly when it sleeps. A grant makes no conflict because `blocked` has
looked through the list in the same step. The refinement maps each step by `Changes`.

`Ranked` says that owners can be numbered so that each waiter is above
the one it waits for. When p starts to wait for q, deadflck has walked
from q to the end without coming by p: adding one more than q's number to every owner
outside that walk makes a new numbering (`RanksOneMore`). A numbering stays one when
requests leave the list. The hypothesis says that no other machine asks. Without it
the claim is false, as `flock_cycle` shows: a remote owner may have two requests, of
which deadflck follows one.

### Buffer cache (`BioProofs`)

| Theorem | Says | Rests on |
|---|---|---|
| `CacheSound` | `[]IInv` | itself |
| `BlocksInOneBuffer` | `[]OneBuffer` | IInv |
| `NoBufferLost` | `[]BuffersConserved` | IInv |
| `NobodyForgotten` | `[]WaitersWoken` | IInv |
| `ContentsSound` | `[]CInv` | IInv, `Coherent` |
| `OnlyWritersChange` | `NothingLost` | CInv |
| `FlushWaitsForDisk` | `FlushedToDisk` | CInv |

`IInv` (`GoodNow` and the type of the disk) joins the three, since none is inductive alone:

* `Role`: every buffer is in exactly one of five places, with flags that go with
  it: on the free list; with a process (B_BUSY, and not B_DONE while the driver has it);
  in the hands of a process that will look again for its block; with the driver alone
  (B_ASYNC); without memory. What the driver has, and what is delayed, has a block
  (`Named`): without that the end of a request could find a buffer that was
  given away. `Unique` is the first half of OneBuffer.
* `Place`, `Has`: what a process may have where it is, and that its buffer is still that of
  its block, and done or with the driver. So biowait's process is always woken.
* `Waits`: who sleeps on a buffer sleeps on one that is busy and wanted and that the
  driver or another process has; who sleeps for memory found the free list empty.
* The memory of the buffers, of the pool, and of processes in kmem_zalloc adds up to MEM.

A step is proved in two halves. The routines are maps from caches to caches, so each gets a
lemma of its own: what it does to the buffer it is given (`BrelseIs`, `StrategySubmits`,
`Take`, `Release`), and that is all it does (`OnlyAt`). `Goes` is what a change of the
cache means for the processes that do not move: whoever waits is woken or still waits for
something that will come, and the buffers of the others are as they were. `Sound` and
`Goes` compose, so the routines that call several others follow: getfreeblk's loop
(`GetfreeblkIs`, by induction over its turns, with the writes it starts), the daemon's
sort of the free list (`SortIs`), bflush (`BflushIs`). `ProcessStep` and `SystemStep` then
join the cache and the processes, once for all actions.

Where two processes could end with two buffers of one block, the proof needs what the
code does: getblk, back with a new buffer, looks again (`GetblkAgain`), and gives the new
one back when the block has come in (`GiveBackIs`).

`NothingLost` and `FlushedToDisk` compare the cache, the driver's queue and the disk, of
which IInv says nothing. `CInv` adds `Coherent`, in three parts:

* `Clean`: what a search finds, filled and not delayed, is on the disk, and no request
  for its block is under way that could change either.
* `Delays`: what is delayed can be found, and is filled without an error.
* `InTurn`: of the requests for a block, all but the last are for stale buffers, which
  the last close left behind. So the write that counts is the last one, and a read
  behind it sees what it wrote, since the driver takes the requests for a block in order.

`Gives(s, d, k, v)` says that a read of the block k would give v, from the cache s and
the disk d. Each routine `Keeps` what reads give and Coherent, whatever is on the disk, but
for some blocks X; `Keeps` composes like `Sound` and `Goes`, and rests on what can happen
to one buffer: its contents vanish from the cache (`VanishLeads`: they are on the disk) or
appear (`AppearLeads`), it is sent to the driver (`ReadLeads`, `WriteLeads`), rewritten
(`RewriteLeads`), its request ends (`EndLeads`), or all are invalidated (`InvalidLeads`).
Over all actions X is empty but for bdwrite, bwrite, bawrite and a write that fails
(`NextKeepsContents`), and that is `NothingLost`. For `FlushedToDisk`, `FlushReturns`
finds the one step in which blkflush returns, and `RestsOnDisk` says of a cache where
nobody has the block that the disk has it.

### How recursion is reasoned about

The provers cannot instantiate the library's induction theorems, which take an
operator. `InductionLemmas` restates them with sets (`SetInduction`: a set that has
0 and with n has n + 1 has all of Nat) and functions (`SetRecursion`,
`LeftRecursion`), proved from the well-foundedness of Nat; loops over lists, sums
over sets and folds are reasoned about with these (`FoldTurns` gives a fold of the
community modules its turns, and `SumAdds` a sum its terms).

Each proof module begins with a USE of four tactics: every leaf is tried with SMT and
Zenon, and again with more time, so that the proofs do not depend on the load of the
machine.

### Model-checked only

* Liveness: `NoEternalWait`, `RemovalReleases`, `Settles`, `KilledReturns`,
  `WokenReturns`. The prover does not do fairness.

## 6. Not modelled, and the plan

Commands, libraries, X11, drivers and the network code are outside the project:
user programs, third-party code, or code that depends on hardware. Virtual
memory and file systems appear only as places where a process may sleep.

Of the parts that are modelled in part: the buffer cache without paging and physical
I/O, the signals without handlers, masks and ptrace, /proc without its looks into a
stopped process, the dispatcher without its queues.

Next, in this order:

1. `Callout`: the heap of clock.c against a set of timeouts; untimeout racing the
   clock.
2. STREAMS flow control (`canput`, back-enabling), then FIFOs; shared memory's
   delayed destruction.
