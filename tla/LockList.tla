------------------------------ MODULE LockList ------------------------------
(***************************************************************************)
(* The list of record locks of a file, and the two routines of fs/flock.c  *)
(* that read and change it: blocked and flckadj.                           *)
(*                                                                         *)
(* A lock covers the bytes start .. end; wakeflg says whether anybody was  *)
(* told to wait for it.  The address of a lock, which is also the channel  *)
(* its waiters sleep on, is its owner and first byte: the first byte of a  *)
(* lock on the list never changes, and an owner has one lock for it.       *)
(*                                                                         *)
(* A definition named Faulty... is not part of the model: it is what a     *)
(* likely bug would make of the definition after it.                       *)
(***************************************************************************)
EXTENDS Integers, SequencesExt

CONSTANTS
    FLCKREC,    \* tune.t_flckrec: lock structures in the system
    MAXEND      \* the last byte a file can have

Byte == 0 .. MAXEND

At(f) == <<f.owner, f.start>>
NULL  == <<>>

\* A lock or an unlock that is asked for
Region(owners, types) ==
    {r \in [owner : owners, type : types, start : Byte, end : Byte] : r.start <= r.end}

Overlap(f, r)  == f.start <= r.end /\ r.start <= f.end
Conflict(f, r) == f.owner # r.owner /\ Overlap(f, r) /\ (f.type = "wr" \/ r.type = "wr")

Pos(list, at) == SelectInSeq(list, LAMBDA f : At(f) = at)

\* What is left of a list when the members of S are deleted from it, from the
\* first to the last
Omit(list, S) ==
    FoldLeft(LAMBDA kept, f : IF f \in S THEN kept ELSE Append(kept, f), <<>>, list)

\* flp->prev
Prev(list, at) == IF Pos(list, at) = 1 THEN NULL ELSE At(list[Pos(list, at) - 1])
-----------------------------------------------------------------------------
(* blocked() *)

\* The first lock in the way of r, as its index, or 0
Blocked(list, r) == SelectInSeq(list, LAMBDA f : Conflict(f, r))

\* insrt when nothing is in the way: the first own lock that r touches, or the
\* last lock that starts before r
Insrt(list, r) ==
    LET before   == {i \in DOMAIN list : list[i].start < r.start}
        touching == {i \in before : list[i].owner = r.owner /\ r.start - 1 <= list[i].end}
    IN  IF before = {} THEN NULL
        ELSE IF touching # {} THEN At(list[Min(touching)])
        ELSE At(list[Max(before)])
-----------------------------------------------------------------------------
(* flckadj().  A scan s of the list carries the list, the (un)lock ld as   *)
(* it grows, the place insrt, the locks whose sleepers were woken, how     *)
(* many more structures there are (room) and how many more kmem_zalloc     *)
(* will give (mem).  It stops at the end of the own locks that matter; it  *)
(* is over when nothing is left to insert.                                 *)

NewLock(r) ==
    [owner |-> r.owner, type |-> r.type, start |-> r.start, end |-> r.end, wakeflg |-> FALSE]

\* The place is not looked for: the new lock goes right behind insrt
FaultyBehind(list, at, start) == at

\* The walk from at to the last lock that starts before the given byte
Behind(list, at, start) ==
    IF at = NULL THEN NULL
    ELSE LET from == Pos(list, at)
             stop == SelectInSubSeq(list, from, Len(list), LAMBDA f : f.start >= start)
             last == IF stop = 0 THEN Len(list) ELSE stop - 1
         IN  At(list[Max({from, last})])

Insflck(s, r, at) ==
    IF s.room = 0 \/ s.mem = 0
    THEN [s EXCEPT !.enolck = TRUE, !.stop = TRUE, !.over = TRUE]
    ELSE [s EXCEPT !.list = InsertAt(s.list, Pos(s.list, at) + 1, NewLock(r)),
                   !.room = @ - 1, !.mem = @ - 1]

Delflck(s, f) ==
    [s EXCEPT !.list = RemoveAt(s.list, Pos(s.list, At(f))), !.room = @ + 1,
              !.woken = IF f.wakeflg THEN @ \cup {At(f)} ELSE @]

\* The sleepers are not woken: what they wait for may be behind the new end
FaultyTrim(s, f) ==
    [s EXCEPT !.list[Pos(s.list, At(f))].end = s.ld.start - 1, !.insrt = At(f)]

\* f keeps what is before ld
Trim(s, f) ==
    [s EXCEPT !.list[Pos(s.list, At(f))] = [@ EXCEPT !.end = s.ld.start - 1, !.wakeflg = FALSE],
              !.insrt = At(f),
              !.woken = IF f.wakeflg THEN @ \cup {At(f)} ELSE @]

\* The part of f after ld becomes a lock of its own
SplitAfter(s, f) ==
    Insflck(s, [f EXCEPT !.start = s.ld.end + 1], Behind(s.list, At(f), s.ld.end + 1))

\* regflck(): where ld starts and ends relative to f
Regflck(ld, f) ==
    IF ld.start > f.end THEN <<IF ld.start - 1 = f.end THEN "end" ELSE "after", "after">>
    ELSE <<CASE ld.start > f.start -> "middle"
             [] ld.start = f.start -> "start"
             [] OTHER              -> "before",
           CASE ld.end = f.end       -> "end"
             [] ld.end > f.end       -> "after"
             [] ld.end = f.start - 1 -> "start"
             [] ld.end < f.start - 1 -> "before"
             [] OTHER                -> "middle">>

Stop(s)        == [s EXCEPT !.stop = TRUE]
AlreadySet(s)  == [s EXCEPT !.stop = TRUE, !.over = TRUE]
FromPrev(s, f) == [s EXCEPT !.insrt = Prev(s.list, At(f))]

\* ld does not grow over the lock that it replaces
FaultyJoinBefore(s, f) == Delflck(FromPrev(s, f), f)

\* ld takes over the own lock that it continues, or that continues it
JoinBefore(s, f) == Delflck([FromPrev(s, f) EXCEPT !.ld.start = f.start], f)
JoinAfter(s, f)  == Delflck([s EXCEPT !.ld.end = f.end], f)

\* ld ends inside f, which is of another type: f is cut in two
RestCut(cut, f, middle) ==
    IF cut.enolck THEN cut ELSE Stop(IF middle THEN Trim(cut, f) ELSE Delflck(cut, f))

CutEnd(s, f, middle) == RestCut(SplitAfter(s, f), f, middle)

\* What is done with an own lock f, of ld's type or not, by where ld lies
FlckadjOwn(s, f, same, reg) ==
    CASE reg = <<"before", "before">> -> Stop(s)
      [] reg = <<"before", "start">>  -> Stop(IF same THEN JoinAfter(s, f) ELSE s)
      [] reg = <<"start", "end">>     ->
           IF same THEN AlreadySet(s) ELSE Delflck(FromPrev(s, f), f)
      [] reg = <<"start", "after">>   -> Delflck(FromPrev(s, f), f)
      [] reg = <<"before", "end">>    -> [Delflck(s, f) EXCEPT !.stop = same]
      [] reg = <<"before", "after">>  -> Delflck(s, f)
      [] reg = <<"start", "middle">>  ->
           IF same THEN AlreadySet(s) ELSE CutEnd(FromPrev(s, f), f, FALSE)
      [] reg = <<"middle", "middle">> ->
           IF same THEN AlreadySet(s) ELSE CutEnd(s, f, TRUE)
      [] reg = <<"before", "middle">> ->
           IF same THEN Stop(JoinAfter(s, f)) ELSE CutEnd(s, f, FALSE)
      [] reg = <<"middle", "end">>    -> IF same THEN AlreadySet(s) ELSE Trim(s, f)
      [] reg = <<"middle", "after">>  -> IF same THEN JoinBefore(s, f) ELSE Trim(s, f)
      [] reg = <<"end", "after">>     -> IF same THEN JoinBefore(s, f) ELSE s
      [] reg = <<"after", "after">>   -> [s EXCEPT !.insrt = At(f)]

\* One turn of the loop
FlckadjLock(s, f) ==
    IF s.stop \/ f.owner # s.ld.owner THEN s
    ELSE FlckadjOwn(s, f, s.ld.type = f.type, Regflck(s.ld, f))

\* The whole routine: the scan from insrt on, and the new lock
Flckadj(list, insrt, r, room, mem) ==
    LET from == IF insrt = NULL THEN 1 ELSE Pos(list, insrt)
        scan == FoldLeft(FlckadjLock,
                         [list |-> list, insrt |-> insrt, ld |-> r, woken |-> {}, room |-> room,
                          mem |-> mem, stop |-> FALSE, over |-> FALSE, enolck |-> FALSE],
                         SubSeq(list, from, Len(list)))
    IN  IF scan.over \/ r.type = "un" THEN scan
        ELSE Insflck(scan, scan.ld, Behind(scan.list, scan.insrt, scan.ld.start))

\* cleanlocks()
Cleanlocks(list, owner) ==
    [list  |-> Omit(list, {f \in ToSet(list) : f.owner = owner}),
     woken |-> {At(f) : f \in {g \in ToSet(list) : g.owner = owner /\ g.wakeflg}}]
=============================================================================
