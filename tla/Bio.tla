-------------------------------- MODULE Bio ---------------------------------
(***************************************************************************)
(* The buffer cache: fs/bio.c, and the flush daemon of fs/fsflush.c.       *)
(*                                                                         *)
(* A block of a device is cached in at most one buffer that is not stale.  *)
(* A process that wants it marks the buffer busy or, if it is busy, wanted *)
(* and sleeps.  A process that finds no buffer takes one from the free     *)
(* list, or memory for a new one, and looks again, since it may have slept *)
(* and another process may have brought the block in.                      *)
(*                                                                         *)
(* A step is the code between two places where a process may lose the      *)
(* processor: sleep, kmem_zalloc(KM_SLEEP) and the driver's strategy       *)
(* routine.  An I/O request ends, by interrupt, at any time after it was   *)
(* given to the driver; requests for one block end in their order.         *)
(*                                                                         *)
(* A definition named Faulty... is not part of the model: it is what a     *)
(* likely bug would make of the definition after it.                       *)
(***************************************************************************)
EXTENDS Integers, SequencesExt, KSleep

CONSTANTS
    Buf,        \* buffer headers
    Block,      \* blocks of a device
    Size,       \* memory a buffer for each block needs (bsize)
    EmptySize,  \* size of the buffers ngeteblk gives
    MEM,        \* v_bufhwm: memory for buffers
    Value,      \* contents of a block
    AWRITEMIN,  \* bawrite is asynchronous if more buffers are free (4)
    NoBuf,      \* NULL
    NoBlock,    \* a buffer without a device (NODEV)
    Calls       \* what the processes, the daemon and the devices do

Free == <<"bfreelist", NoBuf>>
Chan == ({"buf"} \X Buf) \cup {Free}
Flag == {"BUSY", "DONE", "ASYNC", "DELWRI", "WANTED", "AGE", "STALE", "ERROR"}
Pcs  == {"user", "bufwait", "freewait", "again", "alloc", "ra", "iowait", "wwait", "hold"}
Ops  == {"none", "bread", "breada", "getblk", "ngeteblk", "blkflush"}

ASSUME SizesAssumption ==
    /\ Size \in [Block -> Nat \ {0}] /\ EmptySize \in Nat \ {0}
    /\ MEM \in Nat /\ AWRITEMIN \in Nat
ASSUME NamesAssumption == NoBuf \notin Buf /\ NoBlock \notin Block /\ NoChan \notin Chan
\* A block contains something
ASSUME ContentsAssumption == Value # {}
\* There are finitely many processes, and headers enough: getfreeblk allocates more
\* when bhdrlist is empty
ASSUME PoolsAssumption == IsFiniteSet(Proc) /\ IsFiniteSet(Buf) /\ MEM <= Cardinality(Buf)

VARIABLES
    buf,        \* buffer headers: block, flags, memory and contents
    avail,      \* the free list, bfreelist.av_forw first
    bufsize,    \* bfreelist.b_bufsize: memory not in buffers
    wanted,     \* B_WANTED of bfreelist
    disk,       \* what is on the device
    io,         \* requests the driver has, in their order
    pc,         \* where each process is
    call        \* its arguments and locals

cacheVars == <<buf, avail, bufsize, wanted, io>>
vars      == <<cacheVars, disk, wchan, pc, call>>

Header  == [blk : Block \cup {NoBlock}, flags : SUBSET Flag, size : Nat, data : Value]
Request == [bp : Buf, read : BOOLEAN]
Call    == [op : Ops, blk : Block \cup {NoBlock}, ra : Block \cup {NoBlock},
            want : Block \cup {NoBlock}, bp : Buf \cup {NoBuf}, nbp : Buf \cup {NoBuf}]

NoCall == [op |-> "none", blk |-> NoBlock, ra |-> NoBlock, want |-> NoBlock,
           bp |-> NoBuf, nbp |-> NoBuf]

\* A header without memory, on bhdrlist
Unused == [blk |-> NoBlock, flags |-> {}, size |-> 0, data |-> CHOOSE v \in Value : TRUE]

Init ==
    /\ buf = [b \in Buf |-> Unused]
    /\ avail = <<>> /\ bufsize = MEM /\ wanted = FALSE
    /\ disk \in [Block -> Value] /\ io = <<>>
    /\ wchan = [p \in Proc |-> NoChan]
    /\ pc = [p \in Proc |-> "user"]
    /\ call = [p \in Proc |-> NoCall]
-----------------------------------------------------------------------------
(* The cache as a value, so that a step can call several routines, with    *)
(* the channels that were woken and the locals of getfreeblk: savebp, and  *)
(* that its loop has ended                                                 *)

Now == [buf |-> buf, avail |-> avail, bufsize |-> bufsize, wanted |-> wanted, io |-> io,
        woken |-> {}, saved |-> NoBuf, stop |-> FALSE]

Is(s, b, f) == f \in s.buf[b].flags

Flagged(s, b, on, off) == [s EXCEPT !.buf[b].flags = (@ \ off) \cup on]

\* The step leaves the cache as s
Becomes(s) ==
    /\ buf' = s.buf /\ avail' = s.avail /\ bufsize' = s.bufsize
    /\ wanted' = s.wanted /\ io' = s.io

\* It also wakes whom it has to, or puts p to sleep after that
BecomesWaking(s) == Becomes(s) /\ Wakeprocs(s.woken)
BecomesAsleep(p, c, s) ==
    /\ Becomes(s)
    /\ wchan' = [q \in Proc |-> IF q = p THEN c
                                ELSE IF wchan[q] \in s.woken THEN NoChan ELSE wchan[q]]

Notavail(s, b) == Flagged([s EXCEPT !.avail = RemoveFirst(@, b)], b, {"BUSY"}, {})

\* Only those who want a buffer of the free list are woken
FaultyBrelseWakes(s, b) == IF s.wanted THEN {Free} ELSE {}

BrelseWakes(s, b) == (IF Is(s, b, "WANTED") THEN {<<"buf", b>>} ELSE {})
                     \cup (IF s.wanted THEN {Free} ELSE {})

\* brelse(): an error makes the buffer stale; what is old goes to the head
Brelse(s, b) ==
    LET failed == Is(s, b, "ERROR")
        old    == failed \/ Is(s, b, "AGE")
        t      == Flagged(s, b, IF failed THEN {"STALE", "AGE"} ELSE {},
                          {"WANTED", "BUSY", "ASYNC"} \cup
                          (IF failed THEN {"ERROR", "DELWRI"} ELSE {}))
    IN  [t EXCEPT !.woken = @ \cup BrelseWakes(s, b),
                  !.wanted = FALSE,
                  !.avail = IF old THEN <<b>> \o @ ELSE Append(@, b)]

\* The strategy routine is given a read (B_READ) or a write
Strategy(s, b, read) == [s EXCEPT !.io = Append(@, [bp |-> b, read |-> read])]

\* bwrite() up to the wait
StartWrite(s, b) == Strategy(Flagged(s, b, {}, {"DONE", "ERROR", "DELWRI"}), b, FALSE)

StartRead(s, b, how) == Strategy(Flagged(s, b, how, {}), b, TRUE)

\* bremhash(): the buffer cannot be found any more, and what is in it is lost
Unhash(s, b) == [s EXCEPT !.buf[b].blk = NoBlock, !.buf[b].data = Unused.data]
-----------------------------------------------------------------------------
(* getfreeblk() *)

\* Delayed writes are forgotten
FaultyReclaim(s, b, bsize) ==
    LET t == Unhash(Notavail(s, b), b)
    IN  IF t.buf[b].size = bsize THEN [t EXCEPT !.saved = b]
        ELSE [t EXCEPT !.bufsize = @ + t.buf[b].size, !.buf[b] = Unused]

\* One turn of its loop: the buffer is written, taken or given up
Reclaim(s, b, bsize) ==
    LET t == Notavail(s, b)
    IN  IF Is(t, b, "DELWRI") THEN StartWrite(Flagged(t, b, {"ASYNC", "AGE"}, {}), b)
        ELSE IF t.buf[b].size = bsize THEN [Unhash(t, b) EXCEPT !.saved = b]
        ELSE [t EXCEPT !.bufsize = @ + t.buf[b].size, !.buf[b] = Unused]

\* The loop, from the head of the free list
Getfreeblk(s, bsize) ==
    LET turn(t, b) ==
            IF ~ t.stop /\ t.saved = NoBuf /\ (t.bufsize < bsize \/ Is(t, b, "AGE"))
            THEN Reclaim(t, b, bsize) ELSE [t EXCEPT !.stop = TRUE]
    IN  FoldLeft(turn, s, s.avail)

Bsize(blk) == IF blk = NoBlock THEN EmptySize ELSE Size[blk]
-----------------------------------------------------------------------------
(* getblk(), with what its caller does next *)

\* incore(), and the search of getblk: the buffers of the block
Incore(s, blk) ==
    {b \in Buf : blk # NoBlock /\ s.buf[b].blk = blk /\ ~ Is(s, b, "STALE")}

Goto(p, where, c) ==
    pc' = [pc EXCEPT ![p] = where] /\ call' = [call EXCEPT ![p] = c]

Return(p) == Goto(p, "user", NoCall)

\* The caller has the buffer b, in the cache s: it reads what is not there, and
\* breada goes on to the block to read ahead
Got(p, c, b, s) ==
    CASE c.op = "breada" /\ c.want = c.ra ->
           /\ BecomesWaking(IF Is(s, b, "DONE") THEN Brelse(s, b)
                            ELSE StartRead(s, b, {"ASYNC"}))
           /\ Goto(p, "ra", [c EXCEPT !.ra = NoBlock, !.nbp = NoBuf])
      [] c.op = "breada" /\ c.want # c.ra ->
           /\ BecomesWaking(IF Is(s, b, "DONE") THEN s ELSE StartRead(s, b, {}))
           /\ Goto(p, "ra", [c EXCEPT !.bp = b, !.nbp = NoBuf])
      [] c.op = "bread" /\ ~ Is(s, b, "DONE") ->
           /\ BecomesWaking(StartRead(s, b, {}))
           /\ Goto(p, "iowait", [c EXCEPT !.bp = b, !.nbp = NoBuf])
      [] OTHER ->
           /\ BecomesWaking(s)
           /\ Goto(p, "hold", [c EXCEPT !.bp = b, !.nbp = NoBuf])

\* The new buffer becomes the block's
Assign(s, b, c) ==
    [s EXCEPT !.buf[b].flags = IF c.want = NoBlock THEN {"BUSY", "AGE"} ELSE {"BUSY"},
              !.buf[b].blk = c.want]

\* The block is there but busy
GetblkBusy(p, c) ==
    \E b \in Incore(Now, c.want) :
      /\ Is(Now, b, "BUSY")
      /\ BecomesAsleep(p, <<"buf", b>>, Flagged(Now, b, {"WANTED"}, {}))
      /\ Goto(p, "bufwait", c)

\* It is lost
FaultyGiveBack(s, b) == s

\* A buffer that was taken in vain is released
GiveBack(s, b) ==
    IF b = NoBuf THEN s
    ELSE Brelse([s EXCEPT !.buf[b].flags = {"BUSY"}, !.buf[b].blk = NoBlock], b)

\* It is there and free
GetblkFound(p, c) ==
    \E b \in Incore(Now, c.want) :
      /\ ~ Is(Now, b, "BUSY")
      /\ Got(p, c, b, GiveBack(Flagged(Notavail(Now, b), b, {}, {"AGE"}), c.nbp))

\* It is not there, and the process has a buffer for it
GetblkNew(p, c) ==
    /\ Incore(Now, c.want) = {} /\ c.nbp # NoBuf
    /\ Got(p, c, c.nbp, Assign(Now, c.nbp, c))

\* It is not there: getfreeblk finds a buffer, has to wait, or allocates one
GetblkFree(p, c) ==
    LET s     == Getfreeblk(Now, Bsize(c.want))
        taken == [c EXCEPT !.nbp = s.saved]
    IN  /\ Incore(Now, c.want) = {} /\ c.nbp = NoBuf
        /\ \/ /\ s.saved # NoBuf /\ s.io = io
              /\ Got(p, taken, s.saved, Assign(s, s.saved, taken))
           \/ /\ s.saved # NoBuf /\ s.io # io
              /\ BecomesWaking(s) /\ Goto(p, "again", taken)
           \/ /\ s.saved = NoBuf /\ s.bufsize < Bsize(c.want)
              /\ BecomesAsleep(p, Free, [s EXCEPT !.wanted = TRUE])
              /\ Goto(p, "freewait", c)
           \/ /\ s.saved = NoBuf /\ s.bufsize >= Bsize(c.want)
              /\ BecomesWaking([s EXCEPT !.bufsize = @ - Bsize(c.want)])
              /\ Goto(p, "alloc", c)

Getblk(p, c) ==
    /\ GetblkBusy(p, c) \/ GetblkFound(p, c) \/ GetblkNew(p, c) \/ GetblkFree(p, c)
    /\ UNCHANGED disk

\* sleep or a strategy routine has returned: look again
GetblkAgain(p) ==
    /\ pc[p] \in {"bufwait", "freewait", "again"} /\ ~ Asleep(p) /\ call[p].op # "blkflush"
    /\ Getblk(p, call[p])

\* bhdrlist.av_forw
Bhdr == CHOOSE b \in Buf : buf[b].size = 0

\* The block is not looked for again
FaultyGetblkAlloc(p) ==
    /\ pc[p] = "alloc"
    /\ LET b == Bhdr
           c == [call[p] EXCEPT !.nbp = b]
       IN  Got(p, c, b, Assign([Now EXCEPT !.buf[b].size = Bsize(c.want)], b, c))
    /\ UNCHANGED disk

\* kmem_zalloc has returned: the header gets its memory and the process looks
\* again with it
GetblkAlloc(p) ==
    /\ pc[p] = "alloc"
    /\ buf' = [buf EXCEPT ![Bhdr].size = Bsize(call[p].want)]
    /\ Goto(p, "again", [call[p] EXCEPT !.nbp = Bhdr])
    /\ UNCHANGED <<avail, bufsize, wanted, io, disk, wchan>>
-----------------------------------------------------------------------------
(* The routines of the interface *)

Enters(p, op) == pc[p] = "user" /\ op \in Calls

Bread(p, blk) ==
    Enters(p, "bread") /\ Getblk(p, [NoCall EXCEPT !.op = "bread", !.blk = blk, !.want = blk])

\* A caller that writes the whole block does not read it first
GetblkCall(p, blk) ==
    Enters(p, "getblk") /\ Getblk(p, [NoCall EXCEPT !.op = "getblk", !.blk = blk, !.want = blk])

Ngeteblk(p) == Enters(p, "ngeteblk") /\ Getblk(p, [NoCall EXCEPT !.op = "ngeteblk"])

\* breada: first the block, if it is not there
Breada(p, blk, ra) ==
    LET c == [NoCall EXCEPT !.op = "breada", !.blk = blk, !.ra = ra, !.want = blk]
    IN  /\ Enters(p, "breada") /\ blk # ra /\ Size[blk] = Size[ra]
        /\ \/ Incore(Now, blk) = {} /\ Getblk(p, c)
           \/ Incore(Now, blk) # {} /\ Goto(p, "ra", c) /\ UNCHANGED <<cacheVars, disk, wchan>>

AsBread(c) == [c EXCEPT !.op = "bread", !.ra = NoBlock, !.want = c.blk]

\* Then the one to read ahead, if there are buffers and it is not there either;
\* at last the wait for the first, which may have to be read after all
BreadaAhead(p) ==
    LET c     == call[p]
        ahead == c.ra # NoBlock /\ Len(avail) > 1 /\ Incore(Now, c.ra) = {}
    IN  /\ pc[p] = "ra"
        /\ \/ ahead /\ Getblk(p, [c EXCEPT !.want = c.ra])
           \/ ~ ahead /\ c.bp = NoBuf /\ Getblk(p, AsBread(c))
           \/ ~ ahead /\ c.bp # NoBuf /\ Goto(p, "iowait", AsBread(c))
              /\ UNCHANGED <<cacheVars, disk, wchan>>

\* blookup: only a buffer that is free and filled
Blookup(p, blk) ==
    /\ Enters(p, "blookup")
    /\ \E b \in Incore(Now, blk) :
         /\ ~ Is(Now, b, "BUSY") /\ Is(Now, b, "DONE")
         /\ BecomesWaking(Flagged(Notavail(Now, b), b, {}, {"AGE"}))
         /\ Goto(p, "hold", [NoCall EXCEPT !.op = "bread", !.blk = blk, !.want = blk, !.bp = b])
    /\ UNCHANGED disk

\* biowait: not done
BiowaitSleep(p) ==
    LET b == call[p].bp
    IN  /\ pc[p] \in {"iowait", "wwait"} /\ ~ Asleep(p) /\ ~ Is(Now, b, "DONE")
        /\ BecomesAsleep(p, <<"buf", b>>, Flagged(Now, b, {"WANTED"}, {}))
        /\ UNCHANGED <<disk, pc, call>>

\* A read is done
BiowaitRead(p) ==
    /\ pc[p] = "iowait" /\ ~ Asleep(p) /\ Is(Now, call[p].bp, "DONE")
    /\ Goto(p, "hold", call[p])
    /\ UNCHANGED <<cacheVars, disk, wchan>>

\* A write is done: bwrite releases the buffer
BiowaitWrite(p) ==
    /\ pc[p] = "wwait" /\ ~ Asleep(p) /\ Is(Now, call[p].bp, "DONE")
    /\ BecomesWaking(Brelse(Now, call[p].bp))
    /\ IF call[p].op = "blkflush" THEN Goto(p, "again", [call[p] EXCEPT !.bp = NoBuf])
       ELSE Return(p)
    /\ UNCHANGED disk

\* The caller has no use for the buffer, or saw an error
BrelseCall(p) ==
    /\ pc[p] = "hold"
    /\ BecomesWaking(Brelse(Now, call[p].bp)) /\ Return(p)
    /\ UNCHANGED disk

\* The caller may write: it has the block, without an error
MayWrite(p) == pc[p] = "hold" /\ call[p].blk # NoBlock /\ ~ Is(Now, call[p].bp, "ERROR")

Filled(b, v) == [Now EXCEPT !.buf[b].data = v]

\* bdwrite, btwrite
Bdwrite(p, v) ==
    LET b == call[p].bp
    IN  /\ MayWrite(p)
        /\ BecomesWaking(Brelse(Flagged(Filled(b, v), b, {"DELWRI", "DONE"}, {}), b))
        /\ Return(p)
        /\ UNCHANGED disk

Bwrite(p, v) ==
    /\ MayWrite(p)
    /\ BecomesWaking(StartWrite(Filled(call[p].bp, v), call[p].bp))
    /\ Goto(p, "wwait", call[p])
    /\ UNCHANGED disk

\* bawrite, when enough buffers are free; otherwise it is bwrite
Bawrite(p, v) ==
    LET b == call[p].bp
    IN  /\ MayWrite(p) /\ Len(avail) > AWRITEMIN
        /\ BecomesWaking(StartWrite(Flagged(Filled(b, v), b, {"ASYNC"}, {}), b))
        /\ Return(p)
        /\ UNCHANGED disk

\* A buffer that somebody has is passed over
FaultyBlkflushTurn(p, c) ==
    /\ \/ \E b \in Incore(Now, c.blk) :
            /\ ~ Is(Now, b, "BUSY") /\ Is(Now, b, "DELWRI")
            /\ BecomesWaking(StartWrite(Notavail(Now, b), b))
            /\ Goto(p, "wwait", [c EXCEPT !.bp = b])
       \/ /\ \A b \in Incore(Now, c.blk) : Is(Now, b, "BUSY") \/ ~ Is(Now, b, "DELWRI")
          /\ Return(p) /\ UNCHANGED <<cacheVars, wchan>>
    /\ UNCHANGED disk

\* One turn of blkflush's loop
BlkflushTurn(p, c) ==
    /\ \/ \E b \in Incore(Now, c.blk) :
            \/ /\ Is(Now, b, "BUSY")
               /\ BecomesAsleep(p, <<"buf", b>>, Flagged(Now, b, {"WANTED"}, {}))
               /\ Goto(p, "bufwait", c)
            \/ /\ ~ Is(Now, b, "BUSY") /\ Is(Now, b, "DELWRI")
               /\ BecomesWaking(StartWrite(Notavail(Now, b), b))
               /\ Goto(p, "wwait", [c EXCEPT !.bp = b])
       \/ /\ \A b \in Incore(Now, c.blk) : ~ Is(Now, b, "BUSY") /\ ~ Is(Now, b, "DELWRI")
          /\ Return(p) /\ UNCHANGED <<cacheVars, wchan>>
    /\ UNCHANGED disk

Blkflush(p, blk) ==
    /\ Enters(p, "blkflush")
    /\ BlkflushTurn(p, [NoCall EXCEPT !.op = "blkflush", !.blk = blk])

BlkflushAgain(p) ==
    /\ pc[p] \in {"bufwait", "again"} /\ ~ Asleep(p) /\ call[p].op = "blkflush"
    /\ BlkflushTurn(p, call[p])
-----------------------------------------------------------------------------
(* The flush daemon, the last close of the device, and the driver *)

Delayed(s) == {b \in ToSet(s.avail) : Is(s, b, "DELWRI")}

FlushOne(s, b) == StartWrite(Notavail(Flagged(s, b, {"ASYNC"}, {}), b), b)

\* fsflush moves the delayed writes that are old to the head of the free list and
\* writes the first, or, when it comes back from PREEMPT, the next of them
Fsflush ==
    /\ "fsflush" \in Calls
    /\ \E old \in (SUBSET Delayed(Now)) \ {{}} :
         LET move(list, b) == IF b \in old THEN <<b>> \o RemoveFirst(list, b) ELSE list
             sorted == [Now EXCEPT !.avail = FoldLeft(move, avail, avail)]
         IN  BecomesWaking(FlushOne(sorted, Head(sorted.avail)))
    /\ UNCHANGED <<disk, pc, call>>

\* device_close: bflush, then binval
DeviceClose ==
    LET s == FoldLeft(LAMBDA t, b : IF Is(t, b, "DELWRI") THEN FlushOne(t, b) ELSE t, Now, avail)
    IN  /\ "close" \in Calls /\ \A p \in Proc : pc[p] = "user"
        /\ BecomesWaking([s EXCEPT !.buf = [b \in Buf |->
              IF s.buf[b].blk # NoBlock
              THEN [s.buf[b] EXCEPT !.flags = @ \cup {"STALE", "AGE"}] ELSE s.buf[b]]])
        /\ UNCHANGED <<disk, pc, call>>

\* biodone(), once B_DONE is set
Finished(s, b) ==
    IF Is(s, b, "ASYNC") THEN Brelse(s, b)
    ELSE [Flagged(s, b, {}, {"WANTED"}) EXCEPT !.woken = @ \cup {<<"buf", b>>}]

\* A request is done, well or with an error; the first for its block
Biodone(r, error) ==
    LET b    == r.bp
        blk  == buf[b].blk
        done == [Flagged(Now, b, {"DONE"} \cup (IF error THEN {"ERROR"} ELSE {}), {})
                 EXCEPT !.io = RemoveFirst(io, r)]
    IN  /\ \E i \in DOMAIN io : io[i] = r /\ \A j \in 1 .. i - 1 : buf[io[j].bp].blk # blk
        /\ error => "error" \in Calls
        /\ BecomesWaking(Finished(IF r.read /\ ~ error
                                  THEN [done EXCEPT !.buf[b].data = disk[blk]] ELSE done, b))
        /\ disk' = IF r.read \/ error THEN disk ELSE [disk EXCEPT ![blk] = buf[b].data]
        /\ UNCHANGED <<pc, call>>
-----------------------------------------------------------------------------
Continue(p) ==
    \/ GetblkAgain(p) \/ GetblkAlloc(p) \/ BreadaAhead(p) \/ BlkflushAgain(p)
    \/ BiowaitSleep(p) \/ BiowaitRead(p) \/ BiowaitWrite(p)

Starts(p) ==
    \/ \E blk \in Block : \/ Bread(p, blk) \/ GetblkCall(p, blk) \/ Blookup(p, blk)
                          \/ Blkflush(p, blk) \/ \E ra \in Block : Breada(p, blk, ra)
    \/ Ngeteblk(p)

Releases(p) ==
    BrelseCall(p) \/ \E v \in Value : Bdwrite(p, v) \/ Bwrite(p, v) \/ Bawrite(p, v)

Interrupt == \E r \in ToSet(io) : \E error \in BOOLEAN : Biodone(r, error)

Next ==
    \/ \E p \in Proc : Starts(p) \/ Continue(p) \/ Releases(p)
    \/ Fsflush \/ DeviceClose \/ Interrupt

Spec == Init /\ [][Next]_vars
-----------------------------------------------------------------------------
(* Properties *)

\* Types; memory is never handed out twice nor below zero
TypeOK ==
    /\ buf \in [Buf -> Header] /\ avail \in Seq(Buf) /\ io \in Seq(Request)
    /\ bufsize \in 0 .. MEM /\ wanted \in BOOLEAN /\ disk \in [Block -> Value]
    /\ wchan \in [Proc -> Chan \cup {NoChan}]
    /\ pc \in [Proc -> Pcs] /\ call \in [Proc -> Call]

\* A block is never in two buffers that can be found, and whoever has a block has
\* the one that others find, filled if it was to be read: two processes do not
\* write to two copies (getblk looks again after everything that may sleep)
OneBuffer ==
    /\ \A blk \in Block : Cardinality(Incore(Now, blk)) <= 1
    /\ \A p \in Proc : pc[p] = "hold" /\ call[p].blk # NoBlock =>
         /\ Incore(Now, call[p].blk) = {call[p].bp}
         /\ call[p].op # "getblk" => Is(Now, call[p].bp, "DONE")

InIo     == {r.bp : r \in ToSet(io)}
Users(b) == {p \in Proc : b \in {call[p].bp, call[p].nbp}}

\* Every buffer is on the free list, or one process has it, or the driver will
\* release it, or it has no memory, and never two of these; and the memory of the
\* buffers, with what is set aside for new ones, is all there is (notavail,
\* brelse, biodone, getfreeblk)
BuffersConserved ==
    /\ TypeOK
    /\ \A b \in Buf :
         LET free == Cardinality({i \in DOMAIN avail : avail[i] = b})
             busy == Is(Now, b, "BUSY")
         IN  \/ free = 1 /\ ~ busy /\ Users(b) = {} /\ b \notin InIo
             \/ /\ free = 0 /\ ~ Is(Now, b, "ASYNC")
                /\ \E p \in Proc : Users(b) = {p} /\ (call[p].bp = b => busy)
             \/ free = 0 /\ busy /\ Users(b) = {} /\ b \in InIo /\ Is(Now, b, "ASYNC")
             \/ free = 0 /\ Users(b) = {} /\ buf[b] = Unused
    /\ MEM = bufsize + SumFunction([b \in Buf |-> buf[b].size])
              + SumFunction([p \in Proc |-> IF pc[p] = "alloc" THEN Bsize(call[p].want) ELSE 0])

\* Nobody sleeps for a buffer that is there.  Whoever sleeps on a buffer sleeps on
\* one that is busy and that somebody will release or finish, waking it; whoever
\* sleeps for memory will be woken, and there is no free buffer and too little
\* memory (B_WANTED: getblk, biowait, getfreeblk, brelse)
WaitersWoken ==
    \A p \in Proc :
      /\ \A b \in Buf : wchan[p] = <<"buf", b>> =>
           /\ Is(Now, b, "BUSY") /\ Is(Now, b, "WANTED")
           /\ b \in InIo \/ Users(b) \ {p} # {}
      /\ wchan[p] = Free => wanted /\ avail = <<>> /\ bufsize < Bsize(call[p].want)

\* What a read of the block would give: the contents of its buffer, of the last
\* write on its way, or of the disk
Current(blk) ==
    LET filled  == {b \in Incore(Now, blk) : Is(Now, b, "DONE") /\ ~ Is(Now, b, "ERROR")}
        writing == SelectLastInSeq(io, LAMBDA r : buf[r.bp].blk = blk /\ ~ r.read)
    IN  IF filled # {} THEN buf[CHOOSE b \in filled : TRUE].data
        ELSE IF writing # 0 THEN buf[io[writing].bp].data
        ELSE disk[blk]

\* A block changes only when a process that has its buffer writes it, or when
\* writing it fails: whatever is delayed, reclaimed, flushed, invalidated and read
\* again, no other step loses or revives contents (getfreeblk, fsflush, brelse,
\* blkflush, device_close)
NothingLost ==
    [][\A blk \in Block : Current(blk)' # Current(blk) =>
         \/ \E p \in Proc : MayWrite(p) /\ call[p].blk = blk /\ pc'[p] # "hold"
         \/ \E r \in ToSet(io) : buf[r.bp].blk = blk /\ ~ r.read /\ Biodone(r, TRUE)]_vars

\* blkflush returns only when what the block contains is on the disk: it waits for
\* whoever has the buffer and for writes on their way, and looks again after each.
\* Only a write that the last close of the device left behind is not waited for
FlushedToDisk ==
    [][\A p \in Proc : call[p].op = "blkflush" /\ pc'[p] = "user" =>
         LET blk == call[p].blk
         IN  \/ disk[blk] = Current(blk)
             \/ \E b \in InIo : buf[b].blk = blk /\ Is(Now, b, "STALE")]_vars
=============================================================================
