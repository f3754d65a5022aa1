--------------------------- MODULE FileLockProofs ---------------------------
(***************************************************************************)
(* Theorems about FileLock, for every set of owners, every size of a file, *)
(* every set of requests and every number of lock structures.              *)
(***************************************************************************)
EXTENDS FileLockRefine, FlckadjProofs

\* A leaf is tried with SMT, then with Zenon, then with more time for each
USE SMT, Zenon, SMTT(30), ZenonT(60)

\* Nobody has what another has locked for writing
Peace(S) == \A f, g \in S : ~ Conflict(f, g)

\* The locks in the way of r
InWay(S, r) == {f \in S : Conflict(f, r)}

\* One request of each process of P is on the list, and of no other process
Listed(sl, P) == \A p \in Proc : Cardinality(Mine(sl, p)) = IF p \in P THEN 1 ELSE 0

Sleepers == {p \in Proc : pc[p] = "sleep"}

\* A process asks for one of the regions
Asks(p, c) == c \in Call /\ \E r \in Requests : c.req = Asked(p, r, r.type)

Inv ==
    /\ TypeOK /\ call = [p \in Proc |-> call[p]]
    /\ SleepersBlocked
    /\ Sane(filocks) /\ Peace(ToSet(filocks))
    /\ Len(filocks) + Len(sleeplcks) <= FLCKREC
    /\ \A p \in Proc : Asleep(p) => pc[p] = "sleep"
    /\ \A p \in Sleepers : Asks(p, call[p])
    /\ Listed(sleeplcks, Sleepers)

\* What a step may do to the locks: to leave the bytes alone; to grant a request,
\* or an unlock, or to fail in it; to close the file
Changes ==
    LET S == ToSet(filocks)
        T == ToSet(filocks')
    IN  \/ \A o \in Owner, b \in Byte : \A t : Holds(T, o, b, t) <=> Holds(S, o, b, t)
        \/ \E o \in Owner, r \in Requests :
             LET a == Asked(o, r, r.type)
                 u == Asked(o, r, "un")
             IN  \/ Granted(T, S, a) /\ InWay(S, a) = {}
                 \/ Refused(T, S, a)
                 \/ Granted(T, S, u)
                 \/ Refused(T, S, u)
        \/ \E o \in Owner : T = {f \in S : f.owner # o}
-----------------------------------------------------------------------------
(* The list of locks *)

\* What blocked finds, and what it means that it finds nothing.
LEMMA BlockedIs ==
    ASSUME NEW l, Sane(l), NEW r
    PROVE  \/ Blocked(l, r) = 0 /\ InWay(ToSet(l), r) = {}
           \/ Blocked(l, r) \in 1 .. Len(l) /\ Conflict(l[Blocked(l, r)], r)
<1> DEFINE n == Len(l)
           I == {i \in 1 .. n : Conflict(l[i], r)}
<1>0. l \in Seq(LockType) /\ n \in Nat
  BY DEF Sane
<1>1. Blocked(l, r) = IF I # {} THEN Min(I) ELSE 0
  BY DEF Blocked, SelectInSeq
<1>2. CASE I # {}
  <2>1. I \in SUBSET (1 .. n)
    OBVIOUS
  <2>2. Min(I) \in I
    <3> HIDE DEF I, n
    <3> QED BY <1>0, <1>2, <2>1, LeastPosition
  <2> QED BY <1>1, <1>2, <2>2
<1>3. CASE I = {}
  BY <1>0, <1>1, <1>3, Members DEF InWay
<1> QED BY <1>2, <1>3

\* Two conflicting locks have a byte in common.
LEMMA CommonByte ==
    ASSUME NEW f, NEW g, f.start \in Byte, f.end \in Byte, g.start \in Byte, g.end \in Byte,
           f.start <= f.end, g.start <= g.end, Overlap(f, g)
    PROVE  \E b \in Byte : /\ f.start <= b /\ b <= f.end
                           /\ g.start <= b /\ b <= g.end
<1>1. f.start \in Int /\ f.end \in Int /\ g.start \in Int /\ g.end \in Int
  BY SizesAssumption DEF Byte
<1>2. f.start <= g.start \/ g.start <= f.start
  BY <1>1
<1>3. f.start <= g.end /\ g.start <= f.end /\ f.start <= f.start /\ g.start <= g.start
  BY <1>1 DEF Overlap
<1> QED BY <1>2, <1>3

\* A region that is asked for.
LEMMA AskedIs ==
    ASSUME NEW o \in Owner, NEW r \in Requests
    PROVE  /\ Asked(o, r, r.type) \in Region(Owner, {"rd", "wr"})
           /\ Asked(o, r, "un") \in Region(Owner, {"un"})
           /\ Asked(o, r, r.type).owner = o /\ Asked(o, r, "un").owner = o
BY InputsAssumption DEF Asked, Region

\* A lock that is granted to o, when nothing was in its way, makes no conflict,
\* and a refusal or an unlock makes none.
LEMMA AdjustedPeace ==
    ASSUME NEW l, Sane(l), Peace(ToSet(l)), NEW m, Sane(m), NEW r,
           r.start \in Int, r.end \in Int,
           \/ r.type = "un" /\ Granted(ToSet(m), ToSet(l), r)
           \/ InWay(ToSet(l), r) = {} /\ Granted(ToSet(m), ToSet(l), r)
           \/ Refused(ToSet(m), ToSet(l), r)
    PROVE  Peace(ToSet(m))
<1> DEFINE S == ToSet(m)  L == ToSet(l)
<1>1. \A f \in S \cup L : /\ f.start \in Byte /\ f.end \in Byte /\ f.start <= f.end
                          /\ f \in LockType
  BY Found DEF Proper, LockType
<1>2. \A f : f.owner # r.owner => (f \in S <=> f \in L)
  BY DEF Granted, Refused
<1>3. ASSUME NEW f \in S, NEW g \in S, f.owner = r.owner, g.owner # r.owner, Overlap(f, g),
             f.type = "wr" \/ g.type = "wr"
      PROVE  FALSE
  <2>1. g \in L
    BY <1>2, <1>3
  <2>2. PICK b \in Byte : /\ f.start <= b /\ b <= f.end
                          /\ g.start <= b /\ b <= g.end
    BY <1>1, <1>3, CommonByte
  <2>3. Holds(S, r.owner, b, f.type)
    BY <1>3, <2>2 DEF Holds, On
  <2>4. ASSUME Holds(L, r.owner, b, f.type) PROVE FALSE
    <3>1. PICK h \in L : On(h, r.owner, b, f.type)
      BY <2>4 DEF Holds
    <3>2. h.start \in Int /\ h.end \in Int /\ g.start \in Int /\ g.end \in Int /\ b \in Int
      BY <1>1, <2>1, SizesAssumption DEF Byte
    <3>3. Conflict(h, g)
      <4>1. h.start <= b /\ b <= h.end /\ h.owner = r.owner /\ h.type = f.type
        BY <3>1 DEF On
      <4>2. h.start <= g.end /\ g.start <= h.end
        BY <2>2, <3>2, <4>1
      <4> QED BY <1>3, <4>1, <4>2 DEF Conflict, Overlap
    <3> QED BY <2>1, <3>3 DEF Peace
  <2>5. CASE InWay(L, r) = {} /\ Granted(S, L, r) /\ InLd(b, r)
    <3>1. f.type = r.type
      BY <2>3, <2>5 DEF Granted
    <3>2. Overlap(g, r)
      <4>1. /\ g.start \in Int /\ g.end \in Int /\ b \in Int
            /\ r.start <= b /\ b <= r.end /\ g.start <= b /\ b <= g.end
        BY <1>1, <2>1, <2>2, <2>5, SizesAssumption DEF InLd, Byte
      <4> QED BY <4>1 DEF Overlap
    <3>3. g \in InWay(L, r)
      BY <1>3, <2>1, <3>1, <3>2 DEF InWay, Conflict
    <3> QED BY <2>5, <3>3
  <2>6. CASE Granted(S, L, r) /\ (~ InLd(b, r) \/ r.type = "un")
    BY <2>3, <2>4, <2>6 DEF Granted
  <2>7. CASE Refused(S, L, r)
    BY <2>3, <2>4, <2>7 DEF Refused
  <2> QED BY <2>5, <2>6, <2>7
<1>4. \A f, g : Overlap(f, g) <=> Overlap(g, f)
  BY DEF Overlap
<1> HIDE DEF S, L
<1>5. ASSUME NEW f \in S, NEW g \in S, Conflict(f, g) PROVE FALSE
  <2>1. f.owner # g.owner /\ Overlap(f, g) /\ (f.type = "wr" \/ g.type = "wr")
    BY <1>5 DEF Conflict
  <2>2. CASE f.owner = r.owner
    BY <1>3, <2>1, <2>2
  <2>3. CASE g.owner = r.owner
    BY <1>3, <1>4, <2>1, <2>3
  <2>4. CASE f.owner # r.owner /\ g.owner # r.owner
    BY <1>2, <1>5, <2>4 DEF Peace, L
  <2> QED BY <2>2, <2>3, <2>4
<1> QED BY <1>5 DEF Peace, S

\* A lock of the list gets its wakeflg set, and stays the same otherwise.
LEMMA FlagIs ==
    ASSUME NEW l, Sane(l), NEW b \in 1 .. Len(l)
    PROVE  LET m == [l EXCEPT ![b].wakeflg = TRUE]
           IN  /\ m \in Seq(LockType) /\ Len(m) = Len(l) /\ m[b].wakeflg
               /\ \A i \in 1 .. Len(l) :
                    /\ m[i].owner = l[i].owner /\ m[i].type = l[i].type
                    /\ m[i].start = l[i].start /\ m[i].end = l[i].end
                    /\ l[i].wakeflg => m[i] = l[i]
<1> DEFINE n == Len(l)
           e == [l[b] EXCEPT !.wakeflg = TRUE]
           m == [l EXCEPT ![b].wakeflg = TRUE]
<1>1. l \in Seq(LockType) /\ n \in Nat /\ l[b] \in LockType
  BY DEF Sane
<1>2. /\ e \in LockType /\ e.wakeflg /\ e.owner = l[b].owner /\ e.type = l[b].type
      /\ e.start = l[b].start /\ e.end = l[b].end
      /\ l[b].wakeflg => l[b] = e
  BY <1>1 DEF LockType
<1>3. m = [l EXCEPT ![b] = e]
  OBVIOUS
<1> HIDE DEF e, m
<1>4. /\ [l EXCEPT ![b] = e] \in Seq(LockType) /\ Len([l EXCEPT ![b] = e]) = Len(l)
      /\ \A i \in 1 .. Len(l) : [l EXCEPT ![b] = e][i] = IF i = b THEN e ELSE l[i]
  BY <1>1, <1>2, ExceptSeq
<1>5. /\ m \in Seq(LockType) /\ Len(m) = n
      /\ \A i \in 1 .. n : m[i] = IF i = b THEN e ELSE l[i]
  BY <1>3, <1>4
<1> HIDE DEF n
<1>6. \A i \in 1 .. n : /\ m[i].owner = l[i].owner /\ m[i].type = l[i].type
                        /\ m[i].start = l[i].start /\ m[i].end = l[i].end
                        /\ l[i].wakeflg => m[i] = l[i]
  BY <1>2, <1>5
<1>7. m[b].wakeflg
  BY <1>2, <1>5 DEF n
<1> QED BY <1>5, <1>6, <1>7 DEF m, n

\* The same locks but for a wakeflg that is set: order, bytes and conflicts stay,
\* and whoever waits for one of them has it still.
LEMMA Flagged ==
    ASSUME NEW l, Sane(l), NEW b \in 1 .. Len(l),
           NEW m \in Seq(LockType), Len(m) = Len(l),
           \A i \in 1 .. Len(l) : /\ m[i].owner = l[i].owner /\ m[i].type = l[i].type
                                  /\ m[i].start = l[i].start /\ m[i].end = l[i].end
                                  /\ l[i].wakeflg => m[i] = l[i]
    PROVE  /\ Sane(m) /\ m[b] \in ToSet(m) /\ At(m[b]) = At(l[b])
           /\ \A r : Conflict(m[b], r) <=> Conflict(l[b], r)
           /\ Told(ToSet(m), ToSet(l), {})
           /\ \A o, x, t : Holds(ToSet(m), o, x, t) <=> Holds(ToSet(l), o, x, t)
           /\ Peace(ToSet(l)) => Peace(ToSet(m))
<1> DEFINE n == Len(l)  S == ToSet(m)  L == ToSet(l)
<1>1. l \in Seq(LockType)
  BY DEF Sane
<1>2. \A x : /\ x \in L <=> \E i \in 1 .. n : x = l[i]
             /\ x \in S <=> \E i \in 1 .. n : x = m[i]
  BY <1>1, Members
<1>3. Sane(m)
  BY DEF Sane, Before
<1> HIDE DEF S, L
<1>4. m[b] \in S /\ At(m[b]) = At(l[b])
  BY <1>2 DEF At
<1>5. \A i, j \in 1 .. n : \A r :
        /\ Conflict(m[i], r) <=> Conflict(l[i], r)
        /\ Conflict(m[i], m[j]) <=> Conflict(l[i], l[j])
  BY DEF Conflict, Overlap
<1>6. \A i \in 1 .. n : \A o, x, t : On(m[i], o, x, t) <=> On(l[i], o, x, t)
  BY DEF On
<1>7. Told(S, L, {})
  BY <1>2 DEF Told
<1> HIDE DEF n
<1>8. ASSUME NEW o, NEW x, NEW t PROVE Holds(S, o, x, t) <=> Holds(L, o, x, t)
  <2>1. /\ Holds(S, o, x, t) <=> \E i \in 1 .. n : On(m[i], o, x, t)
        /\ Holds(L, o, x, t) <=> \E i \in 1 .. n : On(l[i], o, x, t)
    BY ONLY <1>2 DEF Holds
  <2> QED BY <1>6, <2>1
<1>9. ASSUME Peace(L) PROVE Peace(S)
  <2> SUFFICES ASSUME NEW f \in S, NEW g \in S PROVE ~ Conflict(f, g)
    BY DEF Peace
  <2>1. PICK i \in 1 .. n, j \in 1 .. n : f = m[i] /\ g = m[j]
    <3>1. (\E i \in 1 .. n : f = m[i]) /\ (\E j \in 1 .. n : g = m[j])
      BY <1>2
    <3> QED BY <3>1
  <2>2. l[i] \in L /\ l[j] \in L
    BY ONLY <1>2, <2>1
  <2> QED BY <1>5, <1>9, <2>1, <2>2 DEF Peace
<1>10. \A r : Conflict(m[b], r) <=> Conflict(l[b], r)
  BY <1>5 DEF n
<1> QED BY <1>3, <1>4, <1>7, <1>8, <1>9, <1>10 DEF S, L
-----------------------------------------------------------------------------
(* The list of requests *)

\* One more request.
LEMMA OneMore ==
    ASSUME NEW l \in Seq(Waiting), NEW w \in Waiting, NEW o
    PROVE  /\ <<w>> \o l \in Seq(Waiting) /\ Len(<<w>> \o l) = Len(l) + 1
           /\ Cardinality(Mine(<<w>> \o l, o)) =
                Cardinality(Mine(l, o)) + (IF w.owner = o THEN 1 ELSE 0)
<1> DEFINE m == <<w>> \o l  n == Len(l)
           A == Mine(l, o)
           B == {i + 1 : i \in A}
           f == [i \in A |-> i + 1]
<1>1. n \in Nat /\ DOMAIN l = 1 .. n
  OBVIOUS
<1>2. /\ m \in Seq(Waiting) /\ Len(m) = n + 1 /\ DOMAIN m = 1 .. n + 1 /\ m[1] = w
      /\ \A i \in 1 .. n : m[i + 1] = l[i]
  OBVIOUS
<1> HIDE DEF m
<1>3. IsFiniteSet(A) /\ Cardinality(A) \in Nat /\ A \subseteq 1 .. n
  BY <1>1, MineFinite DEF Mine
<1>4. IsFiniteSet(B) /\ Cardinality(B) = Cardinality(A)
  <2> HIDE DEF A
  <2>1. f \in Bijection(A, B)
    <3>1. f \in [A -> B]
      OBVIOUS
    <3>2. \A i, j \in A : f[i] = f[j] => i = j
      BY <1>3
    <3>3. \A k \in B : \E i \in A : f[i] = k
      OBVIOUS
    <3> QED BY <3>1, <3>2, <3>3 DEF Bijection, Injection, Surjection, IsInjective
  <2> QED BY <1>3, <2>1, FS_Bijection DEF ExistsBijection
<1>5. Mine(m, o) = IF w.owner = o THEN B \cup {1} ELSE B
  <2>1. \A i \in 1 .. n + 1 : i = 1 \/ (i - 1 \in 1 .. n /\ i = (i - 1) + 1)
    BY <1>1
  <2>2. A = {i \in 1 .. n : l[i].owner = o} /\ Mine(m, o) = {i \in 1 .. n + 1 : m[i].owner = o}
    BY <1>1, <1>2 DEF Mine
  <2> HIDE DEF A
  <2>3. \A i \in B : i \in 1 .. n + 1 /\ m[i].owner = o
    BY <1>1, <1>2, <2>2
  <2>4. ASSUME NEW i \in 1 .. n + 1, m[i].owner = o, i # 1 PROVE i \in B
    <3>1. i - 1 \in 1 .. n /\ i = (i - 1) + 1
      BY <2>1, <2>4
    <3>2. m[i] = l[i - 1]
      BY <1>2, <3>1
    <3> QED BY <2>2, <2>4, <3>1, <3>2
  <2>5. 1 \in 1 .. n + 1
    BY <1>1
  <2> HIDE DEF B
  <2> QED BY <1>2, <2>2, <2>3, <2>4, <2>5
<1>6. 1 \notin B
  BY <1>1, <1>3
<1> HIDE DEF A, B
<1>7. Cardinality(Mine(m, o)) = Cardinality(A) + (IF w.owner = o THEN 1 ELSE 0)
  <2>1. Cardinality(B \cup {1}) = Cardinality(B) + 1
    BY <1>4, <1>6, FS_AddElement
  <2> QED BY <1>3, <1>4, <1>5, <2>1
<1> QED BY <1>2, <1>7 DEF m, A

\* A process takes its request off the list.
LEMMA ListedLess ==
    ASSUME NEW sl \in Seq(Waiting), NEW P, Listed(sl, P), NEW p \in Proc,
           NEW m, m = Omit(sl, {w \in ToSet(sl) : w.owner = p})
    PROVE  m \in Seq(Waiting) /\ Len(m) <= Len(sl) /\ Listed(m, P \ {p})
<1> DEFINE S == {w \in ToSet(sl) : w.owner = p}
<1>1. Omit(sl, S) \in Seq(Waiting) /\ Len(Omit(sl, S)) <= Len(sl)
  BY OmitKeeps
<1>2. m = Omit(sl, S)
  OBVIOUS
<1>3. (\A w \in ToSet(sl) : w.owner = p => w \in S) /\ \A w \in S : w.owner = p
  OBVIOUS
<1> HIDE DEF S
<1>4. Cardinality(Mine(Omit(sl, S), p)) = 0
  BY <1>3, OmitCounts
<1>5. ASSUME NEW q \in Proc, q # p
      PROVE  Cardinality(Mine(Omit(sl, S), q)) = Cardinality(Mine(sl, q))
  BY <1>3, <1>5, OmitCounts
<1>6. Listed(Omit(sl, S), P \ {p})
  BY <1>4, <1>5 DEF Listed
<1> QED BY <1>1, <1>2, <1>6

\* Requests of other machines leave the list.
LEMMA ListedSame ==
    ASSUME NEW sl \in Seq(Waiting), NEW P, Listed(sl, P),
           NEW S, \A w \in S : w.owner \notin Proc
    PROVE  /\ Omit(sl, S) \in Seq(Waiting) /\ Len(Omit(sl, S)) <= Len(sl)
           /\ Listed(Omit(sl, S), P)
<1>1. Omit(sl, S) \in Seq(Waiting) /\ Len(Omit(sl, S)) <= Len(sl)
  BY OmitKeeps
<1>2. ASSUME NEW q \in Proc
      PROVE  Cardinality(Mine(Omit(sl, S), q)) = Cardinality(Mine(sl, q))
  BY OmitCounts
<1> QED BY <1>1, <1>2 DEF Listed

\* One more request is on the list.
LEMMA ListedMore ==
    ASSUME NEW sl \in Seq(Waiting), NEW P, Listed(sl, P), NEW w \in Waiting,
           w.owner \in Proc => w.owner \notin P
    PROVE  /\ <<w>> \o sl \in Seq(Waiting) /\ Len(<<w>> \o sl) = Len(sl) + 1
           /\ Listed(<<w>> \o sl, P \cup ({w.owner} \cap Proc))
<1> DEFINE m == <<w>> \o sl
<1>1. m \in Seq(Waiting) /\ Len(m) = Len(sl) + 1
  BY OneMore
<1>2. ASSUME NEW q \in Proc
      PROVE  Cardinality(Mine(m, q)) = Cardinality(Mine(sl, q)) + (IF w.owner = q THEN 1 ELSE 0)
  BY OneMore
<1> HIDE DEF m
<1>3. ASSUME NEW q \in Proc
      PROVE  Cardinality(Mine(m, q)) = IF q \in P \cup ({w.owner} \cap Proc) THEN 1 ELSE 0
  <2>1. Cardinality(Mine(sl, q)) = IF q \in P THEN 1 ELSE 0
    BY DEF Listed
  <2>2. CASE w.owner = q
    BY <1>2, <2>1, <2>2
  <2>3. CASE w.owner # q
    BY <1>2, <2>1, <2>3
  <2> QED BY <2>2, <2>3
<1> QED BY <1>1, <1>3 DEF Listed, m
-----------------------------------------------------------------------------
(* The steps *)

\* When those who sleep on W are woken, and whoever waits for a lock has it still
\* or sleeps on W, all who sleep on are blocked.
LEMMA WakeKeeps ==
    ASSUME TypeOK, SleepersBlocked, NEW W, Wakeprocs(Chans(W)),
           Told(ToSet(filocks'), ToSet(filocks), W),
           \A p \in Proc : Asleep(p) => call'[p] = call[p]
    PROVE  /\ wchan' \in [Proc -> Chan \cup {NoChan}] /\ SleepersBlocked'
           /\ \A p \in Proc : Asleep(p)' => Asleep(p)
<1>1. /\ wchan \in [Proc -> Chan \cup {NoChan}]
      /\ wchan' = [p \in Proc |-> IF wchan[p] \in Chans(W) THEN NoChan ELSE wchan[p]]
  BY DEF TypeOK, Wakeprocs
<1>2. wchan' \in [Proc -> Chan \cup {NoChan}]
  BY <1>1
<1>3. ASSUME NEW p \in Proc, Asleep(p)'
      PROVE  Asleep(p) /\ wchan'[p] = wchan[p] /\ wchan[p] \notin Chans(W)
  BY <1>1, <1>3 DEF Asleep
<1>4. ASSUME NEW p \in Proc, Asleep(p)'
      PROVE  \E f \in ToSet(filocks') : /\ wchan'[p] = <<"lock", At(f)>>
                                        /\ f.wakeflg
                                        /\ Conflict(f, call'[p].req)
  <2>1. Asleep(p) /\ wchan'[p] = wchan[p] /\ wchan[p] \notin Chans(W)
    BY <1>3, <1>4
  <2>2. PICK f \in ToSet(filocks) : /\ wchan[p] = <<"lock", At(f)>>
                                    /\ f.wakeflg
                                    /\ Conflict(f, call[p].req)
    BY <2>1 DEF SleepersBlocked
  <2>3. At(f) \notin W
    BY <2>1, <2>2 DEF Chans
  <2>4. f \in ToSet(filocks')
    BY <2>2, <2>3 DEF Told
  <2> QED BY <2>1, <2>2, <2>4
<1>5. SleepersBlocked'
  BY <1>4 DEF SleepersBlocked
<1> QED BY <1>2, <1>3, <1>5

\* Nobody is woken and the locks stay.
LEMMA NoWake ==
    ASSUME TypeOK, SleepersBlocked, UNCHANGED <<filocks, wchan>>,
           \A p \in Proc : Asleep(p) => call'[p] = call[p]
    PROVE  /\ wchan' \in [Proc -> Chan \cup {NoChan}] /\ SleepersBlocked'
           /\ \A p \in Proc : Asleep(p)' => Asleep(p)
<1>1. \A p \in Proc : Asleep(p)' <=> Asleep(p)
  BY DEF Asleep
<1> QED BY <1>1 DEF TypeOK, SleepersBlocked

\* A process that asks, with the requests that are listed but for its own.
Trying(p, c, sleeping) ==
    /\ p \in Proc /\ ~ Asleep(p) /\ Asks(p, c)
    /\ sleeping \in Seq(Waiting) /\ Len(filocks) + Len(sleeping) <= FLCKREC
    /\ Listed(sleeping, Sleepers \ {p})

\* What the invariant says of the processes and their calls, when one of them
\* goes to sleep or comes back.
LEMMA CallTypes ==
    ASSUME TypeOK, call = [q \in Proc |-> call[q]], \A q \in Sleepers : Asks(q, call[q]),
           NEW p \in Proc, NEW c, Asks(p, c), NEW x \in {"user", "sleep", "io"},
           pc' = [pc EXCEPT ![p] = x],
           call' = [call EXCEPT ![p] = IF x = "sleep" THEN c ELSE NoCall]
    PROVE  /\ pc' \in [Proc -> {"user", "sleep", "io"}]
           /\ call' = [q \in Proc |-> call'[q]]
           /\ \A q \in Proc : call'[q] \in IF pc'[q] = "sleep" THEN Call ELSE {NoCall}
           /\ Sleepers' = IF x = "sleep" THEN Sleepers \cup {p} ELSE Sleepers \ {p}
           /\ \A q \in Sleepers' : Asks(q, call'[q])
           /\ \A q \in Proc : q # p => call'[q] = call[q]
<1> DEFINE y == IF x = "sleep" THEN c ELSE NoCall
<1>1. /\ pc' \in [Proc -> {"user", "sleep", "io"}] /\ pc'[p] = x
      /\ \A q \in Proc : q # p => pc'[q] = pc[q]
  BY DEF TypeOK
<1>2. call' = [call EXCEPT ![p] = y]
  OBVIOUS
<1> HIDE DEF y
<1>3. call'[p] = y /\ (\A q \in Proc : q # p => call'[q] = call[q]) /\ call' = [q \in Proc |-> call'[q]]
  BY <1>2
<1>4. ASSUME NEW q \in Proc PROVE call'[q] \in IF pc'[q] = "sleep" THEN Call ELSE {NoCall}
  <2>1. CASE q = p
    BY <1>1, <1>3, <2>1 DEF y, Asks
  <2>2. CASE q # p
    <3>1. call[q] \in IF pc[q] = "sleep" THEN Call ELSE {NoCall}
      BY DEF TypeOK
    <3> QED BY <1>1, <1>3, <2>2, <3>1
  <2> QED BY <2>1, <2>2
<1>5. Sleepers' = IF x = "sleep" THEN Sleepers \cup {p} ELSE Sleepers \ {p}
  BY <1>1 DEF Sleepers
<1>6. ASSUME NEW q \in Sleepers' PROVE Asks(q, call'[q])
  <2>1. CASE q = p
    BY <1>1, <1>3, <1>6, <2>1 DEF y, Sleepers
  <2>2. CASE q # p
    BY <1>1, <1>3, <1>6, <2>2 DEF Sleepers
  <2> QED BY <2>1, <2>2
<1> QED BY <1>1, <1>3, <1>4, <1>5, <1>6

\* A request or an unlock that flckadj works off, or fails in.
LEMMA AdjustKeeps ==
    ASSUME Sane(filocks), Peace(ToSet(filocks)), NEW o \in Owner, NEW r \in Requests,
           NEW a, \/ a = Asked(o, r, "un")
                  \/ a = Asked(o, r, r.type) /\ InWay(ToSet(filocks), a) = {},
           NEW t, NEW n, Adjusted(t, filocks, a, n), filocks' = t.list
    PROVE  /\ Sane(filocks') /\ Peace(ToSet(filocks')) /\ Changes
           /\ Len(filocks') + t.room = n /\ t.room \in Nat
           /\ Told(ToSet(filocks'), ToSet(filocks), t.woken)
<1>1. /\ t \in Scans /\ Sane(filocks') /\ Len(filocks') + t.room = n
      /\ Told(ToSet(filocks'), ToSet(filocks), t.woken)
      /\ \/ Granted(ToSet(filocks'), ToSet(filocks), a)
         \/ Refused(ToSet(filocks'), ToSet(filocks), a)
  BY DEF Adjusted
<1>2. t.room \in Nat
  BY <1>1 DEF Scans
<1>3. a.start \in Int /\ a.end \in Int /\ (a = Asked(o, r, "un") => a.type = "un")
  <2>1. r.start \in Int /\ r.end \in Int
    BY InputsAssumption, SizesAssumption DEF Byte
  <2>2. \A x : /\ Asked(o, r, x).start = r.start /\ Asked(o, r, x).end = r.end
               /\ Asked(o, r, x).type = x
    BY DEF Asked
  <2> QED BY <2>1, <2>2
<1>4. Peace(ToSet(filocks'))
  BY <1>1, <1>3, AdjustedPeace
<1>5. Changes
  <2> DEFINE S == ToSet(filocks)  T == ToSet(filocks')
  <2>1. \/ Granted(T, S, Asked(o, r, r.type)) /\ InWay(S, Asked(o, r, r.type)) = {}
        \/ Refused(T, S, Asked(o, r, r.type))
        \/ Granted(T, S, Asked(o, r, "un"))
        \/ Refused(T, S, Asked(o, r, "un"))
    BY <1>1
  <2> HIDE DEF S, T
  <2>2. \E q \in Owner, x \in Requests :
          \/ Granted(T, S, Asked(q, x, x.type)) /\ InWay(S, Asked(q, x, x.type)) = {}
          \/ Refused(T, S, Asked(q, x, x.type))
          \/ Granted(T, S, Asked(q, x, "un"))
          \/ Refused(T, S, Asked(q, x, "un"))
    BY <2>1
  <2> QED BY <2>2 DEF Changes, S, T
<1> QED BY <1>1, <1>2, <1>4, <1>5

\* A request that is granted, or fails, when nothing is in its way.
LEMMA GrantKeeps ==
    ASSUME Sane(filocks), Peace(ToSet(filocks)), NEW o \in Owner, NEW r \in Requests,
           NEW a, a = Asked(o, r, r.type), Blocked(filocks, a) = 0,
           NEW room \in Nat, NEW mem \in Mem, NEW t,
           t = Flckadj(filocks, Insrt(filocks, a), a, room, mem), filocks' = t.list
    PROVE  /\ Sane(filocks') /\ Peace(ToSet(filocks')) /\ Changes
           /\ Len(filocks') <= Len(filocks) + room
           /\ Told(ToSet(filocks'), ToSet(filocks), t.woken)
<1>1. InWay(ToSet(filocks), a) = {}
  <2>1. ~ (0 \in 1 .. Len(filocks))
    OBVIOUS
  <2> QED BY <2>1, BlockedIs
<1>2. a \in Region(Owner, {"rd", "wr"}) /\ mem \in Nat
  BY AskedIs, SizesAssumption
<1>3. Adjusted(t, filocks, a, Len(filocks) + room)
  BY <1>2, LockAdjusts
<1>4. /\ Sane(filocks') /\ Peace(ToSet(filocks')) /\ Changes
      /\ Len(filocks') + t.room = Len(filocks) + room /\ t.room \in Nat
      /\ Told(ToSet(filocks'), ToSet(filocks), t.woken)
  BY <1>1, <1>3, AdjustKeeps
<1>5. Len(filocks) \in Nat /\ Len(filocks') \in Nat
  BY <1>4 DEF Sane
<1>6. Len(filocks') <= Len(filocks) + room
  BY <1>4, <1>5
<1> QED BY <1>4, <1>6

\* An unlock.
LEMMA UnlockKeeps ==
    ASSUME Sane(filocks), Peace(ToSet(filocks)), NEW o \in Owner, NEW r \in Requests,
           NEW a, a = Asked(o, r, "un"), NEW room \in Nat, NEW mem \in Mem, NEW t,
           t = Flckadj(filocks, NULL, a, room, mem), filocks' = t.list
    PROVE  /\ Sane(filocks') /\ Peace(ToSet(filocks')) /\ Changes
           /\ Len(filocks') <= Len(filocks) + room
           /\ Told(ToSet(filocks'), ToSet(filocks), t.woken)
<1>2. a \in Region(Owner, {"un"}) /\ mem \in Nat
  BY AskedIs, SizesAssumption
<1>3. Adjusted(t, filocks, a, Len(filocks) + room)
  BY <1>2, UnlockAdjusts
<1>4. /\ Sane(filocks') /\ Peace(ToSet(filocks')) /\ Changes
      /\ Len(filocks') + t.room = Len(filocks) + room /\ t.room \in Nat
      /\ Told(ToSet(filocks'), ToSet(filocks), t.woken)
  BY <1>3, AdjustKeeps
<1>5. Len(filocks) \in Nat /\ Len(filocks') \in Nat
  BY <1>4 DEF Sane
<1>6. Len(filocks') <= Len(filocks) + room
  BY <1>4, <1>5
<1> QED BY <1>4, <1>6

\* What cleanlocks takes away.
LEMMA CloseKeeps ==
    ASSUME Sane(filocks), Peace(ToSet(filocks)), NEW o \in Owner,
           filocks' = Cleanlocks(filocks, o).list
    PROVE  /\ Sane(filocks') /\ Peace(ToSet(filocks')) /\ Changes
           /\ Len(filocks') <= Len(filocks)
           /\ Told(ToSet(filocks'), ToSet(filocks), Cleanlocks(filocks, o).woken)
<1> DEFINE L == ToSet(filocks)
           S == {f \in L : f.owner = o}
<1>1. filocks' = Omit(filocks, S)
  BY DEF Cleanlocks
<1>2. Cleanlocks(filocks, o).woken = {At(f) : f \in {g \in L : g.owner = o /\ g.wakeflg}}
  BY DEF Cleanlocks
<1>3. filocks \in Seq(LockType)
  BY DEF Sane
<1>4. Sane(filocks') /\ ToSet(filocks') = L \ S /\ Len(filocks') <= Len(filocks)
  <2> HIDE DEF S
  <2> QED BY <1>1, <1>3, OmitKeeps
<1> HIDE DEF L
<1>5. Peace(ToSet(filocks'))
  BY <1>4 DEF Peace, L
<1>6. Told(ToSet(filocks'), L, Cleanlocks(filocks, o).woken)
  BY <1>2, <1>4 DEF Told
<1>7. Changes
  <2>1. ToSet(filocks') = {f \in ToSet(filocks) : f.owner # o}
    BY <1>4 DEF L
  <2> QED BY <2>1 DEF Changes
<1> QED BY <1>4, <1>5, <1>6, <1>7 DEF L

\* Steps that leave the locks alone change no byte.
LEMMA SameLocks == ASSUME UNCHANGED filocks PROVE Changes
BY DEF Changes

\* Nothing is in the way of the request.
LEMMA UnblockedKeeps ==
    ASSUME Inv, NEW p, NEW c, NEW sleeping, Trying(p, c, sleeping), Unblocked(p, c, sleeping)
    PROVE  Inv' /\ Changes
<1>1. /\ p \in Proc /\ ~ Asleep(p) /\ Asks(p, c) /\ sleeping \in Seq(Waiting)
      /\ Len(filocks) + Len(sleeping) <= FLCKREC /\ Listed(sleeping, Sleepers \ {p})
  BY DEF Trying
<1>2. /\ TypeOK /\ call = [q \in Proc |-> call[q]] /\ SleepersBlocked /\ Sane(filocks)
      /\ Peace(ToSet(filocks)) /\ (\A q \in Proc : Asleep(q) => pc[q] = "sleep")
      /\ \A q \in Sleepers : Asks(q, call[q])
  BY DEF Inv
<1>3. PICK mem \in Mem :
        LET s == Flckadj(filocks, Insrt(filocks, c.req), c.req, Room(sleeping), mem)
        IN  /\ filocks' = IF c.set THEN s.list ELSE filocks
            /\ Wakeprocs(IF c.set THEN Chans(s.woken) ELSE {})
  BY DEF Unblocked
<1>4. /\ Blocked(filocks, c.req) = 0 /\ sleeplcks' = sleeping
      /\ pc' = [pc EXCEPT ![p] = IF c.set THEN "user" ELSE "io"]
      /\ call' = [call EXCEPT ![p] = NoCall]
      /\ rwlock' = IF c.set THEN rwlock ELSE p
  BY DEF Unblocked
<1> DEFINE s == Flckadj(filocks, Insrt(filocks, c.req), c.req, Room(sleeping), mem)
           x == IF c.set THEN "user" ELSE "io"
           W == IF c.set THEN s.woken ELSE {}
<1>5. /\ filocks' = IF c.set THEN s.list ELSE filocks
      /\ Wakeprocs(Chans(W))
  <2>1. Chans({}) = {}
    BY DEF Chans
  <2> HIDE DEF s
  <2> QED BY <1>3, <2>1 DEF s
<1>6. PICK r \in Requests : c.req = Asked(p, r, r.type)
  BY <1>1 DEF Asks
<1>7. Len(filocks) \in Nat /\ Len(sleeping) \in Nat /\ FLCKREC \in Nat
      /\ Room(sleeping) \in Nat /\ Len(filocks) + Room(sleeping) = FLCKREC - Len(sleeping)
  BY <1>1, <1>2, SizesAssumption DEF Sane, Room
<1>8. /\ Sane(filocks') /\ Peace(ToSet(filocks')) /\ Changes
      /\ Len(filocks') <= FLCKREC - Len(sleeping)
      /\ Told(ToSet(filocks'), ToSet(filocks), W)
  <2>1. CASE c.set
    <3>1. p \in Owner /\ filocks' = s.list /\ s = s
      BY <1>1, <1>5, <2>1 DEF Owner
    <3> DEFINE a == c.req  room == Room(sleeping)
    <3>2. /\ a = Asked(p, r, r.type) /\ Blocked(filocks, a) = 0 /\ room \in Nat
          /\ s = Flckadj(filocks, Insrt(filocks, a), a, room, mem)
      BY <1>4, <1>6, <1>7
    <3>3. Len(filocks) + room = FLCKREC - Len(sleeping)
      BY <1>7
    <3> HIDE DEF s, a, room
    <3>4. /\ Sane(filocks') /\ Peace(ToSet(filocks')) /\ Changes
          /\ Len(filocks') <= Len(filocks) + room
          /\ Told(ToSet(filocks'), ToSet(filocks), s.woken)
      BY <1>2, <3>1, <3>2, GrantKeeps
    <3> QED BY <2>1, <3>3, <3>4
  <2>2. CASE ~ c.set
    <3>1. filocks' = filocks
      BY <1>5, <2>2
    <3>2. Len(filocks) <= FLCKREC - Len(sleeping)
      BY <1>1, <1>7
    <3> QED BY <1>2, <3>1, <3>2, SameLocks DEF Told
  <2> QED BY <2>1, <2>2
<1> HIDE DEF s, W
<1>9. /\ pc' \in [Proc -> {"user", "sleep", "io"}]
      /\ call' = [q \in Proc |-> call'[q]]
      /\ \A q \in Proc : call'[q] \in IF pc'[q] = "sleep" THEN Call ELSE {NoCall}
      /\ Sleepers' = Sleepers \ {p}
      /\ \A q \in Sleepers' : Asks(q, call'[q])
      /\ \A q \in Proc : q # p => call'[q] = call[q]
  <2>1. x \in {"user", "sleep", "io"} /\ x # "sleep"
    OBVIOUS
  <2>2. pc' = [pc EXCEPT ![p] = x] /\ call' = [call EXCEPT ![p] = IF x = "sleep" THEN c ELSE NoCall]
    BY <1>4
  <2> HIDE DEF x
  <2> QED BY <1>1, <1>2, <2>1, <2>2, CallTypes
<1>10. /\ wchan' \in [Proc -> Chan \cup {NoChan}] /\ SleepersBlocked'
       /\ \A q \in Proc : Asleep(q)' => Asleep(q)
  <2>1. \A q \in Proc : Asleep(q) => call'[q] = call[q]
    BY <1>1, <1>9
  <2> QED BY <1>2, <1>5, <1>8, <2>1, WakeKeeps
<1>11. TypeOK'
  BY <1>1, <1>2, <1>4, <1>8, <1>9, <1>10 DEF TypeOK, Sane
<1>12. Len(filocks') + Len(sleeplcks') <= FLCKREC
  <2>1. Len(filocks') \in Nat
    BY <1>8 DEF Sane
  <2> QED BY <1>4, <1>7, <1>8, <2>1
<1>13. Listed(sleeplcks', Sleepers')
  BY <1>1, <1>4, <1>9
<1>14. \A q \in Proc : Asleep(q)' => pc'[q] = "sleep"
  <2>1. \A q \in Proc : Asleep(q)' => q \in Sleepers'
    BY <1>1, <1>2, <1>9, <1>10 DEF Sleepers
  <2> QED BY <2>1 DEF Sleepers
<1> QED BY <1>8, <1>9, <1>10, <1>11, <1>12, <1>13, <1>14 DEF Inv, Listed

\* The request is refused, or its sleep was interrupted.
LEMMA GivenUpKeeps ==
    ASSUME Inv, NEW p, NEW c, NEW sleeping, Trying(p, c, sleeping), GivenUp(p, c, sleeping)
    PROVE  Inv' /\ Changes
<1>1. /\ p \in Proc /\ ~ Asleep(p) /\ Asks(p, c) /\ sleeping \in Seq(Waiting)
      /\ Len(filocks) + Len(sleeping) <= FLCKREC /\ Listed(sleeping, Sleepers \ {p})
  BY DEF Trying
<1>2. /\ TypeOK /\ call = [q \in Proc |-> call[q]] /\ SleepersBlocked /\ Sane(filocks)
      /\ Peace(ToSet(filocks)) /\ (\A q \in Proc : Asleep(q) => pc[q] = "sleep")
      /\ \A q \in Sleepers : Asks(q, call[q])
  BY DEF Inv
<1>3. /\ sleeplcks' = sleeping /\ pc' = [pc EXCEPT ![p] = "user"]
      /\ call' = [call EXCEPT ![p] = NoCall]
      /\ rwlock' = IF c.set THEN rwlock ELSE NoProc
      /\ UNCHANGED <<filocks, wchan>>
  BY DEF GivenUp
<1>4. Changes
  BY <1>3, SameLocks
<1>5. /\ pc' \in [Proc -> {"user", "sleep", "io"}]
      /\ call' = [q \in Proc |-> call'[q]]
      /\ \A q \in Proc : call'[q] \in IF pc'[q] = "sleep" THEN Call ELSE {NoCall}
      /\ Sleepers' = Sleepers \ {p}
      /\ \A q \in Sleepers' : Asks(q, call'[q])
      /\ \A q \in Proc : q # p => call'[q] = call[q]
  <2>1. call' = [call EXCEPT ![p] = IF "user" = "sleep" THEN c ELSE NoCall]
    BY <1>3
  <2> QED BY <1>1, <1>2, <1>3, <2>1, CallTypes
<1>6. /\ wchan' \in [Proc -> Chan \cup {NoChan}] /\ SleepersBlocked'
      /\ \A q \in Proc : Asleep(q)' => Asleep(q)
  <2>1. \A q \in Proc : Asleep(q) => call'[q] = call[q]
    BY <1>1, <1>5
  <2> QED BY <1>2, <1>3, <2>1, NoWake
<1>7. TypeOK'
  BY <1>1, <1>2, <1>3, <1>5, <1>6 DEF TypeOK
<1>8. Sane(filocks)' /\ Peace(ToSet(filocks))' /\ Len(filocks') + Len(sleeplcks') <= FLCKREC
  BY <1>1, <1>2, <1>3
<1>9. Listed(sleeplcks', Sleepers')
  BY <1>1, <1>3, <1>5
<1>10. \A q \in Proc : Asleep(q)' => pc'[q] = "sleep"
  <2>1. \A q \in Proc : Asleep(q)' => q \in Sleepers'
    BY <1>1, <1>2, <1>5, <1>6 DEF Sleepers
  <2> QED BY <2>1 DEF Sleepers
<1> QED BY <1>4, <1>5, <1>6, <1>7, <1>8, <1>9, <1>10 DEF Inv, Listed

\* The process goes to sleep on the lock in its way.
LEMMA SleepsKeeps ==
    ASSUME Inv, NEW p, NEW c, NEW sleeping, Trying(p, c, sleeping), Sleeps(p, c, sleeping)
    PROVE  Inv' /\ Changes
<1>1. /\ p \in Proc /\ ~ Asleep(p) /\ Asks(p, c) /\ sleeping \in Seq(Waiting)
      /\ Len(filocks) + Len(sleeping) <= FLCKREC /\ Listed(sleeping, Sleepers \ {p})
  BY DEF Trying
<1>2. /\ TypeOK /\ call = [q \in Proc |-> call[q]] /\ SleepersBlocked /\ Sane(filocks)
      /\ Peace(ToSet(filocks)) /\ (\A q \in Proc : Asleep(q) => pc[q] = "sleep")
      /\ \A q \in Sleepers : Asks(q, call[q])
  BY DEF Inv
<1> DEFINE b == Blocked(filocks, c.req)
           f == filocks[b]
           w == Waits(c.req, f.owner)
<1>3. /\ b # 0 /\ Room(sleeping) > 0
      /\ filocks' = [filocks EXCEPT ![b].wakeflg = TRUE]
      /\ sleeplcks' = <<w>> \o sleeping
      /\ rwlock' = IF c.set THEN rwlock ELSE NoProc
      /\ wchan' = [wchan EXCEPT ![p] = <<"lock", At(f)>>]
      /\ pc' = [pc EXCEPT ![p] = "sleep"]
      /\ call' = [call EXCEPT ![p] = c]
  BY DEF Sleeps, GoToSleep
<1>4. b \in 1 .. Len(filocks) /\ Conflict(f, c.req)
  BY <1>2, <1>3, BlockedIs
<1>5. f \in LockType /\ p \in Owner
  BY <1>1, <1>2, <1>4 DEF Sane, Owner
<1>6. c.req \in Region(Owner, {"rd", "wr"}) /\ c.req.owner = p
  BY <1>1, <1>5, AskedIs DEF Asks
<1> HIDE DEF b, f
<1>7. w \in Waiting /\ w.owner = p
  BY <1>5, <1>6 DEF Waits, Waiting, LockType, Region
<1> HIDE DEF w
<1>8. /\ Sane(filocks') /\ Len(filocks') = Len(filocks) /\ Peace(ToSet(filocks'))
      /\ Told(ToSet(filocks'), ToSet(filocks), {}) /\ Changes
      /\ filocks'[b] \in ToSet(filocks') /\ filocks'[b].wakeflg /\ At(filocks'[b]) = At(f)
      /\ Conflict(filocks'[b], c.req)
  <2> DEFINE m == [filocks EXCEPT ![b].wakeflg = TRUE]
  <2>1. /\ m \in Seq(LockType) /\ Len(m) = Len(filocks) /\ m[b].wakeflg
        /\ \A i \in 1 .. Len(filocks) :
             /\ m[i].owner = filocks[i].owner /\ m[i].type = filocks[i].type
             /\ m[i].start = filocks[i].start /\ m[i].end = filocks[i].end
             /\ filocks[i].wakeflg => m[i] = filocks[i]
    BY <1>2, <1>4, FlagIs
  <2>2. filocks' = m
    BY <1>3
  <2> HIDE DEF m
  <2>3. /\ Sane(m) /\ m[b] \in ToSet(m) /\ At(m[b]) = At(filocks[b])
        /\ \A r : Conflict(m[b], r) <=> Conflict(filocks[b], r)
        /\ Told(ToSet(m), ToSet(filocks), {})
        /\ \A o, x, t : Holds(ToSet(m), o, x, t) <=> Holds(ToSet(filocks), o, x, t)
        /\ Peace(ToSet(filocks)) => Peace(ToSet(m))
    BY <1>2, <1>4, <2>1, Flagged
  <2>4. Changes
    BY <2>2, <2>3 DEF Changes
  <2> QED BY <1>2, <1>4, <2>1, <2>2, <2>3, <2>4 DEF f
<1>9. /\ pc' \in [Proc -> {"user", "sleep", "io"}]
      /\ call' = [q \in Proc |-> call'[q]]
      /\ \A q \in Proc : call'[q] \in IF pc'[q] = "sleep" THEN Call ELSE {NoCall}
      /\ Sleepers' = Sleepers \cup {p}
      /\ \A q \in Sleepers' : Asks(q, call'[q])
      /\ \A q \in Proc : q # p => call'[q] = call[q]
  <2>1. call' = [call EXCEPT ![p] = IF "sleep" = "sleep" THEN c ELSE NoCall]
    BY <1>3
  <2> QED BY <1>1, <1>2, <1>3, <2>1, CallTypes
<1>10. /\ wchan' \in [Proc -> Chan \cup {NoChan}] /\ wchan'[p] = <<"lock", At(f)>>
       /\ \A q \in Proc : q # p => wchan'[q] = wchan[q]
  <2>1. <<"lock", At(f)>> \in Chan
    BY <1>5, AtPlace DEF Chan
  <2> QED BY <1>1, <1>2, <1>3, <2>1 DEF TypeOK
<1>11. SleepersBlocked'
  <2> SUFFICES ASSUME NEW q \in Proc, Asleep(q)'
               PROVE  \E g \in ToSet(filocks') : /\ wchan'[q] = <<"lock", At(g)>>
                                                 /\ g.wakeflg
                                                 /\ Conflict(g, call'[q].req)
    BY DEF SleepersBlocked
  <2>1. CASE q = p
    <3>1. call'[p] = c
      BY <1>1, <1>2, <1>3
    <3> QED BY <1>8, <1>10, <2>1, <3>1
  <2>2. CASE q # p
    <3>1. Asleep(q) /\ wchan'[q] = wchan[q] /\ call'[q] = call[q]
      BY <1>9, <1>10, <2>2 DEF Asleep
    <3>2. PICK g \in ToSet(filocks) : /\ wchan[q] = <<"lock", At(g)>>
                                      /\ g.wakeflg
                                      /\ Conflict(g, call[q].req)
      BY <1>2, <3>1 DEF SleepersBlocked
    <3>3. g \in ToSet(filocks')
      BY <1>8, <3>2 DEF Told
    <3> QED BY <3>1, <3>2, <3>3
  <2> QED BY <2>1, <2>2
<1>12. /\ sleeplcks' \in Seq(Waiting) /\ Len(sleeplcks') = Len(sleeping) + 1
       /\ Listed(sleeplcks', Sleepers')
  <2> DEFINE P == Sleepers \ {p}
  <2>1. P \cup ({w.owner} \cap Proc) = Sleepers \cup {p} /\ w.owner \notin P
    BY <1>1, <1>7
  <2>2. Listed(sleeping, P)
    BY <1>1
  <2> HIDE DEF P
  <2>3. /\ <<w>> \o sleeping \in Seq(Waiting) /\ Len(<<w>> \o sleeping) = Len(sleeping) + 1
        /\ Listed(<<w>> \o sleeping, P \cup ({w.owner} \cap Proc))
    BY <1>1, <1>7, <2>1, <2>2, ListedMore
  <2> QED BY <1>3, <1>9, <2>1, <2>3
<1>13. TypeOK'
  BY <1>1, <1>2, <1>3, <1>8, <1>9, <1>10, <1>12 DEF TypeOK, Sane
<1>14. Len(filocks') + Len(sleeplcks') <= FLCKREC
  <2>1. Len(filocks) \in Nat /\ Len(sleeping) \in Nat /\ FLCKREC \in Nat
    BY <1>1, <1>2, SizesAssumption DEF Sane
  <2> QED BY <1>3, <1>8, <1>12, <2>1 DEF Room
<1>15. \A q \in Proc : Asleep(q)' => pc'[q] = "sleep"
  <2>1. ASSUME NEW q \in Proc, Asleep(q)' PROVE q \in Sleepers'
    <3>1. CASE q # p
      <4>1. Asleep(q)
        BY <1>10, <2>1, <3>1 DEF Asleep
      <4> QED BY <1>2, <1>9, <4>1 DEF Sleepers
    <3> QED BY <1>9, <3>1
  <2> QED BY <2>1 DEF Sleepers
<1> QED BY <1>8, <1>9, <1>11, <1>12, <1>13, <1>14, <1>15 DEF Inv, Listed

\* One pass of reclock by a process, whatever comes of it.
LEMMA ReclockKeeps ==
    ASSUME Inv, NEW p, NEW c, NEW sleeping, Trying(p, c, sleeping), Reclock(p, c, sleeping)
    PROVE  Inv' /\ Changes
BY UnblockedKeeps, GivenUpKeeps, SleepsKeeps DEF Reclock, Edeadlk, Enolck

\* A process that comes with a request, and one that comes back from its sleep.
LEMMA NewTries ==
    ASSUME Inv, NEW p \in Proc, pc[p] = "user", NEW r \in Requests, NEW set \in BOOLEAN
    PROVE  Trying(p, [req |-> Asked(p, r, r.type), set |-> set], sleeplcks)
<1> DEFINE c == [req |-> Asked(p, r, r.type), set |-> set]
<1>1. p \notin Sleepers /\ ~ Asleep(p)
  BY DEF Inv, Sleepers
<1>2. Sleepers \ {p} = Sleepers
  BY <1>1
<1>3. Asks(p, c)
  <2>1. Asked(p, r, r.type) \in Region(Owner, {"rd", "wr"})
    BY AskedIs DEF Owner
  <2> QED BY <2>1 DEF Asks, Call
<1> HIDE DEF c
<1>4. Trying(p, c, sleeplcks)
  BY <1>1, <1>2, <1>3 DEF Inv, TypeOK, Trying
<1> QED BY <1>4 DEF c

\* One that wakes tries again, with its request off sleeplcks.
LEMMA ReadyTries ==
    ASSUME Inv, NEW p \in Proc, Ready(p)
    PROVE  Trying(p, call[p], Without(p))
<1>1. p \in Sleepers /\ ~ Asleep(p)
  BY DEF Ready, Sleepers
<1>2. Asks(p, call[p])
  BY <1>1 DEF Inv
<1>3. sleeplcks \in Seq(Waiting) /\ Listed(sleeplcks, Sleepers)
  BY DEF Inv, TypeOK
<1>4. /\ Without(p) \in Seq(Waiting) /\ Len(Without(p)) <= Len(sleeplcks)
      /\ Listed(Without(p), Sleepers \ {p})
  BY <1>3, ListedLess DEF Without
<1>5. Len(filocks) \in Nat /\ Len(Without(p)) \in Nat /\ Len(sleeplcks) \in Nat
      /\ Len(filocks) + Len(sleeplcks) <= FLCKREC /\ FLCKREC \in Nat
  BY <1>3, <1>4, SizesAssumption DEF Inv, Sane
<1>6. Len(filocks) + Len(Without(p)) <= FLCKREC
  BY <1>4, <1>5
<1> QED BY <1>1, <1>2, <1>4, <1>6 DEF Trying

\* A step between the calls of the processes: their sleepers stay blocked.
LEMMA BetweenCalls ==
    ASSUME Inv, UNCHANGED <<rwlock, pc, call>>,
           Sane(filocks'), Peace(ToSet(filocks')),
           sleeplcks' \in Seq(Waiting), Listed(sleeplcks', Sleepers),
           Len(filocks') + Len(sleeplcks') <= FLCKREC,
           wchan' \in [Proc -> Chan \cup {NoChan}], SleepersBlocked',
           \A p \in Proc : Asleep(p)' => Asleep(p)
    PROVE  Inv'
<1>1. /\ TypeOK /\ call = [q \in Proc |-> call[q]]
      /\ (\A q \in Proc : Asleep(q) => pc[q] = "sleep")
      /\ \A q \in Sleepers : Asks(q, call[q])
  BY DEF Inv
<1>2. Sleepers' = Sleepers
  BY DEF Sleepers
<1>3. TypeOK'
  BY <1>1 DEF TypeOK, Sane
<1>4. /\ call' = [q \in Proc |-> call'[q]] /\ \A q \in Sleepers' : Asks(q, call'[q])
  BY <1>1, <1>2
<1>5. \A q \in Proc : Asleep(q)' => pc'[q] = "sleep"
  BY <1>1
<1>6. Listed(sleeplcks', Sleepers')
  BY <1>2
<1> QED BY <1>3, <1>4, <1>5, <1>6 DEF Inv, Listed

\* A change of the locks between the calls.
LEMMA LocksChange ==
    ASSUME Inv, UNCHANGED <<rwlock, pc, call>>, NEW W, Wakeprocs(Chans(W)),
           Sane(filocks'), Peace(ToSet(filocks')), Told(ToSet(filocks'), ToSet(filocks), W),
           sleeplcks' \in Seq(Waiting), Listed(sleeplcks', Sleepers),
           Len(sleeplcks') <= Len(sleeplcks), Len(filocks') <= FLCKREC - Len(sleeplcks)
    PROVE  Inv'
<1>1. TypeOK /\ SleepersBlocked /\ sleeplcks \in Seq(Waiting)
  BY DEF Inv, TypeOK
<1>2. \A p \in Proc : Asleep(p) => call'[p] = call[p]
  OBVIOUS
<1>3. /\ wchan' \in [Proc -> Chan \cup {NoChan}] /\ SleepersBlocked'
      /\ \A p \in Proc : Asleep(p)' => Asleep(p)
  BY <1>1, <1>2, WakeKeeps
<1>4. Len(filocks') \in Nat /\ Len(sleeplcks') \in Nat /\ Len(sleeplcks) \in Nat /\ FLCKREC \in Nat
  BY <1>1, SizesAssumption DEF Sane
<1>5. Len(filocks') + Len(sleeplcks') <= FLCKREC
  BY <1>4
<1> QED BY <1>3, <1>5, BetweenCalls

\* There is room for as many structures as are free.
LEMMA RoomIs ==
    ASSUME Inv
    PROVE  /\ Room(sleeplcks) \in Nat
           /\ Len(filocks) + Room(sleeplcks) = FLCKREC - Len(sleeplcks)
           /\ Len(filocks) <= FLCKREC - Len(sleeplcks)
<1>1. /\ Len(filocks) \in Nat /\ Len(sleeplcks) \in Nat /\ FLCKREC \in Nat
      /\ Len(filocks) + Len(sleeplcks) <= FLCKREC
  BY SizesAssumption DEF Inv, TypeOK, Sane
<1> QED BY <1>1 DEF Room

\* Unlock.
LEMMA UnlockStep ==
    ASSUME Inv, NEW p \in Proc, NEW r \in Requests, Unlock(p, r)
    PROVE  Inv' /\ Changes
<1>1. UNCHANGED <<sleeplcks, rwlock, pc, call>>
  BY DEF Unlock
<1>2. PICK mem \in Mem :
        LET t == Flckadj(filocks, NULL, Asked(p, r, "un"), Room(sleeplcks), mem)
        IN  filocks' = t.list /\ Wakeprocs(Chans(t.woken))
  BY DEF Unlock
<1> DEFINE a == Asked(p, r, "un")
           room == Room(sleeplcks)
           t == Flckadj(filocks, NULL, a, room, mem)
<1>3. filocks' = t.list /\ Wakeprocs(Chans(t.woken))
  BY <1>2
<1>4. /\ room \in Nat /\ Len(filocks) + room = FLCKREC - Len(sleeplcks)
      /\ p \in Owner /\ Sane(filocks) /\ Peace(ToSet(filocks))
      /\ sleeplcks \in Seq(Waiting) /\ Listed(sleeplcks, Sleepers)
  BY RoomIs DEF Owner, Inv, TypeOK
<1>5. a = Asked(p, r, "un") /\ t = Flckadj(filocks, NULL, a, room, mem)
  OBVIOUS
<1> HIDE DEF a, room, t
<1>6. /\ Sane(filocks') /\ Peace(ToSet(filocks')) /\ Changes
      /\ Len(filocks') <= Len(filocks) + room
      /\ Told(ToSet(filocks'), ToSet(filocks), t.woken)
  BY <1>3, <1>4, <1>5, UnlockKeeps
<1>7. Len(sleeplcks') <= Len(sleeplcks) /\ Len(filocks') <= FLCKREC - Len(sleeplcks)
  BY <1>1, <1>4, <1>6
<1> QED BY <1>1, <1>3, <1>4, <1>6, <1>7, LocksChange

\* Close and RemoteGone.
LEMMA CleanStep ==
    ASSUME Inv, NEW o \in Owner, filocks' = Cleanlocks(filocks, o).list,
           Wakeprocs(Chans(Cleanlocks(filocks, o).woken)),
           UNCHANGED <<sleeplcks, rwlock, pc, call>>
    PROVE  Inv' /\ Changes
<1>1. /\ Sane(filocks) /\ Peace(ToSet(filocks))
      /\ sleeplcks \in Seq(Waiting) /\ Listed(sleeplcks, Sleepers)
      /\ Len(filocks) <= FLCKREC - Len(sleeplcks)
  BY RoomIs DEF Inv, TypeOK
<1> DEFINE W == Cleanlocks(filocks, o).woken
<1>2. /\ Sane(filocks') /\ Peace(ToSet(filocks')) /\ Changes
      /\ Len(filocks') <= Len(filocks)
      /\ Told(ToSet(filocks'), ToSet(filocks), W)
  BY <1>1, CloseKeeps
<1>3. Wakeprocs(Chans(W))
  OBVIOUS
<1> HIDE DEF W
<1>4. /\ Len(filocks') \in Nat /\ Len(filocks) \in Nat /\ Len(sleeplcks) \in Nat /\ FLCKREC \in Nat
  BY <1>1, <1>2, SizesAssumption DEF Sane
<1>5. Len(sleeplcks') <= Len(sleeplcks) /\ Len(filocks') <= FLCKREC - Len(sleeplcks)
  BY <1>1, <1>2, <1>4
<1> QED BY <1>1, <1>2, <1>3, <1>5, LocksChange

\* What RM_SLEEPLCKS leaves on the list.
LEMMA ForgetIs ==
    ASSUME Inv, NEW o \in Remote, NEW r
    PROVE  /\ Forget(o, r) \in Seq(Waiting) /\ Len(Forget(o, r)) <= Len(sleeplcks)
           /\ Listed(Forget(o, r), Sleepers)
<1> DEFINE S == {w \in ToSet(sleeplcks) : w.owner = o /\ w.start >= r.start /\ w.end <= r.end}
<1>1. \A w \in S : w.owner \notin Proc
  BY NamesAssumption
<1>2. sleeplcks \in Seq(Waiting) /\ Listed(sleeplcks, Sleepers)
  BY DEF Inv, TypeOK
<1>3. Forget(o, r) = Omit(sleeplcks, S)
  BY DEF Forget
<1> HIDE DEF S
<1> QED BY <1>1, <1>2, <1>3, ListedSame

\* RemoteGranted.
LEMMA RemoteGrantedStep ==
    ASSUME Inv, NEW o \in Remote, NEW r \in Requests, RemoteGranted(o, Asked(o, r, r.type))
    PROVE  Inv' /\ Changes
<1> DEFINE a == Asked(o, r, r.type)
           room == Room(sleeplcks)
<1>1. UNCHANGED <<rwlock, pc, call>> /\ Blocked(filocks, a) = 0
  BY DEF RemoteGranted
<1>2. PICK mem \in Mem :
        LET t == Flckadj(filocks, Insrt(filocks, a), a, room, mem)
        IN  filocks' = t.list /\ Wakeprocs(Chans(t.woken)) /\ sleeplcks' = Forget(o, t.ld)
  BY DEF RemoteGranted
<1> DEFINE t == Flckadj(filocks, Insrt(filocks, a), a, room, mem)
<1>3. filocks' = t.list /\ Wakeprocs(Chans(t.woken)) /\ sleeplcks' = Forget(o, t.ld)
  BY <1>2
<1>4. /\ room \in Nat /\ Len(filocks) + room = FLCKREC - Len(sleeplcks)
      /\ o \in Owner /\ Sane(filocks) /\ Peace(ToSet(filocks))
  BY RoomIs DEF Owner, Inv
<1>5. a = Asked(o, r, r.type) /\ t = Flckadj(filocks, Insrt(filocks, a), a, room, mem)
  OBVIOUS
<1> HIDE DEF a, room, t
<1>6. /\ Sane(filocks') /\ Peace(ToSet(filocks')) /\ Changes
      /\ Len(filocks') <= Len(filocks) + room
      /\ Told(ToSet(filocks'), ToSet(filocks), t.woken)
  BY <1>1, <1>3, <1>4, <1>5, GrantKeeps
<1>7. /\ sleeplcks' \in Seq(Waiting) /\ Len(sleeplcks') <= Len(sleeplcks)
      /\ Listed(sleeplcks', Sleepers)
  BY <1>3, ForgetIs
<1>8. Len(filocks') <= FLCKREC - Len(sleeplcks)
  BY <1>4, <1>6
<1> QED BY <1>1, <1>3, <1>6, <1>7, <1>8, LocksChange

\* RemoteUnlock.
LEMMA RemoteUnlockStep ==
    ASSUME Inv, NEW o \in Remote, NEW r \in Requests, RemoteUnlock(o, Asked(o, r, "un"))
    PROVE  Inv' /\ Changes
<1> DEFINE a == Asked(o, r, "un")
           room == Room(sleeplcks)
<1>1. UNCHANGED <<rwlock, pc, call>>
  BY DEF RemoteUnlock
<1>2. PICK mem \in Mem :
        LET t == Flckadj(filocks, NULL, a, room, mem)
        IN  filocks' = t.list /\ Wakeprocs(Chans(t.woken)) /\ sleeplcks' = Forget(o, t.ld)
  BY DEF RemoteUnlock
<1> DEFINE t == Flckadj(filocks, NULL, a, room, mem)
<1>3. filocks' = t.list /\ Wakeprocs(Chans(t.woken)) /\ sleeplcks' = Forget(o, t.ld)
  BY <1>2
<1>4. /\ room \in Nat /\ Len(filocks) + room = FLCKREC - Len(sleeplcks)
      /\ o \in Owner /\ Sane(filocks) /\ Peace(ToSet(filocks))
  BY RoomIs DEF Owner, Inv
<1>5. a = Asked(o, r, "un") /\ t = Flckadj(filocks, NULL, a, room, mem)
  OBVIOUS
<1> HIDE DEF a, room, t
<1>6. /\ Sane(filocks') /\ Peace(ToSet(filocks')) /\ Changes
      /\ Len(filocks') <= Len(filocks) + room
      /\ Told(ToSet(filocks'), ToSet(filocks), t.woken)
  BY <1>3, <1>4, <1>5, UnlockKeeps
<1>7. /\ sleeplcks' \in Seq(Waiting) /\ Len(sleeplcks') <= Len(sleeplcks)
      /\ Listed(sleeplcks', Sleepers)
  BY <1>3, ForgetIs
<1>8. Len(filocks') <= FLCKREC - Len(sleeplcks)
  BY <1>4, <1>6
<1> QED BY <1>1, <1>3, <1>6, <1>7, <1>8, LocksChange

\* RemoteNoted.
LEMMA RemoteNotedStep ==
    ASSUME Inv, NEW o \in Remote, NEW r \in Requests, RemoteNoted(o, Asked(o, r, r.type))
    PROVE  Inv' /\ Changes
<1> DEFINE a == Asked(o, r, r.type)
           b == Blocked(filocks, a)
           w == Waits(a, filocks[b].owner)
<1>1. /\ b # 0 /\ Room(sleeplcks) > 0 /\ sleeplcks' = <<w>> \o sleeplcks
      /\ UNCHANGED <<filocks, rwlock, wchan, pc, call>>
  BY DEF RemoteNoted
<1>2. /\ TypeOK /\ SleepersBlocked /\ sleeplcks \in Seq(Waiting) /\ Listed(sleeplcks, Sleepers)
      /\ Sane(filocks) /\ Peace(ToSet(filocks))
  BY DEF Inv, TypeOK
<1>3. filocks[b] \in LockType
  <2>1. b \in 1 .. Len(filocks)
    BY <1>1, <1>2, BlockedIs
  <2> HIDE DEF b
  <2> QED BY <1>2, <2>1 DEF Sane
<1>4. a \in Region(Owner, {"rd", "wr"}) /\ a.owner = o
  BY AskedIs DEF Owner
<1> HIDE DEF a, b
<1>5. w \in Waiting /\ w.owner \notin Proc
  BY <1>3, <1>4, NamesAssumption DEF Waits, Waiting, LockType, Region
<1> HIDE DEF w
<1>6. /\ sleeplcks' \in Seq(Waiting) /\ Len(sleeplcks') = Len(sleeplcks) + 1
      /\ Listed(sleeplcks', Sleepers)
  <2>1. Sleepers \cup ({w.owner} \cap Proc) = Sleepers
    BY <1>5
  <2>2. /\ <<w>> \o sleeplcks \in Seq(Waiting) /\ Len(<<w>> \o sleeplcks) = Len(sleeplcks) + 1
        /\ Listed(<<w>> \o sleeplcks, Sleepers \cup ({w.owner} \cap Proc))
    BY <1>2, <1>5, ListedMore
  <2> QED BY <1>1, <2>1, <2>2
<1>7. Len(filocks') + Len(sleeplcks') <= FLCKREC
  <2>1. Len(filocks) \in Nat /\ Len(sleeplcks) \in Nat /\ FLCKREC \in Nat
    BY <1>2, SizesAssumption DEF Sane
  <2> QED BY <1>1, <1>6, <2>1 DEF Room
<1>8. /\ wchan' \in [Proc -> Chan \cup {NoChan}] /\ SleepersBlocked'
      /\ \A p \in Proc : Asleep(p)' => Asleep(p)
  BY <1>1, <1>2, NoWake
<1>9. Sane(filocks') /\ Peace(ToSet(filocks')) /\ Changes
  BY <1>1, <1>2, SameLocks
<1> QED BY <1>1, <1>6, <1>7, <1>8, <1>9, BetweenCalls

\* Signal.
LEMMA SignalStep ==
    ASSUME Inv, NEW p \in Proc, Signal(p)
    PROVE  Inv' /\ Changes
<1>1. /\ UNCHANGED <<filocks, sleeplcks, rwlock, pc, call>>
      /\ wchan' = [wchan EXCEPT ![p] = NoChan]
  BY DEF Signal, Setrun
<1>2. /\ TypeOK /\ SleepersBlocked /\ sleeplcks \in Seq(Waiting) /\ Listed(sleeplcks, Sleepers)
      /\ Sane(filocks) /\ Peace(ToSet(filocks)) /\ Len(filocks) + Len(sleeplcks) <= FLCKREC
  BY DEF Inv, TypeOK
<1>3. wchan' \in [Proc -> Chan \cup {NoChan}]
  BY <1>1, <1>2 DEF TypeOK
<1>4. \A q \in Proc : Asleep(q)' => Asleep(q) /\ wchan'[q] = wchan[q]
  BY <1>1, <1>2 DEF TypeOK, Asleep
<1>5. SleepersBlocked'
  BY <1>1, <1>2, <1>4 DEF SleepersBlocked
<1>6. /\ Sane(filocks') /\ Peace(ToSet(filocks')) /\ Changes
      /\ sleeplcks' \in Seq(Waiting) /\ Listed(sleeplcks', Sleepers)
      /\ Len(filocks') + Len(sleeplcks') <= FLCKREC
  BY <1>1, <1>2, SameLocks
<1> QED BY <1>1, <1>3, <1>4, <1>5, <1>6, BetweenCalls

\* IoDone.
LEMMA IoDoneStep ==
    ASSUME Inv, NEW p \in Proc, IoDone(p)
    PROVE  Inv' /\ Changes
<1>1. /\ UNCHANGED <<filocks, sleeplcks, wchan, call>> /\ rwlock' = NoProc /\ pc[p] = "io"
      /\ pc' = [pc EXCEPT ![p] = "user"]
  BY DEF IoDone
<1>2. TypeOK /\ pc \in [Proc -> {"user", "sleep", "io"}]
  BY DEF Inv, TypeOK
<1>3. /\ pc' \in [Proc -> {"user", "sleep", "io"}]
      /\ \A q \in Proc : pc'[q] = "sleep" <=> pc[q] = "sleep"
  BY <1>1, <1>2
<1>4. Sleepers' = Sleepers
  BY <1>3 DEF Sleepers
<1>5. TypeOK'
  BY <1>1, <1>2, <1>3 DEF TypeOK
<1>6. SleepersBlocked' /\ \A q \in Proc : Asleep(q)' => pc'[q] = "sleep"
  BY <1>1, <1>3 DEF Inv, SleepersBlocked, Asleep
<1>7. Listed(sleeplcks', Sleepers') /\ \A q \in Sleepers' : Asks(q, call'[q])
  BY <1>1, <1>4 DEF Inv
<1>8. Changes /\ call' = [q \in Proc |-> call'[q]] /\ Sane(filocks') /\ Peace(ToSet(filocks'))
      /\ Len(filocks') + Len(sleeplcks') <= FLCKREC
  BY <1>1, SameLocks DEF Inv
<1> QED BY <1>5, <1>6, <1>7, <1>8 DEF Inv, Listed

\* Every step keeps the invariant and does to the bytes what Changes says.
LEMMA NextKeeps == Inv /\ [Next]_vars => Inv' /\ (Changes \/ UNCHANGED vars)
<1> SUFFICES ASSUME Inv, [Next]_vars PROVE Inv' /\ (Changes \/ UNCHANGED vars)
  OBVIOUS
<1>1. ASSUME NEW p \in Proc, NEW r \in Requests, Frlock(p, r) PROVE Inv' /\ Changes
  <2> DEFINE c == [req |-> Asked(p, r, r.type), set |-> TRUE]
  <2>1. pc[p] = "user" /\ Reclock(p, c, sleeplcks)
    BY <1>1 DEF Frlock
  <2>2. Trying(p, c, sleeplcks)
    BY <2>1, NewTries
  <2> HIDE DEF c
  <2> QED BY <2>1, <2>2, ReclockKeeps
<1>2. ASSUME NEW p \in Proc, NEW r \in Requests, Chklock(p, r) PROVE Inv' /\ Changes
  <2> DEFINE c == [req |-> Asked(p, r, r.type), set |-> FALSE]
  <2>1. pc[p] = "user" /\ Reclock(p, c, sleeplcks)
    BY <1>2 DEF Chklock
  <2>2. Trying(p, c, sleeplcks)
    BY <2>1, NewTries
  <2> HIDE DEF c
  <2> QED BY <2>1, <2>2, ReclockKeeps
<1>3. ASSUME NEW p \in Proc, Resume(p) PROVE Inv' /\ Changes
  BY <1>3, ReadyTries, ReclockKeeps DEF Resume
<1>4. ASSUME NEW p \in Proc, Interrupted(p) PROVE Inv' /\ Changes
  BY <1>4, ReadyTries, GivenUpKeeps DEF Interrupted
<1>5. ASSUME NEW p \in Proc, Close(p) PROVE Inv' /\ Changes
  BY <1>5, CleanStep DEF Close, Owner
<1>6. ASSUME NEW o \in Remote, RemoteGone(o) PROVE Inv' /\ Changes
  BY <1>6, CleanStep DEF RemoteGone, Owner
<1>7. CASE UNCHANGED vars
  <2>1. UNCHANGED <<filocks, sleeplcks, rwlock, wchan, pc, call>>
    BY <1>7 DEF vars
  <2>2. TypeOK' /\ SleepersBlocked' /\ Sleepers' = Sleepers
    BY <2>1 DEF Inv, TypeOK, SleepersBlocked, Asleep, Sleepers
  <2>3. \A p \in Proc : Asleep(p)' => pc'[p] = "sleep"
    BY <2>1 DEF Inv, Asleep
  <2>4. Inv'
    BY <2>1, <2>2, <2>3 DEF Inv, Listed
  <2> QED BY <1>7, <2>4
<1> QED
  BY <1>1, <1>2, <1>3, <1>4, <1>5, <1>6, <1>7, UnlockStep, SignalStep, IoDoneStep,
     RemoteGrantedStep, RemoteUnlockStep, RemoteNotedStep DEF Next

\* The invariant holds at the start.
LEMMA InitHolds == Init => Inv
<1> SUFFICES ASSUME Init PROVE Inv
  OBVIOUS
<1>1. filocks = <<>> /\ sleeplcks = <<>> /\ FLCKREC \in Nat /\ ToSet(filocks) = {}
  BY SizesAssumption DEF Init, ToSet
<1>2. TypeOK /\ call = [p \in Proc |-> call[p]] /\ Sleepers = {} /\ \A p \in Proc : ~ Asleep(p)
  BY <1>1 DEF Init, TypeOK, Sleepers, Asleep
<1>3. SleepersBlocked /\ Peace(ToSet(filocks))
  BY <1>1, <1>2 DEF SleepersBlocked, Peace
<1>4. Sane(filocks) /\ Len(filocks) + Len(sleeplcks) <= FLCKREC
  BY <1>1 DEF Sane
<1>5. Listed(sleeplcks, Sleepers)
  <2>1. \A p \in Proc : Mine(sleeplcks, p) = {}
    BY <1>1 DEF Mine
  <2> QED BY <1>2, <2>1, FS_EmptySet DEF Listed
<1> QED BY <1>2, <1>3, <1>4, <1>5 DEF Inv

\* The invariant holds in every state.
LEMMA Always == Spec => []Inv
<1>1. Init => Inv
  BY InitHolds
<1>2. Inv /\ [Next]_vars => Inv'
  BY NextKeeps
<1> QED BY <1>1, <1>2, PTL DEF Spec
-----------------------------------------------------------------------------
(* Bytes and the map of FileLockAbs *)

\* The lock of o on byte b, on the list l
HeldOn(l, o, b) ==
    IF \E i \in DOMAIN l : LockOn(l[i], o, b)
    THEN l[CHOOSE i \in DOMAIN l : LockOn(l[i], o, b)].type
    ELSE "none"

\* What a byte is held with is the type of the lock that holds it.
LEMMA HeldIs ==
    ASSUME NEW l, Sane(l), NEW o, NEW b \in Byte
    PROVE  /\ \A t : Holds(ToSet(l), o, b, t) <=> HeldOn(l, o, b) = t /\ t # "none"
           /\ HeldOn(l, o, b) \in {"rd", "wr", "none"}
<1>1. l \in Seq(LockType) /\ DOMAIN l = 1 .. Len(l) /\ \A i \in 1 .. Len(l) : l[i] \in LockType
  BY DEF Sane
<1>2. ASSUME NEW t, Holds(ToSet(l), o, b, t)
      PROVE  HeldOn(l, o, b) = t /\ t \in {"rd", "wr"}
  <2>1. PICK f \in ToSet(l) : On(f, o, b, t)
    BY <1>2 DEF Holds
  <2>2. PICK i \in 1 .. Len(l) : f = l[i]
    BY <1>1, Members
  <2> DEFINE k == CHOOSE k \in DOMAIN l : LockOn(l[k], o, b)
  <2>3. k \in 1 .. Len(l) /\ LockOn(l[k], o, b) /\ HeldOn(l, o, b) = l[k].type
    BY <1>1, <2>1, <2>2 DEF On, LockOn, HeldOn
  <2> HIDE DEF k
  <2>4. Holds(ToSet(l), o, b, l[k].type)
    <3>1. On(l[k], o, b, l[k].type)
      BY <2>3 DEF On, LockOn
    <3>2. l[k] \in ToSet(l)
      BY <1>1, <2>3, Members
    <3> QED BY <3>1, <3>2 DEF Holds
  <2>5. l[k].type = t
    BY <1>2, <2>4, OneType
  <2>6. l[k].type \in {"rd", "wr"}
    BY <1>1, <2>3, LockFields
  <2> QED BY <2>3, <2>5, <2>6
<1>3. ASSUME \A t : ~ Holds(ToSet(l), o, b, t) PROVE HeldOn(l, o, b) = "none"
  <2>1. ASSUME NEW i \in DOMAIN l, LockOn(l[i], o, b) PROVE FALSE
    <3>1. On(l[i], o, b, l[i].type)
      BY <2>1 DEF On, LockOn
    <3>2. l[i] \in ToSet(l)
      BY <1>1, Members
    <3> QED BY <1>3, <3>1, <3>2 DEF Holds
  <2> QED BY <2>1 DEF HeldOn
<1> QED BY <1>2, <1>3

\* Owners whose locks are the same hold the same.
LEMMA HeldSame ==
    ASSUME NEW l, Sane(l), NEW m, Sane(m), NEW o, \A f : f.owner = o => (f \in ToSet(m) <=> f \in ToSet(l)),
           NEW b \in Byte
    PROVE  HeldOn(m, o, b) = HeldOn(l, o, b)
<1>1. \A t : Holds(ToSet(m), o, b, t) <=> Holds(ToSet(l), o, b, t)
  BY DEF Holds, On
<1>2. /\ \A t : Holds(ToSet(l), o, b, t) <=> HeldOn(l, o, b) = t /\ t # "none"
      /\ \A t : Holds(ToSet(m), o, b, t) <=> HeldOn(m, o, b) = t /\ t # "none"
  BY HeldIs
<1> QED BY <1>1, <1>2

\* The map of the list l
Map(l) == [o \in Owner |-> [b \in Byte |-> HeldOn(l, o, b)]]

\* A request that is granted becomes the lock of its bytes.
LEMMA GrantedMap ==
    ASSUME NEW l, Sane(l), NEW m, Sane(m), NEW o \in Owner, NEW r \in Requests,
           NEW x \in {"rd", "wr", "un"}, Granted(ToSet(m), ToSet(l), Asked(o, r, x)),
           NEW y, y = IF x = "un" THEN "none" ELSE x
    PROVE  Map(m) = [Map(l) EXCEPT ![o] = [b \in Byte |-> IF b \in r.start .. r.end THEN y ELSE @[b]]]
<1> DEFINE a == Asked(o, r, x)
<1>1. a.owner = o /\ a.type = x /\ a.start = r.start /\ a.end = r.end
  BY DEF Asked
<1>2. r.start \in Int /\ r.end \in Int /\ Byte \subseteq Int
  BY InputsAssumption, SizesAssumption DEF Byte
<1> HIDE DEF a
<1>3. Granted(ToSet(m), ToSet(l), a)
  BY DEF a
<1>4. ASSUME NEW q \in Owner, q # o, NEW b \in Byte PROVE HeldOn(m, q, b) = HeldOn(l, q, b)
  <2>1. \A f : f.owner = q => (f \in ToSet(m) <=> f \in ToSet(l))
    BY <1>1, <1>3, <1>4 DEF Granted
  <2> QED BY <2>1, HeldSame
<1>5. ASSUME NEW b \in Byte
      PROVE  HeldOn(m, o, b) = IF b \in r.start .. r.end THEN y ELSE HeldOn(l, o, b)
  <2>1. InLd(b, a) <=> b \in r.start .. r.end
    BY <1>1, <1>2 DEF InLd
  <2>2. /\ \A t : Holds(ToSet(l), o, b, t) <=> HeldOn(l, o, b) = t /\ t # "none"
        /\ \A t : Holds(ToSet(m), o, b, t) <=> HeldOn(m, o, b) = t /\ t # "none"
    BY HeldIs
  <2>3. \A t : Holds(ToSet(m), o, b, t) <=> IF b \in r.start .. r.end THEN t = x /\ x # "un"
                                           ELSE Holds(ToSet(l), o, b, t)
    BY <1>1, <1>3, <2>1 DEF Granted
  <2> QED BY <2>2, <2>3
<1> QED BY <1>4, <1>5 DEF Map

\* The map of the next list
LEMMA NextMap ==
    ASSUME NEW o, NEW b
    PROVE  HeldAt(o, b) = HeldOn(filocks, o, b) /\ HeldAt(o, b)' = HeldOn(filocks', o, b)
BY DEF HeldAt, HeldOn

\* What a step does to the locks is a step of the map.
LEMMA ChangesRefine ==
    ASSUME Sane(filocks), Sane(filocks'), Changes
    PROVE  Abs!Next \/ UNCHANGED [o \in Owner |-> [b \in Byte |-> HeldAt(o, b)]]
<1> DEFINE S == ToSet(filocks)
           T == ToSet(filocks')
           H == Map(filocks)
           N == Map(filocks')
<1>1. /\ [o \in Owner |-> [b \in Byte |-> HeldAt(o, b)]] = H
      /\ [o \in Owner |-> [b \in Byte |-> HeldAt(o, b)]]' = N
  BY NextMap DEF Map
<1>2. /\ \A o \in Owner, b \in Byte : H[o][b] = HeldOn(filocks, o, b) /\ N[o][b] = HeldOn(filocks', o, b)
      /\ H = [o \in Owner |-> [b \in Byte |-> H[o][b]]]
      /\ N = [o \in Owner |-> [b \in Byte |-> N[o][b]]]
  BY DEF Map
<1>3. \A o \in Owner, b \in Byte :
        /\ \A t : Holds(S, o, b, t) <=> H[o][b] = t /\ t # "none"
        /\ \A t : Holds(T, o, b, t) <=> N[o][b] = t /\ t # "none"
  BY <1>2, HeldIs
<1>4. \A r \in Requests : /\ r.type \in {"rd", "wr"} /\ r.start \in Byte /\ r.end \in Byte
                          /\ r.start \in Int /\ r.end \in Int
  BY InputsAssumption, SizesAssumption DEF Byte
<1>5. ASSUME NEW o \in Owner, NEW r \in Requests, Granted(T, S, Asked(o, r, r.type)),
             InWay(S, Asked(o, r, r.type)) = {}
      PROVE  Abs!Grant(o, r)
  <2> DEFINE y == r.type
  <2>1. y \in {"rd", "wr", "un"} /\ y = IF y = "un" THEN "none" ELSE y
    BY <1>4
  <2> HIDE DEF y
  <2>2. N = [H EXCEPT ![o] = [b \in Byte |-> IF b \in r.start .. r.end THEN y ELSE @[b]]]
    <3>1. Granted(T, S, Asked(o, r, y))
      BY <1>5 DEF y
    <3> QED BY <2>1, <3>1, GrantedMap
  <2>3. ASSUME NEW q \in Owner \ {o}, NEW b \in r.start .. r.end
        PROVE  H[q][b] = "none" \/ (H[q][b] = "rd" /\ r.type = "rd")
    <3>1. b \in Byte /\ b \in Int /\ r.start <= b /\ b <= r.end
      BY <1>4, SizesAssumption DEF Byte
    <3>2. SUFFICES ASSUME NEW f \in S, On(f, q, b, H[q][b]), H[q][b] # "rd" \/ r.type # "rd"
                   PROVE  FALSE
      BY <1>3, <3>1 DEF Holds
    <3>3. f \in LockType /\ f.owner = q /\ f.type = H[q][b] /\ f.start <= b /\ b <= f.end
      BY <3>2, Found DEF On
    <3>4. f.type = "wr" \/ r.type = "wr"
      BY <1>4, <3>2, <3>3, LockFields
    <3>5. f.start <= r.end /\ r.start <= f.end
      BY <1>4, <3>1, <3>3, LockFields
    <3>6. Conflict(f, Asked(o, r, r.type))
      BY <3>3, <3>4, <3>5 DEF Conflict, Overlap, Asked
    <3> QED BY <1>5, <3>6 DEF InWay
  <2>4. Abs!Compatible(o, r)
    <3> HIDE DEF H
    <3>1. \A q \in Owner \ {o}, b \in r.start .. r.end :
            H[q][b] = "none" \/ (H[q][b] = "rd" /\ r.type = "rd")
      BY <2>3
    <3> QED BY <1>1, <3>1 DEF Abs!Compatible, Abs!Covers
  <2>5. Abs!Becomes(o, r, y)
    <3> HIDE DEF H, N
    <3> QED BY <1>1, <2>2 DEF Abs!Becomes, Abs!Covers
  <2> QED BY <2>4, <2>5 DEF Abs!Grant, y
<1>6. ASSUME NEW o \in Owner, NEW r \in Requests, Granted(T, S, Asked(o, r, "un"))
      PROVE  Abs!Release(o, r)
  <2> DEFINE x == "un"  y == "none"
  <2>1. x \in {"rd", "wr", "un"} /\ y = IF x = "un" THEN "none" ELSE x
    OBVIOUS
  <2>2. Granted(T, S, Asked(o, r, x))
    BY <1>6
  <2> HIDE DEF x, y
  <2>3. N = [H EXCEPT ![o] = [b \in Byte |-> IF b \in r.start .. r.end THEN y ELSE @[b]]]
    BY <2>1, <2>2, GrantedMap
  <2>4. Abs!Becomes(o, r, y)
    <3> HIDE DEF H, N
    <3> QED BY <1>1, <2>3 DEF Abs!Becomes, Abs!Covers
  <2> QED BY <2>4 DEF Abs!Release, y
<1>7. ASSUME NEW o \in Owner, NEW r \in Requests, NEW x, Refused(T, S, Asked(o, r, x))
      PROVE  Abs!Fail(o, r, x)
  <2> DEFINE a == Asked(o, r, x)
  <2>1. a.owner = o /\ a.type = x /\ a.start = r.start /\ a.end = r.end
    BY DEF Asked
  <2> HIDE DEF a
  <2>2. Refused(T, S, a)
    BY <1>7 DEF a
  <2>3. ASSUME NEW b \in Byte
        PROVE  \/ N[o][b] = H[o][b]
               \/ N[o][b] = "none" /\ (b \in r.start .. r.end \/ H[o][b] = x)
    <3>1. InLd(b, a) => b \in r.start .. r.end
      BY <1>4, <2>1, SizesAssumption DEF InLd, Byte
    <3>2. \A t : /\ Holds(T, o, b, t) => Holds(S, o, b, t)
                 /\ Holds(S, o, b, t) /\ ~ InLd(b, a) /\ t # x => Holds(T, o, b, t)
      BY <2>1, <2>2 DEF Refused
    <3>3. \A t : /\ Holds(S, o, b, t) <=> H[o][b] = t /\ t # "none"
                 /\ Holds(T, o, b, t) <=> N[o][b] = t /\ t # "none"
      BY <1>3
    <3> HIDE DEF S, T, H, N
    <3> QED BY <3>1, <3>2, <3>3
  <2>4. ASSUME NEW q \in Owner \ {o} PROVE N[q] = H[q]
    <3>1. \A f : f.owner = q => (f \in T <=> f \in S)
      BY <2>1, <2>2 DEF Refused
    <3>2. \A b \in Byte : HeldOn(filocks', q, b) = HeldOn(filocks, q, b)
      BY <3>1, HeldSame
    <3> QED BY <3>2 DEF Map
  <2> HIDE DEF H, N
  <2> QED BY <1>1, <2>3, <2>4 DEF Abs!Fail, Abs!Covers
<1>8. ASSUME NEW o \in Owner, T = {f \in S : f.owner # o} PROVE Abs!Close(o)
  <2>1. ASSUME NEW b \in Byte PROVE N[o][b] = "none"
    <3>1. \A t : ~ Holds(T, o, b, t)
      BY <1>8 DEF Holds, On
    <3> QED BY <1>3, <3>1
  <2>2. ASSUME NEW q \in Owner, q # o, NEW b \in Byte PROVE N[q][b] = H[q][b]
    <3>1. \A f : f.owner = q => (f \in T <=> f \in S)
      BY <1>8, <2>2
    <3> QED BY <1>2, <2>2, <3>1, HeldSame
  <2> HIDE DEF H, N
  <2>3. N = [H EXCEPT ![o] = [b \in Byte |-> "none"]]
    <3>1. \A q \in Owner : N[q] = IF q = o THEN [b \in Byte |-> "none"] ELSE H[q]
      <4> SUFFICES ASSUME NEW q \in Owner PROVE N[q] = IF q = o THEN [b \in Byte |-> "none"] ELSE H[q]
        OBVIOUS
      <4>1. N[q] = [b \in Byte |-> N[q][b]] /\ H[q] = [b \in Byte |-> H[q][b]]
        BY <1>2
      <4> QED BY <2>1, <2>2, <4>1
    <3> QED BY <1>2, <3>1
  <2> QED BY <1>1, <2>3 DEF Abs!Close
<1>9. ASSUME \A o \in Owner, b \in Byte : \A t : Holds(T, o, b, t) <=> Holds(S, o, b, t) PROVE N = H
  <2>1. \A o \in Owner, b \in Byte : N[o][b] = H[o][b]
    BY <1>3, <1>9
  <2> HIDE DEF N, H
  <2> QED BY <1>2, <2>1
<1>10. Changes => \/ \A o \in Owner, b \in Byte : \A t : Holds(T, o, b, t) <=> Holds(S, o, b, t)
                  \/ \E o \in Owner, r \in Requests :
                       \/ /\ Granted(T, S, Asked(o, r, r.type))
                          /\ InWay(S, Asked(o, r, r.type)) = {}
                       \/ Refused(T, S, Asked(o, r, r.type))
                       \/ Granted(T, S, Asked(o, r, "un"))
                       \/ Refused(T, S, Asked(o, r, "un"))
                  \/ \E o \in Owner : T = {f \in S : f.owner # o}
  BY DEF Changes
<1> HIDE DEF S, T, H, N
<1>11. Changes => Abs!Next \/ N = H
  BY <1>5, <1>6, <1>7, <1>8, <1>9, <1>10 DEF Abs!Next
<1> QED BY <1>1, <1>11
-----------------------------------------------------------------------------
(* The theorems *)

\* ListOrdered, the order that blocked, the walk of flckadj and its regflck rely
\* on, is kept by every way flckadj splits, trims, joins and gives up.
THEOREM ListStaysOrdered == Spec => []ListOrdered
<1>1. Inv => ListOrdered
  <2> SUFFICES ASSUME Inv, NEW i \in DOMAIN filocks, NEW j \in DOMAIN filocks, i < j
               PROVE  /\ At(filocks[i]) # At(filocks[j])
                      /\ Before(filocks[i], filocks[j])
    BY DEF ListOrdered, Before
  <2>1. i \in 1 .. Len(filocks) /\ j \in 1 .. Len(filocks) /\ i # j /\ Sane(filocks)
    BY DEF Inv, Sane
  <2>2. At(filocks[i]) # At(filocks[j])
    BY <2>1, AtUnique
  <2> QED BY <2>1, <2>2 DEF Sane
<1> QED BY <1>1, Always, PTL

\* NoConflict: blocked and flckadj never let two owners have a byte of which one
\* has locked it for writing.
THEOREM LocksNeverConflict == Spec => []NoConflict
<1>1. Inv => NoConflict
  <2> SUFFICES ASSUME Inv, NEW i \in DOMAIN filocks, NEW j \in DOMAIN filocks
               PROVE  ~ Conflict(filocks[i], filocks[j])
    BY DEF NoConflict
  <2>1. filocks[i] \in ToSet(filocks) /\ filocks[j] \in ToSet(filocks)
    BY DEF ToSet
  <2> QED BY <2>1 DEF Inv, Peace
<1> QED BY <1>1, Always, PTL

\* RequestsListed, the types and the list that deadflck follows: whichever way
\* its sleep ends, a process leaves no request behind, and the structures of both
\* lists are never more than t_flckrec.
THEOREM RequestsAreListed == Spec => []RequestsListed
<1>1. Inv => RequestsListed
  <2> SUFFICES ASSUME Inv, NEW p \in Proc
               PROVE  Cardinality({i \in DOMAIN sleeplcks : sleeplcks[i].owner = p})
                        = IF pc[p] = "sleep" THEN 1 ELSE 0
    BY DEF Inv, RequestsListed
  <2>1. Cardinality(Mine(sleeplcks, p)) = IF p \in Sleepers THEN 1 ELSE 0
    BY DEF Inv, Listed
  <2> QED BY <2>1 DEF Mine, Sleepers
<1> QED BY <1>1, Always, PTL

\* SleepersBlocked: whoever takes a lock off the list, or cuts its end off, has
\* woken those who were told to wait for it.
THEOREM SleepersAreBlocked == Spec => []SleepersBlocked
<1>1. Inv => SleepersBlocked
  BY DEF Inv
<1> QED BY <1>1, Always, PTL

\* ExactBytes, that the list does what reclock's callers take it for: a request
\* changes exactly the bytes it names, at once, and when a structure is missing
\* nothing is gained.
THEOREM FileLockImplementsAbs == Spec => ExactBytes
<1> DEFINE held == [o \in Owner |-> [b \in Byte |-> HeldAt(o, b)]]
<1>1. Init => Abs!Init
  <2> SUFFICES ASSUME Init PROVE Abs!Init
    OBVIOUS
  <2>1. DOMAIN filocks = {}
    BY DEF Init
  <2>2. \A o \in Owner, b \in Byte : HeldAt(o, b) = "none"
    BY <2>1 DEF HeldAt
  <2> QED BY <2>2 DEF Abs!Init
<1>2. Inv /\ [Next]_vars => [Abs!Next]_held
  <2> SUFFICES ASSUME Inv, [Next]_vars PROVE Abs!Next \/ UNCHANGED held
    OBVIOUS
  <2>1. CASE UNCHANGED vars
    <3>1. UNCHANGED filocks
      BY <2>1 DEF vars
    <3> QED BY <3>1 DEF HeldAt
  <2>2. CASE Changes
    BY <2>2, NextKeeps, ChangesRefine DEF Inv
  <2> QED BY <2>1, <2>2, NextKeeps
<1> QED BY <1>1, <1>2, Always, PTL DEF Spec, ExactBytes, Abs!Spec
-----------------------------------------------------------------------------
(* Who waits for whom *)

\* The owner that o waits for is the one its first request names.
LEMMA BlkIs ==
    ASSUME NEW sl \in Seq(Waiting), NEW o
    PROVE  \/ Blk(sl, o) = NoProc /\ \A w \in ToSet(sl) : w.owner # o
           \/ \E w \in ToSet(sl) : w.owner = o /\ Blk(sl, o) = w.blk /\ w \in Waiting
<1> DEFINE n == Len(sl)
           I == {i \in 1 .. n : sl[i].owner = o}
           k == SelectInSeq(sl, LAMBDA w : w.owner = o)
<1>1. n \in Nat /\ \A i \in 1 .. n : sl[i] \in Waiting
  OBVIOUS
<1>2. k = IF I # {} THEN Min(I) ELSE 0
  BY DEF SelectInSeq
<1>3. Blk(sl, o) = IF k = 0 THEN NoProc ELSE sl[k].blk
  BY DEF Blk
<1> HIDE DEF k
<1>4. CASE I # {}
  <2>1. Min(I) \in I
    <3>1. I \in SUBSET (1 .. n)
      OBVIOUS
    <3> HIDE DEF I, n
    <3> QED BY <1>1, <1>4, <3>1, LeastPosition
  <2>2. k \in 1 .. n /\ sl[k].owner = o /\ k # 0
    BY <1>2, <1>4, <2>1
  <2>3. sl[k] \in ToSet(sl)
    BY <2>2, Members
  <2> QED BY <1>1, <1>3, <2>2, <2>3
<1>5. CASE I = {}
  <2>1. k = 0
    BY <1>2, <1>5
  <2>2. \A w \in ToSet(sl) : w.owner # o
    BY <1>5, Members
  <2> QED BY <1>3, <2>1, <2>2
<1> QED BY <1>4, <1>5

\* Whoever is waited for is an owner, and nobody waits for nobody.
LEMMA BlkType ==
    ASSUME NEW sl \in Seq(Waiting), NEW o
    PROVE  /\ Blk(sl, o) \in Owner \cup {NoProc}
           /\ o = NoProc => Blk(sl, o) = NoProc
<1>1. \A w \in Waiting : w.owner \in Owner /\ w.blk \in Owner /\ w.owner # NoProc
  BY NamesAssumption DEF Waiting
<1>2. CASE Blk(sl, o) = NoProc
  BY <1>2
<1>3. CASE \E w \in ToSet(sl) : w.owner = o /\ Blk(sl, o) = w.blk /\ w \in Waiting
  BY <1>1, <1>3
<1> QED BY <1>2, <1>3, BlkIs

\* The owners that deadflck comes by, one after the other.
Steps(at, sl, o, n, V) ==
    /\ at \in [0 .. n -> V] /\ at[0] = o
    /\ \A i \in 1 .. n : at[i] = Blk(sl, at[i - 1])

\* deadflck's walk.
LEMMA WalkIs ==
    ASSUME NEW sl, NEW V, NEW step \in [V -> V], \A v \in V : step[v] = Blk(sl, v), NEW o \in V
    PROVE  \E n, at : n \in Nat /\ Steps(at, sl, o, n, V) /\ Chain(sl, o) = {at[i] : i \in 0 .. n}
<1> DEFINE n == Cardinality(Owner)
           at == CHOOSE g : g = [i \in 0 .. n |-> IF i = 0 THEN o ELSE Blk(sl, g[i - 1])]
<1>1. n \in Nat
  BY OwnersAssumption, FS_CardinalityType
<1>3. PICK f \in [Nat -> V] : f[0] = o /\ \A i \in Nat : f[i + 1] = step[f[i]]
  <2> HIDE DEF n, at
  <2>1. o \in V /\ step \in [V -> V]
    OBVIOUS
  <2>2. \E f \in [Nat -> V] : f[0] = o /\ \A i \in Nat : f[i + 1] = step[f[i]]
    BY ONLY <2>1, Iteration, SMTT(60)
  <2> QED BY ONLY <2>2
<1> DEFINE h == [i \in 0 .. n |-> f[i]]
<1> HIDE DEF n
<1>4. h = [i \in 0 .. n |-> IF i = 0 THEN o ELSE Blk(sl, h[i - 1])]
  <2> HIDE DEF at
  <2> SUFFICES ASSUME NEW i \in 0 .. n, i # 0 PROVE h[i] = Blk(sl, h[i - 1])
    BY <1>3
  <2>1. i - 1 \in Nat /\ i - 1 \in 0 .. n /\ (i - 1) + 1 = i
    BY <1>1
  <2>2. f[i] = Blk(sl, f[i - 1]) /\ f[i - 1] \in V
    BY <1>3, <2>1
  <2> QED BY <2>1, <2>2
<1>5. at = [i \in 0 .. n |-> IF i = 0 THEN o ELSE Blk(sl, at[i - 1])]
  <2> HIDE DEF h
  <2> QED BY <1>4
<1>6. Chain(sl, o) = {at[i] : i \in 0 .. n}
  BY DEF Chain, n
<1> HIDE DEF at
<1>7. at \in [0 .. n -> V]
  <2> DEFINE J == {i \in Nat : i <= n => at[i] \in V}
  <2>1. 0 \in J
    BY <1>1, <1>5
  <2>2. ASSUME NEW i \in Nat, i \in J PROVE i + 1 \in J
    <3> SUFFICES ASSUME i + 1 <= n PROVE at[i + 1] \in V
      OBVIOUS
    <3>1. at[i] \in V /\ i + 1 \in 0 .. n /\ i + 1 # 0 /\ (i + 1) - 1 = i
      BY <1>1, <2>2
    <3>2. at[i + 1] = Blk(sl, at[i])
      BY <1>5, <3>1
    <3> QED BY <3>1, <3>2
  <2>3. \A i \in Nat : i \in J
    <3> HIDE DEF J
    <3> QED BY <2>1, <2>2, SetInduction
  <2>4. \A i \in 0 .. n : at[i] \in V
    BY <1>1, <2>3
  <2> QED BY <1>5, <2>4
<1>8. at[0] = o /\ \A i \in 1 .. n : at[i] = Blk(sl, at[i - 1])
  BY <1>1, <1>5
<1>9. Steps(at, sl, o, n, V)
  BY <1>7, <1>8 DEF Steps
<1> QED BY <1>1, <1>6, <1>9

\* What deadflck's walk comes by, from an owner on: who waits for whom, step by
\* step, as many steps as there are owners.
LEMMA ChainIs ==
    ASSUME NEW sl, sl \in Seq(Waiting), NEW o, o \in Owner
    PROVE  \E n, at : /\ n \in Nat /\ Steps(at, sl, o, n, Owner \cup {NoProc})
                      /\ Chain(sl, o) = {at[i] : i \in 0 .. n}
<1> DEFINE V == Owner \cup {NoProc}
           step == [v \in V |-> Blk(sl, v)]
<1>1. \A v \in V : Blk(sl, v) \in V
  BY BlkType
<1>2. o \in V
  OBVIOUS
<1> HIDE DEF V
<1>3. step \in [V -> V]
  BY <1>1
<1>4. \A v \in V : step[v] = Blk(sl, v)
  OBVIOUS
<1> HIDE DEF step
<1>5. \E n, at : n \in Nat /\ Steps(at, sl, o, n, V) /\ Chain(sl, o) = {at[i] : i \in 0 .. n}
  BY ONLY <1>2, <1>3, <1>4, WalkIs, SMTT(30)
<1> QED BY <1>5 DEF V

\* Ranks of the owners: whoever waits ranks above whom it waits for.
Ranks(rk, sl) == rk \in [Owner -> Nat] /\ \A w \in ToSet(sl) : rk[w.blk] < rk[w.owner]

\* Whoever deadflck comes by ranks no higher than where it started.
LEMMA ChainBelow ==
    ASSUME NEW sl \in Seq(Waiting), NEW rk, Ranks(rk, sl), NEW o \in Owner,
           NEW c \in Chain(sl, o), c # NoProc
    PROVE  c \in Owner /\ rk[c] <= rk[o]
<1>1. PICK n, at : /\ n \in Nat /\ Steps(at, sl, o, n, Owner \cup {NoProc})
                   /\ Chain(sl, o) = {at[i] : i \in 0 .. n}
  BY ChainIs
<1> n \in Nat
  BY <1>1
<1> DEFINE J == {i \in Nat : i <= n => at[i] = NoProc \/ (at[i] \in Owner /\ rk[at[i]] <= rk[o])}
<1>2. rk \in [Owner -> Nat] /\ rk[o] \in Nat
  BY DEF Ranks
<1>3. 0 \in J
  BY <1>1, <1>2 DEF Steps
<1>4. ASSUME NEW i \in Nat, i \in J PROVE i + 1 \in J
  <2> SUFFICES ASSUME i + 1 <= n, at[i + 1] # NoProc
               PROVE  at[i + 1] \in Owner /\ rk[at[i + 1]] <= rk[o]
    OBVIOUS
  <2>1. i + 1 \in 1 .. n /\ (i + 1) - 1 = i /\ i <= n
    OBVIOUS
  <2>2. at[i + 1] = Blk(sl, at[i])
    BY <1>1, <2>1 DEF Steps
  <2>3. PICK w \in ToSet(sl) : w.owner = at[i] /\ at[i + 1] = w.blk /\ w \in Waiting
    BY <2>2, BlkIs
  <2>4. w.owner \in Owner /\ w.blk \in Owner /\ w.owner # NoProc
    BY <2>3, NamesAssumption DEF Waiting
  <2>5. rk[w.blk] < rk[w.owner] /\ rk[w.owner] <= rk[o]
    BY <1>4, <2>1, <2>3, <2>4 DEF Ranks
  <2>6. rk[w.blk] \in Nat /\ rk[w.owner] \in Nat
    BY <1>2, <2>4
  <2> QED BY <1>2, <2>3, <2>4, <2>5, <2>6
<1>5. \A i \in Nat : i \in J
  <2> HIDE DEF J
  <2> QED BY <1>3, <1>4, SetInduction
<1>6. PICK i \in 0 .. n : c = at[i]
  BY <1>1
<1> QED BY <1>5, <1>6

\* A walk that ends is closed: whom its owners wait for is on it.
LEMMA ChainClosed ==
    ASSUME NEW sl \in Seq(Waiting), NEW o \in Owner, NoProc \in Chain(sl, o),
           NEW c \in Chain(sl, o)
    PROVE  Blk(sl, c) \in Chain(sl, o)
<1>1. PICK n, at : /\ n \in Nat /\ Steps(at, sl, o, n, Owner \cup {NoProc})
                   /\ Chain(sl, o) = {at[i] : i \in 0 .. n}
  BY ChainIs
<1> n \in Nat
  BY <1>1
<1>2. Blk(sl, NoProc) = NoProc
  BY BlkType
<1>3. PICK k \in 0 .. n : at[k] = NoProc
  BY <1>1
<1> DEFINE J == {i \in Nat : k + i <= n => at[k + i] = NoProc}
<1>4. 0 \in J
  BY <1>3
<1>5. ASSUME NEW i \in Nat, i \in J PROVE i + 1 \in J
  <2> SUFFICES ASSUME k + (i + 1) <= n PROVE at[k + (i + 1)] = NoProc
    OBVIOUS
  <2>1. k + (i + 1) \in 1 .. n /\ (k + (i + 1)) - 1 = k + i /\ k + i <= n
    OBVIOUS
  <2>2. at[k + (i + 1)] = Blk(sl, at[k + i])
    BY <1>1, <2>1 DEF Steps
  <2> QED BY <1>2, <1>5, <2>1, <2>2
<1>6. \A i \in Nat : i \in J
  <2> HIDE DEF J
  <2> QED BY <1>4, <1>5, SetInduction
<1>7. at[n] = NoProc
  <2>1. n - k \in Nat /\ k + (n - k) = n
    OBVIOUS
  <2>2. n - k \in J
    BY <1>6, <2>1
  <2> QED BY <2>1, <2>2
<1>8. PICK i \in 0 .. n : c = at[i]
  BY <1>1
<1>9. CASE i = n
  BY <1>2, <1>7, <1>8, <1>9
<1>10. CASE i # n
  <2>1. i + 1 \in 1 .. n /\ i + 1 \in 0 .. n /\ (i + 1) - 1 = i
    BY <1>10
  <2>2. at[i + 1] = Blk(sl, c)
    BY <1>1, <1>8, <2>1 DEF Steps
  <2> QED BY <1>1, <2>1, <2>2
<1> QED BY <1>9, <1>10

\* A process waits for one owner at most.
LEMMA OneBlk ==
    ASSUME NEW sl \in Seq(Waiting), NEW P, Listed(sl, P),
           NEW v \in ToSet(sl), NEW w \in ToSet(sl), v.owner = w.owner, v.owner \in Proc
    PROVE  v = w
<1> DEFINE M == Mine(sl, v.owner)
<1>1. PICK i \in 1 .. Len(sl), j \in 1 .. Len(sl) : v = sl[i] /\ w = sl[j]
  BY Members
<1>2. DOMAIN sl = 1 .. Len(sl)
  OBVIOUS
<1>3. i \in M /\ j \in M
  BY <1>1, <1>2 DEF Mine
<1>4. IsFiniteSet(M) /\ Cardinality(M) \in {0, 1}
  BY MineFinite DEF Listed
<1> HIDE DEF M
<1>5. M # {} /\ Cardinality(M) # 0
  BY <1>3, <1>4, FS_EmptySet
<1>6. \E x : M = {x}
  BY <1>4, <1>5, FS_Singleton
<1> QED BY <1>1, <1>3, <1>6

\* The rank of a request that deadflck lets wait: the owners on its walk keep their
\* ranks, all others are ranked above them.
LEMMA RanksOneMore ==
    ASSUME NEW sl \in Seq(Waiting), NEW P, Listed(sl, P), Owner \subseteq Proc,
           NEW rk, Ranks(rk, sl),
           NEW w \in Waiting, w.owner \notin Chain(sl, w.blk), NoProc \in Chain(sl, w.blk)
    PROVE  \E r : Ranks(r, <<w>> \o sl)
<1> DEFINE C == Chain(sl, w.blk)
           o == w.owner
           q == w.blk
           r == [x \in Owner |-> IF x \in C THEN rk[x] ELSE rk[x] + rk[q] + 1]
<1>1. o \in Owner /\ q \in Owner /\ \A v \in Waiting : v.owner \in Owner /\ v.blk \in Owner
  BY DEF Waiting
<1>2. rk \in [Owner -> Nat] /\ \A v \in ToSet(sl) : rk[v.blk] < rk[v.owner]
  BY DEF Ranks
<1>3. NoProc \notin Owner
  BY NamesAssumption
<1>4. q \in C
  <2>1. PICK n, at : n \in Nat /\ Steps(at, sl, q, n, Owner \cup {NoProc}) /\ Chain(sl, q) = {at[i] : i \in 0 .. n}
    BY <1>1, ChainIs
  <2>2. at[0] = q /\ 0 \in 0 .. n
    BY <2>1 DEF Steps
  <2> QED BY <2>1, <2>2
<1>5. \A x \in C : x \in Owner => rk[x] <= rk[q]
  BY <1>1, <1>3, ChainBelow
<1>6. ASSUME NEW v \in ToSet(sl), v.owner \in C PROVE v.blk \in C
  <2>1. v \in Waiting /\ v.owner \in Owner
    BY <1>1, Members
  <2>2. Blk(sl, v.owner) = v.blk
    <3>1. PICK u \in ToSet(sl) : u.owner = v.owner /\ Blk(sl, v.owner) = u.blk
      BY BlkIs
    <3>2. u = v
      BY <2>1, <3>1, OneBlk
    <3> QED BY <3>1, <3>2
  <2>3. Blk(sl, v.owner) \in C
    BY <1>1, <1>6, ChainClosed
  <2> QED BY <2>2, <2>3
<1> HIDE DEF C
<1>7. r \in [Owner -> Nat]
  BY <1>1, <1>2
<1>8. r[q] < r[o]
  <2>1. r[q] = rk[q] /\ r[o] = rk[o] + rk[q] + 1 /\ rk[q] \in Nat /\ rk[o] \in Nat
    BY <1>1, <1>2, <1>4 DEF C
  <2> HIDE DEF r
  <2> QED BY <2>1
<1>9. ASSUME NEW v \in ToSet(sl) PROVE r[v.blk] < r[v.owner]
  <2>1. v.owner \in Owner /\ v.blk \in Owner
    BY <1>1, Members
  <2>2. rk[v.blk] < rk[v.owner] /\ rk[v.blk] \in Nat /\ rk[v.owner] \in Nat /\ rk[q] \in Nat
    BY <1>1, <1>2, <2>1
  <2>3. /\ r[v.owner] = IF v.owner \in C THEN rk[v.owner] ELSE rk[v.owner] + rk[q] + 1
        /\ r[v.blk] = IF v.blk \in C THEN rk[v.blk] ELSE rk[v.blk] + rk[q] + 1
    BY <2>1
  <2> HIDE DEF r
  <2> QED BY <1>6, <2>2, <2>3
<1>10. \A v \in ToSet(<<w>> \o sl) : v = w \/ v \in ToSet(sl)
  <2> DEFINE m == <<w>> \o sl
  <2>1. /\ m \in Seq(Waiting) /\ Len(m) = Len(sl) + 1 /\ m[1] = w
        /\ \A i \in 1 .. Len(sl) : m[i + 1] = sl[i]
    OBVIOUS
  <2> HIDE DEF m
  <2>2. SUFFICES ASSUME NEW v \in ToSet(m) PROVE v = w \/ v \in ToSet(sl)
    BY DEF m
  <2>3. PICK i \in 1 .. Len(m) : v = m[i]
    BY <2>1, Members
  <2>4. CASE i = 1
    BY <2>1, <2>3, <2>4
  <2>5. CASE i # 1
    <3>1. i - 1 \in 1 .. Len(sl) /\ (i - 1) + 1 = i
      BY <2>1, <2>5
    <3>2. v = sl[i - 1]
      BY <2>1, <2>3, <3>1
    <3> QED BY <3>1, <3>2, Members
  <2> QED BY <2>4, <2>5
<1> HIDE DEF r
<1>11. Ranks(r, <<w>> \o sl)
  BY <1>7, <1>8, <1>9, <1>10 DEF Ranks
<1> QED BY <1>11

\* Requests that leave the list take no rank away.
LEMMA RanksFewer ==
    ASSUME NEW sl, NEW m, ToSet(m) \subseteq ToSet(sl), NEW rk, Ranks(rk, sl)
    PROVE  Ranks(rk, m)
BY DEF Ranks

Ranked(sl) == \E rk : Ranks(rk, sl)

\* One pass of reclock.
LEMMA ReclockRanks ==
    ASSUME Remote = {}, Inv, NEW p, NEW c, NEW sleeping, Trying(p, c, sleeping),
           Reclock(p, c, sleeping) \/ GivenUp(p, c, sleeping), Ranked(sleeping)
    PROVE  Ranked(sleeplcks')
<1>1. CASE sleeplcks' = sleeping
  BY <1>1
<1>2. CASE Sleeps(p, c, sleeping)
  <2> DEFINE b == Blocked(filocks, c.req)
             f == filocks[b]
             w == Waits(c.req, f.owner)
  <2>1. /\ b # 0 /\ sleeplcks' = <<w>> \o sleeping
        /\ c.req.owner \notin Chain(sleeping, f.owner) /\ NoProc \in Chain(sleeping, f.owner)
    BY <1>2 DEF Sleeps, NoDeadlock, Deadflck
  <2>2. p \in Proc /\ Asks(p, c) /\ sleeping \in Seq(Waiting) /\ Listed(sleeping, Sleepers \ {p})
    BY DEF Trying
  <2>3. f \in LockType
    <3>1. b \in 1 .. Len(filocks)
      BY <2>1, BlockedIs DEF Inv
    <3> HIDE DEF b
    <3> QED BY <3>1 DEF Inv, Sane
  <2>4. c.req \in Region(Owner, {"rd", "wr"})
    BY <2>2, AskedIs DEF Asks, Owner
  <2> HIDE DEF b, f
  <2>5. w \in Waiting /\ w.owner = c.req.owner /\ w.blk = f.owner
    BY <2>3, <2>4 DEF Waits, Waiting, LockType, Region
  <2> HIDE DEF w
  <2>6. Owner \subseteq Proc
    BY DEF Owner
  <2>7. PICK rk : Ranks(rk, sleeping)
    BY DEF Ranked
  <2>8. w.owner \notin Chain(sleeping, w.blk) /\ NoProc \in Chain(sleeping, w.blk)
    BY <2>1, <2>5
  <2>9. \E r : Ranks(r, <<w>> \o sleeping)
    BY <2>2, <2>5, <2>6, <2>7, <2>8, RanksOneMore
  <2> QED BY <2>1, <2>9 DEF Ranked
<1> QED BY <1>1, <1>2 DEF Reclock, Unblocked, Edeadlk, Enolck, GivenUp

\* Every step keeps the ranks when there are no other machines.
LEMMA NextRanks ==
    ASSUME Remote = {}, Inv, Ranked(sleeplcks), [Next]_vars
    PROVE  Ranked(sleeplcks')
<1>1. ASSUME NEW p \in Proc, NEW r \in Requests, Frlock(p, r) PROVE Ranked(sleeplcks')
  <2> DEFINE c == [req |-> Asked(p, r, r.type), set |-> TRUE]
  <2>1. pc[p] = "user" /\ Reclock(p, c, sleeplcks)
    BY <1>1 DEF Frlock
  <2>2. Trying(p, c, sleeplcks)
    BY <2>1, NewTries
  <2> HIDE DEF c
  <2> QED BY <2>1, <2>2, ReclockRanks
<1>2. ASSUME NEW p \in Proc, NEW r \in Requests, Chklock(p, r) PROVE Ranked(sleeplcks')
  <2> DEFINE c == [req |-> Asked(p, r, r.type), set |-> FALSE]
  <2>1. pc[p] = "user" /\ Reclock(p, c, sleeplcks)
    BY <1>2 DEF Chklock
  <2>2. Trying(p, c, sleeplcks)
    BY <2>1, NewTries
  <2> HIDE DEF c
  <2> QED BY <2>1, <2>2, ReclockRanks
<1>3. ASSUME NEW p \in Proc, Ready(p) PROVE Ranked(Without(p)) /\ Trying(p, call[p], Without(p))
  <2> DEFINE S == {w \in ToSet(sleeplcks) : w.owner = p}
  <2>1. ToSet(Omit(sleeplcks, S)) = ToSet(sleeplcks) \ S
    <3>1. sleeplcks \in Seq(Waiting)
      BY DEF Inv, TypeOK
    <3> HIDE DEF S
    <3> QED BY <3>1, OmitKeeps
  <2>2. Without(p) = Omit(sleeplcks, S)
    BY DEF Without
  <2> HIDE DEF S
  <2>3. ToSet(Without(p)) \subseteq ToSet(sleeplcks)
    BY <2>1, <2>2
  <2> QED BY <1>3, <2>3, ReadyTries, RanksFewer DEF Ranked
<1>4. ASSUME NEW p \in Proc, Resume(p) \/ Interrupted(p) PROVE Ranked(sleeplcks')
  BY <1>3, <1>4, ReclockRanks DEF Resume, Interrupted
<1>5. CASE UNCHANGED sleeplcks
  BY <1>5
<1> QED BY <1>1, <1>2, <1>4, <1>5 DEF Next, Unlock, Close, Signal, IoDone, vars

\* NoWaitCycle: on one machine deadflck refuses every request that would close a
\* circle, so the requests that wait never form one.  (With others they may: a
\* remote owner can wait for several, and deadflck follows the first.)
THEOREM WaitersFormNoCircle == Remote = {} => (Spec => []NoWaitCycle)
<1> SUFFICES ASSUME Remote = {} PROVE Spec => []NoWaitCycle
  OBVIOUS
<1>1. Init => Ranked(sleeplcks)
  <2> SUFFICES ASSUME Init PROVE Ranked(sleeplcks)
    OBVIOUS
  <2>1. ToSet(sleeplcks) = {}
    BY DEF Init, ToSet
  <2>2. Ranks([o \in Owner |-> 0], sleeplcks)
    BY <2>1 DEF Ranks
  <2> QED BY <2>2 DEF Ranked
<1>2. Inv /\ Ranked(sleeplcks) /\ [Next]_vars => Ranked(sleeplcks)'
  BY NextRanks
<1>3. Inv /\ Ranked(sleeplcks) => NoWaitCycle
  <2> SUFFICES ASSUME Inv, NEW rk, Ranks(rk, sleeplcks), NEW o \in Owner,
                      Blk(sleeplcks, o) # NoProc, o \in Chain(sleeplcks, Blk(sleeplcks, o))
               PROVE  FALSE
    BY DEF NoWaitCycle, Ranked
  <2>1. sleeplcks \in Seq(Waiting) /\ o # NoProc
    BY NamesAssumption DEF Inv, TypeOK
  <2>2. PICK w \in ToSet(sleeplcks) : w.owner = o /\ Blk(sleeplcks, o) = w.blk /\ w \in Waiting
    BY <2>1, BlkIs
  <2>3. w.blk \in Owner
    BY <2>2 DEF Waiting
  <2>4. rk[o] <= rk[w.blk]
    BY <2>1, <2>2, <2>3, ChainBelow
  <2>5. rk[w.blk] < rk[o] /\ rk[o] \in Nat /\ rk[w.blk] \in Nat
    BY <2>2, <2>3 DEF Ranks
  <2> QED BY <2>4, <2>5
<1> QED BY <1>1, <1>2, <1>3, Always, PTL DEF Spec
=============================================================================
