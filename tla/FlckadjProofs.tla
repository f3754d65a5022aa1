---------------------------- MODULE FlckadjProofs ----------------------------
(***************************************************************************)
(* What flckadj and cleanlocks make of a list of locks, for every list,    *)
(* every region and every number of structures, however the memory fails.  *)
(***************************************************************************)
EXTENDS FileLock, InductionLemmas

\* A leaf is tried with SMT, then with Zenon, then with more time for each
USE SMT, Zenon, SMTT(30), ZenonT(60)

\* f may stand before g on the list
Before(f, g) ==
    /\ f.start <= g.start
    /\ f.owner = g.owner => f.end < (IF f.type = g.type THEN g.start - 1 ELSE g.start)

\* A list of locks as it is between two calls: no lock is empty, and ListOrdered
Sane(l) ==
    /\ l \in Seq(LockType)
    /\ \A i \in 1 .. Len(l) : l[i].start <= l[i].end
    /\ \A i, j \in 1 .. Len(l) : i < j => Before(l[i], l[j])
-----------------------------------------------------------------------------
(* Lists *)

\* The fields of a lock.
LEMMA LockFields ==
    ASSUME NEW f \in LockType
    PROVE  /\ f.owner \in Owner /\ f.type \in {"rd", "wr"} /\ f.wakeflg \in BOOLEAN
           /\ f.start \in Int /\ f.end \in Int
           /\ 0 <= f.start /\ f.start <= MAXEND /\ 0 <= f.end /\ f.end <= MAXEND
BY SizesAssumption DEF LockType, Byte

\* A search finds a position or nothing.
LEMMA PosRange ==
    ASSUME NEW S, NEW l \in Seq(S), NEW at
    PROVE  Pos(l, at) \in 0 .. Len(l)
<1> DEFINE I == {i \in 1 .. Len(l) : At(l[i]) = at}
<1>1. Pos(l, at) = IF I # {} THEN Min(I) ELSE 0
  BY DEF Pos, SelectInSeq
<1>2. ASSUME I # {} PROVE Min(I) \in I
  <2>1. I \in SUBSET Nat
    OBVIOUS
  <2>2. PICK m \in I : \A n \in I : m <= n
    BY <1>2, <2>1, NatLeast
  <2> HIDE DEF I
  <2> QED BY <2>2 DEF Min
<1> QED BY <1>1, <1>2

\* An address is not NULL.
LEMMA AtNotNull == ASSUME NEW f PROVE At(f) # NULL
<1>1. Len(At(f)) = 2 /\ Len(NULL) = 0
  BY DEF At, NULL
<1> QED BY <1>1

\* The address of a lock tells it from all others of its list.
LEMMA AtUnique ==
    ASSUME NEW l, Sane(l), NEW i \in 1 .. Len(l), NEW j \in 1 .. Len(l), At(l[i]) = At(l[j])
    PROVE  i = j
<1>1. l[i] \in LockType /\ l[j] \in LockType
  BY DEF Sane
<1>2. l[i].owner = l[j].owner /\ l[i].start = l[j].start
  BY DEF At
<1>3. ASSUME NEW m \in 1 .. Len(l), NEW n \in 1 .. Len(l), m < n, l[m].owner = l[n].owner,
             l[m].start = l[n].start
      PROVE  FALSE
  <2>1. l[m] \in LockType /\ l[n] \in LockType
    BY DEF Sane
  <2>2. l[m].start <= l[m].end /\ Before(l[m], l[n])
    BY <1>3 DEF Sane
  <2>3. l[m].end < l[n].start \/ l[m].end < l[n].start - 1
    BY <1>3, <2>2 DEF Before
  <2> QED BY <1>3, <2>1, <2>2, <2>3, LockFields
<1>4. i < j \/ i = j \/ j < i
  BY DEF Sane
<1> QED BY <1>2, <1>3, <1>4

\* The search for an address finds the lock.
LEMMA PosAt ==
    ASSUME NEW l, Sane(l), NEW i \in 1 .. Len(l)
    PROVE  Pos(l, At(l[i])) = i
<1> DEFINE at == At(l[i])
           I == {j \in 1 .. Len(l) : At(l[j]) = at}
<1>1. Pos(l, at) = IF I # {} THEN Min(I) ELSE 0
  BY DEF Pos, SelectInSeq
<1>2. I = {i}
  BY AtUnique
<1>3. Min({i}) = i
  BY DEF Min, Sane
<1> QED BY <1>1, <1>2, <1>3

\* The search for NULL finds nothing.
LEMMA PosNull == ASSUME NEW l PROVE Pos(l, NULL) = 0
BY AtNotNull DEF Pos, SelectInSeq

\* A list with one more.
LEMMA Inserted ==
    ASSUME NEW S, NEW l \in Seq(S), NEW k \in 0 .. Len(l), NEW e \in S
    PROVE  /\ InsertAt(l, k + 1, e) \in Seq(S)
           /\ Len(InsertAt(l, k + 1, e)) = Len(l) + 1
           /\ \A i \in 1 .. Len(l) + 1 :
                InsertAt(l, k + 1, e)[i] = IF i = k + 1 THEN e ELSE l[IF i <= k THEN i ELSE i - 1]
<1> DEFINE n == Len(l)
           a == SubSeq(l, 1, (k + 1) - 1)
           b == SubSeq(l, k + 1, n)
           c == a \o <<e>>
           r == c \o b
<1>1. n \in Nat /\ k \in Nat /\ 0 <= k /\ k <= n
  BY LenProperties
<1>2. /\ a \in Seq(S) /\ Len(a) = k
      /\ \A i \in 1 .. k : a[i] = l[i]
  BY <1>1, SubSeqProperties
<1>3. /\ b \in Seq(S) /\ Len(b) = n - k
      /\ \A i \in 1 .. n - k : b[i] = l[k + i]
  <2>1. CASE k = n
    <3>1. b = <<>>
      BY <1>1, <2>1, SubSeqProperties
    <3> QED BY <1>1, <2>1, <3>1
  <2>2. CASE k < n
    BY <1>1, <2>2, SubSeqProperties
  <2> QED BY <1>1, <2>1, <2>2
<1>4. <<e>> \in Seq(S) /\ Len(<<e>>) = 1 /\ <<e>>[1] = e
  OBVIOUS
<1>5. InsertAt(l, k + 1, e) = r
  BY DEF InsertAt
<1> HIDE DEF a, b
<1>6. /\ c \in Seq(S) /\ Len(c) = k + 1
      /\ \A i \in 1 .. k + 1 : c[i] = IF i = k + 1 THEN e ELSE l[i]
  <2> DEFINE d == <<e>>
  <2>1. d \in Seq(S) /\ Len(d) = 1 /\ d[1] = e /\ c = a \o d
    BY <1>4
  <2> HIDE DEF d, c
  <2>2. /\ c \in Seq(S) /\ Len(c) = Len(a) + Len(d)
        /\ \A i \in 1 .. Len(a) + Len(d) : c[i] = IF i <= Len(a) THEN a[i] ELSE d[i - Len(a)]
    BY <1>2, <2>1, ConcatProperties
  <2> QED BY <1>1, <1>2, <2>1, <2>2
<1> HIDE DEF c
<1>7. /\ r \in Seq(S) /\ Len(r) = Len(c) + Len(b)
      /\ \A i \in 1 .. Len(c) + Len(b) : r[i] = IF i <= Len(c) THEN c[i] ELSE b[i - Len(c)]
  BY <1>3, <1>6, ConcatProperties
<1> HIDE DEF r, n
<1>8. ASSUME NEW i \in 1 .. n + 1
      PROVE  r[i] = IF i = k + 1 THEN e ELSE l[IF i <= k THEN i ELSE i - 1]
  <2>1. CASE i <= k + 1
    BY <1>1, <1>3, <1>6, <1>7, <2>1
  <2>2. CASE ~ (i <= k + 1)
    <3>1. i - (k + 1) \in 1 .. n - k /\ k + (i - (k + 1)) = i - 1
      BY <1>1, <2>2
    <3> QED BY <1>1, <1>3, <1>6, <1>7, <2>2, <3>1
  <2> QED BY <1>1, <2>1, <2>2
<1>9. Len(r) = n + 1
  BY <1>1, <1>3, <1>6, <1>7
<1> QED BY <1>5, <1>7, <1>8, <1>9 DEF n
-----------------------------------------------------------------------------
(* The order and the bytes of a list *)

\* Lock f, of type t, gives o byte b
On(f, o, b, t) == f.owner = o /\ f.type = t /\ f.start <= b /\ b <= f.end

\* A byte has one lock of its owner at most.
LEMMA Apart ==
    ASSUME NEW l, Sane(l), NEW i \in 1 .. Len(l), NEW j \in 1 .. Len(l), NEW b \in Int,
           l[i].owner = l[j].owner, l[i].start <= b, b <= l[i].end, l[j].start <= b, b <= l[j].end
    PROVE  i = j
<1>1. ASSUME NEW m \in 1 .. Len(l), NEW n \in 1 .. Len(l), m < n, l[m].owner = l[n].owner,
             b <= l[m].end, l[n].start <= b
      PROVE  FALSE
  <2>1. l[m] \in LockType /\ l[n] \in LockType
    BY DEF Sane
  <2>2. Before(l[m], l[n])
    BY <1>1 DEF Sane
  <2>3. l[m].end < l[n].start \/ l[m].end < l[n].start - 1
    BY <1>1, <2>2 DEF Before
  <2> QED BY <1>1, <2>1, <2>3, LockFields
<1>2. i < j \/ i = j \/ j < i
  BY DEF Sane
<1> QED BY <1>1, <1>2

\* Deleting a lock keeps the order.
LEMMA RemovedSane ==
    ASSUME NEW l, Sane(l), NEW k \in 1 .. Len(l)
    PROVE  Sane(RemoveAt(l, k))
<1> DEFINE m == RemoveAt(l, k)
           at(i) == IF i < k THEN i ELSE i + 1
<1>1. l \in Seq(LockType) /\ Len(l) \in Nat
  BY DEF Sane
<1>2. m \in Seq(LockType) /\ Len(m) = Len(l) - 1 /\ \A i \in 1 .. Len(m) : m[i] = l[at(i)]
  BY <1>1, Removed
<1> HIDE DEF m
<1>3. \A i \in 1 .. Len(m) : at(i) \in 1 .. Len(l) /\ at(i) # k
  BY <1>1, <1>2
<1>4. \A i, j \in 1 .. Len(m) : i < j => at(i) < at(j)
  BY <1>1, <1>2
<1> HIDE DEF at
<1>5. Sane(m)
  BY <1>2, <1>3, <1>4 DEF Sane
<1> QED BY <1>5 DEF m

\* A lock put in its place keeps the order.
LEMMA InsertedSane ==
    ASSUME NEW l, Sane(l), NEW k \in 0 .. Len(l), NEW e \in LockType, e.start <= e.end,
           \A i \in 1 .. k : Before(l[i], e),
           \A i \in k + 1 .. Len(l) : Before(e, l[i])
    PROVE  Sane(InsertAt(l, k + 1, e))
<1> DEFINE m == InsertAt(l, k + 1, e)
           at(i) == IF i <= k THEN i ELSE i - 1
<1>1. l \in Seq(LockType) /\ Len(l) \in Nat
  BY DEF Sane
<1>2. /\ m \in Seq(LockType) /\ Len(m) = Len(l) + 1
      /\ \A i \in 1 .. Len(m) : m[i] = IF i = k + 1 THEN e ELSE l[at(i)]
  <2>1. /\ m \in Seq(LockType) /\ Len(m) = Len(l) + 1
        /\ \A i \in 1 .. Len(l) + 1 :
             m[i] = IF i = k + 1 THEN e ELSE l[IF i <= k THEN i ELSE i - 1]
    BY <1>1, Inserted
  <2> HIDE DEF m
  <2> QED BY <2>1
<1> HIDE DEF m
<1>3. \A i \in 1 .. Len(m) : i # k + 1 => at(i) \in 1 .. Len(l)
  BY <1>1, <1>2
<1>4. \A i, j \in 1 .. Len(m) : i < j /\ i # k + 1 /\ j # k + 1 => at(i) < at(j)
  BY <1>1, <1>2
<1>5. \A i \in 1 .. Len(m) : /\ i < k + 1 => at(i) \in 1 .. k
                             /\ k + 1 < i => at(i) \in k + 1 .. Len(l)
  BY <1>1, <1>2
<1> HIDE DEF at
<1>6. Sane(m)
  <2>1. ASSUME NEW i \in 1 .. Len(m) PROVE m[i].start <= m[i].end
    BY <1>2, <1>3 DEF Sane
  <2>2. ASSUME NEW i \in 1 .. Len(m), NEW j \in 1 .. Len(m), i < j PROVE Before(m[i], m[j])
    <3>1. CASE i = k + 1
      BY <1>2, <1>5, <2>2, <3>1
    <3>2. CASE j = k + 1
      BY <1>2, <1>5, <2>2, <3>2
    <3>3. CASE i # k + 1 /\ j # k + 1
      BY <1>2, <1>3, <1>4, <2>2, <3>3 DEF Sane
    <3> QED BY <3>1, <3>2, <3>3
  <2> QED BY <1>2, <2>1, <2>2 DEF Sane
<1> QED BY <1>6 DEF m

\* m is l with the end of its lock k cut off at x.
Cut(m, l, k, x) ==
    /\ m \in Seq(LockType) /\ Len(m) = Len(l)
    /\ \A i \in 1 .. Len(l) : i # k => m[i] = l[i]
    /\ m[k].owner = l[k].owner /\ m[k].type = l[k].type
    /\ m[k].start = l[k].start /\ m[k].end = x

\* Cutting off the end of a lock keeps the order.
LEMMA CutSane ==
    ASSUME NEW l, Sane(l), NEW k \in 1 .. Len(l), NEW x \in Int, NEW m, Cut(m, l, k, x),
           l[k].start <= x, x <= l[k].end
    PROVE  Sane(m)
<1>1. Len(m) = Len(l) /\ \A i \in 1 .. Len(l) : l[i] \in LockType /\ m[i] \in LockType
  BY DEF Sane, Cut
<1>2. ASSUME NEW i \in 1 .. Len(l)
      PROVE  /\ m[i].owner = l[i].owner /\ m[i].type = l[i].type /\ m[i].start = l[i].start
             /\ m[i].end = IF i = k THEN x ELSE l[i].end
  BY DEF Cut
<1>3. ASSUME NEW i \in 1 .. Len(l) PROVE m[i].end <= l[i].end /\ m[i].start <= m[i].end
  BY <1>1, <1>2, LockFields DEF Sane
<1>4. ASSUME NEW i \in 1 .. Len(l), NEW j \in 1 .. Len(l), i < j PROVE Before(m[i], m[j])
  <2>1. Before(l[i], l[j])
    BY <1>4 DEF Sane
  <2>2. /\ m[i].end \in Int /\ l[i].end \in Int /\ l[j].start \in Int
        /\ m[i].end <= l[i].end
    BY <1>1, <1>3, LockFields
  <2> QED BY <1>2, <2>1, <2>2 DEF Before
<1> QED BY <1>1, <1>3, <1>4 DEF Sane, Cut
-----------------------------------------------------------------------------
(* What the parts of flckadj do to a scan *)

\* Where insrt may point
Places == {NULL} \cup (Owner \X Byte) \cup {At(l[i]) : l \in Seq(LockType), i \in Int}

Asking == [owner : Owner, type : {"rd", "wr", "un"}, start : Byte, end : Byte]

Scans == [list : Seq(LockType), insrt : Places, ld : Asking, woken : SUBSET (Owner \X Byte),
          room : Nat, mem : Nat, stop : BOOLEAN, over : BOOLEAN, enolck : BOOLEAN]

\* The same but for the list and what depends on it
SameScan(t, s) ==
    /\ t.insrt = s.insrt /\ t.ld = s.ld
    /\ t.stop = s.stop /\ t.over = s.over /\ t.enolck = s.enolck

\* A lock's address is a place.
LEMMA AtPlace == ASSUME NEW f \in LockType PROVE At(f) \in Owner \X Byte /\ At(f) \in Places
BY DEF At, LockType, Places

\* Removal at no position changes nothing.
LEMMA RemovedType ==
    ASSUME NEW S, NEW l \in Seq(S), NEW k \in 0 .. Len(l)
    PROVE  RemoveAt(l, k) \in Seq(S)
<1>1. CASE k = 0
  <2>1. SubSeq(l, 1, k - 1) \in Seq(S) /\ SubSeq(l, k + 1, Len(l)) \in Seq(S)
    BY <1>1, LenProperties, SubSeqProperties
  <2> QED BY <2>1, ConcatProperties DEF RemoveAt
<1>2. CASE k \in 1 .. Len(l)
  BY <1>2, Removed
<1> QED BY <1>1, <1>2, LenProperties

\* insflck gives a structure or fails.
LEMMA InsflckIs ==
    ASSUME NEW s \in Scans, NEW r, NewLock(r) \in LockType, NEW at
    PROVE  /\ Insflck(s, r, at) \in Scans
           /\ (s.room = 0 \/ s.mem = 0) =>
                Insflck(s, r, at) = [s EXCEPT !.enolck = TRUE, !.stop = TRUE, !.over = TRUE]
           /\ (s.room # 0 /\ s.mem # 0) =>
                /\ Insflck(s, r, at).list = InsertAt(s.list, Pos(s.list, at) + 1, NewLock(r))
                /\ Insflck(s, r, at).room = s.room - 1
                /\ Insflck(s, r, at).woken = s.woken
                /\ SameScan(Insflck(s, r, at), s)
<1> DEFINE l == s.list  q == Pos(l, at)
<1>1. l \in Seq(LockType) /\ s.room \in Nat /\ s.mem \in Nat
  BY DEF Scans
<1>2. InsertAt(l, q + 1, NewLock(r)) \in Seq(LockType)
  <2>1. q \in 0 .. Len(l)
    BY <1>1, PosRange
  <2> HIDE DEF q, l
  <2> QED BY <1>1, <2>1, Inserted
<1>3. CASE s.room = 0 \/ s.mem = 0
  BY <1>3 DEF Insflck, Scans
<1>4. CASE s.room # 0 /\ s.mem # 0
  <2> DEFINE m == InsertAt(l, q + 1, NewLock(r))
  <2>1. Insflck(s, r, at) = [s EXCEPT !.list = m, !.room = @ - 1, !.mem = @ - 1]
    BY <1>4 DEF Insflck
  <2>2. m \in Seq(LockType) /\ s.room - 1 \in Nat /\ s.mem - 1 \in Nat
    BY <1>1, <1>2, <1>4
  <2> HIDE DEF m
  <2>3. Insflck(s, r, at) \in Scans
    BY <2>1, <2>2 DEF Scans
  <2>4. /\ Insflck(s, r, at).list = m /\ Insflck(s, r, at).room = s.room - 1
        /\ Insflck(s, r, at).woken = s.woken
        /\ SameScan(Insflck(s, r, at), s)
    BY <2>1 DEF Scans, SameScan
  <2> QED BY <1>4, <2>3, <2>4 DEF m
<1> QED BY <1>3, <1>4

\* delflck deletes and wakes.
LEMMA DelflckIs ==
    ASSUME NEW s \in Scans, NEW f \in LockType
    PROVE  /\ Delflck(s, f) \in Scans
           /\ Delflck(s, f).list = RemoveAt(s.list, Pos(s.list, At(f)))
           /\ Delflck(s, f).room = s.room + 1
           /\ Delflck(s, f).woken = IF f.wakeflg THEN s.woken \cup {At(f)} ELSE s.woken
           /\ SameScan(Delflck(s, f), s)
<1> DEFINE m == RemoveAt(s.list, Pos(s.list, At(f)))
           w == IF f.wakeflg THEN s.woken \cup {At(f)} ELSE s.woken
<1>1. m \in Seq(LockType)
  <2>1. s.list \in Seq(LockType)
    BY DEF Scans
  <2> QED BY <2>1, PosRange, RemovedType
<1>2. Delflck(s, f) = [s EXCEPT !.list = m, !.room = s.room + 1, !.woken = w]
  BY DEF Delflck, Scans
<1>3. w \in SUBSET (Owner \X Byte) /\ s.room + 1 \in Nat
  BY AtPlace DEF Scans
<1> HIDE DEF m, w
<1>4. Delflck(s, f) \in Scans
  BY <1>1, <1>2, <1>3 DEF Scans
<1>5. /\ Delflck(s, f).list = m /\ Delflck(s, f).room = s.room + 1 /\ Delflck(s, f).woken = w
      /\ SameScan(Delflck(s, f), s)
  BY <1>2 DEF Scans, SameScan
<1> QED BY <1>4, <1>5 DEF m, w

\* What f keeps before ld
LEMMA TrimIs ==
    ASSUME NEW s \in Scans, NEW f \in LockType, s.ld.start - 1 \in Byte
    PROVE  /\ Trim(s, f) \in Scans
           /\ Trim(s, f).insrt = At(f) /\ Trim(s, f).ld = s.ld /\ Trim(s, f).room = s.room
           /\ Trim(s, f).woken = IF f.wakeflg THEN s.woken \cup {At(f)} ELSE s.woken
           /\ Trim(s, f).stop = s.stop /\ Trim(s, f).over = s.over
           /\ Trim(s, f).enolck = s.enolck
           /\ Pos(s.list, At(f)) # 0 =>
                Cut(Trim(s, f).list, s.list, Pos(s.list, At(f)), s.ld.start - 1)
<1> DEFINE k == Pos(s.list, At(f))
           x == s.ld.start - 1
           l == s.list
           m == [l EXCEPT ![k] = [@ EXCEPT !.end = x, !.wakeflg = FALSE]]
           w == IF f.wakeflg THEN s.woken \cup {At(f)} ELSE s.woken
<1>1. l \in Seq(LockType)
  BY DEF Scans
<1>2. k \in 0 .. Len(l)
  BY <1>1, PosRange
<1>3. Trim(s, f) = [s EXCEPT !.list = m, !.insrt = At(f), !.woken = w]
  BY DEF Trim, Scans
<1>4. x \in Byte
  OBVIOUS
<1> HIDE DEF l, k, x
<1>5. m \in Seq(LockType) /\ Len(m) = Len(l) /\ (k # 0 => Cut(m, l, k, x))
  <2>1. CASE k = 0
    <3>1. k \notin DOMAIN l
      BY <1>1, <2>1
    <3>2. m = l
      BY <1>1, <3>1
    <3> QED BY <1>1, <2>1, <3>2
  <2>2. CASE k # 0
    <3>1. k \in 1 .. Len(l) /\ DOMAIN l = 1 .. Len(l) /\ Len(l) \in Nat
      BY <1>1, <1>2, <2>2
    <3> DEFINE e == [l[k] EXCEPT !.end = x, !.wakeflg = FALSE]
    <3>2. m = [l EXCEPT ![k] = e]
      BY <3>1
    <3>3. l[k] \in LockType
      BY <1>1, <3>1
    <3>4. /\ e \in LockType /\ e.owner = l[k].owner /\ e.type = l[k].type
          /\ e.start = l[k].start /\ e.end = x
      BY <1>4, <3>3 DEF LockType
    <3> HIDE DEF e, m
    <3>5. m \in Seq(LockType) /\ Len(m) = Len(l) /\ \A i \in 1 .. Len(l) : m[i] = IF i = k THEN e ELSE l[i]
      BY <1>1, <3>1, <3>2, <3>4
    <3> QED BY <3>1, <3>4, <3>5 DEF Cut
  <2> QED BY <2>1, <2>2
<1>6. w \in SUBSET (Owner \X Byte) /\ At(f) \in Places
  BY AtPlace DEF Scans
<1> HIDE DEF m, w
<1>7. Trim(s, f) \in Scans
  BY <1>3, <1>5, <1>6 DEF Scans
<1>8. /\ Trim(s, f).list = m /\ Trim(s, f).insrt = At(f) /\ Trim(s, f).woken = w
      /\ Trim(s, f).ld = s.ld /\ Trim(s, f).room = s.room
      /\ Trim(s, f).stop = s.stop /\ Trim(s, f).over = s.over
      /\ Trim(s, f).enolck = s.enolck
  BY <1>3 DEF Scans
<1> QED BY <1>5, <1>7, <1>8 DEF l, k, x, w
-----------------------------------------------------------------------------
(* Places in the list *)

\* Sane lists are in the order of the first bytes.
LEMMA InOrder ==
    ASSUME NEW l, Sane(l), NEW i \in 1 .. Len(l), NEW j \in 1 .. Len(l), i <= j
    PROVE  l[i].start <= l[j].start
<1>1. l[i] \in LockType /\ l[j] \in LockType /\ (i < j \/ i = j)
  BY DEF Sane
<1>2. CASE i < j
  BY <1>2 DEF Sane, Before
<1>3. CASE i = j
  BY <1>1, <1>3, LockFields
<1> QED BY <1>1, <1>2, <1>3

\* The least and the greatest member of a set of positions.
LEMMA LeastPosition ==
    ASSUME NEW n \in Nat, NEW I \in SUBSET (1 .. n), I # {}
    PROVE  Min(I) \in I /\ \A i \in I : Min(I) <= i
<1>1. I \in SUBSET Nat
  OBVIOUS
<1>2. PICK m \in I : \A i \in I : m <= i
  BY <1>1, NatLeast
<1> QED BY <1>2 DEF Min

\* The greatest of a set of positions is one of them.
LEMMA GreatestPosition ==
    ASSUME NEW n \in Nat, NEW I \in SUBSET (1 .. n), I # {}
    PROVE  Max(I) \in I /\ \A i \in I : i <= Max(I)
<1>1. I \in SUBSET Int /\ n \in Int /\ \A i \in I : i <= n
  OBVIOUS
<1>2. PICK m \in I : \A i \in I : i <= m
  BY <1>1, IntGreatest, Zenon
<1>3. \A i \in I : m >= i
  BY <1>1, <1>2
<1>4. Max(I) \in I /\ \A i \in I : Max(I) >= i
  BY <1>2, <1>3 DEF Max
<1> QED BY <1>1, <1>4

\* at is a place from which the walk to byte x can start.
Reaches(l, at, x) ==
    \/ at = NULL /\ \A i \in 1 .. Len(l) : x <= l[i].start
    \/ \E i \in 1 .. Len(l) : at = At(l[i]) /\ l[i].start <= x

\* What starts at byte x is to stand behind the first q locks.
Fits(l, q, x) ==
    /\ q \in 0 .. Len(l)
    /\ \A i \in 1 .. q : l[i].start <= x
    /\ \A i \in q + 1 .. Len(l) : x <= l[i].start

\* The walk ends where a lock that starts at byte x is to be put.
LEMMA BehindFits ==
    ASSUME NEW l, Sane(l), NEW x \in Int, NEW at, Reaches(l, at, x)
    PROVE  /\ Fits(l, Pos(l, Behind(l, at, x)), x)
           /\ Pos(l, at) <= Pos(l, Behind(l, at, x))
<1> DEFINE n == Len(l)
<1>1. n \in Nat /\ \A i \in 1 .. n : l[i] \in LockType /\ l[i].start \in Int
  BY LockFields DEF Sane
<1>2. CASE at = NULL /\ \A i \in 1 .. n : x <= l[i].start
  <2>1. Behind(l, at, x) = NULL /\ Pos(l, NULL) = 0
    BY <1>2, PosNull DEF Behind
  <2> QED BY <1>1, <1>2, <2>1 DEF Fits
<1>3. ASSUME NEW from \in 1 .. n, at = At(l[from]), l[from].start <= x
      PROVE  /\ Fits(l, Pos(l, Behind(l, at, x)), x)
             /\ Pos(l, at) <= Pos(l, Behind(l, at, x))
  <2> DEFINE I == {i \in from .. n : l[i].start >= x}
             stop == IF I # {} THEN Min(I) ELSE 0
             last == IF stop = 0 THEN n ELSE stop - 1
             q == IF from <= last THEN last ELSE from
  <2>1. Pos(l, at) = from
    BY <1>3, PosAt
  <2>2. at # NULL
    BY <1>3, AtNotNull
  <2>3. Behind(l, at, x) = At(l[Max({from, last})])
    BY <2>1, <2>2 DEF Behind, SelectInSubSeq
  <2>4. I # {} => stop \in I /\ \A i \in I : stop <= i
    <3>1. I \in SUBSET (1 .. n)
      BY <1>1
    <3> HIDE DEF I
    <3> QED BY <1>1, <3>1, LeastPosition
  <2>5. I = {} => stop = 0
    OBVIOUS
  <2> HIDE DEF stop
  <2>6. last \in 0 .. n /\ from - 1 <= last
    BY <1>1, <2>4, <2>5
  <2>7. Max({from, last}) = q /\ q \in 1 .. n /\ from <= q
    <3>1. q \in {from, last} /\ \A y \in {from, last} : q >= y
      BY <1>1, <2>6
    <3>2. \A y \in {from, last} : (\A z \in {from, last} : y >= z) => y = q
      BY <1>1, <2>6
    <3>3. Max({from, last}) = q
      <4> HIDE DEF q, last
      <4> QED BY <3>1, <3>2 DEF Max
    <3> QED BY <1>1, <2>6, <3>3
  <2>8. Pos(l, Behind(l, at, x)) = q
    <3> HIDE DEF q, last
    <3> QED BY <2>3, <2>7, PosAt
  <2>9. \A i \in 1 .. from : l[i].start <= x
    <3> SUFFICES ASSUME NEW i \in 1 .. from PROVE l[i].start <= x
      OBVIOUS
    <3>1. i \in 1 .. n /\ i <= from
      BY <1>1
    <3>2. l[i].start <= l[from].start
      BY <3>1, InOrder
    <3> QED BY <1>1, <1>3, <3>1, <3>2
  <2>10. \A i \in from .. last : l[i].start <= x
    <3> SUFFICES ASSUME NEW i \in from .. last PROVE l[i].start <= x
      OBVIOUS
    <3>1. i \in 1 .. n /\ i \in from .. n
      BY <1>1, <2>6
    <3>2. i \notin I
      BY <1>1, <2>4, <2>5, <2>6, <3>1
    <3> QED BY <1>1, <3>1, <3>2
  <2>11. \A i \in q + 1 .. n : x <= l[i].start
    <3> SUFFICES ASSUME NEW i \in q + 1 .. n PROVE x <= l[i].start
      OBVIOUS
    <3>1. stop # 0 /\ stop \in 1 .. n /\ x <= l[stop].start /\ stop <= i /\ i \in 1 .. n
      <4>1. last < i /\ i \in 1 .. n
        BY <1>1, <2>6
      <4>2. stop # 0
        BY <1>1, <4>1
      <4> QED BY <1>1, <2>4, <2>5, <4>1, <4>2
    <3>2. l[stop].start <= l[i].start
      BY <3>1, InOrder
    <3> QED BY <1>1, <3>1, <3>2
  <2>12. \A i \in 1 .. q : l[i].start <= x
    <3> SUFFICES ASSUME NEW i \in 1 .. q PROVE l[i].start <= x
      OBVIOUS
    <3>1. i \in 1 .. from \/ i \in from .. last
      BY <1>1, <2>6
    <3> QED BY <2>9, <2>10, <3>1
  <2> HIDE DEF q, last, I
  <2> QED BY <1>1, <2>1, <2>7, <2>8, <2>11, <2>12 DEF Fits
<1> QED BY <1>2, <1>3 DEF Reaches

\* flp->prev of the lock k.
LEMMA PrevIs ==
    ASSUME NEW l, Sane(l), NEW k \in 1 .. Len(l)
    PROVE  Prev(l, At(l[k])) = IF k = 1 THEN NULL ELSE At(l[k - 1])
BY PosAt DEF Prev

\* Whatever the list, prev is a place.
LEMMA PrevPlace ==
    ASSUME NEW l \in Seq(LockType), NEW at PROVE Prev(l, at) \in Places
<1>1. Pos(l, at) - 1 \in Int
  BY PosRange
<1> QED BY <1>1 DEF Prev, Places

\* insrt points to a lock before r, and behind it are all own locks that r
\* touches or replaces.
LEMMA InsrtIs ==
    ASSUME NEW l, Sane(l), NEW r, r.start \in Int
    PROVE  \/ Insrt(l, r) = NULL /\ \A i \in 1 .. Len(l) : r.start <= l[i].start
           \/ \E k \in 1 .. Len(l) :
                /\ Insrt(l, r) = At(l[k]) /\ l[k].start < r.start
                /\ \A i \in 1 .. k - 1 : l[i].owner = r.owner => l[i].end < r.start - 1
<1> DEFINE n == Len(l)
           before == {i \in DOMAIN l : l[i].start < r.start}
           touching == {i \in before : l[i].owner = r.owner /\ r.start - 1 <= l[i].end}
<1>1. /\ n \in Nat /\ DOMAIN l = 1 .. n
      /\ \A i \in 1 .. n : l[i] \in LockType /\ l[i].start \in Int /\ l[i].end \in Int
  BY LockFields DEF Sane
<1>2. before \in SUBSET (1 .. n) /\ touching \in SUBSET (1 .. n)
  BY <1>1
<1>3. CASE before = {}
  BY <1>1, <1>3 DEF Insrt
<1>4. ASSUME NEW k \in before, NEW i \in 1 .. k - 1
      PROVE  i \in before /\ (i \notin touching /\ l[i].owner = r.owner => l[i].end < r.start - 1)
  <2>1. k \in 1 .. n /\ i \in 1 .. n /\ i <= k
    BY <1>1
  <2>2. l[i].start <= l[k].start
    BY <2>1, InOrder
  <2> QED BY <1>1, <2>1, <2>2
<1>5. CASE touching # {}
  <2>1. Min(touching) \in touching /\ \A i \in touching : Min(touching) <= i
    <3> HIDE DEF touching, n
    <3> QED BY <1>1, <1>2, <1>5, LeastPosition
  <2> DEFINE k == Min(touching)
  <2>2. Insrt(l, r) = At(l[k])
    BY <1>5, <2>1 DEF Insrt
  <2> HIDE DEF k
  <2>3. k \in before /\ k \in 1 .. n /\ l[k].start < r.start
    BY <1>1, <2>1 DEF k
  <2>4. \A i \in 1 .. k - 1 : i \notin touching
    <3>1. \A i \in touching : k <= i
      BY <2>1 DEF k
    <3> HIDE DEF touching
    <3> QED BY <1>1, <2>3, <3>1
  <2>5. \A i \in 1 .. k - 1 : l[i].owner = r.owner => l[i].end < r.start - 1
    <3> HIDE DEF touching, before
    <3> QED BY <1>4, <2>3, <2>4
  <2> QED BY <2>2, <2>3, <2>5
<1>6. CASE before # {} /\ touching = {}
  <2>1. Max(before) \in before
    <3> HIDE DEF before, n
    <3> QED BY <1>1, <1>2, <1>6, GreatestPosition
  <2> DEFINE k == Max(before)
  <2>2. Insrt(l, r) = At(l[k])
    BY <1>6 DEF Insrt
  <2> HIDE DEF k
  <2>3. k \in before /\ k \in 1 .. n /\ l[k].start < r.start
    BY <1>1, <2>1 DEF k
  <2>5. \A i \in 1 .. k - 1 : l[i].owner = r.owner => l[i].end < r.start - 1
    <3> HIDE DEF touching, before
    <3> QED BY <1>4, <1>6, <2>3
  <2> QED BY <2>2, <2>3, <2>5
<1> QED BY <1>3, <1>5, <1>6
-----------------------------------------------------------------------------
(* One turn of flckadj's loop *)

Proper(r) == r.start <= r.end

\* What a turn does with an own lock f, by the first and last bytes of f and ld
Turn(s, f, t) ==
    LET a == s.ld.start
        b == s.ld.end
        c == f.start
        e == f.end
        same == s.ld.type = f.type
    IN  \/ e + 1 < a /\ t = [s EXCEPT !.insrt = At(f)]
        \/ a = e + 1 /\ ~ same /\ t = s
        \/ c < a /\ a <= e + 1 /\ e < b /\ same /\ t = JoinBefore(s, f)
        \/ c <= a /\ b <= e /\ same /\ t = AlreadySet(s)
        \/ c < a /\ a <= e /\ b < e /\ ~ same /\ t = CutEnd(s, f, TRUE)
        \/ c < a /\ a <= e /\ e <= b /\ ~ same /\ t = Trim(s, f)
        \/ c = a /\ b < e /\ ~ same /\ t = CutEnd(FromPrev(s, f), f, FALSE)
        \/ c = a /\ e <= b /\ t = Delflck(FromPrev(s, f), f)
        \/ a < c /\ (b < c - 1 \/ (b = c - 1 /\ ~ same)) /\ t = Stop(s)
        \/ a < c /\ c - 1 <= b /\ b < e /\ same /\ t = Stop(JoinAfter(s, f))
        \/ a < c /\ c <= b /\ b < e /\ ~ same /\ t = CutEnd(s, f, FALSE)
        \/ a < c /\ b = e /\ t = [Delflck(s, f) EXCEPT !.stop = same]
        \/ a < c /\ e < b /\ t = Delflck(s, f)

\* The region types and the switch come to this.
LEMMA OwnTurn ==
    ASSUME NEW s \in Scans, Proper(s.ld), NEW f \in LockType, Proper(f)
    PROVE  Turn(s, f, FlckadjOwn(s, f, s.ld.type = f.type, Regflck(s.ld, f)))
<1> DEFINE a == s.ld.start  b == s.ld.end  c == f.start  e == f.end
           same == s.ld.type = f.type
           reg == Regflck(s.ld, f)
           t == FlckadjOwn(s, f, same, reg)
<1>1. /\ a \in Int /\ b \in Int /\ c \in Int /\ e \in Int /\ a <= b /\ c <= e
  BY LockFields, SizesAssumption DEF Scans, Asking, Proper, Byte
<1> SUFFICES Turn(s, f, t)
  OBVIOUS
<1>2. CASE e + 1 < a
  <2>1. reg = <<"after", "after">>
    BY <1>1, <1>2 DEF Regflck
  <2>2. t = [s EXCEPT !.insrt = At(f)]
    BY <2>1 DEF FlckadjOwn
  <2> QED BY <1>2, <2>2 DEF Turn
<1>3. CASE e + 1 = a
  <2>1. reg = <<"end", "after">>
    BY <1>1, <1>3 DEF Regflck
  <2>2. t = IF same THEN JoinBefore(s, f) ELSE s
    BY <2>1 DEF FlckadjOwn
  <2>3. c < a /\ a <= e + 1 /\ e < b /\ a = e + 1
    BY <1>1, <1>3
  <2> QED BY <2>2, <2>3 DEF Turn
<1>4. CASE c < a /\ a <= e
  <2>1. CASE b < e
    <3>1. reg = <<"middle", "middle">>
      BY <1>1, <1>4, <2>1 DEF Regflck
    <3>2. t = IF same THEN AlreadySet(s) ELSE CutEnd(s, f, TRUE)
      BY <3>1 DEF FlckadjOwn
    <3>3. c <= a /\ b <= e
      BY <1>1, <1>4, <2>1
    <3> QED BY <1>4, <2>1, <3>2, <3>3 DEF Turn
  <2>2. CASE b = e
    <3>1. reg = <<"middle", "end">>
      BY <1>1, <1>4, <2>2 DEF Regflck
    <3>2. t = IF same THEN AlreadySet(s) ELSE Trim(s, f)
      BY <3>1 DEF FlckadjOwn
    <3>3. c <= a /\ b <= e /\ e <= b
      BY <1>1, <1>4, <2>2
    <3> QED BY <1>4, <3>2, <3>3 DEF Turn
  <2>3. CASE e < b
    <3>1. reg = <<"middle", "after">>
      BY <1>1, <1>4, <2>3 DEF Regflck
    <3>2. t = IF same THEN JoinBefore(s, f) ELSE Trim(s, f)
      BY <3>1 DEF FlckadjOwn
    <3>3. a <= e + 1 /\ e <= b
      BY <1>1, <1>4, <2>3
    <3> QED BY <1>4, <2>3, <3>2, <3>3 DEF Turn
  <2> QED BY <1>1, <2>1, <2>2, <2>3
<1>5. CASE c = a
  <2>1. CASE b < e
    <3>1. reg = <<"start", "middle">>
      BY <1>1, <1>5, <2>1 DEF Regflck
    <3>2. t = IF same THEN AlreadySet(s) ELSE CutEnd(FromPrev(s, f), f, FALSE)
      BY <3>1 DEF FlckadjOwn
    <3>3. c <= a /\ b <= e
      BY <1>1, <1>5, <2>1
    <3> QED BY <1>5, <2>1, <3>2, <3>3 DEF Turn
  <2>2. CASE b = e
    <3>1. reg = <<"start", "end">>
      BY <1>1, <1>5, <2>2 DEF Regflck
    <3>2. t = IF same THEN AlreadySet(s) ELSE Delflck(FromPrev(s, f), f)
      BY <3>1 DEF FlckadjOwn
    <3>3. c <= a /\ b <= e /\ e <= b
      BY <1>1, <1>5, <2>2
    <3> QED BY <1>5, <3>2, <3>3 DEF Turn
  <2>3. CASE e < b
    <3>1. reg = <<"start", "after">>
      BY <1>1, <1>5, <2>3 DEF Regflck
    <3>2. t = Delflck(FromPrev(s, f), f)
      BY <3>1 DEF FlckadjOwn
    <3>3. e <= b
      BY <1>1, <2>3
    <3> QED BY <1>5, <3>2, <3>3 DEF Turn
  <2> QED BY <1>1, <2>1, <2>2, <2>3
<1>6. CASE a < c
  <2>1. CASE b < c - 1
    <3>1. reg = <<"before", "before">>
      BY <1>1, <1>6, <2>1 DEF Regflck
    <3>2. t = Stop(s)
      BY <3>1 DEF FlckadjOwn
    <3> QED BY <1>6, <2>1, <3>2 DEF Turn
  <2>2. CASE b = c - 1
    <3>1. reg = <<"before", "start">>
      BY <1>1, <1>6, <2>2 DEF Regflck
    <3>2. t = Stop(IF same THEN JoinAfter(s, f) ELSE s)
      BY <3>1 DEF FlckadjOwn
    <3>3. c - 1 <= b /\ b < e
      BY <1>1, <2>2
    <3> QED BY <1>6, <2>2, <3>2, <3>3 DEF Turn
  <2>3. CASE c <= b /\ b < e
    <3>1. reg = <<"before", "middle">>
      BY <1>1, <1>6, <2>3 DEF Regflck
    <3>2. t = IF same THEN Stop(JoinAfter(s, f)) ELSE CutEnd(s, f, FALSE)
      BY <3>1 DEF FlckadjOwn
    <3>3. c - 1 <= b
      BY <1>1, <2>3
    <3> QED BY <1>6, <2>3, <3>2, <3>3 DEF Turn
  <2>4. CASE b = e
    <3>1. reg = <<"before", "end">>
      BY <1>1, <1>6, <2>4 DEF Regflck
    <3>2. t = [Delflck(s, f) EXCEPT !.stop = same]
      BY <3>1 DEF FlckadjOwn
    <3> QED BY <1>6, <2>4, <3>2 DEF Turn
  <2>5. CASE e < b
    <3>1. reg = <<"before", "after">>
      BY <1>1, <1>6, <2>5 DEF Regflck
    <3>2. t = Delflck(s, f)
      BY <3>1 DEF FlckadjOwn
    <3> QED BY <1>6, <2>5, <3>2 DEF Turn
  <2> QED BY <1>1, <2>1, <2>2, <2>3, <2>4, <2>5
<1> QED BY <1>1, <1>2, <1>3, <1>4, <1>5, <1>6

Good == {s \in Scans : Proper(s.ld)}

\* The types of a scan's parts
LEMMA ScanFields ==
    ASSUME NEW s \in Scans
    PROVE  /\ s.list \in Seq(LockType) /\ s.insrt \in Places /\ s.ld \in Asking
           /\ s.ld.start \in Byte /\ s.ld.end \in Byte /\ s.ld.start \in Int /\ s.ld.end \in Int
           /\ s.room \in Nat /\ s.mem \in Nat
           /\ s.stop \in BOOLEAN /\ s.over \in BOOLEAN /\ s.enolck \in BOOLEAN
BY SizesAssumption DEF Scans, Asking, Byte

\* Changes of a field or two.
LEMMA SetFields ==
    ASSUME NEW s \in Scans
    PROVE  /\ \A at \in Places : [s EXCEPT !.insrt = at] \in Scans
           /\ \A x \in BOOLEAN : [s EXCEPT !.stop = x] \in Scans
           /\ Stop(s) \in Scans /\ AlreadySet(s) \in Scans
           /\ \A x \in Byte : /\ [s EXCEPT !.ld.end = x] \in Scans
                              /\ [s EXCEPT !.ld.start = x] \in Scans
BY DEF Scans, Stop, AlreadySet, Asking

\* The lock before f becomes the place.
LEMMA FromPrevIs ==
    ASSUME NEW s \in Scans, NEW f \in LockType
    PROVE  /\ FromPrev(s, f) \in Scans
           /\ FromPrev(s, f) = [s EXCEPT !.insrt = Prev(s.list, At(f))]
           /\ FromPrev(s, f).list = s.list /\ FromPrev(s, f).ld = s.ld
           /\ FromPrev(s, f).woken = s.woken /\ FromPrev(s, f).room = s.room
           /\ FromPrev(s, f).insrt = Prev(s.list, At(f))
           /\ FromPrev(s, f).stop = s.stop /\ FromPrev(s, f).over = s.over
           /\ FromPrev(s, f).enolck = s.enolck /\ FromPrev(s, f).mem = s.mem
<1> DEFINE at == Prev(s.list, At(f))
<1>1. at \in Places
  BY ScanFields, PrevPlace
<1>2. FromPrev(s, f) = [s EXCEPT !.insrt = at]
  BY DEF FromPrev
<1> HIDE DEF at
<1>3. [s EXCEPT !.insrt = at] \in Scans
  BY <1>1, SetFields
<1> QED BY <1>1, <1>2, <1>3 DEF Scans, at

\* The rest of f behind ld is a lock.
LEMMA RestIsLock ==
    ASSUME NEW s \in Scans, NEW f \in LockType, s.ld.end < f.end
    PROVE  LET r == NewLock([f EXCEPT !.start = s.ld.end + 1])
           IN  /\ r \in LockType /\ r.owner = f.owner /\ r.type = f.type
               /\ r.start = s.ld.end + 1 /\ r.end = f.end
<1> DEFINE x == s.ld.end + 1
           g == [f EXCEPT !.start = x]
<1>1. x \in Byte
  BY ScanFields, LockFields, SizesAssumption DEF Byte
<1> HIDE DEF x
<1>2. /\ g.owner = f.owner /\ g.type = f.type /\ g.start = x /\ g.end = f.end
      /\ f.owner \in Owner /\ f.type \in {"rd", "wr"} /\ f.end \in Byte
  BY <1>1 DEF LockType
<1> HIDE DEF g
<1>3. /\ NewLock(g) \in LockType /\ NewLock(g).owner = f.owner /\ NewLock(g).type = f.type
      /\ NewLock(g).start = x /\ NewLock(g).end = f.end
  BY <1>1, <1>2 DEF NewLock, LockType
<1> QED BY <1>3 DEF g, x

\* Cutting f keeps the types.
LEMMA CutEndType ==
    ASSUME NEW s \in Scans, NEW f \in LockType, NEW middle \in BOOLEAN, s.ld.end < f.end,
           middle => s.ld.start - 1 \in Byte
    PROVE  CutEnd(s, f, middle) \in Scans /\ CutEnd(s, f, middle).ld = s.ld
<1> DEFINE cut == SplitAfter(s, f)
<1>1. cut \in Scans /\ cut.ld = s.ld
  <2> DEFINE r == [f EXCEPT !.start = s.ld.end + 1]
             at == Behind(s.list, At(f), s.ld.end + 1)
  <2>1. NewLock(r) \in LockType
    BY RestIsLock
  <2>2. cut = Insflck(s, r, at)
    BY DEF SplitAfter
  <2> HIDE DEF r, at, cut
  <2>3. cut \in Scans
    BY <2>1, <2>2, InsflckIs
  <2>4. cut.ld = s.ld
    BY <2>2 DEF Insflck, Scans
  <2> QED BY <2>3, <2>4
<1>2. CutEnd(s, f, middle) = RestCut(cut, f, middle)
  BY DEF CutEnd
<1> HIDE DEF cut
<1>3. middle => Trim(cut, f) \in Scans /\ Trim(cut, f).ld = s.ld
  BY <1>1, TrimIs
<1>4. Delflck(cut, f) \in Scans /\ Delflck(cut, f).ld = s.ld
  BY <1>1, DelflckIs DEF SameScan
<1>5. \A u \in Scans : Stop(u) \in Scans /\ Stop(u).ld = u.ld
  BY SetFields DEF Stop, Scans
<1> QED BY <1>1, <1>2, <1>3, <1>4, <1>5 DEF RestCut

\* A turn keeps the types, and ld does not become empty.
LEMMA TurnType ==
    ASSUME NEW s \in Good, NEW f \in LockType, Proper(f), NEW t, Turn(s, f, t)
    PROVE  t \in Good
<1> DEFINE a == s.ld.start  b == s.ld.end  c == f.start  e == f.end
           same == s.ld.type = f.type
           p == FromPrev(s, f)
<1>0. s \in Scans /\ a <= b /\ a \in Int /\ b \in Int /\ c \in Int /\ e \in Int /\ c <= e
  BY ScanFields, LockFields DEF Good, Proper
<1>1. /\ p \in Scans /\ p.ld = s.ld
      /\ Delflck(s, f) \in Scans /\ Delflck(s, f).ld = s.ld
      /\ Delflck(p, f) \in Scans /\ Delflck(p, f).ld = s.ld
  <2>1. p \in Scans /\ p.ld = s.ld
    BY <1>0, FromPrevIs
  <2> HIDE DEF p
  <2> QED BY <1>0, <2>1, DelflckIs DEF SameScan
<1> HIDE DEF p
<1>2. ASSUME c < a PROVE a - 1 \in Byte
  <2>1. 0 <= c /\ a <= MAXEND /\ MAXEND \in Int
    BY <1>0, ScanFields, LockFields, SizesAssumption DEF Byte
  <2> QED BY <1>0, <1>2, <2>1 DEF Byte
<1>3. c \in Byte /\ e \in Byte
  BY DEF LockType
<1>4. CASE t = [s EXCEPT !.insrt = At(f)]
  BY <1>0, <1>4, AtPlace, SetFields DEF Good, Proper, Scans
<1>5. CASE t = s
  BY <1>5
<1>6. CASE c < a /\ e < b /\ t = JoinBefore(s, f)
  <2> DEFINE u == [p EXCEPT !.ld.start = f.start]
  <2>1. u \in Scans /\ u.ld.start = c /\ u.ld.end = b
    <3>1. u \in Scans
      BY <1>1, <1>3, SetFields
    <3>2. p.ld \in Asking /\ u.ld = [p.ld EXCEPT !.start = c]
      BY <1>1 DEF Scans
    <3> QED BY <1>1, <3>1, <3>2 DEF Asking
  <2>2. t = Delflck(u, f)
    BY <1>6 DEF JoinBefore, p
  <2> HIDE DEF u
  <2>3. t \in Scans /\ t.ld = u.ld
    <3>1. u \in Scans /\ f \in LockType
      BY <2>1
    <3>2. Delflck(u, f) \in Scans /\ SameScan(Delflck(u, f), u)
      BY <3>1, DelflckIs
    <3> QED BY ONLY <2>2, <3>2 DEF SameScan
  <2> QED BY <1>0, <1>6, <2>1, <2>3 DEF Good, Proper
<1>7. CASE t = AlreadySet(s)
  BY <1>0, <1>7, SetFields, ZenonT(40) DEF Good, Proper, AlreadySet, Scans
<1>8. CASE c < a /\ b < e /\ t = CutEnd(s, f, TRUE)
  BY <1>0, <1>2, <1>8, CutEndType DEF Good, Proper
<1>9. CASE c < a /\ t = Trim(s, f)
  BY <1>0, <1>2, <1>9, TrimIs DEF Good, Proper
<1>10. CASE b < e /\ t = CutEnd(p, f, FALSE)
  BY <1>0, <1>1, <1>10, CutEndType DEF Good, Proper
<1>11. CASE t = Delflck(p, f)
  BY <1>0, <1>1, <1>11 DEF Good, Proper
<1>12. CASE t = Stop(s)
  BY <1>0, <1>12, SetFields DEF Good, Proper, Stop, Scans
<1>13. CASE b < e /\ t = Stop(JoinAfter(s, f))
  <2> DEFINE u == [s EXCEPT !.ld.end = f.end]
             v == Delflck(u, f)
  <2>1. u \in Scans /\ u.ld.start = a /\ u.ld.end = e
    <3>1. u \in Scans
      BY <1>0, <1>3, SetFields
    <3>2. s.ld \in Asking /\ u.ld = [s.ld EXCEPT !.end = e]
      BY <1>0 DEF Scans
    <3> QED BY <3>1, <3>2 DEF Asking
  <2>2. t = Stop(v)
    BY <1>13 DEF JoinAfter
  <2> HIDE DEF u
  <2>3. v \in Scans /\ v.ld = u.ld
    BY <2>1, DelflckIs DEF SameScan
  <2> HIDE DEF v
  <2>4. t \in Scans /\ t.ld = v.ld
    BY <2>2, <2>3, SetFields DEF Stop, Scans
  <2> QED BY <1>0, <1>13, <2>1, <2>3, <2>4 DEF Good, Proper
<1>14. CASE b < e /\ t = CutEnd(s, f, FALSE)
  BY <1>0, <1>14, CutEndType DEF Good, Proper
<1>15. CASE t = [Delflck(s, f) EXCEPT !.stop = same]
  <2> DEFINE v == Delflck(s, f)
  <2>1. v \in Scans /\ v.ld = s.ld /\ same \in BOOLEAN
    BY <1>1
  <2> HIDE DEF v, same
  <2>2. t = [v EXCEPT !.stop = same]
    BY <1>15 DEF v, same
  <2>3. t \in Scans /\ t.ld = v.ld
    BY <2>1, <2>2, SetFields DEF Scans
  <2> QED BY <1>0, <2>1, <2>3 DEF Good, Proper
<1>16. CASE t = Delflck(s, f)
  BY <1>0, <1>1, <1>16 DEF Good, Proper
<1> HIDE DEF a, b, c, e, same
<1> QED
  BY <1>4, <1>5, <1>6, <1>7, <1>8, <1>9, <1>10, <1>11, <1>12, <1>13, <1>14, <1>15, <1>16
  DEF Turn, a, b, c, e, same, p
-----------------------------------------------------------------------------
(* The locks of a list as a set *)

\* A lock that is on the list is found.
LEMMA Found ==
    ASSUME NEW l, Sane(l), NEW f \in ToSet(l)
    PROVE  Pos(l, At(f)) \in 1 .. Len(l) /\ l[Pos(l, At(f))] = f /\ f \in LockType /\ Proper(f)
<1>1. l \in Seq(LockType)
  BY DEF Sane
<1>2. PICK i \in 1 .. Len(l) : f = l[i]
  BY <1>1, Members
<1>3. Pos(l, At(l[i])) = i
  BY PosAt
<1> QED BY <1>1, <1>2, <1>3 DEF Sane, Proper

\* Two locks of a list: one stands before the other.
LEMMA Ordered ==
    ASSUME NEW l, Sane(l), NEW f \in ToSet(l), NEW g \in ToSet(l), f # g
    PROVE  (Before(f, g) \/ Before(g, f)) /\ At(f) # At(g)
<1>1. l \in Seq(LockType) /\ Len(l) \in Nat
  BY DEF Sane
<1>2. PICK i \in 1 .. Len(l), j \in 1 .. Len(l) : f = l[i] /\ g = l[j]
  BY <1>1, Members
<1>3. i < j \/ j < i
  BY <1>1, <1>2
<1>4. At(f) # At(g)
  BY <1>2, AtUnique
<1> QED BY <1>2, <1>3, <1>4 DEF Sane

\* Deleting a lock takes that one off the list and no other.
LEMMA RemovedMembers ==
    ASSUME NEW l, Sane(l), NEW k \in 1 .. Len(l)
    PROVE  /\ ToSet(RemoveAt(l, k)) = ToSet(l) \ {l[k]}
           /\ Len(RemoveAt(l, k)) = Len(l) - 1
<1> DEFINE m == RemoveAt(l, k)
           at(i) == IF i < k THEN i ELSE i + 1
<1>1. l \in Seq(LockType) /\ Len(l) \in Nat
  BY DEF Sane
<1>2. m \in Seq(LockType) /\ Len(m) = Len(l) - 1 /\ \A i \in 1 .. Len(m) : m[i] = l[at(i)]
  BY <1>1, Removed
<1> HIDE DEF m
<1>3. ASSUME NEW x \in ToSet(m) PROVE x \in ToSet(l) /\ x # l[k]
  <2>1. PICK i \in 1 .. Len(m) : x = m[i]
    BY <1>2, Members
  <2>2. at(i) \in 1 .. Len(l) /\ at(i) # k
    BY <1>1, <1>2
  <2>3. x = l[at(i)]
    BY <1>2, <2>1
  <2> HIDE DEF at
  <2>4. x # l[k]
    BY <2>2, <2>3, AtUnique
  <2> QED BY <1>1, <2>2, <2>3, <2>4, Members
<1>4. ASSUME NEW x \in ToSet(l), x # l[k] PROVE x \in ToSet(m)
  <2>1. PICK i \in 1 .. Len(l) : x = l[i]
    BY <1>1, Members
  <2>2. PICK j \in 1 .. Len(m) : at(j) = i
    <3>1. CASE i < k
      BY <1>1, <1>2, <3>1
    <3>2. CASE k < i
      <4>1. i - 1 \in 1 .. Len(m) /\ at(i - 1) = i
        BY <1>1, <1>2, <3>2
      <4> QED BY <4>1
    <3> QED BY <1>1, <1>4, <2>1, <3>1, <3>2
  <2>3. x = m[j]
    BY <1>2, <2>1, <2>2
  <2> QED BY <1>2, <2>3, Members
<1> QED BY <1>2, <1>3, <1>4 DEF m

\* Inserting a lock adds that one.
LEMMA InsertedMembers ==
    ASSUME NEW l, l \in Seq(LockType), NEW k, k \in 0 .. Len(l), NEW e, e \in LockType
    PROVE  /\ ToSet(InsertAt(l, k + 1, e)) = ToSet(l) \cup {e}
           /\ Len(InsertAt(l, k + 1, e)) = Len(l) + 1
<1> DEFINE m == InsertAt(l, k + 1, e)
           at(i) == IF i <= k THEN i ELSE i - 1
<1>1. Len(l) \in Nat
  OBVIOUS
<1>2. /\ m \in Seq(LockType) /\ Len(m) = Len(l) + 1
      /\ \A i \in 1 .. Len(l) + 1 : m[i] = IF i = k + 1 THEN e ELSE l[at(i)]
  BY Inserted
<1> HIDE DEF m
<1>3. ASSUME NEW x \in ToSet(m) PROVE x \in ToSet(l) \cup {e}
  <2>1. PICK i \in 1 .. Len(l) + 1 : x = m[i]
    BY <1>2, Members
  <2>2. CASE i = k + 1
    BY <1>2, <2>1, <2>2
  <2>3. CASE i # k + 1
    <3>1. at(i) \in 1 .. Len(l) /\ x = l[at(i)]
      BY <1>1, <1>2, <2>1, <2>3
    <3> HIDE DEF at
    <3> QED BY <3>1, Members
  <2> QED BY <2>2, <2>3
<1>4. ASSUME NEW x \in ToSet(l) PROVE x \in ToSet(m)
  <2>1. PICK i \in 1 .. Len(l) : x = l[i]
    BY Members
  <2>2. PICK j \in 1 .. Len(l) + 1 : j # k + 1 /\ at(j) = i
    <3>1. CASE i <= k
      BY <1>1, <3>1
    <3>2. CASE ~ (i <= k)
      <4>1. i + 1 \in 1 .. Len(l) + 1 /\ at(i + 1) = i /\ i + 1 # k + 1
        BY <1>1, <3>2
      <4> QED BY <4>1
    <3> QED BY <3>1, <3>2
  <2>3. x = m[j]
    BY <1>2, <2>1, <2>2
  <2> QED BY <1>2, <2>3, Members
<1>5. e \in ToSet(m)
  <2>1. k + 1 \in 1 .. Len(l) + 1 /\ m[k + 1] = e
    BY <1>1, <1>2
  <2> QED BY <1>2, <2>1, Members
<1> QED BY <1>2, <1>3, <1>4, <1>5 DEF m

\* Cutting a lock puts another in its place.
LEMMA CutMembers ==
    ASSUME NEW l, Sane(l), NEW k \in 1 .. Len(l), NEW x, NEW m, Cut(m, l, k, x)
    PROVE  ToSet(m) = (ToSet(l) \ {l[k]}) \cup {m[k]}
<1>1. l \in Seq(LockType) /\ m \in Seq(LockType) /\ Len(m) = Len(l)
      /\ \A i \in 1 .. Len(l) : i # k => m[i] = l[i]
  BY DEF Sane, Cut
<1>2. ASSUME NEW y \in ToSet(m) PROVE y \in (ToSet(l) \ {l[k]}) \cup {m[k]}
  <2>1. PICK i \in 1 .. Len(l) : y = m[i]
    BY <1>1, Members
  <2>2. i # k => l[i] # l[k]
    BY AtUnique
  <2> QED BY <1>1, <2>1, <2>2, Members
<1>3. ASSUME NEW y \in ToSet(l), y # l[k] PROVE y \in ToSet(m)
  <2>1. PICK i \in 1 .. Len(l) : y = l[i]
    BY <1>1, Members
  <2> QED BY <1>1, <1>3, <2>1, Members
<1>4. m[k] \in ToSet(m)
  BY <1>1, Members
<1> QED BY <1>2, <1>3, <1>4
-----------------------------------------------------------------------------
(* What a turn takes from the list and puts there *)

\* In t the lock f of s is gone, new is there, and who waits for f is woken.
Took(t, s, f, new) ==
    /\ Sane(t.list) /\ ToSet(t.list) = (ToSet(s.list) \ {f}) \cup new
    /\ Len(t.list) + t.room = Len(s.list) + s.room
    /\ t.woken = IF f.wakeflg THEN s.woken \cup {At(f)} ELSE s.woken

\* g is what is left of f on the bytes x .. y.
Piece(g, f, x, y) ==
    g \in LockType /\ g.owner = f.owner /\ g.type = f.type /\ g.start = x /\ g.end = y

\* delflck takes f.
LEMMA DelflckTook ==
    ASSUME NEW s \in Scans, Sane(s.list), NEW f \in ToSet(s.list)
    PROVE  Took(Delflck(s, f), s, f, {})
<1> DEFINE l == s.list
           k == Pos(l, At(f))
<1>1. k \in 1 .. Len(l) /\ l[k] = f /\ f \in LockType
  BY Found
<1>2. Sane(RemoveAt(l, k)) /\ ToSet(RemoveAt(l, k)) = ToSet(l) \ {f}
      /\ Len(RemoveAt(l, k)) = Len(l) - 1
  <2> HIDE DEF k, l
  <2> QED BY <1>1, RemovedSane, RemovedMembers DEF l
<1>3. /\ Delflck(s, f).list = RemoveAt(l, k) /\ Delflck(s, f).room = s.room + 1
      /\ Delflck(s, f).woken = IF f.wakeflg THEN s.woken \cup {At(f)} ELSE s.woken
  BY <1>1, DelflckIs
<1>4. s.room \in Nat /\ Len(l) \in Nat
  BY ScanFields
<1> HIDE DEF l, k
<1>5. (Len(l) - 1) + (s.room + 1) = Len(l) + s.room
  BY <1>4
<1> QED BY <1>2, <1>3, <1>5 DEF Took, l

\* Trim takes f and leaves its front.
LEMMA TrimTook ==
    ASSUME NEW s \in Scans, Sane(s.list), NEW f \in ToSet(s.list),
           f.start < s.ld.start, s.ld.start <= f.end
    PROVE  \E g : Piece(g, f, f.start, s.ld.start - 1) /\ Took(Trim(s, f), s, f, {g})
<1> DEFINE l == s.list
           k == Pos(l, At(f))
           x == s.ld.start - 1
           m == Trim(s, f).list
<1>1. k \in 1 .. Len(l) /\ l[k] = f /\ f \in LockType
  BY Found
<1>2. f.start \in Int /\ f.end \in Int /\ s.ld.start \in Int /\ x \in Byte /\ k # 0
      /\ f.start <= x /\ x <= f.end
  BY <1>1, ScanFields, LockFields, SizesAssumption DEF Byte
<1>3. /\ Cut(m, l, k, x) /\ Trim(s, f).room = s.room
      /\ Trim(s, f).woken = IF f.wakeflg THEN s.woken \cup {At(f)} ELSE s.woken
  BY <1>1, <1>2, TrimIs
<1> HIDE DEF l, k, m
<1>4. Sane(m) /\ ToSet(m) = (ToSet(l) \ {f}) \cup {m[k]} /\ Len(m) = Len(l)
  <2> HIDE DEF x
  <2>0. Sane(l) /\ x \in Int
    BY <1>2 DEF l, x
  <2>1. Sane(m)
    BY <1>1, <1>2, <1>3, <2>0, CutSane
  <2>2. ToSet(m) = (ToSet(l) \ {f}) \cup {m[k]}
    BY <1>1, <1>3, <2>0, CutMembers
  <2> QED BY <1>3, <2>1, <2>2 DEF Cut
<1>5. Piece(m[k], f, f.start, x)
  BY <1>1, <1>3, <1>4 DEF Cut, Piece, Sane
<1> QED BY <1>3, <1>4, <1>5 DEF Took, l, m

\* The first position of an address.
LEMMA PosFirst ==
    ASSUME NEW S, NEW l \in Seq(S), NEW at, NEW k \in 1 .. Len(l), At(l[k]) = at,
           \A i \in 1 .. k - 1 : At(l[i]) # at
    PROVE  Pos(l, at) = k
<1> DEFINE I == {j \in 1 .. Len(l) : At(l[j]) = at}
<1>1. Pos(l, at) = IF I # {} THEN Min(I) ELSE 0
  BY DEF Pos, SelectInSeq
<1>2. k \in I /\ \A j \in I : k <= j
  OBVIOUS
<1>3. \A j \in I : (\A i \in I : j <= i) => j = k
  BY <1>2
<1>4. Min(I) = k
  <2> HIDE DEF I
  <2> QED BY <1>2, <1>3 DEF Min
<1> QED BY <1>1, <1>2, <1>4

\* The rest of f has its place behind the locks that start where it starts.
LEMMA RestFits ==
    ASSUME NEW l, Sane(l), NEW k \in 1 .. Len(l), NEW q \in k .. Len(l),
           NEW e \in LockType, e.owner = l[k].owner, e.type = l[k].type, e.end = l[k].end,
           l[k].start < e.start, e.start <= e.end, Fits(l, q, e.start)
    PROVE  /\ \A i \in 1 .. q : i # k => Before(l[i], e)
           /\ \A i \in q + 1 .. Len(l) : Before(e, l[i])
<1>1. Len(l) \in Nat /\ e.start \in Int /\ e.end \in Int /\ \A i \in 1 .. Len(l) : l[i] \in LockType
  BY LockFields DEF Sane
<1>2. ASSUME NEW i \in 1 .. q, i # k PROVE Before(l[i], e)
  <2>1. i \in 1 .. Len(l) /\ l[i].start <= e.start
    BY <1>1 DEF Fits
  <2>2. l[i] \in LockType /\ l[k] \in LockType
    BY <1>1, <2>1
  <2>3. CASE i < k
    <3>1. Before(l[i], l[k])
      BY <2>1, <2>3 DEF Sane
    <3> QED BY <1>1, <2>1, <2>2, <3>1, LockFields DEF Before
  <2>4. CASE k < i
    <3>1. Before(l[k], l[i])
      BY <2>1, <2>4 DEF Sane
    <3> QED BY <1>1, <2>1, <2>2, <3>1, LockFields DEF Before
  <2> QED BY <1>1, <1>2, <2>1, <2>3, <2>4
<1>3. ASSUME NEW i \in q + 1 .. Len(l) PROVE Before(e, l[i])
  <2>1. i \in 1 .. Len(l) /\ k < i /\ e.start <= l[i].start
    BY <1>1 DEF Fits
  <2>2. Before(l[k], l[i])
    BY <2>1 DEF Sane
  <2> QED BY <1>1, <2>1, <2>2 DEF Before
<1> QED BY <1>2, <1>3

\* Lists with the same members at the same positions are equal.
LEMMA SameList ==
    ASSUME NEW S, NEW l \in Seq(S), NEW m \in Seq(S), Len(l) = Len(m),
           \A i \in 1 .. Len(l) : l[i] = m[i]
    PROVE  l = m
BY SeqEqual

\* f is cut in two: its rest e is put in its place, and its end cut off at x.
LEMMA CutPut ==
    ASSUME NEW l, Sane(l), NEW k \in 1 .. Len(l), NEW q \in k .. Len(l),
           NEW e \in LockType, e.owner = l[k].owner, e.type = l[k].type, e.end = l[k].end,
           l[k].start < e.start, e.start <= e.end, Fits(l, q, e.start),
           NEW x \in Int, l[k].start <= x, x + 1 < e.start,
           NEW M, Cut(M, InsertAt(l, q + 1, e), k, x)
    PROVE  /\ Sane(M) /\ ToSet(M) = (ToSet(l) \ {l[k]}) \cup {M[k], e}
           /\ Len(M) = Len(l) + 1 /\ Piece(M[k], l[k], l[k].start, x)
<1> DEFINE L == InsertAt(l, q + 1, e)
           m == [l EXCEPT ![k] = M[k]]
           N == InsertAt(m, q + 1, e)
<1>1. /\ l \in Seq(LockType) /\ Len(l) \in Nat /\ q \in Nat /\ k \in Nat
      /\ e.start \in Int /\ e.end \in Int /\ k <= q /\ q <= Len(l) /\ 1 <= k
      /\ q \in 0 .. Len(l) /\ l[k].start \in Int /\ l[k].end \in Int
      /\ \A i \in 1 .. Len(l) : l[i] \in LockType
  BY LockFields DEF Sane
<1>2. /\ L \in Seq(LockType) /\ Len(L) = Len(l) + 1
      /\ \A i \in 1 .. Len(l) + 1 : L[i] = IF i = q + 1 THEN e ELSE l[IF i <= q THEN i ELSE i - 1]
  BY <1>1, Inserted
<1> HIDE DEF L
<1>3. L[k] = l[k] /\ k \in 1 .. Len(L)
  BY <1>1, <1>2
<1>4. /\ M \in Seq(LockType) /\ Len(M) = Len(l) + 1
      /\ \A i \in 1 .. Len(L) : i # k => M[i] = L[i]
  BY <1>2 DEF Cut, L
<1>5. Piece(M[k], l[k], l[k].start, x)
  BY <1>2, <1>3, <1>4 DEF Cut, Piece, L
<1>6. /\ m \in Seq(LockType) /\ Len(m) = Len(l)
      /\ \A i \in 1 .. Len(l) : m[i] = IF i = k THEN M[k] ELSE l[i]
  BY <1>1, <1>5 DEF Piece
<1> HIDE DEF m
<1>7. Cut(m, l, k, x)
  BY <1>5, <1>6 DEF Cut, Piece
<1>8. x <= l[k].end
  BY <1>1
<1>9. Sane(m) /\ ToSet(m) = (ToSet(l) \ {l[k]}) \cup {M[k]}
  BY <1>6, <1>7, <1>8, CutSane, CutMembers
<1>10. \A i \in 1 .. q : Before(m[i], e)
  <2>1. \A i \in 1 .. q : i # k => Before(l[i], e)
    BY RestFits
  <2>2. Before(M[k], e)
    <3>1. M[k].end = x /\ M[k].start = l[k].start /\ M[k].type = e.type
      BY <1>5 DEF Piece
    <3>2. x < e.start - 1 /\ l[k].start <= e.start
      BY <1>1
    <3> QED BY <3>1, <3>2 DEF Before
  <2> QED BY <1>1, <1>6, <2>1, <2>2
<1>11. \A i \in q + 1 .. Len(m) : Before(e, m[i])
  <2>1. \A i \in q + 1 .. Len(l) : Before(e, l[i])
    BY RestFits
  <2> QED BY <1>1, <1>6, <2>1
<1>12. Sane(N) /\ ToSet(N) = ToSet(m) \cup {e} /\ Len(N) = Len(l) + 1
  <2>1. q \in 0 .. Len(m) /\ m \in Seq(LockType) /\ e.start <= e.end
    BY <1>1, <1>6
  <2>2. Sane(N)
    BY <1>9, <1>10, <1>11, <2>1, InsertedSane
  <2>3. ToSet(N) = ToSet(m) \cup {e} /\ Len(N) = Len(m) + 1
    <3>1. e \in LockType
      OBVIOUS
    <3> QED BY ONLY <2>1, <3>1, InsertedMembers
  <2> HIDE DEF N
  <2> QED BY <1>6, <2>2, <2>3
<1>13. /\ N \in Seq(LockType)
       /\ \A i \in 1 .. Len(l) + 1 : N[i] = IF i = q + 1 THEN e ELSE m[IF i <= q THEN i ELSE i - 1]
  <2>1. q \in 0 .. Len(m) /\ m \in Seq(LockType) /\ Len(m) = Len(l)
    BY <1>1, <1>6
  <2>2. /\ N \in Seq(LockType)
        /\ \A i \in 1 .. Len(m) + 1 :
             N[i] = IF i = q + 1 THEN e ELSE m[IF i <= q THEN i ELSE i - 1]
    BY <2>1, Inserted
  <2> HIDE DEF N
  <2> QED BY <2>1, <2>2
<1> HIDE DEF N
<1>14. M = N
  <2>1. ASSUME NEW i \in 1 .. Len(l) + 1 PROVE M[i] = N[i]
    <3>1. CASE i = k
      <4>1. i # q + 1 /\ i <= q
        BY <1>1, <3>1
      <4>2. i \in 1 .. Len(l) + 1 /\ N[i] = m[i]
        BY <1>13, <4>1
      <4> QED BY <1>6, <3>1, <4>2
    <3>2. CASE i = q + 1
      <4>1. i # k /\ i \in 1 .. Len(L)
        BY <1>1, <1>2, <3>2
      <4> QED BY <1>2, <1>4, <1>13, <3>2, <4>1
    <3>3. CASE i # k /\ i <= q
      <4>1. i # q + 1 /\ i \in 1 .. Len(L) /\ i \in 1 .. Len(l)
        BY <1>1, <1>2, <3>3
      <4>2. M[i] = l[i]
        BY <1>2, <1>4, <3>3, <4>1
      <4>3. N[i] = m[i]
        BY <1>13, <3>3, <4>1
      <4> QED BY <1>6, <3>3, <4>1, <4>2, <4>3
    <3>4. CASE q + 1 < i
      <4>1. i - 1 \in 1 .. Len(l) /\ i - 1 # k /\ i # k /\ i # q + 1 /\ ~ (i <= q)
            /\ i \in 1 .. Len(L)
        BY <1>1, <1>2, <3>4
      <4>2. M[i] = l[i - 1]
        BY <1>2, <1>4, <4>1
      <4>3. N[i] = m[i - 1]
        BY <1>13, <4>1
      <4> QED BY <1>6, <4>1, <4>2, <4>3
    <3> QED BY <1>1, <3>1, <3>2, <3>3, <3>4
  <2> QED BY <1>4, <1>12, <1>13, <2>1, SameList
<1> QED BY <1>5, <1>9, <1>12, <1>14

\* f makes way for its rest e.
LEMMA DropPut ==
    ASSUME NEW l, Sane(l), NEW k \in 1 .. Len(l), NEW q \in k .. Len(l),
           NEW e \in LockType, e.owner = l[k].owner, e.type = l[k].type, e.end = l[k].end,
           l[k].start < e.start, e.start <= e.end, Fits(l, q, e.start)
    PROVE  LET M == RemoveAt(InsertAt(l, q + 1, e), k)
           IN  /\ Sane(M) /\ ToSet(M) = (ToSet(l) \ {l[k]}) \cup {e}
               /\ Len(M) = Len(l)
<1> DEFINE L == InsertAt(l, q + 1, e)
           M == RemoveAt(L, k)
           m == RemoveAt(l, k)
           N == InsertAt(m, (q - 1) + 1, e)
<1>1. /\ l \in Seq(LockType) /\ Len(l) \in Nat /\ q \in Nat /\ k \in Nat
      /\ k <= q /\ q <= Len(l) /\ 1 <= k /\ q \in 0 .. Len(l)
  BY DEF Sane
<1>2. /\ L \in Seq(LockType) /\ Len(L) = Len(l) + 1
      /\ \A i \in 1 .. Len(l) + 1 : L[i] = IF i = q + 1 THEN e ELSE l[IF i <= q THEN i ELSE i - 1]
  BY <1>1, Inserted
<1> HIDE DEF L
<1>3. k \in 1 .. Len(L)
  BY <1>1, <1>2
<1>4. /\ M \in Seq(LockType) /\ Len(M) = Len(l)
      /\ \A i \in 1 .. Len(l) : M[i] = L[IF i < k THEN i ELSE i + 1]
  <2>1. Len(L) - 1 = Len(l)
    BY <1>1, <1>2
  <2> HIDE DEF M
  <2>2. /\ M \in Seq(LockType) /\ Len(M) = Len(L) - 1
        /\ \A i \in 1 .. Len(L) - 1 : M[i] = L[IF i < k THEN i ELSE i + 1]
    BY <1>2, <1>3, Removed DEF M
  <2> QED BY <2>1, <2>2
<1> HIDE DEF M
<1>5. /\ Sane(m) /\ ToSet(m) = ToSet(l) \ {l[k]} /\ m \in Seq(LockType) /\ Len(m) = Len(l) - 1
      /\ \A i \in 1 .. Len(l) - 1 : m[i] = l[IF i < k THEN i ELSE i + 1]
  BY <1>1, RemovedSane, RemovedMembers, Removed
<1> HIDE DEF m
<1>6. q - 1 \in 0 .. Len(m)
  BY <1>1, <1>5
<1>7. \A i \in 1 .. q - 1 : Before(m[i], e)
  <2>1. \A i \in 1 .. q : i # k => Before(l[i], e)
    BY RestFits
  <2> SUFFICES ASSUME NEW i \in 1 .. q - 1 PROVE Before(m[i], e)
    OBVIOUS
  <2> DEFINE j == IF i < k THEN i ELSE i + 1
  <2>2. j \in 1 .. q /\ j # k
    BY <1>1
  <2>3. m[i] = l[j]
    BY <1>1, <1>5
  <2> HIDE DEF j
  <2> QED BY <2>1, <2>2, <2>3
<1>8. \A i \in (q - 1) + 1 .. Len(m) : Before(e, m[i])
  <2>1. \A i \in q + 1 .. Len(l) : Before(e, l[i])
    BY RestFits
  <2> SUFFICES ASSUME NEW i \in (q - 1) + 1 .. Len(m) PROVE Before(e, m[i])
    OBVIOUS
  <2>2. i + 1 \in q + 1 .. Len(l) /\ m[i] = l[i + 1]
    BY <1>1, <1>5
  <2> QED BY <2>1, <2>2
<1>9. Sane(N) /\ ToSet(N) = ToSet(m) \cup {e} /\ Len(N) = Len(m) + 1
  <2> DEFINE p == q - 1
  <2>1. p \in 0 .. Len(m) /\ (\A i \in 1 .. p : Before(m[i], e))
        /\ (\A i \in p + 1 .. Len(m) : Before(e, m[i])) /\ N = InsertAt(m, p + 1, e)
    BY <1>6, <1>7, <1>8
  <2> HIDE DEF p, N
  <2>2. e.start <= e.end
    OBVIOUS
  <2>3. Sane(InsertAt(m, p + 1, e))
    BY <1>5, <2>1, InsertedSane
  <2>4. ToSet(InsertAt(m, p + 1, e)) = ToSet(m) \cup {e} /\ Len(InsertAt(m, p + 1, e)) = Len(m) + 1
    <3>1. e \in LockType /\ m \in Seq(LockType) /\ p \in 0 .. Len(m)
      BY <1>5, <2>1
    <3> QED BY ONLY <3>1, InsertedMembers
  <2> QED BY <2>1, <2>3, <2>4
<1>10. /\ N \in Seq(LockType)
       /\ \A i \in 1 .. Len(m) + 1 : N[i] = IF i = q THEN e ELSE m[IF i <= q - 1 THEN i ELSE i - 1]
  <2> DEFINE p == q - 1
  <2>1. p \in 0 .. Len(m) /\ N = InsertAt(m, p + 1, e) /\ p + 1 = q
    BY <1>1, <1>6
  <2> HIDE DEF p, N
  <2>0. m \in Seq(LockType) /\ p \in 0 .. Len(m)
    BY <1>5, <2>1
  <2>2. /\ InsertAt(m, p + 1, e) \in Seq(LockType)
        /\ \A i \in 1 .. Len(m) + 1 :
             InsertAt(m, p + 1, e)[i] = IF i = p + 1 THEN e ELSE m[IF i <= p THEN i ELSE i - 1]
    BY ONLY <2>0, e \in LockType, Inserted
  <2> QED BY <2>1, <2>2 DEF p
<1> HIDE DEF N
<1>11. M = N
  <2>1. ASSUME NEW i \in 1 .. Len(l) PROVE M[i] = N[i]
    <3>0. i \in 1 .. Len(m) + 1
      BY <1>1, <1>5
    <3>1. CASE i < k
      <4>1. i # q + 1 /\ i <= q /\ i # q /\ i <= q - 1 /\ i \in 1 .. Len(l) + 1
            /\ i \in 1 .. Len(l) - 1
        BY <1>1, <3>1
      <4>2. M[i] = l[i]
        BY <1>2, <1>4, <3>1, <4>1
      <4>3. N[i] = m[i]
        BY <1>10, <3>0, <4>1
      <4> QED BY <1>5, <3>1, <4>1, <4>2, <4>3
    <3>2. CASE k <= i /\ i < q
      <4>1. i + 1 # q + 1 /\ i + 1 <= q /\ i <= q - 1 /\ i \in 1 .. Len(l) - 1
            /\ i + 1 \in 1 .. Len(l) + 1 /\ i # q /\ ~ (i < k)
        BY <1>1, <3>2
      <4>2. M[i] = l[i + 1]
        BY <1>2, <1>4, <4>1
      <4>3. N[i] = m[i]
        BY <1>10, <3>0, <4>1
      <4> QED BY <1>5, <4>1, <4>2, <4>3
    <3>3. CASE i = q
      <4>1. ~ (i < k) /\ i + 1 = q + 1 /\ i + 1 \in 1 .. Len(l) + 1
        BY <1>1, <3>3
      <4> QED BY <1>2, <1>4, <1>10, <3>0, <3>3, <4>1
    <3>4. CASE q < i
      <4>1. i + 1 # q + 1 /\ ~ (i + 1 <= q) /\ ~ (i <= q - 1) /\ i - 1 \in 1 .. Len(l) - 1
            /\ i + 1 \in 1 .. Len(l) + 1 /\ (i + 1) - 1 = i /\ ~ (i - 1 < k) /\ ~ (i < k)
            /\ (i - 1) + 1 = i /\ i # q
        BY <1>1, <3>4
      <4>2. M[i] = L[i + 1]
        BY <1>4, <4>1
      <4>3. L[i + 1] = l[i]
        BY <1>2, <4>1
      <4>4. N[i] = m[i - 1]
        BY <1>10, <3>0, <4>1
      <4>5. m[i - 1] = l[i]
        BY <1>5, <4>1
      <4> QED BY <4>2, <4>3, <4>4, <4>5
    <3> QED BY <1>1, <3>1, <3>2, <3>3, <3>4
  <2>2. Len(N) = Len(l)
    BY <1>1, <1>5, <1>9
  <2> QED BY <1>4, <1>10, <2>1, <2>2, SameList
<1>12. ToSet(M) = (ToSet(l) \ {l[k]}) \cup {e}
  BY <1>5, <1>9, <1>11
<1> QED BY <1>4, <1>9, <1>11, <1>12 DEF M, L

\* Stop changes nothing but the flag.
LEMMA StopIs ==
    ASSUME NEW s \in Scans
    PROVE  /\ Stop(s) \in Scans /\ Stop(s).list = s.list /\ Stop(s).room = s.room
           /\ Stop(s).woken = s.woken /\ Stop(s).insrt = s.insrt /\ Stop(s).ld = s.ld
           /\ Stop(s).stop /\ Stop(s).over = s.over /\ Stop(s).enolck = s.enolck
BY DEF Stop, Scans

\* What is the same when a structure is missing
Still(t, s) == t.list = s.list /\ t.room = s.room /\ t.woken = s.woken

\* A lock that is put behind the position k does not move it.
LEMMA PosInserted ==
    ASSUME NEW l, Sane(l), NEW k \in 1 .. Len(l), NEW q \in k .. Len(l), NEW e \in LockType
    PROVE  Pos(InsertAt(l, q + 1, e), At(l[k])) = k
<1> DEFINE L == InsertAt(l, q + 1, e)
<1>1. l \in Seq(LockType) /\ q \in 0 .. Len(l) /\ Len(l) \in Nat /\ k \in Nat /\ k <= q /\ q <= Len(l)
  BY DEF Sane
<1>2. /\ L \in Seq(LockType) /\ Len(L) = Len(l) + 1
      /\ \A i \in 1 .. Len(l) + 1 : L[i] = IF i = q + 1 THEN e ELSE l[IF i <= q THEN i ELSE i - 1]
  <2>1. l \in Seq(LockType) /\ q \in 0 .. Len(l)
    BY <1>1
  <2> QED BY <2>1, Inserted
<1> HIDE DEF L
<1>3. \A i \in 1 .. k : L[i] = l[i] /\ i \in 1 .. Len(l)
  BY <1>1, <1>2
<1>4. \A i \in 1 .. k - 1 : At(L[i]) # At(l[k])
  <2> SUFFICES ASSUME NEW i \in 1 .. k - 1, At(L[i]) = At(l[k]) PROVE FALSE
    OBVIOUS
  <2>1. i \in 1 .. k /\ i # k
    BY <1>1
  <2> QED BY <1>3, <2>1, AtUnique
<1>5. k \in 1 .. Len(L) /\ At(L[k]) = At(l[k])
  BY <1>1, <1>2, <1>3
<1> QED BY <1>2, <1>4, <1>5, PosFirst DEF L

\* insflck gives a structure.
LEMMA InsflckGives ==
    ASSUME NEW s \in Scans, NEW r, NewLock(r) \in LockType, NEW at, s.room # 0, s.mem # 0
    PROVE  /\ Insflck(s, r, at).list = InsertAt(s.list, Pos(s.list, at) + 1, NewLock(r))
           /\ Insflck(s, r, at).room = s.room - 1
           /\ Insflck(s, r, at).woken = s.woken
           /\ SameScan(Insflck(s, r, at), s)
BY InsflckIs

\* f is split at the end of ld, or there is no structure for its rest.
LEMMA SplitTook ==
    ASSUME NEW s \in Good, Sane(s.list), NEW f \in ToSet(s.list), ~ s.enolck,
           f.start <= s.ld.end, s.ld.end < f.end,
           NEW middle \in BOOLEAN, middle => f.start < s.ld.start,
           NEW t, t = CutEnd(s, f, middle)
    PROVE  \/ Still(t, s) /\ t.over /\ t.stop
           \/ \E e : /\ Piece(e, f, s.ld.end + 1, f.end) /\ t.stop /\ t.over = s.over
                     /\ IF middle
                        THEN /\ \E g : /\ Piece(g, f, f.start, s.ld.start - 1)
                                       /\ Took(t, s, f, {g, e})
                             /\ t.insrt = At(f)
                        ELSE Took(t, s, f, {e}) /\ t.insrt = s.insrt
<1> DEFINE l == s.list
           k == Pos(l, At(f))
           a == s.ld.start
           b == s.ld.end
           r == [f EXCEPT !.start = b + 1]
           e == NewLock(r)
           at == Behind(l, At(f), b + 1)
           q == Pos(l, at)
           u == Insflck(s, r, at)
<1>1. k \in 1 .. Len(l) /\ l[k] = f /\ f \in LockType /\ Proper(f)
  BY Found
<1>2. /\ s \in Scans /\ a \in Int /\ b \in Int /\ a <= b /\ f.start \in Int /\ f.end \in Int
      /\ f.start <= f.end /\ s.room \in Nat /\ s.mem \in Nat /\ Len(l) \in Nat
      /\ 0 <= f.start /\ f.start <= b /\ b < f.end /\ a <= MAXEND /\ MAXEND \in Int
  BY <1>1, ScanFields, LockFields, SizesAssumption DEF Good, Proper, Byte
<1>3. /\ e \in LockType /\ e.owner = f.owner /\ e.type = f.type
      /\ e.start = b + 1 /\ e.end = f.end
  BY <1>1, <1>2, RestIsLock
<1>4. t = RestCut(u, f, middle)
  BY DEF CutEnd, SplitAfter
<1>5. Fits(l, q, b + 1) /\ q \in k .. Len(l)
  <2>1. Reaches(l, At(f), b + 1)
    <3>1. f.start <= b + 1
      BY <1>2
    <3> QED BY <1>1, <3>1 DEF Reaches
  <2>2. Sane(l) /\ b + 1 \in Int
    BY <1>2
  <2>3. Fits(l, q, b + 1) /\ k <= q
    <3> HIDE DEF l, b
    <3> QED BY <2>1, <2>2, BehindFits
  <2> HIDE DEF q, k, l
  <2> QED BY <1>1, <1>2, <2>3 DEF Fits
<1>6. u \in Scans
  BY <1>2, <1>3, InsflckIs
<1>7. CASE s.room = 0 \/ s.mem = 0
  <2>1. u = [s EXCEPT !.enolck = TRUE, !.stop = TRUE, !.over = TRUE]
    BY <1>7 DEF Insflck
  <2> HIDE DEF u
  <2>2. u.enolck /\ u.over /\ u.stop /\ Still(u, s)
    BY <1>2, <2>1 DEF Scans, Still
  <2> QED BY <1>4, <2>2 DEF RestCut
<1>8. CASE ~ (s.room = 0 \/ s.mem = 0)
  <2>1. /\ u.list = InsertAt(l, q + 1, e) /\ u.room = s.room - 1 /\ u.woken = s.woken
        /\ SameScan(u, s)
    <3>1. s \in Scans /\ NewLock(r) \in LockType /\ s.room # 0 /\ s.mem # 0
      BY <1>2, <1>3, <1>8
    <3> HIDE DEF r, at, u
    <3>2. /\ Insflck(s, r, at).list = InsertAt(s.list, Pos(s.list, at) + 1, NewLock(r))
          /\ Insflck(s, r, at).room = s.room - 1 /\ Insflck(s, r, at).woken = s.woken
          /\ SameScan(Insflck(s, r, at), s)
      BY <3>1, InsflckGives
    <3> QED BY <3>2 DEF u
  <2> HIDE DEF u, e, q
  <2>2. Pos(u.list, At(f)) = k
    BY <1>1, <1>3, <1>5, <2>1, PosInserted
  <2>3. ~ u.enolck /\ u.ld = s.ld /\ u.insrt = s.insrt /\ u.over = s.over
    BY <2>1 DEF SameScan
  <2>4. Sane(l) /\ l[k].start < e.start /\ e.start <= e.end /\ Fits(l, q, e.start)
    BY <1>1, <1>2, <1>3, <1>5
  <2>5. Piece(e, f, s.ld.end + 1, f.end)
    BY <1>3 DEF Piece
  <2>6. CASE middle
    <3> DEFINE v == Trim(u, f)
    <3>1. t = Stop(v)
      BY <1>4, <2>3, <2>6 DEF RestCut
    <3>2. a - 1 \in Byte /\ a - 1 \in Int /\ f.start <= a - 1 /\ (a - 1) + 1 < e.start
      <4>1. f.start < a
        BY <2>6
      <4>2. 0 <= a - 1 /\ a - 1 <= MAXEND /\ a - 1 \in Int /\ f.start <= a - 1
        BY <1>2, <4>1
      <4> QED BY <1>2, <1>3, <4>2 DEF Byte
    <3>3. /\ v \in Scans /\ v.insrt = At(f) /\ v.room = u.room /\ v.over = u.over
          /\ v.woken = IF f.wakeflg THEN u.woken \cup {At(f)} ELSE u.woken
          /\ Cut(v.list, u.list, k, a - 1)
      <4>1. k # 0
        BY <1>1
      <4> QED BY <1>1, <1>6, <2>2, <2>3, <3>2, <4>1, TrimIs
    <3> HIDE DEF v
    <3>4. /\ t.insrt = At(f) /\ t.room = u.room /\ t.over = u.over /\ t.stop
          /\ t.woken = IF f.wakeflg THEN u.woken \cup {At(f)} ELSE u.woken
          /\ t.list = v.list
      BY <3>1, <3>3, StopIs
    <3> DEFINE M == v.list
               x == a - 1
    <3>5. Cut(M, InsertAt(l, q + 1, e), k, x) /\ x \in Int /\ l[k].start <= x /\ x + 1 < e.start
      BY <1>1, <2>1, <3>2, <3>3
    <3> HIDE DEF M, x, l, k
    <3>6. /\ Sane(M) /\ ToSet(M) = (ToSet(l) \ {l[k]}) \cup {M[k], e}
          /\ Len(M) = Len(l) + 1 /\ Piece(M[k], l[k], l[k].start, x)
      BY <1>1, <1>3, <1>5, <2>4, <3>5, CutPut
    <3>7. Len(M) + (s.room - 1) = Len(l) + s.room
      <4>1. Len(l) \in Nat /\ s.room \in Nat /\ Len(M) = Len(l) + 1
        BY <1>2, <3>6
      <4>2. \A x1, x2 \in Nat : (x1 + 1) + (x2 - 1) = x1 + x2
        OBVIOUS
      <4> QED BY ONLY <4>1, <4>2
    <3>8. Took(t, s, f, {M[k], e})
      BY <1>1, <2>1, <3>4, <3>6, <3>7 DEF Took, M, l
    <3> QED BY <1>1, <2>3, <2>5, <2>6, <3>4, <3>6, <3>8 DEF x
  <2>7. CASE ~ middle
    <3> DEFINE v == Delflck(u, f)
    <3>1. t = Stop(v)
      BY <1>4, <2>3, <2>7 DEF RestCut
    <3>2. /\ v \in Scans /\ v.insrt = u.insrt /\ v.room = u.room + 1 /\ v.over = u.over
          /\ v.woken = IF f.wakeflg THEN u.woken \cup {At(f)} ELSE u.woken
          /\ v.list = RemoveAt(u.list, k)
      <4>1. u \in Scans /\ f \in LockType /\ Pos(u.list, At(f)) = k
        BY <1>1, <1>6, <2>2
      <4>2. /\ v \in Scans
            /\ v.list = RemoveAt(u.list, Pos(u.list, At(f)))
            /\ v.room = u.room + 1
            /\ v.woken = IF f.wakeflg THEN u.woken \cup {At(f)} ELSE u.woken
            /\ SameScan(v, u)
        BY <4>1, DelflckIs
      <4> HIDE DEF v, u, k
      <4> QED BY <4>1, <4>2 DEF SameScan
    <3> HIDE DEF v
    <3>3. /\ t.insrt = u.insrt /\ t.room = u.room + 1 /\ t.over = u.over /\ t.stop
          /\ t.woken = IF f.wakeflg THEN u.woken \cup {At(f)} ELSE u.woken
          /\ t.list = RemoveAt(InsertAt(l, q + 1, e), k)
      BY <2>1, <3>1, <3>2, StopIs
    <3> HIDE DEF l, k
    <3>4. Sane(t.list) /\ ToSet(t.list) = (ToSet(l) \ {f}) \cup {e} /\ Len(t.list) = Len(l)
      <4>1. /\ e.owner = l[k].owner /\ e.type = l[k].type /\ e.end = l[k].end
            /\ k \in 1 .. Len(l) /\ q \in k .. Len(l) /\ e \in LockType
        BY <1>1, <1>3, <1>5
      <4> DEFINE M == RemoveAt(InsertAt(l, q + 1, e), k)
      <4>2. Sane(M) /\ ToSet(M) = (ToSet(l) \ {l[k]}) \cup {e} /\ Len(M) = Len(l)
        BY <2>4, <4>1, DropPut
      <4> HIDE DEF M
      <4> QED BY <1>1, <3>3, <4>2 DEF M
    <3>5. Len(l) + ((s.room - 1) + 1) = Len(l) + s.room
      BY <1>2
    <3>6. Took(t, s, f, {e})
      BY <1>1, <2>1, <3>3, <3>4, <3>5 DEF Took, l
    <3> QED BY <2>3, <2>5, <2>7, <3>3, <3>6
  <2> QED BY <2>6, <2>7
<1> QED BY <1>7, <1>8
-----------------------------------------------------------------------------
(* What a turn comes to *)

\* The own lock g ends before ld, and does not touch it if it is of its type.
Clear(g, ld) == g.end < (IF g.type = ld.type THEN ld.start - 1 ELSE ld.start)

\* It starts behind ld.
Beyond(g, ld) == (IF g.type = ld.type THEN ld.end + 1 ELSE ld.end) < g.start

Going(s) == ~ s.stop /\ ~ s.over /\ ~ s.enolck

\* f is before ld.
WalkedBy(s, f, t) ==
    /\ Clear(f, s.ld) /\ Still(t, s) /\ t.ld = s.ld /\ Going(t)
    /\ t.insrt \in {s.insrt, At(f)}

\* f is behind ld.
Passed(s, f, t) ==
    Beyond(f, s.ld) /\ Still(t, s) /\ t.ld = s.ld /\ t.stop /\ ~ t.over /\ t.insrt = s.insrt

\* ld has what it asks for, or nothing can be had.
Over(s, t) == Still(t, s) /\ t.ld = s.ld /\ t.stop /\ t.over

\* ld replaces f, and if it is of its type, also where f reaches beyond ld.
Taken(s, f, t) ==
    LET ld   == s.ld
        same == f.type = ld.type
    IN  /\ Took(t, s, f, {}) /\ ~ t.over /\ ~ t.enolck
        /\ t.ld.owner = ld.owner /\ t.ld.type = ld.type
        /\ t.ld.start <= f.start /\ f.end <= t.ld.end
        /\ \/ ld.start < f.start /\ t.ld.start = ld.start /\ t.insrt = s.insrt
           \/ ld.start = f.start /\ t.ld.start = ld.start /\ t.insrt = Prev(s.list, At(f))
           \/ /\ f.start < ld.start /\ same /\ ld.start <= f.end + 1
              /\ t.ld.start = f.start /\ t.insrt = Prev(s.list, At(f))
        /\ \/ t.ld.end = ld.end
           \/ ld.end < f.end /\ same /\ f.start - 1 <= ld.end /\ t.ld.end = f.end
        /\ t.stop => same /\ t.ld.end = f.end /\ t.ld.start = ld.start

\* f, of another type, ends in ld.
Trimmed(s, f, t) ==
    /\ f.start < s.ld.start /\ s.ld.start <= f.end /\ f.end <= s.ld.end /\ f.type # s.ld.type
    /\ t.ld = s.ld /\ t.insrt = At(f) /\ Going(t)
    /\ \E g : Piece(g, f, f.start, s.ld.start - 1) /\ Took(t, s, f, {g})

\* ld ends in f, which is of another type.
Parted(s, f, t) ==
    /\ f.start <= s.ld.end /\ s.ld.start <= f.end /\ s.ld.end < f.end /\ f.type # s.ld.type
    /\ t.ld = s.ld /\ t.stop /\ ~ t.over
    /\ \E e : /\ Piece(e, f, s.ld.end + 1, f.end)
              /\ \/ /\ f.start < s.ld.start /\ t.insrt = At(f)
                    /\ \E g : Piece(g, f, f.start, s.ld.start - 1) /\ Took(t, s, f, {g, e})
                 \/ s.ld.start < f.start /\ t.insrt = s.insrt /\ Took(t, s, f, {e})
                 \/ s.ld.start = f.start /\ t.insrt = Prev(s.list, At(f)) /\ Took(t, s, f, {e})

Outcome(s, f, t) ==
    \/ WalkedBy(s, f, t) \/ Passed(s, f, t) \/ Over(s, t)
    \/ Taken(s, f, t) \/ Trimmed(s, f, t) \/ Parted(s, f, t)

\* A turn has one of these outcomes.
LEMMA TurnOutcome ==
    ASSUME NEW s \in Good, Sane(s.list), NEW f \in ToSet(s.list), Going(s),
           NEW t, Turn(s, f, t)
    PROVE  Outcome(s, f, t)
<1> DEFINE a == s.ld.start  b == s.ld.end  c == f.start  e == f.end
           same == s.ld.type = f.type
           p == FromPrev(s, f)
<1>0. /\ s \in Scans /\ f \in LockType /\ a <= b /\ a \in Int /\ b \in Int /\ c \in Int /\ e \in Int
      /\ c <= e /\ ~ s.stop /\ ~ s.over /\ ~ s.enolck /\ c \in Byte /\ e \in Byte
  BY Found, ScanFields, LockFields DEF Good, Proper, Going, LockType
<1>1. /\ p \in Scans /\ p.ld = s.ld /\ p.list = s.list /\ p.woken = s.woken /\ p.room = s.room
      /\ p.insrt = Prev(s.list, At(f)) /\ Going(p)
  BY <1>0, FromPrevIs DEF Going
<1>2. p \in Good
  BY <1>1 DEF Good
<1> HIDE DEF p
<1>3. \A u, new : /\ Took(u, p, f, new) => Took(u, s, f, new)
                  /\ Still(u, p) => Still(u, s)
  BY <1>1 DEF Took, Still
<1>4. /\ Took(Delflck(s, f), s, f, {}) /\ SameScan(Delflck(s, f), s)
      /\ Delflck(s, f) \in Scans
  BY <1>0, DelflckTook, DelflckIs
<1>5. /\ Took(Delflck(p, f), s, f, {}) /\ SameScan(Delflck(p, f), p)
  <2>1. Took(Delflck(p, f), p, f, {})
    BY <1>1, DelflckTook
  <2> QED BY <1>0, <1>1, <1>3, <2>1, DelflckIs
<1>6. CASE e + 1 < a /\ t = [s EXCEPT !.insrt = At(f)]
  <2>1. Clear(f, s.ld)
    BY <1>0, <1>6 DEF Clear
  <2>2. Still(t, s) /\ t.ld = s.ld /\ Going(t) /\ t.insrt = At(f)
    BY <1>0, <1>6 DEF Still, Going, Scans
  <2> QED BY <2>1, <2>2 DEF Outcome, WalkedBy
<1>7. CASE a = e + 1 /\ ~ same /\ t = s
  <2>1. Clear(f, s.ld)
    BY <1>0, <1>7 DEF Clear
  <2> QED BY <1>0, <1>7, <2>1 DEF Outcome, WalkedBy, Still
<1>8. CASE c < a /\ a <= e + 1 /\ e < b /\ same /\ t = JoinBefore(s, f)
  <2> DEFINE u == [p EXCEPT !.ld.start = f.start]
  <2>1. u \in Scans
    BY <1>0, <1>1, SetFields
  <2>2. /\ u.list = s.list /\ u.room = s.room /\ u.woken = s.woken /\ u.insrt = p.insrt
        /\ Going(u) /\ u.ld = [s.ld EXCEPT !.start = c]
    BY <1>1 DEF Scans, Going
  <2>3. u.ld.start = c /\ u.ld.end = b /\ u.ld.owner = s.ld.owner /\ u.ld.type = s.ld.type
    BY <1>0, <2>2 DEF Scans, Asking
  <2>4. t = Delflck(u, f)
    BY <1>8 DEF JoinBefore, p
  <2> HIDE DEF u
  <2>5. Took(t, u, f, {}) /\ SameScan(t, u)
    BY <1>0, <2>1, <2>2, <2>4, DelflckTook, DelflckIs
  <2>6. Took(t, s, f, {})
    BY <2>2, <2>5 DEF Took
  <2>7. e <= b /\ c <= c
    BY <1>0, <1>8
  <2>8. Taken(s, f, t)
    BY <1>1, <1>8, <2>2, <2>3, <2>5, <2>6, <2>7 DEF Taken, SameScan, Going
  <2> QED BY <2>8 DEF Outcome
<1>9. CASE t = AlreadySet(s)
  BY <1>0, <1>9 DEF Outcome, Over, Still, AlreadySet, Scans
<1>10. CASE c < a /\ a <= e /\ b < e /\ ~ same /\ t = CutEnd(s, f, TRUE)
  <2>1. c <= b /\ t.ld = s.ld
    <3>1. a - 1 \in Byte
      <4>1. 0 <= c /\ a <= MAXEND /\ MAXEND \in Int
        BY <1>0, ScanFields, LockFields, SizesAssumption DEF Byte
      <4> QED BY <1>0, <1>10, <4>1 DEF Byte
    <3>2. TRUE \in BOOLEAN /\ s.ld.end < f.end /\ (TRUE => s.ld.start - 1 \in Byte)
      BY <1>10, <3>1
    <3>3. CutEnd(s, f, TRUE).ld = s.ld
      BY <1>0, <3>2, CutEndType
    <3>4. c <= b
      BY <1>0, <1>10
    <3> QED BY <1>10, <3>3, <3>4
  <2>2. CASE Still(t, s) /\ t.over /\ t.stop
    BY <2>1, <2>2 DEF Outcome, Over
  <2>3. ASSUME NEW x, Piece(x, f, b + 1, e), t.stop, t.over = s.over, t.insrt = At(f),
               NEW g, Piece(g, f, c, a - 1), Took(t, s, f, {g, x})
        PROVE  Parted(s, f, t)
    BY <1>0, <1>10, <2>1, <2>3 DEF Parted
  <2>4. \/ Still(t, s) /\ t.over /\ t.stop
        \/ \E x : /\ Piece(x, f, b + 1, e) /\ t.stop /\ t.over = s.over /\ t.insrt = At(f)
                  /\ \E g : Piece(g, f, c, a - 1) /\ Took(t, s, f, {g, x})
    BY <1>0, <1>10, <2>1, SplitTook
  <2> QED BY <2>2, <2>3, <2>4 DEF Outcome
<1>11. CASE c < a /\ a <= e /\ e <= b /\ ~ same /\ t = Trim(s, f)
  <2>1. \E g : Piece(g, f, c, a - 1) /\ Took(t, s, f, {g})
    BY <1>0, <1>11, TrimTook
  <2>2. t.ld = s.ld /\ t.insrt = At(f) /\ Going(t)
    BY <1>0, <1>11 DEF Trim, Scans, Going
  <2> QED BY <1>11, <2>1, <2>2 DEF Outcome, Trimmed
<1>12. CASE c = a /\ b < e /\ ~ same /\ t = CutEnd(p, f, FALSE)
  <2>1. c <= b /\ a <= e /\ t.ld = s.ld
    BY <1>0, <1>1, <1>12, CutEndType
  <2>2. CASE Still(t, p) /\ t.over /\ t.stop
    BY <1>3, <2>1, <2>2 DEF Outcome, Over
  <2>3. ASSUME NEW x, Piece(x, f, b + 1, e), t.stop, t.over = p.over, t.insrt = p.insrt,
               Took(t, p, f, {x})
        PROVE  Parted(s, f, t)
    BY <1>1, <1>3, <1>12, <2>1, <2>3 DEF Parted, Going
  <2>4. \/ Still(t, p) /\ t.over /\ t.stop
        \/ \E x : /\ Piece(x, f, b + 1, e) /\ t.stop /\ t.over = p.over /\ t.insrt = p.insrt
                  /\ Took(t, p, f, {x})
    <3>1. Sane(p.list) /\ f \in ToSet(p.list) /\ ~ p.enolck /\ p.ld = s.ld
      BY <1>1 DEF Going
    <3>2. FALSE \in BOOLEAN
      OBVIOUS
    <3> QED BY <1>2, <1>12, <2>1, <3>1, <3>2, SplitTook
  <2> QED BY <2>2, <2>3, <2>4 DEF Outcome
<1>13. CASE c = a /\ e <= b /\ t = Delflck(p, f)
  <2>1. t.ld = s.ld /\ t.insrt = Prev(s.list, At(f)) /\ Going(t)
    BY <1>1, <1>5, <1>13 DEF SameScan, Going
  <2> QED BY <1>0, <1>5, <1>13, <2>1 DEF Outcome, Taken, Going
<1>14. CASE a < c /\ (b < c - 1 \/ (b = c - 1 /\ ~ same)) /\ t = Stop(s)
  <2>1. Beyond(f, s.ld)
    BY <1>0, <1>14 DEF Beyond
  <2> QED BY <1>0, <1>14, <2>1, StopIs DEF Outcome, Passed, Still
<1>15. CASE a < c /\ c - 1 <= b /\ b < e /\ same /\ t = Stop(JoinAfter(s, f))
  <2> DEFINE u == [s EXCEPT !.ld.end = f.end]
             v == Delflck(u, f)
  <2>1. u \in Scans
    BY <1>0, SetFields
  <2>2. /\ u.list = s.list /\ u.room = s.room /\ u.woken = s.woken /\ u.insrt = s.insrt
        /\ Going(u) /\ u.ld = [s.ld EXCEPT !.end = e]
    BY <1>0 DEF Scans, Going
  <2>3. u.ld.start = a /\ u.ld.end = e /\ u.ld.owner = s.ld.owner /\ u.ld.type = s.ld.type
    BY <1>0, <2>2 DEF Scans, Asking
  <2>4. t = Stop(v)
    BY <1>15 DEF JoinAfter
  <2> HIDE DEF u
  <2>5. Took(v, u, f, {}) /\ SameScan(v, u) /\ v \in Scans
    BY <1>0, <2>1, <2>2, DelflckTook, DelflckIs
  <2> HIDE DEF v
  <2>6. /\ t.list = v.list /\ t.room = v.room /\ t.woken = v.woken /\ t.insrt = v.insrt
        /\ t.ld = v.ld /\ t.stop /\ t.over = v.over /\ t.enolck = v.enolck
    BY <2>4, <2>5, StopIs
  <2>7. Took(t, s, f, {})
    BY <2>2, <2>5, <2>6 DEF Took
  <2>8. e <= e /\ a <= c
    BY <1>0, <1>15
  <2>9. Taken(s, f, t)
    BY <1>15, <2>2, <2>3, <2>5, <2>6, <2>7, <2>8 DEF Taken, SameScan, Going
  <2> QED BY <2>9 DEF Outcome
<1>16. CASE a < c /\ c <= b /\ b < e /\ ~ same /\ t = CutEnd(s, f, FALSE)
  <2>1. a <= e /\ t.ld = s.ld
    <3>1. FALSE \in BOOLEAN /\ s.ld.end < f.end /\ (FALSE => s.ld.start - 1 \in Byte)
      BY <1>16
    <3>2. CutEnd(s, f, FALSE).ld = s.ld
      BY <1>0, <3>1, CutEndType
    <3>3. a <= e
      BY <1>0, <1>16
    <3> QED BY <1>16, <3>2, <3>3
  <2>2. CASE Still(t, s) /\ t.over /\ t.stop
    BY <2>1, <2>2 DEF Outcome, Over
  <2>3. ASSUME NEW x, Piece(x, f, b + 1, e), t.stop, t.over = s.over, t.insrt = s.insrt,
               Took(t, s, f, {x})
        PROVE  Parted(s, f, t)
    BY <1>0, <1>16, <2>1, <2>3 DEF Parted
  <2>4. \/ Still(t, s) /\ t.over /\ t.stop
        \/ \E x : /\ Piece(x, f, b + 1, e) /\ t.stop /\ t.over = s.over /\ t.insrt = s.insrt
                  /\ Took(t, s, f, {x})
    <3>1. FALSE \in BOOLEAN /\ f.start <= s.ld.end /\ s.ld.end < f.end /\ ~ s.enolck
      BY <1>0, <1>16
    <3> QED BY <1>16, <3>1, SplitTook
  <2> QED BY <2>2, <2>3, <2>4 DEF Outcome
<1>17. CASE a < c /\ b = e /\ t = [Delflck(s, f) EXCEPT !.stop = same]
  <2> DEFINE v == Delflck(s, f)
  <2>1. Took(v, s, f, {}) /\ SameScan(v, s) /\ v \in Scans /\ t = [v EXCEPT !.stop = same]
    BY <1>4, <1>17
  <2> HIDE DEF v
  <2>2. /\ t.list = v.list /\ t.room = v.room /\ t.woken = v.woken /\ t.insrt = v.insrt
        /\ t.ld = v.ld /\ t.stop = same /\ t.over = v.over /\ t.enolck = v.enolck
    BY <2>1 DEF Scans
  <2>3. Took(t, s, f, {})
    BY <2>1, <2>2 DEF Took
  <2>4. a <= c /\ e <= b
    BY <1>0, <1>17
  <2>5. Taken(s, f, t)
    BY <1>0, <1>17, <2>1, <2>2, <2>3, <2>4 DEF Taken, SameScan
  <2> QED BY <2>5 DEF Outcome
<1>18. CASE a < c /\ e < b /\ t = Delflck(s, f)
  <2>1. t.ld = s.ld /\ t.insrt = s.insrt /\ Going(t)
    BY <1>0, <1>4, <1>18 DEF SameScan, Going
  <2>2. a <= c /\ e <= b
    BY <1>0, <1>18
  <2>3. Taken(s, f, t)
    BY <1>4, <1>18, <2>1, <2>2 DEF Taken, Going
  <2> QED BY <2>3 DEF Outcome
<1> HIDE DEF a, b, c, e, same
<1> QED
  BY <1>6, <1>7, <1>8, <1>9, <1>10, <1>11, <1>12, <1>13, <1>14, <1>15, <1>16, <1>17, <1>18
  DEF Turn, a, b, c, e, same, p
-----------------------------------------------------------------------------
(* What a scan of the list l for r keeps *)

\* A lock of S, of type t, gives o byte b.
Holds(S, o, b, t) == \E f \in S : On(f, o, b, t)

InLd(b, ld) == ld.start <= b /\ b <= ld.end

\* The locks S that are left of the locks L: those of others are the same; the
\* owner of r keeps what is outside ld and gains nothing; and where ld reaches
\* beyond r, L holds the type that r asks for.
BytesKept(S, L, ld, r) ==
    /\ \A f : f.owner # r.owner => (f \in S <=> f \in L)
    /\ \A b \in Byte : \A t :
         /\ ~ InLd(b, ld) => (Holds(S, r.owner, b, t) <=> Holds(L, r.owner, b, t))
         /\ Holds(S, r.owner, b, t) => Holds(L, r.owner, b, t)
    /\ \A b \in Byte : InLd(b, ld) /\ ~ InLd(b, r) => Holds(L, r.owner, b, r.type)

\* Whoever was told to wait for a lock that is not there any more is woken.
Told(S, L, woken) == \A f \in L : f.wakeflg => f \in S \/ At(f) \in woken

Kept(s, L, r, n) ==
    /\ s \in Good /\ Sane(s.list)
    /\ s.ld.owner = r.owner /\ s.ld.type = r.type
    /\ s.ld.start <= r.start /\ r.end <= s.ld.end
    /\ Len(s.list) + s.room = n
    /\ BytesKept(ToSet(s.list), L, s.ld, r)
    /\ Told(ToSet(s.list), L, s.woken)

\* Pieces of f replace it, f is outside ld nowhere that its pieces are not, and
\* ld grows only where f was.
LEMMA TookKept ==
    ASSUME NEW L, NEW r, NEW n, NEW s, Kept(s, L, r, n), NEW f \in ToSet(s.list), f.owner = r.owner,
           NEW t \in Good, NEW new, Took(t, s, f, new),
           \A g \in new : /\ g.owner = f.owner /\ g.type = f.type
                          /\ \A b \in Byte : InLd(b, g) => InLd(b, f),
           t.ld.owner = s.ld.owner, t.ld.type = s.ld.type,
           t.ld.start <= s.ld.start, s.ld.end <= t.ld.end,
           \A b \in Byte : InLd(b, f) /\ ~ InLd(b, t.ld) => \E g \in new : InLd(b, g),
           \A b \in Byte : InLd(b, t.ld) /\ ~ InLd(b, s.ld) => f.type = r.type /\ InLd(b, f),
           r.start \in Int, r.end \in Int
    PROVE  Kept(t, L, r, n)
<1> DEFINE S == ToSet(s.list)  S2 == ToSet(t.list)
<1>1. /\ s.ld.start \in Int /\ s.ld.end \in Int /\ t.ld.start \in Int /\ t.ld.end \in Int
      /\ s.ld.start <= r.start /\ r.end <= s.ld.end /\ BytesKept(S, L, s.ld, r) /\ f \in S
      /\ Told(S, L, s.woken) /\ Byte \in SUBSET Int
  BY ScanFields, SizesAssumption DEF Kept, Good, Byte
<1>2. S2 = (S \ {f}) \cup new
  BY DEF Took
<1> HIDE DEF S, S2
<1>3. \A g : g.owner # r.owner => (g \in S2 <=> g \in L)
  BY <1>1, <1>2 DEF BytesKept
<1>4. ASSUME NEW b \in Byte, InLd(b, s.ld) PROVE InLd(b, t.ld)
  BY <1>1, <1>4 DEF InLd
<1>5. ASSUME NEW b \in Byte, NEW y, Holds(S2, r.owner, b, y) PROVE Holds(S, r.owner, b, y)
  <2>1. PICK g \in S2 : On(g, r.owner, b, y)
    BY <1>5 DEF Holds
  <2>2. CASE g \in S
    BY <2>1, <2>2 DEF Holds
  <2>3. CASE g \in new
    <3>1. On(f, r.owner, b, y)
      BY <2>1, <2>3 DEF On, InLd
    <3> QED BY <1>1, <3>1 DEF Holds
  <2> QED BY <1>2, <2>2, <2>3
<1>6. ASSUME NEW b \in Byte, NEW y, ~ InLd(b, t.ld), Holds(S, r.owner, b, y)
      PROVE  Holds(S2, r.owner, b, y)
  <2>1. PICK g \in S : On(g, r.owner, b, y)
    BY <1>6 DEF Holds
  <2>2. CASE g = f
    <3>1. InLd(b, f)
      BY <2>1, <2>2 DEF On, InLd
    <3>2. PICK h \in new : InLd(b, h)
      BY <1>6, <3>1
    <3>3. On(h, r.owner, b, y)
      BY <2>1, <2>2, <3>2 DEF On, InLd
    <3> QED BY <1>2, <3>3 DEF Holds
  <2>3. CASE g # f
    BY <1>2, <2>1, <2>3 DEF Holds
  <2> QED BY <2>2, <2>3
<1>7. ASSUME NEW b \in Byte, InLd(b, t.ld), ~ InLd(b, r) PROVE Holds(L, r.owner, b, r.type)
  <2>1. CASE InLd(b, s.ld)
    BY <1>1, <1>7, <2>1 DEF BytesKept
  <2>2. CASE ~ InLd(b, s.ld)
    <3>1. On(f, r.owner, b, r.type)
      BY <1>7, <2>2 DEF On, InLd
    <3>2. Holds(S, r.owner, b, r.type)
      BY <1>1, <3>1 DEF Holds
    <3> QED BY <1>1, <3>2 DEF BytesKept
  <2> QED BY <2>1, <2>2
<1>8. BytesKept(S2, L, t.ld, r)
  <2>1. ASSUME NEW b \in Byte, NEW y
        PROVE  /\ ~ InLd(b, t.ld) => (Holds(S2, r.owner, b, y) <=> Holds(L, r.owner, b, y))
               /\ Holds(S2, r.owner, b, y) => Holds(L, r.owner, b, y)
    <3>1. /\ ~ InLd(b, s.ld) => (Holds(S, r.owner, b, y) <=> Holds(L, r.owner, b, y))
          /\ Holds(S, r.owner, b, y) => Holds(L, r.owner, b, y)
      BY <1>1 DEF BytesKept
    <3> QED BY <1>4, <1>5, <1>6, <3>1
  <2> QED BY <1>3, <1>7, <2>1 DEF BytesKept
<1>9. Told(S2, L, t.woken)
  <2>1. s.woken \subseteq t.woken /\ (f.wakeflg => At(f) \in t.woken)
    BY DEF Took
  <2> QED BY <1>1, <1>2, <2>1 DEF Told
<1>10. t.ld.start <= r.start /\ r.end <= t.ld.end
  BY <1>1
<1> QED BY <1>8, <1>9, <1>10 DEF Kept, Took, S2

\* With the same list and the same ld nothing changes.
LEMMA StillKept ==
    ASSUME NEW L, NEW r, NEW n, NEW s, Kept(s, L, r, n), NEW t \in Good, Still(t, s), t.ld = s.ld
    PROVE  Kept(t, L, r, n)
BY DEF Kept, Still

\* at leads to the place of what starts at byte x.
Leads(S, at, x) ==
    \/ at = NULL /\ \A f \in S : x <= f.start
    \/ \E f \in S : at = At(f) /\ f.start <= x

\* flp->prev leads to where the lock was.
LEMMA PrevLeads ==
    ASSUME NEW l, Sane(l), NEW f \in ToSet(l)
    PROVE  Leads(ToSet(l) \ {f}, Prev(l, At(f)), f.start)
<1> DEFINE k == Pos(l, At(f))
<1>1. k \in 1 .. Len(l) /\ l[k] = f /\ l \in Seq(LockType) /\ Len(l) \in Nat
  BY Found DEF Sane
<1> HIDE DEF k
<1>2. Prev(l, At(f)) = IF k = 1 THEN NULL ELSE At(l[k - 1])
  BY <1>1, PrevIs
<1>3. CASE k = 1
  <2>1. ASSUME NEW g \in ToSet(l) PROVE f.start <= g.start
    <3>1. PICK i \in 1 .. Len(l) : g = l[i]
      BY <1>1, Members
    <3>2. k <= i
      BY <1>3, <3>1
    <3> QED BY <1>1, <3>1, <3>2, InOrder
  <2> QED BY <1>2, <1>3, <2>1 DEF Leads
<1>4. CASE k # 1
  <2>1. k - 1 \in 1 .. Len(l) /\ k - 1 <= k /\ k - 1 # k
    BY <1>1, <1>4
  <2>2. l[k - 1].start <= f.start
    BY <1>1, <2>1, InOrder
  <2>3. l[k - 1] # f
    BY <1>1, <2>1, AtUnique
  <2>4. l[k - 1] \in ToSet(l)
    BY <1>1, <2>1, Members
  <2> QED BY <1>2, <1>4, <2>2, <2>3, <2>4 DEF Leads
<1> QED BY <1>3, <1>4

\* The own locks are before or behind ld.
Settled(s) ==
    \A g \in ToSet(s.list) : g.owner = s.ld.owner => Clear(g, s.ld) \/ Beyond(g, s.ld)

\* A scan of L that has the locks T before it.  The order of the list makes
\* room for ld: the place is right, the own locks that were looked at are
\* before ld, and when the scan stops ld has a gap of its own.
Scan(s, L, r, n, T) ==
    /\ Kept(s, L, r, n)
    /\ r.type # "un" /\ ~ s.over => Leads(ToSet(s.list), s.insrt, s.ld.start)
    /\ IF s.stop THEN s.over \/ Settled(s)
       ELSE /\ Going(s) /\ T \subseteq ToSet(s.list)
            /\ \A g \in ToSet(s.list) : g.owner = r.owner => g \in T \/ Clear(g, s.ld)

\* The integers of a turn.
LEMMA TurnNumbers ==
    ASSUME NEW s \in Good, Sane(s.list)
    PROVE  /\ s.ld.start \in Int /\ s.ld.end \in Int /\ s.ld.start <= s.ld.end
           /\ \A g \in ToSet(s.list) : /\ g.start \in Int /\ g.end \in Int /\ g.start <= g.end
                                       /\ g \in LockType
           /\ Byte \in SUBSET Int
<1>1. ASSUME NEW g \in ToSet(s.list)
      PROVE  g.start \in Int /\ g.end \in Int /\ g.start <= g.end /\ g \in LockType
  BY Found, LockFields DEF Proper
<1> QED BY <1>1, ScanFields, SizesAssumption DEF Good, Proper, Byte

\* When f is before ld, the scan goes on.
LEMMA WalkedByScans ==
    ASSUME NEW L, NEW r, NEW n, NEW T, NEW s, Scan(s, L, r, n, T), ~ s.stop,
           NEW f \in T, NEW t \in Good, WalkedBy(s, f, t)
    PROVE  Scan(t, L, r, n, T \ {f})
<1>1. /\ Kept(s, L, r, n) /\ s \in Good /\ Sane(s.list) /\ t.list = s.list /\ t.ld = s.ld
      /\ Going(t) /\ ~ t.stop /\ ~ s.over /\ f \in ToSet(s.list) /\ T \subseteq ToSet(s.list)
      /\ \A g \in ToSet(s.list) : g.owner = r.owner => g \in T \/ Clear(g, s.ld)
  BY DEF Scan, Kept, WalkedBy, Still, Going
<1>2. Kept(t, L, r, n)
  BY <1>1, StillKept DEF WalkedBy
<1>3. r.type # "un" => Leads(ToSet(t.list), t.insrt, t.ld.start)
  <2> SUFFICES ASSUME r.type # "un" PROVE Leads(ToSet(t.list), t.insrt, t.ld.start)
    OBVIOUS
  <2>1. CASE t.insrt = s.insrt
    BY <1>1, <2>1 DEF Scan
  <2>2. CASE t.insrt = At(f)
    <3>1. f.start <= s.ld.start
      <4>1. f.start \in Int /\ f.end \in Int /\ f.start <= f.end /\ s.ld.start \in Int
        BY <1>1, TurnNumbers
      <4> QED BY <4>1 DEF WalkedBy, Clear
    <3> QED BY <1>1, <2>2, <3>1 DEF Leads
  <2> QED BY <2>1, <2>2 DEF WalkedBy
<1>4. \A g \in ToSet(t.list) : g.owner = r.owner => g \in T \ {f} \/ Clear(g, t.ld)
  BY <1>1 DEF WalkedBy
<1> QED BY <1>1, <1>2, <1>3, <1>4 DEF Scan

\* When f is behind ld, all that come are.
LEMMA PassedScans ==
    ASSUME NEW L, NEW r, NEW n, NEW T, NEW s, Scan(s, L, r, n, T), ~ s.stop,
           NEW f \in T, f.owner = r.owner,
           \A g \in T : g.owner = r.owner /\ g # f => Before(f, g),
           NEW t \in Good, Passed(s, f, t)
    PROVE  Scan(t, L, r, n, T \ {f})
<1>1. /\ Kept(s, L, r, n) /\ s \in Good /\ Sane(s.list) /\ t.list = s.list /\ t.ld = s.ld
      /\ t.stop /\ ~ t.over /\ ~ s.over /\ f \in ToSet(s.list) /\ T \subseteq ToSet(s.list)
      /\ \A g \in ToSet(s.list) : g.owner = r.owner => g \in T \/ Clear(g, s.ld)
      /\ s.ld.owner = r.owner
  BY DEF Scan, Kept, Passed, Still, Going
<1>2. Kept(t, L, r, n)
  BY <1>1, StillKept DEF Passed
<1>3. r.type # "un" => Leads(ToSet(t.list), t.insrt, t.ld.start)
  BY <1>1 DEF Scan, Passed
<1>4. ASSUME NEW g \in ToSet(s.list), g.owner = r.owner, g \in T PROVE Beyond(g, s.ld)
  <2>1. /\ f.start \in Int /\ f.end \in Int /\ f.start <= f.end /\ s.ld.end \in Int
        /\ g.start \in Int /\ Beyond(f, s.ld)
    BY <1>1, TurnNumbers DEF Passed
  <2>2. CASE g # f
    <3>1. f.end < (IF f.type = g.type THEN g.start - 1 ELSE g.start)
      BY <1>4, <2>2 DEF Before
    <3> QED BY <2>1, <3>1 DEF Beyond
  <2> QED BY <2>1, <2>2
<1>5. Settled(t)
  BY <1>1, <1>4 DEF Settled
<1> QED BY <1>1, <1>2, <1>3, <1>5 DEF Scan

\* When it is over, it stays as it is.
LEMMA OverScans ==
    ASSUME NEW L, NEW r, NEW n, NEW T, NEW s, Scan(s, L, r, n, T), NEW f,
           NEW t \in Good, Over(s, t)
    PROVE  Scan(t, L, r, n, T \ {f})
<1>1. Kept(t, L, r, n)
  BY StillKept DEF Over, Scan
<1> QED BY <1>1 DEF Scan, Over

\* When ld replaces f, it stays in its gap.
LEMMA TakenScans ==
    ASSUME NEW L, NEW r, NEW n, NEW T, NEW s, Scan(s, L, r, n, T), ~ s.stop,
           NEW f \in T, f.owner = r.owner,
           \A g \in T : g.owner = r.owner /\ g # f => Before(f, g),
           NEW t \in Good, Taken(s, f, t), r.start \in Int, r.end \in Int
    PROVE  Scan(t, L, r, n, T \ {f})
<1> DEFINE S == ToSet(s.list)
           a == s.ld.start  b == s.ld.end  c == f.start  e == f.end
           x == t.ld.start  y == t.ld.end
<1>1. /\ Kept(s, L, r, n) /\ s \in Good /\ Sane(s.list) /\ Took(t, s, f, {})
      /\ ~ s.over /\ f \in S /\ T \subseteq S
      /\ \A g \in S : g.owner = r.owner => g \in T \/ Clear(g, s.ld)
      /\ s.ld.owner = r.owner /\ s.ld.type = r.type
      /\ t.ld.owner = s.ld.owner /\ t.ld.type = s.ld.type
  BY DEF Scan, Kept, Taken, Going
<1>2. /\ a \in Int /\ b \in Int /\ c \in Int /\ e \in Int /\ x \in Int /\ y \in Int
      /\ a <= b /\ c <= e /\ x <= y /\ Byte \in SUBSET Int
      /\ \A g \in S : g.start \in Int /\ g.end \in Int /\ g.start <= g.end
  <2>1. Sane(t.list)
    BY <1>1 DEF Took
  <2> QED BY <1>1, <2>1, TurnNumbers
<1>3. x <= c /\ e <= y /\ x <= a /\ b <= y
  BY <1>2 DEF Taken
<1>4. Kept(t, L, r, n)
  <2>1. ASSUME NEW k \in Byte, InLd(k, t.ld), ~ InLd(k, s.ld) PROVE f.type = r.type /\ InLd(k, f)
    <3>1. x <= k /\ k <= y /\ (k < a \/ b < k) /\ k \in Int
      BY <1>2, <2>1 DEF InLd
    <3>2. CASE k < a
      <4>1. c < a /\ f.type = s.ld.type /\ a <= e + 1 /\ x = c
        BY <1>2, <3>1, <3>2 DEF Taken
      <4> QED BY <1>1, <1>2, <3>1, <3>2, <4>1 DEF InLd
    <3>3. CASE b < k
      <4>1. b < e /\ f.type = s.ld.type /\ c - 1 <= b /\ y = e
        BY <1>2, <3>1, <3>3 DEF Taken
      <4> QED BY <1>1, <1>2, <3>1, <3>3, <4>1 DEF InLd
    <3> QED BY <3>1, <3>2, <3>3
  <2>2. ASSUME NEW k \in Byte, InLd(k, f), ~ InLd(k, t.ld) PROVE FALSE
    <3>1. k \in Int
      BY <1>2
    <3> QED BY <1>2, <1>3, <2>2, <3>1 DEF InLd
  <2> QED BY <1>1, <1>3, <2>1, <2>2, TookKept
<1>5. ToSet(t.list) = S \ {f}
  BY <1>1 DEF Took
<1>6. r.type # "un" => Leads(ToSet(t.list), t.insrt, x)
  <2> SUFFICES ASSUME r.type # "un" PROVE Leads(S \ {f}, t.insrt, x)
    BY <1>5
  <2>1. CASE a < c /\ x = a /\ t.insrt = s.insrt
    <3>1. Leads(S, s.insrt, a)
      BY <1>1 DEF Scan
    <3>2. ASSUME NEW g \in S, g.start <= a PROVE g # f
      BY <1>2, <2>1, <3>2
    <3> HIDE DEF S, a, c, x
    <3> QED BY <2>1, <3>1, <3>2 DEF Leads
  <2>2. CASE x = c /\ t.insrt = Prev(s.list, At(f))
    BY <1>1, <2>2, PrevLeads
  <2> QED BY <2>1, <2>2 DEF Taken
<1>7. CASE ~ t.stop
  <2>1. ASSUME NEW g \in S, g # f, g.owner = r.owner, g \notin T PROVE Clear(g, t.ld)
    <3>1. Clear(g, s.ld)
      BY <1>1, <2>1
    <3>2. CASE x = a
      BY <1>1, <3>1, <3>2 DEF Clear
    <3>3. CASE x # a
      <4>1. c < a /\ x = c /\ f.type = s.ld.type /\ a <= e + 1
        BY <1>2, <3>3 DEF Taken
      <4>2. Before(f, g) \/ Before(g, f)
        BY <1>1, <2>1, Ordered
      <4>3. CASE Before(f, g)
        <5>1. e < (IF f.type = g.type THEN g.start - 1 ELSE g.start)
          BY <2>1, <4>3 DEF Before
        <5>2. g.end < a /\ g.start <= g.end /\ g.start \in Int /\ g.end \in Int
          BY <1>2, <3>1, <2>1 DEF Clear
        <5> QED BY <1>2, <4>1, <5>1, <5>2
      <4>4. CASE Before(g, f)
        <5>1. g.end < (IF g.type = f.type THEN c - 1 ELSE c)
          BY <2>1, <4>4 DEF Before
        <5> QED BY <1>1, <4>1, <5>1 DEF Clear
      <4> QED BY <4>2, <4>3, <4>4
    <3> QED BY <3>2, <3>3
  <2>2. Going(t)
    BY <1>7 DEF Taken, Going
  <2>3. T \ {f} \subseteq ToSet(t.list)
    BY <1>1, <1>5
  <2>4. \A g \in ToSet(t.list) : g.owner = r.owner => g \in T \ {f} \/ Clear(g, t.ld)
    BY <1>5, <2>1
  <2> QED BY <1>4, <1>6, <1>7, <2>2, <2>3, <2>4 DEF Scan
<1>8. CASE t.stop
  <2>1. f.type = s.ld.type /\ y = e /\ x = a
    BY <1>8 DEF Taken
  <2>2. ASSUME NEW g \in S, g # f, g.owner = r.owner PROVE Clear(g, t.ld) \/ Beyond(g, t.ld)
    <3>1. CASE g \in T
      <4>1. e < (IF f.type = g.type THEN g.start - 1 ELSE g.start) /\ g.start \in Int
        BY <1>2, <2>2, <3>1 DEF Before
      <4> QED BY <1>1, <1>2, <2>1, <4>1 DEF Beyond
    <3>2. CASE g \notin T
      BY <1>1, <2>1, <2>2, <3>2 DEF Clear
    <3> QED BY <3>1, <3>2
  <2>3. Settled(t)
    BY <1>1, <1>5, <2>2 DEF Settled
  <2> QED BY <1>4, <1>6, <1>8, <2>3 DEF Scan
<1> QED BY <1>7, <1>8

\* When f keeps its front, that is before ld.
LEMMA TrimmedScans ==
    ASSUME NEW L, NEW r, NEW n, NEW T, NEW s, Scan(s, L, r, n, T), ~ s.stop,
           NEW f \in T, f.owner = r.owner,
           NEW t \in Good, Trimmed(s, f, t), r.start \in Int, r.end \in Int
    PROVE  Scan(t, L, r, n, T \ {f})
<1> DEFINE S == ToSet(s.list)
           a == s.ld.start  b == s.ld.end  c == f.start  e == f.end
<1>1. /\ Kept(s, L, r, n) /\ s \in Good /\ Sane(s.list)
      /\ ~ s.over /\ f \in S /\ T \subseteq S
      /\ \A g \in S : g.owner = r.owner => g \in T \/ Clear(g, s.ld)
      /\ s.ld.owner = r.owner /\ s.ld.type = r.type
      /\ t.ld = s.ld /\ t.insrt = At(f) /\ Going(t) /\ ~ t.stop
      /\ c < a /\ a <= e /\ e <= b /\ f.type # s.ld.type
  BY DEF Scan, Kept, Trimmed, Going
<1>2. /\ a \in Int /\ b \in Int /\ c \in Int /\ e \in Int /\ a <= b /\ c <= e
      /\ Byte \in SUBSET Int
  BY <1>1, TurnNumbers
<1>3. PICK h : Piece(h, f, c, a - 1) /\ Took(t, s, f, {h})
  BY DEF Trimmed
<1>4. Kept(t, L, r, n)
  <2>1. ASSUME NEW k \in Byte, InLd(k, h) PROVE InLd(k, f)
    BY <1>1, <1>2, <1>3, <2>1 DEF InLd, Piece
  <2>2. ASSUME NEW k \in Byte, InLd(k, f), ~ InLd(k, t.ld) PROVE InLd(k, h)
    BY <1>1, <1>2, <1>3, <2>2 DEF InLd, Piece
  <2>3. h.owner = f.owner /\ h.type = f.type
    BY <1>3 DEF Piece
  <2>4. t.ld.start <= s.ld.start /\ s.ld.end <= t.ld.end
    BY <1>1, <1>2
  <2> QED BY <1>1, <1>3, <2>1, <2>2, <2>3, <2>4, TookKept
<1>5. ToSet(t.list) = (S \ {f}) \cup {h}
  BY <1>3 DEF Took
<1>6. Leads(ToSet(t.list), t.insrt, t.ld.start)
  <2>1. At(h) = At(f) /\ h.start <= a
    BY <1>1, <1>2, <1>3 DEF At, Piece
  <2> QED BY <1>1, <1>5, <2>1 DEF Leads
<1>7. Clear(h, t.ld)
  <2>1. h.end < a /\ h.type # t.ld.type
    BY <1>1, <1>2, <1>3 DEF Piece
  <2> QED BY <1>1, <2>1 DEF Clear
<1>8. \A g \in ToSet(t.list) : g.owner = r.owner => g \in T \ {f} \/ Clear(g, t.ld)
  BY <1>1, <1>5, <1>7
<1> QED BY <1>1, <1>4, <1>5, <1>6, <1>8 DEF Scan

\* When f is cut in two, its parts are before and behind ld.
LEMMA PartedScans ==
    ASSUME NEW L, NEW r, NEW n, NEW T, NEW s, Scan(s, L, r, n, T), ~ s.stop,
           NEW f \in T, f.owner = r.owner,
           \A g \in T : g.owner = r.owner /\ g # f => Before(f, g),
           NEW t \in Good, Parted(s, f, t), r.start \in Int, r.end \in Int
    PROVE  Scan(t, L, r, n, T \ {f})
<1> DEFINE S == ToSet(s.list)
           a == s.ld.start  b == s.ld.end  c == f.start  e == f.end
<1>1. /\ Kept(s, L, r, n) /\ s \in Good /\ Sane(s.list)
      /\ ~ s.over /\ f \in S /\ T \subseteq S
      /\ \A g \in S : g.owner = r.owner => g \in T \/ Clear(g, s.ld)
      /\ s.ld.owner = r.owner /\ s.ld.type = r.type
      /\ t.ld = s.ld /\ t.stop /\ ~ t.over
      /\ c <= b /\ a <= e /\ b < e /\ f.type # s.ld.type
  BY DEF Scan, Kept, Parted, Going
<1>2. /\ a \in Int /\ b \in Int /\ c \in Int /\ e \in Int /\ a <= b /\ c <= e
      /\ Byte \in SUBSET Int /\ \A g \in S : g.start \in Int /\ g.end \in Int
  BY <1>1, TurnNumbers
<1>3. PICK x : /\ Piece(x, f, b + 1, e)
               /\ \/ /\ c < a /\ t.insrt = At(f)
                     /\ \E h : Piece(h, f, c, a - 1) /\ Took(t, s, f, {h, x})
                  \/ a < c /\ t.insrt = s.insrt /\ Took(t, s, f, {x})
                  \/ a = c /\ t.insrt = Prev(s.list, At(f)) /\ Took(t, s, f, {x})
  BY DEF Parted
<1>4. /\ x.start = b + 1 /\ x.end = e /\ x.owner = f.owner /\ x.type = f.type
      /\ \A k \in Byte : InLd(k, x) => InLd(k, f)
  <2>1. x.start = b + 1 /\ x.end = e /\ x.owner = f.owner /\ x.type = f.type
    BY <1>3 DEF Piece
  <2>2. ASSUME NEW k \in Byte, InLd(k, x) PROVE InLd(k, f)
    <3>1. k \in Int /\ b + 1 <= k /\ k <= e
      BY <1>2, <2>1, <2>2 DEF InLd
    <3> QED BY <1>1, <1>2, <3>1 DEF InLd
  <2> QED BY <2>1, <2>2
<1>5. t.ld.start <= s.ld.start /\ s.ld.end <= t.ld.end
  BY <1>1, <1>2
<1>6. Beyond(x, s.ld)
  BY <1>1, <1>2, <1>4 DEF Beyond
<1>7. ASSUME NEW g \in S, g # f, g.owner = r.owner PROVE Clear(g, s.ld) \/ Beyond(g, s.ld)
  <2>1. CASE g \in T
    <3>1. e < (IF f.type = g.type THEN g.start - 1 ELSE g.start) /\ g.start \in Int
      BY <1>2, <1>7, <2>1 DEF Before
    <3> QED BY <1>1, <1>2, <3>1 DEF Beyond
  <2> QED BY <1>1, <1>7, <2>1
<1>8. CASE c < a
  <2>1. PICK h : Piece(h, f, c, a - 1) /\ Took(t, s, f, {h, x})
    BY <1>2, <1>3, <1>8
  <2>2. t.insrt = At(f)
    BY <1>2, <1>3, <1>8
  <2>3. /\ h.start = c /\ h.end = a - 1 /\ h.owner = f.owner /\ h.type = f.type
        /\ \A k \in Byte : InLd(k, h) => InLd(k, f)
    <3>1. h.start = c /\ h.end = a - 1 /\ h.owner = f.owner /\ h.type = f.type
      BY <2>1 DEF Piece
    <3> QED BY <1>1, <1>2, <3>1 DEF InLd
  <2>4. Kept(t, L, r, n)
    <3>1. ASSUME NEW k \in Byte, InLd(k, f), ~ InLd(k, t.ld) PROVE InLd(k, h) \/ InLd(k, x)
      BY <1>1, <1>2, <1>4, <2>3, <3>1 DEF InLd
    <3>2. \A g \in {h, x} : /\ g.owner = f.owner /\ g.type = f.type
                            /\ \A k \in Byte : InLd(k, g) => InLd(k, f)
      BY <1>4, <2>3
    <3> QED BY <1>1, <1>5, <2>1, <3>1, <3>2, TookKept
  <2>5. ToSet(t.list) = (S \ {f}) \cup {h, x}
    BY <2>1 DEF Took
  <2>6. Leads(ToSet(t.list), t.insrt, t.ld.start)
    <3>1. At(h) = At(f) /\ h.start <= a
      BY <1>1, <1>2, <1>8, <2>3 DEF At
    <3> QED BY <1>1, <2>2, <2>5, <3>1 DEF Leads
  <2>7. Clear(h, s.ld)
    BY <1>1, <1>2, <2>3 DEF Clear
  <2>8. Settled(t)
    BY <1>1, <1>6, <1>7, <2>5, <2>7 DEF Settled
  <2> QED BY <1>1, <2>4, <2>6, <2>8 DEF Scan
<1>9. CASE ~ (c < a)
  <2>1. Took(t, s, f, {x})
    BY <1>2, <1>3, <1>9
  <2>2. Kept(t, L, r, n)
    <3>1. ASSUME NEW k \in Byte, InLd(k, f), ~ InLd(k, t.ld) PROVE InLd(k, x)
      BY <1>1, <1>2, <1>4, <1>9, <3>1 DEF InLd
    <3>2. \A g \in {x} : /\ g.owner = f.owner /\ g.type = f.type
                         /\ \A k \in Byte : InLd(k, g) => InLd(k, f)
      BY <1>4
    <3> QED BY <1>1, <1>5, <2>1, <3>1, <3>2, TookKept
  <2>3. ToSet(t.list) = (S \ {f}) \cup {x}
    BY <2>1 DEF Took
  <2>4. a <= x.start
    BY <1>2, <1>4
  <2>5. r.type # "un" => Leads(ToSet(t.list), t.insrt, a)
    <3> SUFFICES ASSUME r.type # "un" PROVE Leads((S \ {f}) \cup {x}, t.insrt, a)
      BY <2>3
    <3>1. CASE a < c /\ t.insrt = s.insrt
      <4>1. Leads(S, s.insrt, a)
        BY <1>1 DEF Scan
      <4>2. ASSUME NEW g \in S, g.start <= a PROVE g # f
        BY <1>2, <3>1, <4>2
      <4> HIDE DEF S, a, c
      <4> QED BY <2>4, <3>1, <4>1, <4>2 DEF Leads
    <3>2. CASE a = c /\ t.insrt = Prev(s.list, At(f))
      <4>1. Leads(S \ {f}, t.insrt, a)
        BY <1>1, <3>2, PrevLeads
      <4> HIDE DEF S, a
      <4> QED BY <2>4, <4>1 DEF Leads
    <3> QED BY <1>3, <1>9, <3>1, <3>2
  <2>6. Settled(t)
    BY <1>1, <1>6, <1>7, <2>3 DEF Settled
  <2> QED BY <1>1, <2>2, <2>5, <2>6 DEF Scan
<1> QED BY <1>8, <1>9

\* A turn of the loop keeps all this.
LEMMA LockScans ==
    ASSUME NEW L, NEW r, NEW n, NEW T, NEW s, Scan(s, L, r, n, T),
           NEW f \in T, f \in ToSet(s.list) \/ s.stop,
           \A g \in T : g.owner = r.owner /\ f.owner = r.owner /\ g # f => Before(f, g),
           r.start \in Int, r.end \in Int
    PROVE  Scan(FlckadjLock(s, f), L, r, n, T \ {f})
<1>1. s \in Good /\ Sane(s.list) /\ s.ld.owner = r.owner
  BY DEF Scan, Kept
<1>2. CASE s.stop
  <2>1. FlckadjLock(s, f) = s
    BY <1>2 DEF FlckadjLock
  <2> QED BY <1>2, <2>1 DEF Scan
<1>3. CASE ~ s.stop /\ f.owner # r.owner
  <2>1. FlckadjLock(s, f) = s
    BY <1>1, <1>3 DEF FlckadjLock
  <2>2. \A g \in ToSet(s.list) : g.owner = r.owner => g \in T \ {f} \/ Clear(g, s.ld)
    BY <1>3 DEF Scan
  <2> QED BY <1>3, <2>1, <2>2 DEF Scan
<1>4. CASE ~ s.stop /\ f.owner = r.owner
  <2> DEFINE t == FlckadjOwn(s, f, s.ld.type = f.type, Regflck(s.ld, f))
  <2>1. FlckadjLock(s, f) = t
    BY <1>1, <1>4 DEF FlckadjLock
  <2>2. f \in ToSet(s.list) /\ f \in LockType /\ Proper(f) /\ Going(s)
    BY <1>1, <1>4, Found DEF Scan
  <2>3. Turn(s, f, t)
    BY <1>1, <2>2, OwnTurn DEF Good
  <2> HIDE DEF t
  <2> SUFFICES Scan(t, L, r, n, T \ {f})
    BY <2>1
  <2>4. t \in Good
    BY <1>1, <2>2, <2>3, TurnType
  <2>5. Outcome(s, f, t)
    BY <1>1, <2>2, <2>3, TurnOutcome
  <2>6. \A g \in T : g.owner = r.owner /\ g # f => Before(f, g)
    BY <1>4
  <2>7. CASE WalkedBy(s, f, t)
    BY <1>4, <2>4, <2>7, WalkedByScans
  <2>8. CASE Passed(s, f, t)
    BY <1>4, <2>4, <2>6, <2>8, PassedScans
  <2>9. CASE Over(s, t)
    BY <2>4, <2>9, OverScans
  <2>10. CASE Taken(s, f, t)
    BY <1>4, <2>4, <2>6, <2>10, TakenScans
  <2>11. CASE Trimmed(s, f, t)
    BY <1>4, <2>4, <2>11, TrimmedScans
  <2>12. CASE Parted(s, f, t)
    BY <1>4, <2>4, <2>6, <2>12, PartedScans
  <2> QED BY <2>5, <2>7, <2>8, <2>9, <2>10, <2>11, <2>12 DEF Outcome
<1> QED BY <1>2, <1>3, <1>4
-----------------------------------------------------------------------------
(* The loop of flckadj *)

\* A turn keeps the types, whatever lock it looks at.
LEMMA FlckadjGood ==
    ASSUME NEW s \in Good, NEW f \in LockType, Proper(f)
    PROVE  FlckadjLock(s, f) \in Good
<1> DEFINE t == FlckadjOwn(s, f, s.ld.type = f.type, Regflck(s.ld, f))
<1>1. FlckadjLock(s, f) = IF s.stop \/ f.owner # s.ld.owner THEN s ELSE t
  BY DEF FlckadjLock
<1>2. Turn(s, f, t)
  BY OwnTurn DEF Good
<1> HIDE DEF t
<1>3. t \in Good
  BY <1>2, TurnType
<1> QED BY <1>1, <1>3

\* The scans of a loop over the first n locks of q
Turns(g, q, n, base) ==
    /\ g \in [0 .. n -> Good] /\ g[0] = base /\ g[n] = FoldLeft(FlckadjLock, base, q)
    /\ \A i \in 1 .. n : g[i] = FlckadjLock(g[i - 1], q[i])

\* The fold is a loop.
LEMMA FlckadjTurns ==
    ASSUME NEW q, NEW n \in Nat, DOMAIN q = 1 .. n,
           \A i \in 1 .. n : q[i] \in LockType /\ Proper(q[i]), NEW base \in Good
    PROVE  \E g : Turns(g, q, n, base)
<1> DEFINE V == Good
           turn(v, i) == FlckadjLock(v, q[i])
           IsFold(g) == g = [s \in SUBSET DOMAIN q |->
                               IF s = {} THEN base ELSE turn(g[s \ {Max(s)}], Max(s))]
           it == CHOOSE g : IsFold(g)
           step == [p \in (1 .. n) \X V |-> turn(p[2], p[1])]
           f == [i \in 0 .. n |-> it[1 .. i]]
<1>1. FoldLeft(FlckadjLock, base, q) = it[DOMAIN q]
  BY DEF FoldLeft, MapThenFoldSet
<1>2. base \in V /\ \A v \in V, i \in 1 .. n : turn(v, i) \in V
  BY FlckadjGood
<1> HIDE DEF turn, V
<1>3. \A i \in 1 .. n, v \in V : step[<<i, v>>] = turn(v, i)
  OBVIOUS
<1>4. IsFold(it)
  <2>1. \A i \in 1 .. n, v \in V : step[<<i, v>>] \in V
    <3> HIDE DEF step
    <3>1. ASSUME NEW i \in 1 .. n, NEW v \in V PROVE step[<<i, v>>] \in V
      BY <1>2, <1>3
    <3> QED BY <3>1
  <2>2. PICK g : IsLeftRecursion(g, n, V, base, step)
    <3> HIDE DEF step
    <3> QED BY <1>2, <2>1, LeftRecursion
  <2> HIDE DEF step
  <2>3. \A s \in SUBSET (1 .. n) : s # {} => g[s] = turn(g[s \ {Max(s)}], Max(s))
    BY <1>3, <2>2, MaxIn DEF IsLeftRecursion
  <2>4. IsFold(g)
    BY <2>2, <2>3 DEF IsLeftRecursion
  <2> HIDE DEF IsFold
  <2> QED BY <2>4
<1> HIDE DEF it
<1>5. it[1 .. 0] = base
  BY <1>4, 1 .. 0 = {}
<1>6. ASSUME NEW i \in 1 .. n PROVE it[1 .. i] = turn(it[1 .. (i - 1)], i)
  <2> DEFINE s == 1 .. i
  <2>1. Max(s) = i /\ s \ {i} = 1 .. (i - 1) /\ s \in SUBSET (1 .. n) /\ s # {}
    BY Segments
  <2> HIDE DEF s
  <2>2. it[s] = turn(it[s \ {Max(s)}], Max(s))
    BY <1>4, <2>1
  <2> QED BY <2>1, <2>2 DEF s
<1>7. f[0] = base /\ f[n] = it[1 .. n] /\ \A i \in 1 .. n : f[i] = turn(f[i - 1], i)
  BY <1>5, <1>6
<1>8. f \in [0 .. n -> V]
  <2> DEFINE T == {i \in Nat : i <= n => f[i] \in V}
  <2> HIDE DEF f
  <2>1. 0 \in T
    BY <1>2, <1>7
  <2>2. ASSUME NEW i \in Nat, i \in T PROVE i + 1 \in T
    <3> SUFFICES ASSUME i + 1 <= n PROVE f[i + 1] \in V
      OBVIOUS
    <3>1. f[i] \in V /\ i + 1 \in 1 .. n /\ (i + 1) - 1 = i
      BY <2>2
    <3> QED BY <1>2, <1>7, <3>1
  <2>3. \A i \in Nat : i \in T
    <3> HIDE DEF T
    <3> QED BY <2>1, <2>2, SetInduction
  <2>4. \A i \in 0 .. n : f[i] \in V
    BY <2>3
  <2> QED BY <2>4 DEF f
<1> HIDE DEF f
<1>9. Turns(f, q, n, base)
  BY <1>1, <1>7, <1>8 DEF Turns, turn, V
<1> QED BY <1>9

Begin(l, insrt, r, room, mem) ==
    [list |-> l, insrt |-> insrt, ld |-> r, woken |-> {}, room |-> room,
     mem |-> mem, stop |-> FALSE, over |-> FALSE, enolck |-> FALSE]

\* The scan begins with all in order.
LEMMA BeginScans ==
    ASSUME NEW l, Sane(l), NEW insrt \in Places, NEW r \in Asking, Proper(r),
           NEW room \in Nat, NEW mem \in Nat,
           r.type # "un" => Leads(ToSet(l), insrt, r.start),
           NEW T \in SUBSET ToSet(l),
           \A g \in ToSet(l) : g.owner = r.owner => g \in T \/ Clear(g, r)
    PROVE  LET s == Begin(l, insrt, r, room, mem)
           IN  s \in Good /\ Scan(s, ToSet(l), r, Len(l) + room, T)
<1> DEFINE s == Begin(l, insrt, r, room, mem)
<1>1. /\ s.list = l /\ s.insrt = insrt /\ s.ld = r /\ s.woken = {} /\ s.room = room
      /\ Going(s) /\ s.stop = FALSE /\ s.over = FALSE
  BY DEF Begin, Going
<1>2. s \in Good
  <2>1. s \in Scans
    BY DEF Begin, Scans, Sane
  <2> HIDE DEF s
  <2> QED BY <1>1, <2>1 DEF Good
<1> HIDE DEF s
<1>3. r.start \in Int /\ r.end \in Int
  BY SizesAssumption DEF Asking, Byte
<1>4. BytesKept(ToSet(l), ToSet(l), r, r)
  BY DEF BytesKept
<1>5. Kept(s, ToSet(l), r, Len(l) + room)
  BY <1>1, <1>2, <1>3, <1>4 DEF Kept, Told
<1>6. Scan(s, ToSet(l), r, Len(l) + room, T)
  BY <1>1, <1>5 DEF Scan
<1> QED BY <1>2, <1>6 DEF s

\* The scan ends with all in order and nothing before it.
LEMMA LoopScans ==
    ASSUME NEW l, Sane(l), NEW insrt \in Places, NEW r \in Asking, Proper(r),
           NEW room \in Nat, NEW mem \in Nat,
           r.type # "un" => Leads(ToSet(l), insrt, r.start),
           NEW from \in 1 .. Len(l) + 1,
           \A i \in 1 .. from - 1 : l[i].owner = r.owner => Clear(l[i], r)
    PROVE  Scan(FoldLeft(FlckadjLock, Begin(l, insrt, r, room, mem), SubSeq(l, from, Len(l))),
                ToSet(l), r, Len(l) + room, {})
<1> DEFINE q == SubSeq(l, from, Len(l))
           n == Len(l) - (from - 1)
           L == ToSet(l)
           N == Len(l) + room
           T(i) == {l[j] : j \in from + i .. Len(l)}
           base == Begin(l, insrt, r, room, mem)
<1>1. l \in Seq(LockType) /\ Len(l) \in Nat /\ from \in Nat /\ n \in Nat /\ DOMAIN l = 1 .. Len(l)
  BY DEF Sane
<1>2. DOMAIN q = 1 .. n /\ \A i \in 1 .. n : q[i] = l[from + i - 1]
  <2>1. CASE from = Len(l) + 1
    <3>1. q = <<>> /\ n = 0
      BY <1>1, <2>1, SubSeqProperties
    <3> QED BY <3>1
  <2>2. CASE from <= Len(l)
    <3>1. /\ q \in Seq(LockType) /\ Len(q) = Len(l) - from + 1
          /\ \A i \in 1 .. Len(l) - from + 1 : q[i] = l[from + i - 1]
      BY <1>1, <2>2, SubSeqProperties
    <3>2. Len(l) - from + 1 = n
      BY <1>1
    <3> HIDE DEF q
    <3> QED BY <3>1, <3>2
  <2> QED BY <1>1, <2>1, <2>2
<1> HIDE DEF q
<1>3. ASSUME NEW i \in 1 .. n PROVE q[i] \in LockType /\ Proper(q[i]) /\ from + i - 1 \in 1 .. Len(l)
  <2>1. from + i - 1 \in 1 .. Len(l)
    BY <1>1
  <2> QED BY <1>2, <2>1 DEF Sane, Proper
<1>4. ASSUME NEW i \in 1 .. n
      PROVE  q[i] \in T(i - 1) /\ T(i - 1) \ {q[i]} = T(i)
  <2> DEFINE k == from + i - 1
  <2>1. k \in 1 .. Len(l) /\ k = from + (i - 1) /\ k + 1 = from + i
    BY <1>1
  <2>2. \A j \in 1 .. Len(l) : l[j] = l[k] => j = k
    BY <2>1, AtUnique
  <2>3. T(i - 1) = {l[j] : j \in k .. Len(l)} /\ T(i) = {l[j] : j \in k + 1 .. Len(l)}
    BY <2>1
  <2>4. q[i] = l[k]
    BY <1>2
  <2>5. \A j \in k + 1 .. Len(l) : j \in k .. Len(l) /\ j # k /\ j \in 1 .. Len(l)
    BY <1>1, <2>1
  <2>6. \A j \in k .. Len(l) : j # k => j \in k + 1 .. Len(l)
    BY <1>1, <2>1
  <2>7. k \in k .. Len(l)
    BY <1>1, <2>1
  <2> HIDE DEF k, T
  <2> QED BY <2>2, <2>3, <2>4, <2>5, <2>6, <2>7
<1>5. ASSUME NEW i \in 1 .. n, NEW g \in T(i - 1), g.owner = q[i].owner, g # q[i]
      PROVE  Before(q[i], g)
  <2>1. PICK j \in from + (i - 1) .. Len(l) : g = l[j]
    BY <1>5
  <2>2. from + i - 1 < j /\ j \in 1 .. Len(l) /\ from + i - 1 \in 1 .. Len(l)
    <3>1. j # from + i - 1
      BY <1>2, <1>5, <2>1
    <3> QED BY <1>1, <3>1
  <2> QED BY <1>2, <2>1, <2>2 DEF Sane
<1>6. base \in Good /\ Scan(base, L, r, N, T(0))
  <2>1. T(0) \in SUBSET L
    <3>1. \A j \in from + 0 .. Len(l) : j \in DOMAIN l
      BY <1>1
    <3> QED BY <3>1 DEF ToSet
  <2>2. ASSUME NEW g \in L, g.owner = r.owner PROVE g \in T(0) \/ Clear(g, r)
    <3>1. PICK j \in 1 .. Len(l) : g = l[j]
      BY <1>1, Members
    <3>2. CASE j < from
      BY <1>1, <2>2, <3>1, <3>2
    <3>3. CASE ~ (j < from)
      <4>1. j \in from + 0 .. Len(l)
        BY <1>1, <3>3
      <4> QED BY <3>1, <4>1
    <3> QED BY <3>2, <3>3
  <2> HIDE DEF T
  <2> QED BY <2>1, <2>2, BeginScans
<1>7. PICK g : Turns(g, q, n, base)
  BY <1>1, <1>2, <1>3, <1>6, FlckadjTurns
<1> HIDE DEF T, base, N, L
<1> DEFINE I == {i \in Nat : i <= n => Scan(g[i], L, r, N, T(i))}
<1>8. 0 \in I
  BY <1>6, <1>7 DEF Turns
<1>9. ASSUME NEW i \in Nat, i \in I PROVE i + 1 \in I
  <2> SUFFICES ASSUME i + 1 <= n PROVE Scan(g[i + 1], L, r, N, T(i + 1))
    OBVIOUS
  <2> DEFINE k == i + 1
             s == g[i]
             f == q[k]
  <2>1. k \in 1 .. n /\ k - 1 = i /\ Scan(s, L, r, N, T(i))
    BY <1>1, <1>9
  <2>2. g[k] = FlckadjLock(s, f)
    BY <1>7, <2>1 DEF Turns
  <2>3. f \in T(i) /\ T(i) \ {f} = T(k)
    BY <1>4, <2>1
  <2>4. \A h \in T(i) : h.owner = r.owner /\ f.owner = r.owner /\ h # f => Before(f, h)
    BY <1>5, <2>1
  <2>5. f \in ToSet(s.list) \/ s.stop
    BY <2>1, <2>3 DEF Scan
  <2>6. r.start \in Int /\ r.end \in Int
    BY SizesAssumption DEF Asking, Byte
  <2> HIDE DEF k, s, f
  <2>7. Scan(FlckadjLock(s, f), L, r, N, T(i) \ {f})
    BY <2>1, <2>3, <2>4, <2>5, <2>6, LockScans
  <2>8. Scan(g[k], L, r, N, T(k))
    BY <2>2, <2>3, <2>7
  <2> QED BY <2>8 DEF k
<1>10. n \in I
  <2> HIDE DEF I, n
  <2> QED BY <1>1, <1>8, <1>9, SetInduction
<1>11. T(n) = {}
  BY <1>1 DEF T
<1>12. Scan(g[n], L, r, N, {})
  <2> HIDE DEF n
  <2>1. n <= n
    BY <1>1
  <2>2. Scan(g[n], L, r, N, T(n))
    BY <1>10, <2>1
  <2> QED BY <1>11, <2>2
<1>13. g[n] = FoldLeft(FlckadjLock, base, q)
  BY <1>7 DEF Turns
<1>14. Scan(FoldLeft(FlckadjLock, base, q), L, r, N, {})
  BY <1>12, <1>13
<1> QED BY <1>14 DEF q, base, L, N
-----------------------------------------------------------------------------
(* The whole routine *)

\* A byte of an owner has one type.
LEMMA OneType ==
    ASSUME NEW l, Sane(l), NEW o, NEW b \in Byte, NEW t, NEW u,
           Holds(ToSet(l), o, b, t), Holds(ToSet(l), o, b, u)
    PROVE  t = u
<1>1. l \in Seq(LockType) /\ b \in Int
  BY SizesAssumption DEF Sane, Byte
<1>2. PICK f \in ToSet(l), g \in ToSet(l) : On(f, o, b, t) /\ On(g, o, b, u)
  BY DEF Holds
<1>3. PICK i \in 1 .. Len(l), j \in 1 .. Len(l) : f = l[i] /\ g = l[j]
  BY <1>1, Members
<1>4. i = j
  BY <1>1, <1>2, <1>3, Apart DEF On
<1> QED BY <1>2, <1>3, <1>4 DEF On

\* The places that lead from a set lead on its list.
LEMMA LeadsReaches ==
    ASSUME NEW l, Sane(l), NEW at, NEW x, Leads(ToSet(l), at, x)
    PROVE  Reaches(l, at, x)
<1>1. l \in Seq(LockType)
  BY DEF Sane
<1>2. CASE at = NULL /\ \A f \in ToSet(l) : x <= f.start
  BY <1>1, <1>2, Members DEF Reaches
<1>3. CASE \E f \in ToSet(l) : at = At(f) /\ f.start <= x
  BY <1>1, <1>3, Members DEF Reaches
<1> QED BY <1>2, <1>3 DEF Leads

\* The request r of an owner who held L is granted: S is L, with r's type on r's
\* bytes.
Granted(S, L, r) ==
    /\ \A f : f.owner # r.owner => (f \in S <=> f \in L)
    /\ \A b \in Byte : \A t :
         Holds(S, r.owner, b, t) <=> IF InLd(b, r) THEN t = r.type /\ r.type # "un"
                                     ELSE Holds(L, r.owner, b, t)

\* It is not: bytes may be lost, on r or of its type.
Refused(S, L, r) ==
    /\ \A f : f.owner # r.owner => (f \in S <=> f \in L)
    /\ \A b \in Byte : \A t :
         /\ Holds(S, r.owner, b, t) => Holds(L, r.owner, b, t)
         /\ Holds(L, r.owner, b, t) /\ ~ InLd(b, r) /\ t # r.type => Holds(S, r.owner, b, t)

\* A scan that is over has not granted anything yet.
LEMMA KeptRefuses ==
    ASSUME NEW l, Sane(l), NEW r, NEW n, NEW s, Kept(s, ToSet(l), r, n)
    PROVE  Refused(ToSet(s.list), ToSet(l), r)
<1> DEFINE S == ToSet(s.list)  L == ToSet(l)
<1>1. BytesKept(S, L, s.ld, r)
  BY DEF Kept
<1>2. ASSUME NEW b \in Byte, NEW t, Holds(L, r.owner, b, t), ~ InLd(b, r), t # r.type
      PROVE  Holds(S, r.owner, b, t)
  <2>1. CASE InLd(b, s.ld)
    <3>1. Holds(L, r.owner, b, r.type)
      BY <1>1, <1>2, <2>1 DEF BytesKept
    <3> QED BY <1>2, <3>1, OneType
  <2>2. CASE ~ InLd(b, s.ld)
    <3> HIDE DEF S, L
    <3> QED BY <1>1, <1>2, <2>2 DEF BytesKept
  <2> QED BY <2>1, <2>2
<1> HIDE DEF S, L
<1>3. Refused(S, L, r)
  BY <1>1, <1>2 DEF Refused, BytesKept
<1> QED BY <1>3 DEF S, L

\* In its gap ld has no bytes.
LEMMA GapEmpty ==
    ASSUME NEW s \in Good, Sane(s.list), Settled(s), NEW b \in Byte, InLd(b, s.ld), NEW t
    PROVE  ~ Holds(ToSet(s.list), s.ld.owner, b, t)
<1>1. /\ s.ld.start \in Int /\ s.ld.end \in Int /\ b \in Int
      /\ \A g \in ToSet(s.list) : g.start \in Int /\ g.end \in Int
  BY TurnNumbers
<1>2. ASSUME NEW g \in ToSet(s.list), On(g, s.ld.owner, b, t) PROVE FALSE
  <2>1. g.start <= b /\ b <= g.end /\ s.ld.start <= b /\ b <= s.ld.end
    BY <1>2 DEF On, InLd
  <2>2. CASE Clear(g, s.ld)
    BY <1>1, <2>1, <2>2 DEF Clear
  <2>3. CASE Beyond(g, s.ld)
    BY <1>1, <2>1, <2>3 DEF Beyond
  <2> QED BY <1>2, <2>2, <2>3 DEF Settled, On
<1> QED BY <1>2 DEF Holds

\* An unlock is granted by the scan alone.
LEMMA UnlockGrants ==
    ASSUME NEW l, Sane(l), NEW r, r.type = "un", r.start \in Int, r.end \in Int,
           NEW n, NEW s, Kept(s, ToSet(l), r, n), Settled(s)
    PROVE  Granted(ToSet(s.list), ToSet(l), r)
<1> DEFINE S == ToSet(s.list)  L == ToSet(l)
<1>1. BytesKept(S, L, s.ld, r) /\ s \in Good /\ Sane(s.list) /\ s.ld.owner = r.owner
      /\ s.ld.start <= r.start /\ r.end <= s.ld.end
  BY DEF Kept
<1>2. ASSUME NEW b \in Byte PROVE InLd(b, s.ld) => InLd(b, r)
  <2>1. ASSUME Holds(L, r.owner, b, "un") PROVE FALSE
    <3>1. PICK f \in L : On(f, r.owner, b, "un")
      BY <2>1 DEF Holds
    <3>2. f.type \in {"rd", "wr"}
      BY Found, LockFields
    <3> QED BY <3>1, <3>2 DEF On
  <2> QED BY <1>1, <2>1 DEF BytesKept
<1>3. ASSUME NEW b \in Byte, InLd(b, r), NEW t PROVE ~ Holds(S, r.owner, b, t)
  <2>1. InLd(b, s.ld) \/ ~ InLd(b, s.ld)
    OBVIOUS
  <2>2. CASE InLd(b, s.ld)
    BY <1>1, <2>2, GapEmpty
  <2>3. CASE ~ InLd(b, s.ld)
    <3>1. s.ld.start \in Int /\ s.ld.end \in Int /\ b \in Int
      BY <1>1, TurnNumbers
    <3>2. r.start <= b /\ b <= r.end
      BY <1>3 DEF InLd
    <3> QED BY <1>1, <2>3, <3>1, <3>2 DEF InLd
  <2> QED BY <2>2, <2>3
<1> HIDE DEF S, L
<1>4. Granted(S, L, r)
  BY <1>1, <1>2, <1>3 DEF Granted, BytesKept
<1> QED BY <1>4 DEF S, L

\* What stands in for ld in its gap makes a lock granted.
LEMMA LockGrants ==
    ASSUME NEW l, Sane(l), NEW r, r.type # "un", r.start \in Int, r.end \in Int,
           NEW n, NEW s, Kept(s, ToSet(l), r, n), Settled(s),
           NEW e, e.owner = s.ld.owner, e.type = s.ld.type, e.start = s.ld.start, e.end = s.ld.end
    PROVE  Granted(ToSet(s.list) \cup {e}, ToSet(l), r)
<1> DEFINE S == ToSet(s.list)  L == ToSet(l)  S2 == S \cup {e}
<1>1. BytesKept(S, L, s.ld, r) /\ s \in Good /\ Sane(s.list) /\ s.ld.owner = r.owner
      /\ s.ld.type = r.type /\ s.ld.start <= r.start /\ r.end <= s.ld.end
  BY DEF Kept
<1>2. ASSUME NEW b \in Byte, NEW t
      PROVE  Holds(S2, r.owner, b, t) <=> Holds(S, r.owner, b, t) \/ (InLd(b, s.ld) /\ t = r.type)
  <2>1. On(e, r.owner, b, t) <=> InLd(b, s.ld) /\ t = r.type
    BY <1>1 DEF On, InLd
  <2> HIDE DEF S
  <2> QED BY <2>1 DEF Holds
<1>3. ASSUME NEW b \in Byte, InLd(b, r) PROVE InLd(b, s.ld)
  <2>1. s.ld.start \in Int /\ s.ld.end \in Int /\ b \in Int
    BY <1>1, TurnNumbers
  <2>2. r.start <= b /\ b <= r.end
    BY <1>3 DEF InLd
  <2> QED BY <1>1, <2>1, <2>2 DEF InLd
<1>4. ASSUME NEW b \in Byte, InLd(b, s.ld), NEW t PROVE ~ Holds(S, r.owner, b, t)
  BY <1>1, <1>4, GapEmpty
<1>5. ASSUME NEW b \in Byte, NEW t
      PROVE  Holds(S2, r.owner, b, t) <=> IF InLd(b, r) THEN t = r.type /\ r.type # "un"
                                          ELSE Holds(L, r.owner, b, t)
  <2>1. CASE InLd(b, r)
    BY <1>2, <1>3, <1>4, <2>1
  <2>2. CASE ~ InLd(b, r) /\ InLd(b, s.ld)
    <3>1. Holds(L, r.owner, b, r.type)
      BY <1>1, <2>2 DEF BytesKept
    <3>2. Holds(L, r.owner, b, t) => t = r.type
      BY <3>1, OneType
    <3> QED BY <1>2, <1>4, <2>2, <3>1, <3>2
  <2>3. CASE ~ InLd(b, r) /\ ~ InLd(b, s.ld)
    <3>1. Holds(S, r.owner, b, t) <=> Holds(L, r.owner, b, t)
      BY <1>1, <2>3 DEF BytesKept
    <3> QED BY <1>2, <2>3, <3>1
  <2> QED BY <2>1, <2>2, <2>3
<1>6. \A f : f.owner # r.owner => (f \in S2 <=> f \in L)
  <2> HIDE DEF S, L
  <2> QED BY <1>1 DEF BytesKept
<1> HIDE DEF S2, L
<1>7. Granted(S2, L, r)
  BY <1>5, <1>6 DEF Granted
<1> QED BY <1>7 DEF S2, L

\* What flckadj makes of a list: its order stands, no structure is lost, who
\* waits for what is gone is woken, and the request is granted or refused.
Adjusted(t, l, r, n) ==
    /\ t \in Scans /\ Sane(t.list) /\ Len(t.list) + t.room = n
    /\ Told(ToSet(t.list), ToSet(l), t.woken)
    /\ Granted(ToSet(t.list), ToSet(l), r) \/ Refused(ToSet(t.list), ToSet(l), r)

\* The new lock is put into its gap, or there is no structure for it.
LEMMA PutAdjusts ==
    ASSUME NEW l, Sane(l), NEW r, r.type \in {"rd", "wr"}, r.start \in Int, r.end \in Int,
           NEW n, NEW s, Kept(s, ToSet(l), r, n), Settled(s),
           Leads(ToSet(s.list), s.insrt, s.ld.start)
    PROVE  Adjusted(Insflck(s, s.ld, Behind(s.list, s.insrt, s.ld.start)), l, r, n)
<1> DEFINE m == s.list
           at == Behind(m, s.insrt, s.ld.start)
           q == Pos(m, at)
           e == NewLock(s.ld)
           t == Insflck(s, s.ld, at)
<1> SUFFICES Adjusted(t, l, r, n)
  OBVIOUS
<1>1. /\ s \in Good /\ s \in Scans /\ Sane(m) /\ s.ld.type = r.type /\ s.ld.owner = r.owner
      /\ Len(m) + s.room = n /\ Told(ToSet(m), ToSet(l), s.woken)
      /\ s.ld.start \in Int /\ s.ld.end \in Int /\ s.ld.start <= s.ld.end
  BY TurnNumbers DEF Kept, Good
<1>2. /\ e \in LockType /\ e.owner = s.ld.owner /\ e.type = s.ld.type
      /\ e.start = s.ld.start /\ e.end = s.ld.end
  BY <1>1 DEF NewLock, LockType, Scans, Asking
<1> HIDE DEF e
<1>3. Fits(m, q, s.ld.start)
  <2>1. Reaches(m, s.insrt, s.ld.start)
    BY <1>1, LeadsReaches
  <2> HIDE DEF m
  <2> QED BY <1>1, <2>1, BehindFits
<1>4. t \in Scans
  <2> HIDE DEF at
  <2> QED BY <1>1, <1>2, InsflckIs DEF e
<1>5. CASE s.room = 0 \/ s.mem = 0
  <2>1. t = [s EXCEPT !.enolck = TRUE, !.stop = TRUE, !.over = TRUE]
    BY <1>5 DEF Insflck
  <2> HIDE DEF t
  <2>2. t.list = m /\ t.room = s.room /\ t.woken = s.woken
    BY <1>1, <2>1 DEF Scans
  <2>3. Refused(ToSet(m), ToSet(l), r)
    BY KeptRefuses
  <2> QED BY <1>1, <1>4, <2>2, <2>3 DEF Adjusted
<1>6. CASE ~ (s.room = 0 \/ s.mem = 0)
  <2>1. /\ t.list = InsertAt(m, q + 1, e) /\ t.room = s.room - 1 /\ t.woken = s.woken
    <3> HIDE DEF at, t
    <3>1. /\ Insflck(s, s.ld, at).list = InsertAt(s.list, Pos(s.list, at) + 1, NewLock(s.ld))
          /\ Insflck(s, s.ld, at).room = s.room - 1 /\ Insflck(s, s.ld, at).woken = s.woken
      BY <1>1, <1>2, <1>6, InsflckGives DEF e
    <3> QED BY <3>1 DEF t, e
  <2>2. q \in 0 .. Len(m) /\ Len(m) \in Nat /\ \A i \in 1 .. Len(m) : m[i] \in LockType
    BY <1>1, <1>3 DEF Fits, Sane
  <2> HIDE DEF t, q
  <2>3. ASSUME NEW i \in 1 .. Len(m), m[i].owner = e.owner
        PROVE  /\ m[i].start <= e.start => m[i].end < (IF m[i].type = e.type THEN e.start - 1 ELSE e.start)
               /\ e.start <= m[i].start => e.end < (IF e.type = m[i].type THEN m[i].start - 1 ELSE m[i].start)
    <3> DEFINE g == m[i]
    <3>1. g \in ToSet(m)
      BY <1>1, Members DEF Sane
    <3>2. g.start \in Int /\ g.end \in Int /\ g.start <= g.end
      BY <1>1, <3>1, TurnNumbers
    <3>3. Clear(g, s.ld) \/ Beyond(g, s.ld)
      BY <1>1, <1>2, <2>3, <3>1 DEF Settled
    <3> HIDE DEF g, m
    <3>4. CASE Clear(g, s.ld)
      BY <1>1, <1>2, <3>2, <3>4 DEF Clear, g
    <3>5. CASE Beyond(g, s.ld)
      BY <1>1, <1>2, <3>2, <3>5 DEF Beyond, g
    <3> QED BY <3>3, <3>4, <3>5
  <2>4. \A i \in 1 .. q : Before(m[i], e)
    <3> SUFFICES ASSUME NEW i \in 1 .. q PROVE Before(m[i], e)
      OBVIOUS
    <3>1. i \in 1 .. Len(m) /\ m[i].start <= e.start
      BY <1>2, <1>3, <2>2 DEF Fits
    <3> QED BY <2>3, <3>1 DEF Before
  <2>5. \A i \in q + 1 .. Len(m) : Before(e, m[i])
    <3> SUFFICES ASSUME NEW i \in q + 1 .. Len(m) PROVE Before(e, m[i])
      OBVIOUS
    <3>1. i \in 1 .. Len(m) /\ e.start <= m[i].start
      BY <1>2, <1>3, <2>2 DEF Fits
    <3> QED BY <2>3, <3>1 DEF Before
  <2>6. Sane(t.list)
    <3>1. e.start <= e.end
      BY <1>1, <1>2
    <3> HIDE DEF m
    <3>2. Sane(InsertAt(m, q + 1, e))
      BY <1>1, <1>2, <2>2, <2>4, <2>5, <3>1, InsertedSane
    <3> QED BY <2>1, <3>2
  <2>7. ToSet(t.list) = ToSet(m) \cup {e} /\ Len(t.list) = Len(m) + 1
    <3>1. m \in Seq(LockType)
      BY <1>1 DEF Sane
    <3> HIDE DEF m
    <3>2. ToSet(InsertAt(m, q + 1, e)) = ToSet(m) \cup {e} /\ Len(InsertAt(m, q + 1, e)) = Len(m) + 1
      BY <1>2, <2>2, <3>1, InsertedMembers
    <3> QED BY <2>1, <3>2
  <2>8. Granted(ToSet(t.list), ToSet(l), r)
    <3>1. Granted(ToSet(m) \cup {e}, ToSet(l), r)
      BY <1>1, <1>2, LockGrants
    <3> QED BY <2>7, <3>1
  <2>9. Told(ToSet(t.list), ToSet(l), t.woken)
    BY <1>1, <2>1, <2>7 DEF Told
  <2>10. Len(t.list) + t.room = n
    <3>1. s.room \in Nat
      BY <1>1, ScanFields
    <3> QED BY <1>1, <2>1, <2>2, <2>7, <3>1
  <2> QED BY <1>4, <2>6, <2>8, <2>9, <2>10 DEF Adjusted
<1> QED BY <1>5, <1>6

\* The whole routine, from a place that leads to r's.
LEMMA FlckadjIs ==
    ASSUME NEW l, Sane(l), NEW insrt \in Places, NEW r \in Asking, Proper(r),
           NEW room \in Nat, NEW mem \in Nat,
           r.type # "un" => Leads(ToSet(l), insrt, r.start),
           NEW from \in 1 .. Len(l) + 1, from = IF insrt = NULL THEN 1 ELSE Pos(l, insrt),
           \A i \in 1 .. from - 1 : l[i].owner = r.owner => Clear(l[i], r)
    PROVE  Adjusted(Flckadj(l, insrt, r, room, mem), l, r, Len(l) + room)
<1> DEFINE base == Begin(l, insrt, r, room, mem)
           q == SubSeq(l, from, Len(l))
           s == FoldLeft(FlckadjLock, base, q)
           n == Len(l) + room
           t == Flckadj(l, insrt, r, room, mem)
<1>1. t = IF s.over \/ r.type = "un" THEN s
          ELSE Insflck(s, s.ld, Behind(s.list, s.insrt, s.ld.start))
  BY DEF Flckadj, Begin
<1>2. Scan(s, ToSet(l), r, n, {})
  BY LoopScans
<1> HIDE DEF s, t, n
<1>3. r.start \in Int /\ r.end \in Int /\ r.type \in {"rd", "wr", "un"}
  BY SizesAssumption DEF Asking, Byte
<1>4. Kept(s, ToSet(l), r, n) /\ s \in Good /\ s \in Scans /\ Sane(s.list) /\ s.ld.owner = r.owner
      /\ Len(s.list) + s.room = n /\ Told(ToSet(s.list), ToSet(l), s.woken)
  BY <1>2 DEF Scan, Kept, Good
<1>5. ~ s.over => Settled(s)
  BY <1>2, <1>4 DEF Scan, Settled
<1>6. CASE s.over
  <2>1. Refused(ToSet(s.list), ToSet(l), r)
    BY <1>4, KeptRefuses
  <2> QED BY <1>1, <1>4, <1>6, <2>1 DEF Adjusted, t, n
<1>7. CASE ~ s.over /\ r.type = "un"
  <2>1. Granted(ToSet(s.list), ToSet(l), r)
    BY <1>3, <1>4, <1>5, <1>7, UnlockGrants
  <2> QED BY <1>1, <1>4, <1>7, <2>1 DEF Adjusted, t, n
<1>8. CASE ~ s.over /\ r.type # "un"
  <2>1. Leads(ToSet(s.list), s.insrt, s.ld.start)
    BY <1>2, <1>8 DEF Scan
  <2>2. r.type \in {"rd", "wr"}
    BY <1>3, <1>8
  <2>3. Adjusted(Insflck(s, s.ld, Behind(s.list, s.insrt, s.ld.start)), l, r, n)
    BY <1>3, <1>4, <1>5, <1>8, <2>1, <2>2, PutAdjusts
  <2>4. Adjusted(t, l, r, n)
    BY <1>1, <1>8, <2>3
  <2> QED BY <2>4 DEF t, n
<1> QED BY <1>6, <1>7, <1>8

\* A lock.
LEMMA LockAdjusts ==
    ASSUME NEW l, Sane(l), NEW r \in Region(Owner, {"rd", "wr"}), NEW room \in Nat, NEW mem \in Nat
    PROVE  Adjusted(Flckadj(l, Insrt(l, r), r, room, mem), l, r, Len(l) + room)
<1> DEFINE at == Insrt(l, r)
<1>1. /\ r \in Asking /\ Proper(r) /\ r.start \in Int /\ l \in Seq(LockType) /\ Len(l) \in Nat
      /\ r.type # "un"
  BY SizesAssumption DEF Region, Asking, Proper, Byte, Sane
<1>2. CASE at = NULL /\ \A i \in 1 .. Len(l) : r.start <= l[i].start
  <2>1. at \in Places
    BY <1>2 DEF Places
  <2>2. Leads(ToSet(l), at, r.start)
    BY <1>1, <1>2, Members DEF Leads
  <2>3. 1 \in 1 .. Len(l) + 1 /\ \A i \in 1 .. 1 - 1 : l[i].owner = r.owner => Clear(l[i], r)
    BY <1>1
  <2> HIDE DEF at
  <2>4. Adjusted(Flckadj(l, at, r, room, mem), l, r, Len(l) + room)
    BY <1>1, <1>2, <2>1, <2>2, <2>3, FlckadjIs
  <2> QED BY <2>4 DEF at
<1>3. ASSUME NEW k \in 1 .. Len(l), at = At(l[k]), l[k].start < r.start,
             \A i \in 1 .. k - 1 : l[i].owner = r.owner => l[i].end < r.start - 1
      PROVE  Adjusted(Flckadj(l, at, r, room, mem), l, r, Len(l) + room)
  <2>1. at \in Places /\ l[k] \in ToSet(l) /\ l[k] \in LockType /\ l[k].start \in Int
    BY <1>1, <1>3, AtPlace, Members, LockFields DEF Sane
  <2>2. Leads(ToSet(l), at, r.start)
    BY <1>1, <1>3, <2>1 DEF Leads
  <2>3. k = IF at = NULL THEN 1 ELSE Pos(l, at)
    BY <1>3, PosAt, AtNotNull
  <2>4. ASSUME NEW i \in 1 .. k - 1, l[i].owner = r.owner PROVE Clear(l[i], r)
    <3>1. l[i].end < r.start - 1 /\ l[i].end \in Int
      <4>1. i \in 1 .. Len(l)
        BY <1>1
      <4> QED BY <1>3, <2>4, <4>1, LockFields DEF Sane
    <3> QED BY <1>1, <3>1 DEF Clear
  <2>5. k \in 1 .. Len(l) + 1
    BY <1>1
  <2> HIDE DEF at
  <2> QED BY <1>1, <2>1, <2>2, <2>3, <2>4, <2>5, FlckadjIs
<1>4. \/ at = NULL /\ \A i \in 1 .. Len(l) : r.start <= l[i].start
      \/ \E k \in 1 .. Len(l) :
           /\ at = At(l[k]) /\ l[k].start < r.start
           /\ \A i \in 1 .. k - 1 : l[i].owner = r.owner => l[i].end < r.start - 1
  BY <1>1, InsrtIs
<1> QED BY <1>2, <1>3, <1>4

\* An unlock.
LEMMA UnlockAdjusts ==
    ASSUME NEW l, Sane(l), NEW r \in Region(Owner, {"un"}), NEW room \in Nat, NEW mem \in Nat
    PROVE  Adjusted(Flckadj(l, NULL, r, room, mem), l, r, Len(l) + room)
<1>1. /\ r \in Asking /\ Proper(r) /\ Len(l) \in Nat /\ NULL \in Places
      /\ r.type = "un"
  BY SizesAssumption DEF Region, Asking, Proper, Sane, Places
<1>2. 1 \in 1 .. Len(l) + 1 /\ \A i \in 1 .. 1 - 1 : l[i].owner = r.owner => Clear(l[i], r)
  BY <1>1
<1> QED BY <1>1, <1>2, FlckadjIs
-----------------------------------------------------------------------------
(* Deleting the members of a set from a list *)

\* One member
Dropped(S, kept, f) == IF f \in S THEN kept ELSE Append(kept, f)

Drops(g, l, n, S, R) ==
    /\ g \in [0 .. n -> Seq(R)] /\ g[0] = <<>> /\ g[n] = Omit(l, S)
    /\ \A i \in 1 .. n : g[i] = Dropped(S, g[i - 1], l[i])

\* The fold is a loop.
LEMMA OmitDrops ==
    ASSUME NEW R, NEW l \in Seq(R), NEW n, n = Len(l), NEW S
    PROVE  \E g : Drops(g, l, n, S, R)
<1> DEFINE V == Seq(R)
           turn(v, i) == Dropped(S, v, l[i])
           IsFold(g) == g = [s \in SUBSET DOMAIN l |->
                               IF s = {} THEN <<>> ELSE turn(g[s \ {Max(s)}], Max(s))]
           it == CHOOSE g : IsFold(g)
           step == [p \in (1 .. n) \X V |-> turn(p[2], p[1])]
           f == [i \in 0 .. n |-> it[1 .. i]]
<1>0. n \in Nat /\ DOMAIN l = 1 .. n
  OBVIOUS
<1>1. Omit(l, S) = it[DOMAIN l]
  BY DEF Omit, FoldLeft, MapThenFoldSet, Dropped
<1>2. <<>> \in V /\ \A v \in V, i \in 1 .. n : turn(v, i) \in V
  <2>1. \A i \in 1 .. n : l[i] \in R
    BY <1>0
  <2> QED BY <2>1 DEF Dropped
<1> HIDE DEF turn, V
<1>3. \A i \in 1 .. n, v \in V : step[<<i, v>>] = turn(v, i)
  OBVIOUS
<1>4. IsFold(it)
  <2>1. \A i \in 1 .. n, v \in V : step[<<i, v>>] \in V
    <3> HIDE DEF step
    <3>1. ASSUME NEW i \in 1 .. n, NEW v \in V PROVE step[<<i, v>>] \in V
      BY <1>2, <1>3
    <3> QED BY <3>1
  <2>2. PICK g : IsLeftRecursion(g, n, V, <<>>, step)
    <3> HIDE DEF step
    <3> QED BY <1>0, <1>2, <2>1, LeftRecursion
  <2> HIDE DEF step
  <2>3. \A s \in SUBSET (1 .. n) : s # {} => g[s] = turn(g[s \ {Max(s)}], Max(s))
    BY <1>0, <1>3, <2>2, MaxIn DEF IsLeftRecursion
  <2>4. IsFold(g)
    BY <1>0, <2>2, <2>3 DEF IsLeftRecursion
  <2> HIDE DEF IsFold
  <2> QED BY <2>4
<1> HIDE DEF it
<1>5. it[1 .. 0] = <<>>
  BY <1>0, <1>4, 1 .. 0 = {}
<1>6. ASSUME NEW i \in 1 .. n PROVE it[1 .. i] = turn(it[1 .. (i - 1)], i)
  <2> DEFINE s == 1 .. i
  <2>1. Max(s) = i /\ s \ {i} = 1 .. (i - 1) /\ s \in SUBSET (1 .. n) /\ s # {}
    BY <1>0, Segments
  <2> HIDE DEF s
  <2>2. it[s] = turn(it[s \ {Max(s)}], Max(s))
    BY <1>0, <1>4, <2>1
  <2> QED BY <2>1, <2>2 DEF s
<1>7. f[0] = <<>> /\ f[n] = it[1 .. n] /\ \A i \in 1 .. n : f[i] = turn(f[i - 1], i)
  BY <1>0, <1>5, <1>6
<1>8. f \in [0 .. n -> V]
  <2> DEFINE T == {i \in Nat : i <= n => f[i] \in V}
  <2> HIDE DEF f
  <2>1. 0 \in T
    BY <1>2, <1>7
  <2>2. ASSUME NEW i \in Nat, i \in T PROVE i + 1 \in T
    <3> SUFFICES ASSUME i + 1 <= n PROVE f[i + 1] \in V
      OBVIOUS
    <3>1. f[i] \in V /\ i + 1 \in 1 .. n /\ (i + 1) - 1 = i
      BY <1>0, <2>2
    <3> QED BY <1>2, <1>7, <3>1
  <2>3. \A i \in Nat : i \in T
    <3> HIDE DEF T
    <3> QED BY <2>1, <2>2, SetInduction
  <2>4. \A i \in 0 .. n : f[i] \in V
    BY <1>0, <2>3
  <2> QED BY <2>4 DEF f
<1> HIDE DEF f
<1>9. Drops(f, l, n, S, R)
  BY <1>0, <1>1, <1>7, <1>8 DEF Drops, turn, V
<1> QED BY <1>9

\* m is what is left of the first n members of l, in their order.
Rest(m, h, l, n, S) ==
    /\ h \in [1 .. Len(m) -> 1 .. n]
    /\ \A i, j \in 1 .. Len(m) : i < j => h[i] < h[j]
    /\ \A i \in 1 .. Len(m) : m[i] = l[h[i]] /\ m[i] \notin S
    /\ \A k \in 1 .. n : l[k] \notin S => \E i \in 1 .. Len(m) : h[i] = k

\* What is kept keeps its order.
LEMMA OmitIs ==
    ASSUME NEW R, NEW l \in Seq(R), NEW S
    PROVE  Omit(l, S) \in Seq(R) /\ \E h : Rest(Omit(l, S), h, l, Len(l), S)
<1> DEFINE n == Len(l)
<1>0. n \in Nat
  OBVIOUS
<1>1. PICK g : Drops(g, l, n, S, R)
  BY OmitDrops
<1> HIDE DEF n
<1> DEFINE I == {i \in Nat : i <= n => \E h : Rest(g[i], h, l, i, S)}
<1>2. 0 \in I
  <2>1. Rest(<<>>, [x \in 1 .. 0 |-> 0], l, 0, S)
    BY DEF Rest
  <2> QED BY <1>1, <2>1 DEF Drops
<1>3. ASSUME NEW i \in Nat, i \in I PROVE i + 1 \in I
  <2> SUFFICES ASSUME i + 1 <= n PROVE \E h : Rest(g[i + 1], h, l, i + 1, S)
    OBVIOUS
  <2> DEFINE k == i + 1
             v == g[i]
             f == l[k]
  <2>1. k \in 1 .. n /\ k - 1 = i /\ k \in Nat /\ i < k
    BY <1>0
  <2>2. PICK h : Rest(v, h, l, i, S)
    BY <1>0, <1>3
  <2>3. v \in Seq(R) /\ Len(v) \in Nat /\ f \in R
    BY <1>1, <2>1 DEF Drops, n
  <2>4. g[k] = Dropped(S, v, f)
    BY <1>1, <2>1 DEF Drops
  <2> HIDE DEF v, f
  <2>5. CASE f \in S
    <3>1. g[k] = v
      BY <2>4, <2>5 DEF Dropped
    <3>2. \A y \in 1 .. k : y \in 1 .. i \/ y = k
      BY <2>1
    <3>3. Rest(v, h, l, k, S)
      <4>1. h \in [1 .. Len(v) -> 1 .. k]
        BY <2>1, <2>2 DEF Rest
      <4> QED BY <2>2, <2>5, <3>2, <4>1 DEF Rest, f
    <3> QED BY <3>1, <3>3
  <2>6. CASE f \notin S
    <3> DEFINE m == Append(v, f)
               p == [x \in 1 .. Len(m) |-> IF x <= Len(v) THEN h[x] ELSE k]
    <3>1. g[k] = m
      BY <2>4, <2>6 DEF Dropped
    <3>2. /\ Len(m) = Len(v) + 1 /\ m[Len(v) + 1] = f
          /\ \A x \in 1 .. Len(v) : m[x] = v[x]
      BY <2>3
    <3> HIDE DEF m
    <3>12. /\ \A x \in 1 .. Len(v) : x \in 1 .. Len(m) /\ x <= Len(v)
          /\ Len(v) + 1 \in 1 .. Len(m) /\ ~ (Len(v) + 1 <= Len(v))
      BY <2>3, <3>2
    <3>10. h \in [1 .. Len(v) -> 1 .. i]
      BY <2>2 DEF Rest
    <3>11. \A x \in 1 .. Len(v) : h[x] \in 1 .. i
      BY <3>10
    <3>3. /\ \A x \in 1 .. Len(v) : h[x] \in 1 .. i /\ p[x] = h[x]
          /\ p[Len(v) + 1] = k
      BY <3>12, <3>11
    <3>4. p \in [1 .. Len(m) -> 1 .. k]
      <4>1. \A x \in 1 .. Len(m) : x <= Len(v) => x \in 1 .. Len(v)
        BY <2>3, <3>2
      <4>2. \A y \in 1 .. i : y \in 1 .. k
        BY <2>1
      <4>3. k \in 1 .. k
        BY <2>1
      <4> QED BY <3>11, <4>1, <4>2, <4>3
    <3>5. \A x \in 1 .. Len(m) : x \in 1 .. Len(v) \/ x = Len(v) + 1
      BY <2>3, <3>2
    <3> HIDE DEF p
    <3>6. ASSUME NEW x \in 1 .. Len(m), NEW y \in 1 .. Len(m), x < y PROVE p[x] < p[y]
      <4>1. x \in 1 .. Len(v)
        BY <2>3, <3>2, <3>6
      <4>2. CASE y \in 1 .. Len(v)
        BY <2>2, <3>3, <3>6, <4>1, <4>2 DEF Rest
      <4>3. CASE y = Len(v) + 1
        BY <2>1, <3>3, <4>1, <4>3
      <4> QED BY <3>5, <4>2, <4>3
    <3>7. ASSUME NEW x \in 1 .. Len(m) PROVE m[x] = l[p[x]] /\ m[x] \notin S
      <4>1. CASE x \in 1 .. Len(v)
        BY <2>2, <3>2, <3>3, <4>1 DEF Rest
      <4>2. CASE x = Len(v) + 1
        BY <2>6, <3>2, <3>3, <4>2 DEF f
      <4> QED BY <3>5, <4>1, <4>2
    <3>8. ASSUME NEW y \in 1 .. k, l[y] \notin S PROVE \E x \in 1 .. Len(m) : p[x] = y
      <4>1. CASE y \in 1 .. i
        <5>1. PICK x \in 1 .. Len(v) : h[x] = y
          BY <2>2, <3>8, <4>1 DEF Rest
        <5>2. x \in 1 .. Len(m)
          BY <2>3, <3>2
        <5> QED BY <3>3, <5>1, <5>2
      <4>2. CASE y = k
        <5>1. Len(v) + 1 \in 1 .. Len(m)
          BY <2>3, <3>2
        <5> QED BY <3>3, <4>2, <5>1
      <4> QED BY <2>1, <4>1, <4>2
    <3>9. Rest(m, p, l, k, S)
      BY <3>4, <3>6, <3>7, <3>8 DEF Rest
    <3> QED BY <3>1, <3>9
  <2> QED BY <2>5, <2>6
<1>4. n \in I
  <2> HIDE DEF I
  <2> QED BY <1>0, <1>2, <1>3, SetInduction
<1>5. \E h : Rest(g[n], h, l, n, S)
  BY <1>0, <1>4
<1> QED BY <1>0, <1>1, <1>5 DEF Drops, n

\* Without some of its members a list is still in order, and no longer.
LEMMA OmitKeeps ==
    ASSUME NEW R, NEW l \in Seq(R), NEW S
    PROVE  /\ Omit(l, S) \in Seq(R) /\ Len(Omit(l, S)) <= Len(l)
           /\ ToSet(Omit(l, S)) = ToSet(l) \ S
           /\ Sane(l) => Sane(Omit(l, S))
<1> DEFINE m == Omit(l, S)  n == Len(l)  c == Len(m)
<1>1. PICK h : Rest(m, h, l, n, S)
  BY OmitIs
<1>2. m \in Seq(R) /\ c \in Nat /\ n \in Nat
  BY OmitIs
<1> HIDE DEF m
<1>3. /\ h \in [1 .. c -> 1 .. n] /\ \A i, j \in 1 .. c : i < j => h[i] < h[j]
      /\ \A i \in 1 .. c : m[i] = l[h[i]] /\ m[i] \notin S
      /\ \A k \in 1 .. n : l[k] \notin S => \E i \in 1 .. c : h[i] = k
  BY <1>1 DEF Rest
<1>4. c <= n
  <2> HIDE DEF c, n
  <2>1. \A i, j \in 1 .. c : h[i] = h[j] => i = j
    <3> SUFFICES ASSUME NEW i \in 1 .. c, NEW j \in 1 .. c, h[i] = h[j], i # j PROVE FALSE
      OBVIOUS
    <3>1. (i < j \/ j < i) /\ h[i] \in Int
      BY <1>2, <1>3
    <3> QED BY <1>3, <3>1
  <2>2. h \in Injection(1 .. c, 1 .. n)
    BY <1>3, <2>1 DEF Injection, IsInjective
  <2>3. /\ IsFiniteSet(1 .. n) /\ Cardinality(1 .. n) = n /\ Cardinality(1 .. c) = c
    BY <1>2, FS_Interval
  <2>4. Cardinality(1 .. c) <= Cardinality(1 .. n)
    BY <2>2, <2>3, FS_Injection
  <2> QED BY <2>3, <2>4
<1>5. ToSet(m) = ToSet(l) \ S
  <2>1. \A x : /\ x \in ToSet(m) <=> \E i \in 1 .. c : x = m[i]
               /\ x \in ToSet(l) <=> \E i \in 1 .. n : x = l[i]
    BY <1>2, Members
  <2> HIDE DEF c, n
  <2>2. \A i \in 1 .. c : h[i] \in 1 .. n
    BY <1>3
  <2>3. ASSUME NEW x \in ToSet(m) PROVE x \in ToSet(l) \ S
    BY <1>3, <2>1, <2>2, <2>3
  <2>4. ASSUME NEW x \in ToSet(l) \ S PROVE x \in ToSet(m)
    BY <1>3, <2>1, <2>4
  <2> QED BY <2>3, <2>4
<1>6. ASSUME Sane(l) PROVE Sane(m)
  <2>1. m \in Seq(LockType)
    <3>1. \A i \in 1 .. c : m[i] \in LockType
      <4> SUFFICES ASSUME NEW i \in 1 .. c PROVE m[i] \in LockType
        OBVIOUS
      <4>1. h[i] \in 1 .. n /\ m[i] = l[h[i]]
        BY <1>3
      <4> QED BY <1>6, <4>1 DEF Sane
    <3>2. DOMAIN m = 1 .. c /\ m = [i \in 1 .. c |-> m[i]]
      BY <1>2
    <3>3. m \in [1 .. c -> LockType]
      <4> HIDE DEF c
      <4> QED BY <3>1, <3>2
    <3> HIDE DEF c
    <3> QED BY <1>2, <3>3, FunctionIsSeq
  <2>2. \A i \in 1 .. c : h[i] \in 1 .. n
    BY <1>3
  <2>3. /\ \A k \in 1 .. n : l[k].start <= l[k].end
        /\ \A j, k \in 1 .. n : j < k => Before(l[j], l[k])
    BY <1>6 DEF Sane
  <2> HIDE DEF c, n
  <2>4. \A i \in 1 .. c : m[i].start <= m[i].end
    BY <1>3, <2>2, <2>3
  <2>5. \A i, j \in 1 .. c : i < j => Before(m[i], m[j])
    BY <1>3, <2>2, <2>3
  <2> QED BY <2>1, <2>4, <2>5 DEF Sane, c
<1> QED BY <1>2, <1>4, <1>5, <1>6 DEF m

\* How many members of a list are o's
Mine(l, o) == {i \in DOMAIN l : l[i].owner = o}

\* The members of o are a finite set.
LEMMA MineFinite ==
    ASSUME NEW R, NEW l \in Seq(R), NEW o
    PROVE  IsFiniteSet(Mine(l, o)) /\ Cardinality(Mine(l, o)) \in Nat
<1> DEFINE D == DOMAIN l  M == Mine(l, o)
<1>1. D = 1 .. Len(l) /\ Len(l) \in Nat
  OBVIOUS
<1>2. IsFiniteSet(D)
  BY <1>1, FS_Interval
<1>3. M \in SUBSET D
  BY DEF Mine
<1> HIDE DEF D, M
<1>4. IsFiniteSet(M) /\ Cardinality(M) \in Nat
  BY <1>2, <1>3, FS_Subset, FS_CardinalityType
<1> QED BY <1>4 DEF M

\* Deleting members of others leaves those of o; deleting all of o's leaves none.
LEMMA OmitCounts ==
    ASSUME NEW R, NEW l \in Seq(R), NEW S, NEW o
    PROVE  /\ (\A w \in S : w.owner # o) =>
                Cardinality(Mine(Omit(l, S), o)) = Cardinality(Mine(l, o))
           /\ (\A w \in ToSet(l) : w.owner = o => w \in S) =>
                Cardinality(Mine(Omit(l, S), o)) = 0
<1> DEFINE m == Omit(l, S)  n == Len(l)  c == Len(m)  A == Mine(l, o)  B == Mine(m, o)
<1>1. PICK h : Rest(m, h, l, n, S)
  BY OmitIs
<1>2. m \in Seq(R) /\ c \in Nat /\ n \in Nat
  BY OmitIs
<1>3. DOMAIN m = 1 .. c /\ DOMAIN l = 1 .. n
  BY <1>2
<1> HIDE DEF m, c
<1>4. /\ h \in [1 .. c -> 1 .. n] /\ \A i, j \in 1 .. c : i < j => h[i] < h[j]
      /\ \A i \in 1 .. c : m[i] = l[h[i]] /\ m[i] \notin S
      /\ \A k \in 1 .. n : l[k] \notin S => \E i \in 1 .. c : h[i] = k
  BY <1>1 DEF Rest, c
<1> HIDE DEF n
<1>5. /\ A = {i \in 1 .. n : l[i].owner = o} /\ B = {i \in 1 .. c : m[i].owner = o}
  BY <1>3 DEF Mine
<1>6. ASSUME \A w \in S : w.owner # o PROVE Cardinality(B) = Cardinality(A)
  <2> DEFINE g == [i \in B |-> h[i]]
  <2>1. \A i \in B : i \in 1 .. c /\ h[i] \in 1 .. n /\ h[i] \in A
    BY <1>4, <1>5
  <2>2. ASSUME NEW i \in B, NEW j \in B, h[i] = h[j] PROVE i = j
    <3>1. i < j \/ i = j \/ j < i
      BY <1>2, <2>1
    <3>2. h[i] \in Int /\ h[j] \in Int
      BY <2>1
    <3> QED BY <1>4, <2>1, <2>2, <3>1, <3>2
  <2>3. ASSUME NEW k \in A PROVE \E i \in B : h[i] = k
    <3>1. k \in 1 .. n /\ l[k] \notin S
      BY <1>5, <1>6
    <3>2. PICK i \in 1 .. c : h[i] = k
      BY <1>4, <3>1
    <3> QED BY <1>4, <1>5, <3>2
  <2> HIDE DEF A, B
  <2>4. g \in Bijection(B, A)
    <3>1. g \in [B -> A]
      BY <2>1
    <3>2. IsInjective(g)
      BY <2>2 DEF IsInjective
    <3>3. \A k \in A : \E i \in B : g[i] = k
      BY <2>3
    <3> QED BY <3>1, <3>2, <3>3 DEF Bijection, Injection, Surjection
  <2>5. ExistsBijection(B, A)
    BY <2>4 DEF ExistsBijection
  <2>6. IsFiniteSet(B)
    BY <1>2, MineFinite DEF B
  <2> QED BY <2>5, <2>6, FS_Bijection
<1>7. ASSUME \A w \in ToSet(l) : w.owner = o => w \in S PROVE Cardinality(B) = 0
  <2>1. ASSUME NEW i \in B PROVE FALSE
    <3>1. i \in 1 .. c /\ m[i].owner = o /\ h[i] \in 1 .. n /\ m[i] = l[h[i]] /\ m[i] \notin S
      BY <1>4, <1>5
    <3>2. m[i] \in ToSet(l)
      BY <3>1, Members DEF n
    <3> QED BY <1>7, <3>1, <3>2
  <2>2. B = {}
    BY <2>1
  <2> QED BY <2>2, FS_EmptySet
<1> HIDE DEF A, B
<1>8. /\ (\A w \in S : w.owner # o) => Cardinality(B) = Cardinality(A)
      /\ (\A w \in ToSet(l) : w.owner = o => w \in S) => Cardinality(B) = 0
  BY <1>6, <1>7
<1> QED BY <1>8 DEF A, B, m
=============================================================================
