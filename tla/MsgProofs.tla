----------------------------- MODULE MsgProofs ------------------------------
(***************************************************************************)
(* Theorems about Msg, for every number of processes, queues, headers and  *)
(* segments and every choice of messages and of arguments of msgrcv: who   *)
(* sleeps starves; the accounts of Msg, where every header, segment and    *)
(* byte of the queues has one owner; and that Msg implements MsgAbs.       *)
(***************************************************************************)
EXTENDS MsgRefine, InductionLemmas, TLAPS

\* A leaf is tried with SMT, then with Zenon, then with more time for each
USE SMT, Zenon, SMTT(30), ZenonT(60)

\* The types of TypeOK without the bounds that rest on the accounts of bytes and
\* segments
Node  == [type : Nat \ {0}, ts : Nat, spot : Int]
Hdr   == [alloc : BOOLEAN, seq : 0 .. SEQMAX, qbytes : Nat, cbytes : Int, qnum : Int,
          msgs : Seq(Node), rwait : BOOLEAN, wwait : BOOLEAN]
Frame == [op : {"none", "msgctl", "msgrcv", "msgsnd"}, id : Id, arg : Argument,
          pick : Nat, spot : Int, then : Pcs]

Types ==
    /\ msgque \in [Slot -> Hdr] /\ msglock \in [Slot -> BOOLEAN]
    /\ msgfp \in Nat /\ msgmap \subseteq Int /\ mapwant \in BOOLEAN
    /\ wchan \in [Proc -> Chan \cup {NoChan}]
    /\ pc \in [Proc -> Pcs] /\ call \in [Proc -> Frame]

-----------------------------------------------------------------------------
(* The loops of the code *)

\* A receiver that asks for this type takes a message of type t
Suits(t, type) ==
    \/ type = 0
    \/ type > 0 /\ t = type
    \/ type < 0 /\ t <= -type

\* The loop of msgrcv finds nothing only when no message suits; it finds the
\* first message, the first of the type, or the first of the lowest type.
Found(msgs, type, r) ==
    /\ r \in 0 .. Len(msgs)
    /\ r = 0 => \A i \in 1 .. Len(msgs) : ~ Suits(msgs[i].type, type)
    /\ r # 0 =>
         /\ Suits(msgs[r].type, type)
         /\ type = 0 => r = 1
         /\ type > 0 => \A j \in 1 .. r - 1 : ~ Suits(msgs[j].type, type)
         /\ type < 0 => /\ \A j \in 1 .. Len(msgs) : msgs[r].type <= msgs[j].type
                        /\ \A j \in 1 .. r - 1 : msgs[r].type < msgs[j].type

\* One turn of the loop
Better(msgs, type, best, i) ==
    IF type > 0 THEN IF best = 0 /\ msgs[i].type = type THEN i ELSE best
    ELSE IF msgs[i].type <= -type /\ (best = 0 \/ msgs[i].type < msgs[best].type)
         THEN i ELSE best

Turns(f, msgs, n, type) ==
    /\ f \in [0..n -> 0..n]
    /\ f[0] = 0 /\ f[n] = Findmsg(msgs, type)
    /\ \A i \in 1..n : f[i] = Better(msgs, type, f[i - 1], i)

\* The search is the loop of these turns.
LEMMA FindmsgTurns ==
    ASSUME NEW msgs, NEW n \in Nat, DOMAIN msgs = 1..n, NEW type, type # 0, n # 0
    PROVE  \E f : Turns(f, msgs, n, type)
<1> DEFINE id == [i \in DOMAIN msgs |-> i]
           better(v, i) == Better(msgs, type, v, i)
           IsFold(g) == g = [s \in SUBSET DOMAIN id |->
                               IF s = {} THEN 0 ELSE better(g[s \ {Max(s)}], id[Max(s)])]
           it == CHOOSE g : IsFold(g)
           step == [p \in (1..n) \X (0..n) |-> better(p[2], p[1])]
           f == [i \in 0..n |-> it[1..i]]
<1>1. Findmsg(msgs, type) = it[DOMAIN id]
  <2>1. msgs # <<>>
    OBVIOUS
  <2>2. Findmsg(msgs, type) = FoldLeftDomain(LAMBDA best, i : Better(msgs, type, best, i), 0, msgs)
    BY <2>1 DEF Findmsg, Better
  <2> QED BY <2>2 DEF FoldLeftDomain, FoldLeft, MapThenFoldSet
<1>2. DOMAIN id = 1..n /\ \A i \in 1..n : id[i] = i
  OBVIOUS
<1>3. \A v \in 0..n, i \in 1..n : better(v, i) \in 0..n
  BY DEF Better
<1> HIDE DEF better, id
<1>4. \A i \in 1..n, v \in 0..n : step[<<i, v>>] = better(v, i)
  OBVIOUS
<1>5. IsFold(it)
  <2> DEFINE V == 0..n
  <2>1. 0 \in V /\ \A i \in 1..n, v \in V : step[<<i, v>>] \in V
    <3> HIDE DEF step
    <3>1. ASSUME NEW i \in 1..n, NEW v \in V PROVE step[<<i, v>>] \in V
      BY <1>3, <1>4
    <3> QED BY <3>1
  <2>2. PICK g : IsLeftRecursion(g, n, V, 0, step)
    <3> HIDE DEF step, V
    <3> QED BY <2>1, LeftRecursion
  <2> HIDE DEF step
  <2>3. \A s \in SUBSET (1..n) : s # {} => g[s] = better(g[s \ {Max(s)}], id[Max(s)])
    <3> SUFFICES ASSUME NEW s \in SUBSET (1..n), s # {}
                 PROVE  g[s] = better(g[s \ {Max(s)}], id[Max(s)])
      OBVIOUS
    <3>1. Max(s) \in s
      BY MaxIn
    <3>2. Max(s) \in 1..n /\ id[Max(s)] = Max(s)
      BY <1>2, <3>1
    <3>3. g[s \ {Max(s)}] \in V /\ g[s] = step[<<Max(s), g[s \ {Max(s)}]>>]
      BY <2>2 DEF IsLeftRecursion
    <3> HIDE DEF step
    <3> QED BY <1>4, <3>2, <3>3
  <2>4. IsFold(g)
    BY <1>2, <2>2, <2>3 DEF IsLeftRecursion
  <2> HIDE DEF IsFold
  <2> QED BY <2>4
<1> HIDE DEF it
<1>6. it[1..0] = 0
  BY <1>2, <1>5, 1..0 = {}
<1>7. ASSUME NEW i \in 1..n PROVE it[1..i] = better(it[1..(i - 1)], i)
  <2> DEFINE s == 1..i
  <2>1. Max(s) = i /\ s \ {i} = 1..(i - 1) /\ s \in SUBSET (1..n) /\ s # {}
    BY Segments
  <2> HIDE DEF s
  <2>2. it[s] = better(it[s \ {Max(s)}], id[Max(s)])
    BY <1>2, <1>5, <2>1
  <2> QED BY <1>2, <2>1, <2>2 DEF s
<1>8. f[0] = 0 /\ f[n] = it[1..n] /\ \A i \in 1..n : f[i] = better(f[i - 1], i)
  BY <1>6, <1>7
<1>9. f \in [0..n -> 0..n]
  <2> DEFINE T == {i \in Nat : i <= n => f[i] \in 0..n}
  <2> HIDE DEF f
  <2>1. 0 \in T
    BY <1>8
  <2>2. ASSUME NEW i \in Nat, i \in T PROVE i + 1 \in T
    <3> SUFFICES ASSUME i + 1 <= n PROVE f[i + 1] \in 0..n
      OBVIOUS
    <3>1. f[i] \in 0..n /\ i + 1 \in 1..n /\ (i + 1) - 1 = i
      BY <2>2
    <3> QED BY <1>3, <1>8, <3>1
  <2>3. \A i \in Nat : i \in T
    <3> HIDE DEF T
    <3> QED BY <2>1, <2>2, SetInduction
  <2>4. \A i \in 0..n : f[i] \in 0..n
    BY <2>3
  <2> QED BY <2>4 DEF f
<1> HIDE DEF f
<1>10. Turns(f, msgs, n, type)
  BY <1>1, <1>2, <1>8, <1>9 DEF better, Turns
<1> QED BY <1>10

\* The search finds what Found says.
LEMMA FindmsgFinds ==
    ASSUME NEW msgs \in Seq(Node), NEW type \in Int
    PROVE  Found(msgs, type, Findmsg(msgs, type))
<1> DEFINE n == Len(msgs)
<1>1. n \in Nat /\ DOMAIN msgs = 1..n /\ \A i \in 1..n : msgs[i].type \in Nat
  <2>1. n \in Nat /\ DOMAIN msgs = 1..n
    BY LenProperties
  <2>2. \A i \in 1..n : msgs[i] \in Node
    BY ElementOfSeq
  <2> HIDE DEF n
  <2> QED BY <2>1, <2>2 DEF Node
<1>2. CASE n = 0
  <2>1. msgs = <<>>
    BY <1>2, EmptySeq
  <2> QED BY <1>2, <2>1 DEF Findmsg, Found
<1>3. CASE n # 0 /\ type = 0
  <2>1. msgs # <<>>
    BY <1>3
  <2> QED BY <1>1, <1>3, <2>1 DEF Findmsg, Found, Suits
<1>4. CASE n # 0 /\ type # 0
  <2> HIDE DEF n
  <2>6. PICK f : Turns(f, msgs, n, type)
    BY <1>1, <1>4, FindmsgTurns
  <2>1. /\ f \in [0..n -> 0..n] /\ f[0] = 0 /\ f[n] = Findmsg(msgs, type)
        /\ \A i \in 1..n : f[i] = Better(msgs, type, f[i - 1], i)
    BY <2>6 DEF Turns
  <2> DEFINE ok(j, r) ==
               /\ r \in 0..j
               /\ r = 0 => \A i \in 1..j : ~ Suits(msgs[i].type, type)
               /\ r # 0 =>
                    /\ Suits(msgs[r].type, type)
                    /\ type > 0 => \A i \in 1..r - 1 : ~ Suits(msgs[i].type, type)
                    /\ type < 0 => /\ \A i \in 1..j : msgs[r].type <= msgs[i].type
                                   /\ \A i \in 1..r - 1 : msgs[r].type < msgs[i].type
             T == {j \in Nat : j <= n => ok(j, f[j])}
  <2>2. 0 \in T
    BY <2>1
  <2>3. ASSUME NEW j \in Nat, j \in T PROVE j + 1 \in T
    <3> SUFFICES ASSUME j + 1 <= n PROVE ok(j + 1, f[j + 1])
      OBVIOUS
    <3> DEFINE v == f[j]  w == f[j + 1]
    <3>1. ok(j, v) /\ v \in 0..j
      BY <1>1, <2>3
    <3>2. w = Better(msgs, type, v, j + 1)
      BY <2>1
    <3>3. \A i \in 1..(j + 1) : i \in 1..j \/ i = j + 1
      OBVIOUS
    <3>4. msgs[j + 1].type \in Nat /\ \A i \in 1..j : msgs[i].type \in Nat
      BY <1>1
    <3> HIDE DEF v, w
    <3>7. ok(j + 1, w)
      <4>1. CASE type > 0
        BY <3>1, <3>2, <3>3, <3>4, <4>1 DEF Better, Suits
      <4>2. CASE type < 0
        <5> DEFINE t == msgs[j + 1].type
        <5>1. w = IF t <= -type /\ (v = 0 \/ t < msgs[v].type) THEN j + 1 ELSE v
          BY <3>2, <4>2 DEF Better
        <5>2. \A u : Suits(u, type) <=> u <= -type
          BY <4>2 DEF Suits
        <5>3. CASE w = v /\ ~ (t <= -type /\ (v = 0 \/ t < msgs[v].type))
          <6>1. CASE v = 0
            BY <3>1, <3>3, <3>4, <4>2, <5>2, <5>3, <6>1
          <6>2. CASE v # 0
            BY <3>1, <3>3, <3>4, <4>2, <5>2, <5>3, <6>2
          <6> HIDE DEF ok
          <6> QED BY <6>1, <6>2
        <5>4. CASE w = j + 1 /\ t <= -type /\ (v = 0 \/ t < msgs[v].type)
          <6>1. CASE v = 0
            BY <3>1, <3>3, <3>4, <4>2, <5>2, <5>4, <6>1
          <6>2. CASE v # 0
            <7>1. v \in 1..j /\ \A i \in 1..j : msgs[v].type <= msgs[i].type
              BY <3>1, <4>2, <6>2
            <7>2. \A i \in 1..j : t < msgs[i].type
              BY <3>4, <5>4, <6>2, <7>1
            <7> QED BY <3>3, <3>4, <4>2, <5>2, <5>4, <7>2
          <6> HIDE DEF ok
          <6> QED BY <6>1, <6>2
        <5> HIDE DEF ok
        <5> QED BY <5>1, <5>3, <5>4
      <4>3. type > 0 \/ type < 0
        BY <1>4
      <4> HIDE DEF ok
      <4> QED BY <4>1, <4>2, <4>3
    <3> QED BY <3>7 DEF w
  <2>4. n \in T
    <3> HIDE DEF T
    <3> QED BY <1>1, <2>2, <2>3, SetInduction
  <2>5. ok(n, f[n])
    BY <1>1, <2>4
  <2> QED BY <1>4, <2>1, <2>5 DEF Found, n
<1> QED BY <1>2, <1>3, <1>4

\* rmfree adds the segments or loses them, and takes none away.
LEMMA MappedAdds ==
    ASSUME NEW free \in SUBSET Int, NEW spot \in Int, NEW n \in Nat
    PROVE  /\ Mapped(free, spot, n) \in SUBSET Int
           /\ free \subseteq Mapped(free, spot, n)
           /\ \A u \in Mapped(free, spot, n) : u \in free \/ (n > 0 /\ u \in Segs(spot, n))
<1>1. Segs(spot, n) \subseteq Int
  BY DEF Segs
<1>2. Mapped(free, spot, n) = free \/ (n # 0 /\ Mapped(free, spot, n) = free \cup Segs(spot, n))
  BY DEF Mapped, Freed
<1> DEFINE after == Mapped(free, spot, n)
           segs == Segs(spot, n)
<1> HIDE DEF after, segs
<1>3. segs \subseteq Int /\ (after = free \/ (n # 0 /\ after = free \cup segs))
  BY <1>1, <1>2 DEF after, segs
<1>4. /\ after \in SUBSET Int /\ free \subseteq after
      /\ \A u \in after : u \in free \/ (n > 0 /\ u \in segs)
  <2>1. n # 0 => n > 0
    OBVIOUS
  <2>2. CASE after = free
    BY <2>2
  <2>3. CASE n # 0 /\ after = free \cup segs
    BY <1>3, <2>1, <2>3
  <2> QED BY <1>3, <2>2, <2>3
<1> QED BY <1>4 DEF after, segs

\* The loop of msgrmid that frees the messages of the queue.
Frees(f, free, msgs, n) ==
    /\ f \in [0..n -> SUBSET Int]
    /\ f[0] = free /\ f[n] = FreeAll(free, msgs)
    /\ \A i \in 1..n : f[i] = Mapped(f[i - 1], msgs[i].spot, msgs[i].ts)

\* FreeAll is that loop.
LEMMA FreeAllTurns ==
    ASSUME NEW free \in SUBSET Int, NEW msgs, NEW n \in Nat, DOMAIN msgs = 1..n,
           \A i \in 1..n : msgs[i].spot \in Int /\ msgs[i].ts \in Nat
    PROVE  \E f : Frees(f, free, msgs, n)
<1> DEFINE next(v, m) == Mapped(v, m.spot, m.ts)
           IsFold(g) == g = [s \in SUBSET (1..n) |->
                               IF s = {} THEN free ELSE next(g[s \ {Max(s)}], msgs[Max(s)])]
           it == CHOOSE g : IsFold(g)
           V == SUBSET Int
           step == [p \in (1..n) \X V |-> next(p[2], msgs[p[1]])]
           f == [i \in 0..n |-> it[1..i]]
<1>1. FreeAll(free, msgs) = it[1..n]
  BY DEF FreeAll, FoldLeft, MapThenFoldSet
<1>2. \A v \in V, i \in 1..n : next(v, msgs[i]) \in V
  BY MappedAdds
<1> HIDE DEF next, V
<1>3. \A i \in 1..n, v \in V : step[<<i, v>>] = next(v, msgs[i])
  OBVIOUS
<1>4. free \in V
  BY DEF V
<1>5. IsFold(it)
  <2>1. \A i \in 1..n, v \in V : step[<<i, v>>] \in V
    <3> HIDE DEF step
    <3> QED BY <1>2, <1>3
  <2>2. PICK g : IsLeftRecursion(g, n, V, free, step)
    <3> HIDE DEF step
    <3> QED BY <1>4, <2>1, LeftRecursion
  <2> HIDE DEF step
  <2>3. \A s \in SUBSET (1..n) : s # {} => g[s] = next(g[s \ {Max(s)}], msgs[Max(s)])
    BY <1>3, <2>2, MaxIn DEF IsLeftRecursion
  <2>4. IsFold(g)
    BY <2>2, <2>3 DEF IsLeftRecursion
  <2> HIDE DEF IsFold
  <2> QED BY <2>4
<1> HIDE DEF it
<1>6. it[1..0] = free
  BY <1>5, 1..0 = {}
<1>7. ASSUME NEW i \in 1..n PROVE it[1..i] = next(it[1..(i - 1)], msgs[i])
  <2> DEFINE s == 1..i
  <2>1. Max(s) = i /\ s \ {i} = 1..(i - 1) /\ s \in SUBSET (1..n) /\ s # {}
    BY Segments
  <2> HIDE DEF s
  <2>2. it[s] = next(it[s \ {Max(s)}], msgs[Max(s)])
    BY <1>5, <2>1
  <2> QED BY <2>1, <2>2 DEF s
<1>8. f[0] = free /\ f[n] = it[1..n] /\ \A i \in 1..n : f[i] = next(f[i - 1], msgs[i])
  BY <1>6, <1>7
<1>9. f \in [0..n -> V]
  <2> DEFINE T == {i \in Nat : i <= n => f[i] \in V}
  <2> HIDE DEF f
  <2>1. 0 \in T
    BY <1>4, <1>8
  <2>2. ASSUME NEW i \in Nat, i \in T PROVE i + 1 \in T
    <3> SUFFICES ASSUME i + 1 <= n PROVE f[i + 1] \in V
      OBVIOUS
    <3>1. f[i] \in V /\ i + 1 \in 1..n /\ (i + 1) - 1 = i
      BY <2>2
    <3> QED BY <1>2, <1>8, <3>1
  <2>3. \A i \in Nat : i \in T
    <3> HIDE DEF T
    <3> QED BY <2>1, <2>2, SetInduction
  <2>4. \A i \in 0..n : f[i] \in V
    BY <2>3
  <2> QED BY <2>4 DEF f
<1> HIDE DEF f
<1>10. Frees(f, free, msgs, n)
  BY <1>1, <1>8, <1>9 DEF Frees, next, V
<1> QED BY <1>10

\* It takes no segment away and adds none but those of the messages.
LEMMA FreeAllAdds ==
    ASSUME NEW free \in SUBSET Int, NEW msgs \in Seq(Node)
    PROVE  /\ FreeAll(free, msgs) \in SUBSET Int
           /\ free \subseteq FreeAll(free, msgs)
           /\ \A u \in FreeAll(free, msgs) :
                u \in free \/ \E i \in 1 .. Len(msgs) :
                                msgs[i].ts > 0 /\ u \in Segs(msgs[i].spot, msgs[i].ts)
<1> DEFINE n == Len(msgs)
<1>1. n \in Nat /\ DOMAIN msgs = 1..n
  BY LenProperties
<1>2. \A i \in 1..n : msgs[i].spot \in Int /\ msgs[i].ts \in Nat
  <2>1. \A i \in 1..n : msgs[i] \in Node
    BY ElementOfSeq
  <2> HIDE DEF n
  <2> QED BY <2>1 DEF Node
<1> HIDE DEF n
<1>3. PICK f : Frees(f, free, msgs, n)
  BY <1>1, <1>2, FreeAllTurns
<1> DEFINE from(i, u) == msgs[i].ts > 0 /\ u \in Segs(msgs[i].spot, msgs[i].ts)
           ok(j) == /\ free \subseteq f[j]
                    /\ \A u \in f[j] : u \in free \/ \E i \in 1..n : from(i, u)
           T == {j \in Nat : j <= n => ok(j)}
<1>4. 0 \in T
  BY <1>3 DEF Frees
<1>5. ASSUME NEW j \in Nat, j \in T PROVE j + 1 \in T
  <2> SUFFICES ASSUME j + 1 <= n PROVE ok(j + 1)
    OBVIOUS
  <2>1. ok(j) /\ j + 1 \in 1..n /\ (j + 1) - 1 = j /\ j \in 0..n
    BY <1>1, <1>5
  <2>2. f[j] \in SUBSET Int /\ f[j + 1] = Mapped(f[j], msgs[j + 1].spot, msgs[j + 1].ts)
    BY <1>3, <2>1 DEF Frees
  <2>3. /\ f[j] \subseteq f[j + 1]
        /\ \A u \in f[j + 1] : u \in f[j] \/ from(j + 1, u)
    BY <1>2, <2>1, <2>2, MappedAdds
  <2> HIDE DEF from
  <2> QED BY <2>1, <2>3
<1>6. n \in T
  <2> HIDE DEF T
  <2> QED BY <1>1, <1>4, <1>5, SetInduction
<1>7. ok(n) /\ f[n] = FreeAll(free, msgs) /\ f[n] \in SUBSET Int
  BY <1>1, <1>3, <1>6 DEF Frees
<1> QED BY <1>7 DEF n

\* A receiver that finds nothing finds nothing when another message is gone.
LEMMA RemovedFinds ==
    ASSUME NEW msgs \in Seq(Node), NEW k \in 1 .. Len(msgs), NEW type \in Int,
           Findmsg(msgs, type) = 0
    PROVE  Findmsg(RemoveAt(msgs, k), type) = 0
<1> DEFINE n == Len(msgs)  r == RemoveAt(msgs, k)  j == Findmsg(r, type)
<1>1. n \in Nat /\ k \in Nat
  BY LenProperties
<1>2. r \in Seq(Node) /\ Len(r) = n - 1
  BY Removed
<1>3. \A i \in 1 .. n - 1 : r[i] = msgs[IF i < k THEN i ELSE i + 1]
  BY Removed
<1>4. \A i \in 1 .. n : ~ Suits(msgs[i].type, type)
  BY FindmsgFinds DEF Found
<1>5. Found(r, type, j)
  <2> HIDE DEF r
  <2> QED BY <1>2, FindmsgFinds
<1> HIDE DEF r, n, j
<1>6. \A i \in 1 .. n - 1 : ~ Suits(r[i].type, type)
  <2> SUFFICES ASSUME NEW i \in 1 .. n - 1 PROVE ~ Suits(r[i].type, type)
    OBVIOUS
  <2>1. (IF i < k THEN i ELSE i + 1) \in 1 .. n
    BY <1>1
  <2> QED BY <1>3, <1>4, <2>1
<1>7. j = 0
  BY <1>1, <1>2, <1>5, <1>6 DEF Found
<1> QED BY <1>7 DEF j, r

\* The bytes on a queue.
Bytes(msgs) == FoldLeft(LAMBDA n, m : n + m.ts, 0, msgs)

Adds(f, msgs, n) ==
    /\ f \in [0..n -> Nat]
    /\ f[0] = 0 /\ f[n] = Bytes(msgs)
    /\ \A i \in 1..n : f[i] = f[i - 1] + msgs[i].ts

\* The bytes are added up message by message.
LEMMA BytesTurns ==
    ASSUME NEW msgs, NEW n \in Nat, DOMAIN msgs = 1..n, \A i \in 1..n : msgs[i].ts \in Nat
    PROVE  \E f : Adds(f, msgs, n)
<1> DEFINE next(v, m) == v + m.ts
           IsFold(g) == g = [s \in SUBSET (1..n) |->
                               IF s = {} THEN 0 ELSE next(g[s \ {Max(s)}], msgs[Max(s)])]
           it == CHOOSE g : IsFold(g)
           V == Nat
           step == [p \in (1..n) \X V |-> next(p[2], msgs[p[1]])]
           f == [i \in 0..n |-> it[1..i]]
<1>1. Bytes(msgs) = it[1..n]
  BY DEF Bytes, FoldLeft, MapThenFoldSet
<1>2. \A v \in V, i \in 1..n : next(v, msgs[i]) \in V
  OBVIOUS
<1>4. 0 \in V
  OBVIOUS
<1> HIDE DEF next, V
<1>3. \A i \in 1..n, v \in V : step[<<i, v>>] = next(v, msgs[i])
  OBVIOUS
<1>5. IsFold(it)
  <2>1. \A i \in 1..n, v \in V : step[<<i, v>>] \in V
    <3> HIDE DEF step
    <3> QED BY <1>2, <1>3
  <2>2. PICK g : IsLeftRecursion(g, n, V, 0, step)
    <3> HIDE DEF step
    <3> QED BY <1>4, <2>1, LeftRecursion
  <2> HIDE DEF step
  <2>3. \A s \in SUBSET (1..n) : s # {} => g[s] = next(g[s \ {Max(s)}], msgs[Max(s)])
    BY <1>3, <2>2, MaxIn DEF IsLeftRecursion
  <2>4. IsFold(g)
    BY <2>2, <2>3 DEF IsLeftRecursion
  <2> HIDE DEF IsFold
  <2> QED BY <2>4
<1> HIDE DEF it
<1>6. it[1..0] = 0
  BY <1>5, 1..0 = {}
<1>7. ASSUME NEW i \in 1..n PROVE it[1..i] = next(it[1..(i - 1)], msgs[i])
  <2> DEFINE s == 1..i
  <2>1. Max(s) = i /\ s \ {i} = 1..(i - 1) /\ s \in SUBSET (1..n) /\ s # {}
    BY Segments
  <2> HIDE DEF s
  <2>2. it[s] = next(it[s \ {Max(s)}], msgs[Max(s)])
    BY <1>5, <2>1
  <2> QED BY <2>1, <2>2 DEF s
<1>8. f[0] = 0 /\ f[n] = it[1..n] /\ \A i \in 1..n : f[i] = next(f[i - 1], msgs[i])
  BY <1>6, <1>7
<1>9. f \in [0..n -> V]
  <2> DEFINE T == {i \in Nat : i <= n => f[i] \in V}
  <2> HIDE DEF f
  <2>1. 0 \in T
    BY <1>4, <1>8
  <2>2. ASSUME NEW i \in Nat, i \in T PROVE i + 1 \in T
    <3> SUFFICES ASSUME i + 1 <= n PROVE f[i + 1] \in V
      OBVIOUS
    <3>1. f[i] \in V /\ i + 1 \in 1..n /\ (i + 1) - 1 = i
      BY <2>2
    <3> QED BY <1>2, <1>8, <3>1
  <2>3. \A i \in Nat : i \in T
    <3> HIDE DEF T
    <3> QED BY <2>1, <2>2, SetInduction
  <2>4. \A i \in 0..n : f[i] \in V
    BY <2>3
  <2> QED BY <2>4 DEF f
<1> HIDE DEF f
<1>10. Adds(f, msgs, n)
  BY <1>1, <1>8, <1>9 DEF Adds, next, V
<1> QED BY <1>10

\* The same for a list of messages.
LEMMA ListAdds ==
    ASSUME NEW msgs \in Seq(Node)
    PROVE  /\ Len(msgs) \in Nat
           /\ \A i \in 1 .. Len(msgs) : msgs[i] \in Node /\ msgs[i].ts \in Nat
           /\ \E f : Adds(f, msgs, Len(msgs))
<1> DEFINE n == Len(msgs)
<1>1. n \in Nat /\ DOMAIN msgs = 1..n
  BY LenProperties
<1>2. \A i \in 1..n : msgs[i] \in Node
  BY ElementOfSeq
<1> HIDE DEF n
<1>3. \A i \in 1..n : msgs[i].ts \in Nat
  BY <1>2 DEF Node
<1>4. \E f : Adds(f, msgs, n)
  BY <1>1, <1>3, BytesTurns
<1> QED BY <1>1, <1>2, <1>3, <1>4 DEF n

\* The bytes of an empty queue, and of one where a message comes or goes.
LEMMA NoBytes == Bytes(<<>>) = 0
<1> DEFINE e == <<>>
<1>1. e \in Seq(Node) /\ Len(e) = 0
  OBVIOUS
<1> HIDE DEF e
<1>2. \E f : Adds(f, e, 0)
  BY <1>1, ListAdds
<1> QED BY <1>2 DEF Adds, e

\* There are not less than no bytes.
LEMMA SomeBytes == ASSUME NEW msgs \in Seq(Node) PROVE Bytes(msgs) \in Nat
<1> DEFINE n == Len(msgs)
<1>1. n \in Nat /\ \E f : Adds(f, msgs, n)
  BY ListAdds
<1> HIDE DEF n
<1> QED BY <1>1 DEF Adds

\* A message that comes brings its bytes.
LEMMA BytesAppend ==
    ASSUME NEW msgs \in Seq(Node), NEW m \in Node
    PROVE  Bytes(Append(msgs, m)) = Bytes(msgs) + m.ts
<1> DEFINE n == Len(msgs)  r == Append(msgs, m)
<1>1. n \in Nat
  BY ListAdds
<1>2. r \in Seq(Node) /\ Len(r) = n + 1 /\ r[n + 1] = m /\ \A i \in 1..n : r[i] = msgs[i]
  BY AppendProperties
<1>3. PICK f : Adds(f, msgs, n)
  BY ListAdds
<1>4. PICK g : Adds(g, r, n + 1)
  <2> HIDE DEF r, n
  <2> QED BY <1>2, ListAdds
<1> HIDE DEF r, n
<1> DEFINE T == {i \in Nat : i <= n => g[i] = f[i]}
<1>5. 0 \in T
  BY <1>3, <1>4 DEF Adds
<1>6. ASSUME NEW i \in Nat, i \in T PROVE i + 1 \in T
  <2> SUFFICES ASSUME i + 1 <= n PROVE g[i + 1] = f[i + 1]
    OBVIOUS
  <2>1. i + 1 \in 1..n /\ i + 1 \in 1..(n + 1) /\ (i + 1) - 1 = i /\ g[i] = f[i]
    BY <1>1, <1>6
  <2> QED BY <1>2, <1>3, <1>4, <2>1 DEF Adds
<1>7. n \in T
  <2> HIDE DEF T
  <2> QED BY <1>1, <1>5, <1>6, SetInduction
<1>8. g[n] = f[n] /\ n + 1 \in 1..(n + 1) /\ (n + 1) - 1 = n
  BY <1>1, <1>7
<1>9. g[n + 1] = g[n] + m.ts
  BY <1>2, <1>4, <1>8 DEF Adds
<1> QED BY <1>3, <1>4, <1>8, <1>9 DEF Adds, r

\* A message that goes takes its bytes with it.
LEMMA BytesRemove ==
    ASSUME NEW msgs \in Seq(Node), NEW k \in 1 .. Len(msgs)
    PROVE  Bytes(RemoveAt(msgs, k)) = Bytes(msgs) - msgs[k].ts
<1> DEFINE n == Len(msgs)  r == RemoveAt(msgs, k)
<1>1. n \in Nat /\ k \in 1..n /\ \A i \in 1..n : msgs[i].ts \in Nat
  BY ListAdds
<1>2. r \in Seq(Node) /\ Len(r) = n - 1 /\ \A i \in 1..(n - 1) : r[i] = msgs[IF i < k THEN i ELSE i + 1]
  BY Removed
<1>3. PICK f : Adds(f, msgs, n)
  BY ListAdds
<1>4. PICK g : Adds(g, r, n - 1)
  <2> HIDE DEF r, n
  <2> QED BY <1>2, ListAdds
<1> DEFINE d == msgs[k].ts
<1>10. d \in Nat
  BY <1>1
<1> HIDE DEF r, n, d
<1> DEFINE T == {i \in Nat : i <= n - 1 => g[i] = IF i < k THEN f[i] ELSE f[i + 1] - d}
<1>11. f \in [0..n -> Nat] /\ \A i \in 1..n : f[i] = f[i - 1] + msgs[i].ts
  BY <1>3 DEF Adds
<1>5. 0 \in T
  BY <1>1, <1>3, <1>4 DEF Adds
<1>6. ASSUME NEW i \in Nat, i \in T PROVE i + 1 \in T
  <2> SUFFICES ASSUME i + 1 <= n - 1
               PROVE  g[i + 1] = IF i + 1 < k THEN f[i + 1] ELSE f[(i + 1) + 1] - d
    OBVIOUS
  <2>1. i + 1 \in 1..(n - 1) /\ (i + 1) - 1 = i
    BY <1>1
  <2>2. g[i] = IF i < k THEN f[i] ELSE f[i + 1] - d
    BY <1>1, <1>6
  <2>3. g[i + 1] = g[i] + r[i + 1].ts
    BY <1>4, <2>1 DEF Adds
  <2>4. CASE i + 1 < k
    <3>1. r[i + 1] = msgs[i + 1] /\ g[i] = f[i]
      BY <1>1, <1>2, <2>1, <2>2, <2>4
    <3>2. i + 1 \in 1..n
      BY <1>1, <2>1
    <3>3. f[i + 1] = f[i] + msgs[i + 1].ts
      BY <1>11, <2>1, <3>2
    <3> QED BY <2>3, <2>4, <3>1, <3>3
  <2>5. CASE i + 1 >= k
    <3>1. r[i + 1] = msgs[(i + 1) + 1]
      BY <1>1, <1>2, <2>1, <2>5
    <3>2. (i + 1) + 1 \in 1..n /\ ((i + 1) + 1) - 1 = i + 1 /\ i + 1 \in 0..n
      BY <1>1, <2>1
    <3>3. f[(i + 1) + 1] = f[i + 1] + msgs[(i + 1) + 1].ts /\ f[i + 1] \in Nat
      BY <1>11, <3>2
    <3>4. g[i] = f[i + 1] - d
      <4>1. CASE i + 1 = k
        <5>1. g[i] = f[i]
          BY <1>1, <2>2, <4>1
        <5>2. i + 1 \in 1..n /\ i \in 0..n
          BY <1>1, <2>1, <4>1
        <5>3. f[i + 1] = f[i] + msgs[i + 1].ts /\ f[i] \in Nat
          BY <1>11, <2>1, <5>2
        <5>4. msgs[i + 1].ts = d
          BY <4>1 DEF d
        <5> QED BY <1>10, <5>1, <5>3, <5>4
      <4>2. CASE i >= k
        BY <1>1, <2>2, <4>2
      <4> QED BY <1>1, <2>5, <4>1, <4>2
    <3>5. msgs[(i + 1) + 1].ts \in Nat
      BY <1>1, <3>2
    <3> DEFINE x == f[i + 1]  y == msgs[(i + 1) + 1].ts  z == f[(i + 1) + 1]
    <3>6. z = x + y /\ x \in Nat /\ y \in Nat /\ g[i + 1] = (x - d) + y
      BY <2>3, <3>1, <3>3, <3>4, <3>5
    <3> HIDE DEF x, y, z
    <3>7. g[i + 1] = z - d
      BY <1>10, <3>6
    <3> QED BY <1>1, <2>5, <3>7 DEF z
  <2> QED BY <1>1, <2>4, <2>5
<1>7. n - 1 \in T
  <2>1. n - 1 \in Nat
    BY <1>1
  <2> HIDE DEF T
  <2> QED BY <2>1, <1>5, <1>6, SetInduction
<1>8. g[n - 1] = f[n] - d
  <2>1. n - 1 \in Nat /\ (n - 1) + 1 = n /\ k \in Nat /\ k <= n
    BY <1>1
  <2>2. CASE n - 1 < k
    <3>1. k = n /\ g[n - 1] = f[n - 1] /\ f[n] = f[n - 1] + d /\ f[n - 1] \in Nat
      BY <1>1, <1>7, <1>11, <2>1, <2>2 DEF d
    <3> QED BY <1>10, <3>1
  <2>3. CASE ~ (n - 1 < k)
    BY <1>7, <2>1, <2>3
  <2> QED BY <2>2, <2>3
<1> QED BY <1>3, <1>4, <1>8 DEF Adds, r, d

-----------------------------------------------------------------------------
(* Locks and sleepers *)

SndPlaces == {"type", "getres", "text", "wwait", "hwait", "mwait", "wintr", "intr"}
RcvPlaces == {"check", "findmsg", "rwait", "copyout"}
CtlPlaces == {"rmid", "set"}

\* A process at the place `at` with the locals f is in the call that has the
\* place, or goes on there when it has the lock
Asks(at, f) ==
    LET place == IF at \in {"conv", "lockwait"} THEN f.then ELSE at IN
    /\ place \in SndPlaces => f.op = "msgsnd" /\ f.arg \in Sends
    /\ place \in RcvPlaces => f.op = "msgrcv" /\ f.arg \in Receives
    /\ place \in CtlPlaces => f.op = "msgctl"
    /\ at \in {"conv", "lockwait"} => f.then \in Locked \ {"text", "copyout"}
    /\ at = "user" => f = NoCall
    /\ at = "text" => f.arg.size > 0

\* A process that works on a queue has locked it; it is still the queue the call
\* named, and a receiver's choice is still what its search finds
Works(p) ==
    /\ pc[p] \in Locked => msglock[Q(p)] /\ Live(call[p].id)
    /\ pc[p] = "copyout" =>
         /\ call[p].pick # 0
         /\ call[p].pick = Findmsg(msgque[Q(p)].msgs, call[p].arg.type)

\* A sleeper is on the channel of its place, and what it waits for is not there
Waits(p) ==
    Asleep(p) =>
      \/ pc[p] = "lockwait" /\ wchan[p] = Lock(Q(p)) /\ msglock[Q(p)]
      \/ /\ pc[p] = "rwait" /\ wchan[p] = Qnum(Q(p))
         /\ Live(call[p].id) /\ msgque[Q(p)].rwait
         /\ Findmsg(msgque[Q(p)].msgs, call[p].arg.type) = 0
      \/ /\ pc[p] = "wwait" /\ wchan[p] = Qp(Q(p))
         /\ Live(call[p].id) /\ msgque[Q(p)].wwait
      \/ pc[p] = "hwait" /\ wchan[p] = Msgfp /\ msgfp = 0
      \/ pc[p] = "mwait" /\ wchan[p] = Msgmap /\ mapwant /\ NoSegments(p)

Good(p) == Asks(pc[p], call[p]) /\ Works(p) /\ Waits(p)

OneHolder ==
    \A p, q \in Proc : pc[p] \in Locked /\ pc[q] \in Locked /\ Q(p) = Q(q) => p = q

LockOwned == \A s \in Slot : msglock[s] => \E p \in Proc : pc[p] \in Locked /\ Q(p) = s

Inv == Types /\ OneHolder /\ LockOwned /\ \A p \in Proc : Good(p)

\* What a step of p sets: the header of its queue to h, the lock to l; p itself
\* to channel c, place `where` and locals f; and it wakes the channels of W
Moves(p, h, l, W, c, where, f) ==
    /\ msgque' = [msgque EXCEPT ![Q(p)] = h]
    /\ msglock' = [msglock EXCEPT ![Q(p)] = l]
    /\ wchan' = [q \in Proc |-> IF q = p THEN c
                                ELSE IF wchan[q] \in W THEN NoChan ELSE wchan[q]]
    /\ pc' = [pc EXCEPT ![p] = where]
    /\ call' = [call EXCEPT ![p] = f]

\* The lock is taken when it is free or kept, or given up, or p has not got it
\* and leaves the queue alone
Locks(p, h, l, where, f) ==
    \/ /\ where \in Locked /\ l
       /\ pc[p] \in Locked \/ ~ msglock[Q(p)]
       /\ f.id = call[p].id /\ h.alloc /\ h.seq = f.id.seq
    \/ where \notin Locked /\ ~ l /\ (pc[p] \in Locked \/ ~ msglock[Q(p)])
    \/ /\ where \notin Locked /\ pc[p] \notin Locked
       /\ l = msglock[Q(p)] /\ h = msgque[Q(p)]

SameQueue(p, h) == h.alloc = msgque[Q(p)].alloc /\ h.seq = msgque[Q(p)].seq

\* Whoever sleeps for what the step gives is woken
Wakes(p, h, l, W) ==
    /\ msglock[Q(p)] /\ ~ l => Lock(Q(p)) \in W
    /\ msgque[Q(p)].rwait =>
         \/ Qnum(Q(p)) \in W
         \/ /\ SameQueue(p, h) /\ h.rwait
            /\ \A type \in Int :
                 Findmsg(msgque[Q(p)].msgs, type) = 0 => Findmsg(h.msgs, type) = 0
    /\ msgque[Q(p)].wwait => Qp(Q(p)) \in W \/ (SameQueue(p, h) /\ h.wwait)
    /\ msgfp = 0 => Msgfp \in W \/ msgfp' = 0
    /\ mapwant => Msgmap \in W \/ (mapwant' /\ msgmap' \subseteq msgmap)


\* The types in the pieces the steps change.
LEMMA MovesTypes ==
    ASSUME NEW p \in Proc, NEW h \in Hdr, NEW l \in BOOLEAN, NEW W,
           NEW c \in Chan \cup {NoChan}, NEW where \in Pcs, NEW f \in Frame,
           Types, Moves(p, h, l, W, c, where, f),
           msgfp' \in Nat, msgmap' \subseteq Int, mapwant' \in BOOLEAN
    PROVE  Types'
<1>1. Q(p) \in Slot
  BY DEF Types, Frame, Id, Q
<1>2. msgque' \in [Slot -> Hdr]
  BY <1>1 DEF Types, Moves
<1>3. msglock' \in [Slot -> BOOLEAN]
  BY <1>1 DEF Types, Moves
<1>4. wchan' \in [Proc -> Chan \cup {NoChan}]
  BY DEF Types, Moves
<1>5. pc' \in [Proc -> Pcs] /\ call' \in [Proc -> Frame]
  BY DEF Types, Moves
<1> QED BY <1>2, <1>3, <1>4, <1>5 DEF Types

\* Other processes stay where they were, with the locks they had, and those who
\* still sleep still have nothing to wake for.
LEMMA OthersGood ==
    ASSUME NEW p \in Proc, NEW h, NEW l \in BOOLEAN, NEW W, NEW c, NEW where, NEW f,
           Inv, Moves(p, h, l, W, c, where, f),
           Locks(p, h, l, where, f), Wakes(p, h, l, W), NEW q \in Proc \ {p}
    PROVE  Good(q)'
<1>1. Q(p) \in Slot /\ Q(q) \in Slot
  BY DEF Inv, Types, Frame, Id, Q
<1>2. pc'[q] = pc[q] /\ call'[q] = call[q] /\ Q(q)' = Q(q)
  BY DEF Moves, Inv, Types, Q
<1>3. wchan'[q] = IF wchan[q] \in W THEN NoChan ELSE wchan[q]
  BY DEF Moves
<1>4. /\ msgque'[Q(p)] = h /\ msglock'[Q(p)] = l
      /\ Q(q) # Q(p) => msgque'[Q(q)] = msgque[Q(q)] /\ msglock'[Q(q)] = msglock[Q(q)]
  BY <1>1 DEF Moves, Inv, Types
<1>5. Good(q) /\ Asks(pc[q], call[q])
  BY DEF Inv, Good
<1>6. Asks(pc'[q], call'[q])
  BY <1>2, <1>5
<1>7. Works(q)'
  <2>1. pc[q] \in Locked => msgque'[Q(q)] = msgque[Q(q)] /\ msglock'[Q(q)] = msglock[Q(q)]
    <3>1. CASE pc[p] \in Locked
      BY <1>4, <3>1 DEF Inv, OneHolder
    <3>2. CASE ~ msglock[Q(p)]
      BY <1>4, <1>5, <3>2 DEF Good, Works
    <3>3. CASE l = msglock[Q(p)] /\ h = msgque[Q(p)]
      BY <1>4, <3>3
    <3> QED BY <3>1, <3>2, <3>3 DEF Locks
  <2>2. pc[q] = "copyout" => pc[q] \in Locked
    BY DEF Locked
  <2> QED BY <1>2, <1>5, <2>1, <2>2 DEF Good, Works, Live, Q
<1>8. Waits(q)'
  <2> SUFFICES ASSUME wchan'[q] # NoChan PROVE Waits(q)'
    BY DEF Waits, Asleep
  <2>1. wchan[q] \notin W /\ wchan'[q] = wchan[q] /\ Asleep(q)
    BY <1>3 DEF Asleep
  <2>2. Waits(q)
    BY <1>5 DEF Good
  <2>3. CASE pc[q] = "lockwait" /\ wchan[q] = Lock(Q(q)) /\ msglock[Q(q)]
    <3>1. msglock'[Q(q)]
      BY <1>4, <2>1, <2>3 DEF Wakes
    <3> QED BY <1>2, <2>1, <2>3, <3>1 DEF Waits
  <2>4. CASE /\ pc[q] = "rwait" /\ wchan[q] = Qnum(Q(q))
             /\ Live(call[q].id) /\ msgque[Q(q)].rwait
             /\ Findmsg(msgque[Q(q)].msgs, call[q].arg.type) = 0
    <3>1. call[q].arg.type \in Int
      BY DEF Inv, Types, Frame, Argument
    <3>2. /\ msgque'[Q(q)].alloc = msgque[Q(q)].alloc /\ msgque'[Q(q)].seq = msgque[Q(q)].seq
          /\ msgque'[Q(q)].rwait /\ Findmsg(msgque'[Q(q)].msgs, call[q].arg.type) = 0
      BY <1>4, <2>1, <2>4, <3>1 DEF Wakes, SameQueue
    <3> QED BY <1>2, <2>1, <2>4, <3>2 DEF Waits, Live, Q
  <2>5. CASE /\ pc[q] = "wwait" /\ wchan[q] = Qp(Q(q))
             /\ Live(call[q].id) /\ msgque[Q(q)].wwait
    <3>1. /\ msgque'[Q(q)].alloc = msgque[Q(q)].alloc /\ msgque'[Q(q)].seq = msgque[Q(q)].seq
          /\ msgque'[Q(q)].wwait
      BY <1>4, <2>1, <2>5 DEF Wakes, SameQueue
    <3> QED BY <1>2, <2>1, <2>5, <3>1 DEF Waits, Live, Q
  <2>6. CASE pc[q] = "hwait" /\ wchan[q] = Msgfp /\ msgfp = 0
    BY <1>2, <2>1, <2>6 DEF Waits, Wakes
  <2>7. CASE pc[q] = "mwait" /\ wchan[q] = Msgmap /\ mapwant /\ NoSegments(q)
    <3>1. mapwant' /\ msgmap' \subseteq msgmap
      BY <2>1, <2>7 DEF Wakes
    <3>2. NoSegments(q)'
      BY <1>2, <2>7, <3>1 DEF NoSegments, Windows
    <3> QED BY <1>2, <2>1, <2>7, <3>1, <3>2 DEF Waits
  <2> QED BY <2>1, <2>2, <2>3, <2>4, <2>5, <2>6, <2>7 DEF Waits
<1> QED BY <1>6, <1>7, <1>8 DEF Good

\* What a step has to leave of its process
Ends(p, h, c, where, f) ==
    /\ Asks(where, f)
    /\ where = "copyout" => f.pick # 0 /\ f.pick = Findmsg(h.msgs, f.arg.type)
    /\ c = NoChan \/ Waits(p)'

\* A step that keeps to the rules above keeps the invariant.
LEMMA MovesKeep ==
    ASSUME NEW p \in Proc, NEW h \in Hdr, NEW l \in BOOLEAN, NEW W,
           NEW c \in Chan \cup {NoChan}, NEW where \in Pcs, NEW f \in Frame,
           Inv, Moves(p, h, l, W, c, where, f),
           msgfp' \in Nat, msgmap' \subseteq Int, mapwant' \in BOOLEAN,
           Locks(p, h, l, where, f), Wakes(p, h, l, W), Ends(p, h, c, where, f)
    PROVE  Inv'
<1>1. Types'
  BY MovesTypes DEF Inv
<1>2. Q(p) \in Slot /\ \A q \in Proc : Q(q) \in Slot
  BY DEF Inv, Types, Frame, Id, Q
<1>3. /\ pc'[p] = where /\ call'[p] = f /\ wchan'[p] = c
      /\ msgque'[Q(p)] = h /\ msglock'[Q(p)] = l
      /\ \A s \in Slot \ {Q(p)} : msglock'[s] = msglock[s]
      /\ \A q \in Proc \ {p} : pc'[q] = pc[q] /\ Q(q)' = Q(q)
  BY <1>2 DEF Moves, Inv, Types, Q
<1>4. where \in Locked => Q(p)' = Q(p) /\ l /\ h.alloc /\ h.seq = f.id.seq
                            /\ (pc[p] \in Locked \/ ~ msglock[Q(p)])
  BY <1>3 DEF Locks, Q
<1>5. Good(p)'
  <2>1. Works(p)'
    <3>1. "copyout" \in Locked
      BY DEF Locked
    <3> QED BY <1>3, <1>4, <3>1 DEF Ends, Works, Live, Q
  <2>2. Waits(p)'
    BY <1>3 DEF Ends, Waits, Asleep
  <2> QED BY <1>3, <2>1, <2>2 DEF Ends, Good
<1>6. \A q \in Proc : Good(q)'
  BY <1>5, OthersGood
<1>7. OneHolder'
  <2>1. \A q \in Proc \ {p} : where \in Locked /\ pc[q] \in Locked => Q(q) # Q(p)
    BY <1>4 DEF Inv, OneHolder, Good, Works
  <2> QED BY <1>3, <1>4, <2>1 DEF Inv, OneHolder
<1>8. LockOwned'
  <2> SUFFICES ASSUME NEW s \in Slot, msglock'[s]
               PROVE  \E q \in Proc : pc'[q] \in Locked /\ Q(q)' = s
    BY DEF LockOwned
  <2>1. CASE s = Q(p) /\ where \in Locked
    BY <1>3, <1>4, <2>1
  <2>2. CASE s = Q(p) /\ where \notin Locked
    <3>1. pc[p] \notin Locked /\ l = msglock[Q(p)]
      BY <1>3, <2>2 DEF Locks
    <3>2. PICK q \in Proc : pc[q] \in Locked /\ Q(q) = s
      BY <1>3, <2>2, <3>1 DEF Inv, LockOwned
    <3> QED BY <1>3, <3>1, <3>2
  <2>3. CASE s # Q(p)
    <3>1. PICK q \in Proc : pc[q] \in Locked /\ Q(q) = s
      BY <1>3, <2>3 DEF Inv, LockOwned
    <3>2. q # p
      BY <2>3, <3>1
    <3> QED BY <1>3, <3>1, <3>2
  <2> QED BY <2>1, <2>2, <2>3
<1> QED BY <1>1, <1>6, <1>7, <1>8 DEF Inv

Sleeps == {"lockwait", "rwait", "wwait", "hwait", "mwait"}

\* A process that is not at a sleep is not on a sleep queue.
LEMMA Running ==
    ASSUME Inv, NEW p \in Proc, pc[p] \notin Sleeps PROVE wchan[p] = NoChan
BY DEF Inv, Good, Waits, Asleep, Sleeps

\* The arguments of a process that is in no call.
LEMMA NoCallFrame == NoCall \in Frame
<1>1. 0 \in Slot /\ 0 \in 0 .. SEQMAX
  BY SizesAssumption DEF Slot
<1> QED BY <1>1 DEF NoCall, Frame, Id, Argument, Pcs

\* A step may be seen to set what it leaves alone.
LEMMA Own ==
    ASSUME Inv, NEW p \in Proc
    PROVE  /\ Q(p) \in Slot /\ msgque[Q(p)] \in Hdr /\ msglock[Q(p)] \in BOOLEAN
           /\ call[p] \in Frame /\ pc[p] \in Pcs
           /\ [msgque EXCEPT ![Q(p)] = msgque[Q(p)]] = msgque
           /\ [msglock EXCEPT ![Q(p)] = msglock[Q(p)]] = msglock
           /\ [call EXCEPT ![p] = call[p]] = call
           /\ [pc EXCEPT ![p] = pc[p]] = pc
           /\ Good(p)
<1>1. Q(p) \in Slot
  BY DEF Inv, Types, Frame, Id, Q
<1> QED BY <1>1 DEF Inv, Types

\* The process gives the lock up and leaves the kernel.
LEMMA Leaves ==
    ASSUME Inv, NEW p \in Proc, pc[p] \in Locked, NEW h \in Hdr, NEW C,
           msgque' = [msgque EXCEPT ![Q(p)] = h], Unlocked(Q(p), C), Return(p),
           Wakes(p, h, FALSE, C \cup {Lock(Q(p))}),
           msgfp' \in Nat, msgmap' \subseteq Int, mapwant' \in BOOLEAN
    PROVE  Inv'
<1>1. wchan[p] = NoChan
  BY Running DEF Locked, Sleeps
<1>2. Moves(p, h, FALSE, C \cup {Lock(Q(p))}, NoChan, "user", NoCall)
  BY <1>1 DEF Unlocked, Return, Goto, Wakeprocs, Moves
<1>3. Locks(p, h, FALSE, "user", NoCall)
  BY DEF Locks, Locked
<1>4. Ends(p, h, NoChan, "user", NoCall)
  BY DEF Ends, Asks, SndPlaces, RcvPlaces, CtlPlaces
<1> QED BY <1>2, <1>3, <1>4, NoCallFrame, MovesKeep DEF Pcs

\* The process gives the lock up and goes to sleep.
LEMMA FallsAsleep ==
    ASSUME Inv, NEW p \in Proc, pc[p] \in Locked, NEW h \in Hdr, NEW C,
           NEW c \in Chan, NEW where \in Sleeps,
           msgque' = [msgque EXCEPT ![Q(p)] = h], UnlockedAsleep(p, C, c, where),
           Wakes(p, h, FALSE, C \cup {Lock(Q(p))}),
           msgfp' \in Nat, msgmap' \subseteq Int, mapwant' \in BOOLEAN,
           Asks(where, call[p]), Waits(p)'
    PROVE  Inv'
<1>1. Moves(p, h, FALSE, C \cup {Lock(Q(p))}, c, where, call[p])
  <2>1. [call EXCEPT ![p] = call[p]] = call
    BY Own
  <2> QED BY <2>1 DEF UnlockedAsleep, Goto, Moves
<1>2. Locks(p, h, FALSE, where, call[p])
  BY DEF Locks, Locked, Sleeps
<1>3. Ends(p, h, c, where, call[p])
  BY DEF Ends, Sleeps
<1>4. where \in Pcs /\ call[p] \in Frame
  BY Own DEF Pcs, Sleeps
<1> QED BY <1>1, <1>2, <1>3, <1>4, MovesKeep

\* The process goes on without a change to its queue or its lock.
LEMMA GoesOn ==
    ASSUME Inv, NEW p \in Proc, pc[p] \notin Sleeps \/ ~ Asleep(p), NEW where \in Pcs, NEW f \in Frame,
           \/ pc[p] \in Locked /\ where \in Locked /\ f.id = call[p].id
           \/ pc[p] \notin Locked /\ where \notin Locked,
           msgque' = msgque, msglock' = msglock,
           NEW C, Wakeprocs(C),
           pc' = [pc EXCEPT ![p] = where], call' = [call EXCEPT ![p] = f],
           msgfp' \in Nat, msgfp = 0 => msgfp' = 0, mapwant' = mapwant, msgmap' \subseteq msgmap,
           Ends(p, msgque[Q(p)], NoChan, where, f)
    PROVE  Inv'
<1> DEFINE h == msgque[Q(p)]  l == msglock[Q(p)]
<1>1. wchan[p] = NoChan
  BY Running DEF Asleep
<1>2. h \in Hdr /\ l \in BOOLEAN /\ Works(p)
  BY Own DEF Good
<1>3. Moves(p, h, l, C, NoChan, where, f)
  BY <1>1, Own DEF Wakeprocs, Moves
<1>4. Locks(p, h, l, where, f)
  BY <1>2 DEF Locks, Works, Live, Q
<1>5. Wakes(p, h, l, C)
  BY <1>2 DEF Wakes, SameQueue
<1>6. msgmap' \subseteq Int /\ mapwant' \in BOOLEAN
  BY DEF Inv, Types
<1> HIDE DEF h, l
<1> QED BY <1>2, <1>3, <1>4, <1>5, <1>6, MovesKeep DEF h

-----------------------------------------------------------------------------
(* The steps *)

\* Who calls msgconv works on no queue.
LEMMA EnterInv ==
    ASSUME Inv, NEW p \in Proc, NEW op \in {"msgctl", "msgrcv", "msgsnd"}, NEW id \in Id,
           NEW arg \in Argument, NEW then \in {"type", "check", "rmid", "set"},
           then = "type" => op = "msgsnd" /\ arg \in Sends,
           then = "check" => op = "msgrcv" /\ arg \in Receives,
           then \in {"rmid", "set"} => op = "msgctl",
           Enter(p, op, id, arg, then)
    PROVE  Inv'
<1> DEFINE f == [NoCall EXCEPT !.op = op, !.id = id, !.arg = arg, !.then = then]
<1>1. f \in Frame
  BY NoCallFrame DEF Frame, Pcs
<1>2. f.op = op /\ f.arg = arg /\ f.then = then
  BY DEF NoCall
<1>3. /\ pc[p] = "user" /\ pc' = [pc EXCEPT ![p] = "conv"] /\ call' = [call EXCEPT ![p] = f]
      /\ msgque' = msgque /\ msglock' = msglock /\ wchan' = wchan
      /\ msgfp' = msgfp /\ msgmap' = msgmap /\ mapwant' = mapwant
  BY DEF Enter, At, Goto, poolVars
<1> HIDE DEF f
<1>4. Ends(p, msgque[Q(p)], NoChan, "conv", f)
  BY <1>2 DEF Ends, Asks, SndPlaces, RcvPlaces, CtlPlaces, Locked
<1>5. Wakeprocs({})
  BY <1>3 DEF Wakeprocs, Inv, Types
<1>6. "conv" \in Pcs /\ pc[p] \notin Sleeps /\ pc[p] \notin Locked /\ "conv" \notin Locked
  BY <1>3 DEF Pcs, Sleeps, Locked
<1>7. msgfp' \in Nat
  BY <1>3 DEF Inv, Types
<1> QED BY <1>1, <1>3, <1>4, <1>5, <1>6, <1>7, GoesOn

\* msgconv waits for the lock, takes it, or finds another queue in the slot.
LEMMA MsgconvInv ==
    ASSUME Inv, NEW p \in Proc, Msgconv(p) PROVE Inv'
<1> DEFINE h == msgque[Q(p)]
<1>1. pc[p] = "conv" /\ msgque' = msgque /\ msgfp' = msgfp /\ msgmap' = msgmap /\ mapwant' = mapwant
  BY DEF Msgconv, At, poolVars
<1>2. wchan[p] = NoChan /\ pc[p] \notin Locked
  BY <1>1, Running DEF Sleeps, Locked
<1>3. /\ Q(p) \in Slot /\ h \in Hdr /\ msglock[Q(p)] \in BOOLEAN /\ call[p] \in Frame
      /\ [msgque EXCEPT ![Q(p)] = h] = msgque /\ Asks("conv", call[p])
      /\ [call EXCEPT ![p] = call[p]] = call /\ [msglock EXCEPT ![Q(p)] = msglock[Q(p)]] = msglock
  BY <1>1, Own DEF Good
<1>4. msgfp' \in Nat /\ msgmap' \subseteq Int /\ mapwant' \in BOOLEAN
  BY <1>1 DEF Inv, Types
<1>5. CASE msglock[Q(p)] /\ GoToSleep(p, Lock(Q(p))) /\ Goto(p, "lockwait") /\ UNCHANGED <<msglock, call>>
  <2>1. Moves(p, h, TRUE, {}, Lock(Q(p)), "lockwait", call[p])
    BY <1>1, <1>3, <1>5 DEF GoToSleep, Goto, Moves, Inv, Types
  <2>2. Locks(p, h, TRUE, "lockwait", call[p])
    BY <1>2, <1>5 DEF Locks, Locked
  <2>3. Wakes(p, h, TRUE, {})
    BY <1>1 DEF Wakes, SameQueue
  <2>4. Ends(p, h, Lock(Q(p)), "lockwait", call[p])
    <3>1. Waits(p)'
      BY <1>3, <1>5, <2>1 DEF Waits, Q, Moves, Inv, Types
    <3>2. Asks("lockwait", call[p])
      BY <1>3 DEF Asks
    <3> QED BY <3>1, <3>2 DEF Ends
  <2>5. Lock(Q(p)) \in Chan /\ "lockwait" \in Pcs
    BY <1>3 DEF Chan, Lock, Pcs
  <2> HIDE DEF h
  <2> QED BY <1>3, <1>4, <2>1, <2>2, <2>3, <2>4, <2>5, MovesKeep
<1>6. CASE /\ ~ msglock[Q(p)] /\ Live(call[p].id)
           /\ msglock' = [msglock EXCEPT ![Q(p)] = TRUE]
           /\ Goto(p, call[p].then) /\ UNCHANGED <<wchan, call>>
  <2> DEFINE where == call[p].then
  <2>1. Moves(p, h, TRUE, {}, NoChan, where, call[p])
    BY <1>1, <1>2, <1>3, <1>6 DEF Goto, Moves, Inv, Types
  <2>6. where \in Locked /\ where # "text" /\ where # "copyout" /\ where \in Pcs
    BY <1>3 DEF Asks, Locked, Pcs
  <2>2. Locks(p, h, TRUE, where, call[p])
    BY <1>6, <2>6 DEF Locks, Live, Q
  <2>3. Wakes(p, h, TRUE, {})
    BY <1>1 DEF Wakes, SameQueue
  <2>4. Ends(p, h, NoChan, where, call[p])
    <3>1. Asks(where, call[p])
      BY <1>3, <2>6 DEF Asks, Locked
    <3> HIDE DEF where
    <3> QED BY <2>6, <3>1 DEF Ends
  <2> HIDE DEF h, where
  <2> QED BY <1>3, <1>4, <2>1, <2>2, <2>3, <2>4, <2>6, MovesKeep
<1>7. CASE ~ msglock[Q(p)] /\ ~ Live(call[p].id) /\ Unlocked(Q(p), {}) /\ Return(p)
  <2>1. Moves(p, h, FALSE, {Lock(Q(p))}, NoChan, "user", NoCall)
    BY <1>1, <1>2, <1>3, <1>7 DEF Unlocked, Wakeprocs, Return, Goto, Moves
  <2>2. Locks(p, h, FALSE, "user", NoCall)
    BY <1>7 DEF Locks, Locked
  <2>3. Wakes(p, h, FALSE, {Lock(Q(p))})
    BY <1>1 DEF Wakes, SameQueue
  <2>4. Ends(p, h, NoChan, "user", NoCall)
    BY DEF Ends, Asks, SndPlaces, RcvPlaces, CtlPlaces
  <2>5. "user" \in Pcs
    BY DEF Pcs
  <2> HIDE DEF h
  <2> QED BY <1>3, <1>4, <2>1, <2>2, <2>3, <2>4, <2>5, NoCallFrame, MovesKeep
<1> QED BY <1>5, <1>6, <1>7 DEF Msgconv

\* Out of the wait for the lock a process goes back to look, or to its program.
LEMMA LockWaitedInv ==
    ASSUME Inv, NEW p \in Proc, LockWaited(p) PROVE Inv'
<1>1. /\ pc[p] = "lockwait" /\ ~ Asleep(p) /\ msgque' = msgque /\ msglock' = msglock
      /\ wchan' = wchan /\ msgfp' = msgfp /\ msgmap' = msgmap /\ mapwant' = mapwant
  BY DEF LockWaited, At, poolVars
<1>2. /\ call[p] \in Frame /\ Asks("lockwait", call[p])
      /\ [call EXCEPT ![p] = call[p]] = call
  BY <1>1, Own DEF Good
<1>3. Wakeprocs({})
  BY <1>1 DEF Wakeprocs, Inv, Types
<1>4. msgfp' \in Nat
  BY <1>1 DEF Inv, Types
<1>5. pc[p] \notin Locked /\ "conv" \notin Locked /\ "user" \notin Locked /\ "conv" \in Pcs /\ "user" \in Pcs
  BY <1>1 DEF Locked, Pcs
<1>6. CASE Goto(p, "conv") /\ UNCHANGED call
  <2>1. Ends(p, msgque[Q(p)], NoChan, "conv", call[p])
    BY <1>2 DEF Ends, Asks
  <2> QED BY <1>1, <1>2, <1>3, <1>4, <1>5, <1>6, <2>1, GoesOn DEF Goto
<1>7. CASE Return(p)
  <2>1. Ends(p, msgque[Q(p)], NoChan, "user", NoCall)
    BY DEF Ends, Asks, SndPlaces, RcvPlaces, CtlPlaces
  <2> QED BY <1>1, <1>3, <1>4, <1>5, <1>7, <2>1, NoCallFrame, GoesOn DEF Return, Goto
<1> QED BY <1>6, <1>7 DEF LockWaited

\* Out of another sleep it enters msgconv again, or a receiver leaves.
LEMMA WaitedInv ==
    ASSUME Inv, NEW p \in Proc, MsgrcvWaited(p) \/ MsgsndWaited(p) PROVE Inv'
<1>1. /\ pc[p] \in {"rwait", "wwait", "hwait", "mwait"} /\ ~ Asleep(p)
      /\ msgque' = msgque /\ msglock' = msglock
      /\ wchan' = wchan /\ msgfp' = msgfp /\ msgmap' = msgmap /\ mapwant' = mapwant
  BY DEF MsgrcvWaited, MsgsndWaited, At, poolVars
<1>2. call[p] \in Frame /\ Asks(pc[p], call[p])
  BY <1>1, Own DEF Good
<1>3. Wakeprocs({})
  BY <1>1 DEF Wakeprocs, Inv, Types
<1>4. msgfp' \in Nat
  BY <1>1 DEF Inv, Types
<1>5. pc[p] \notin Locked /\ "conv" \notin Locked /\ "user" \notin Locked /\ "conv" \in Pcs /\ "user" \in Pcs
  BY <1>1 DEF Locked, Pcs
<1>6. ASSUME NEW then, Reenter(p, then),
             \/ pc[p] = "rwait" /\ then = "findmsg"
             \/ pc[p] # "rwait" /\ then \in {"getres", "wintr", "intr"}
      PROVE  Inv'
  <2> DEFINE f == [call[p] EXCEPT !.then = then]
  <2>1. f \in Frame
    BY <1>2, <1>6 DEF Frame, Pcs
  <2>2. f.op = call[p].op /\ f.arg = call[p].arg /\ f.then = then
    BY <1>2 DEF Frame
  <2>3. call' = [call EXCEPT ![p] = f] /\ pc' = [pc EXCEPT ![p] = "conv"]
    BY <1>6 DEF Reenter, Goto
  <2> HIDE DEF f
  <2>4. Ends(p, msgque[Q(p)], NoChan, "conv", f)
    BY <1>1, <1>2, <1>6, <2>2 DEF Ends, Asks, SndPlaces, RcvPlaces, CtlPlaces, Locked
  <2> QED BY <1>1, <1>3, <1>4, <1>5, <2>1, <2>3, <2>4, GoesOn
<1>7. CASE Return(p)
  <2>1. Ends(p, msgque[Q(p)], NoChan, "user", NoCall)
    BY DEF Ends, Asks, SndPlaces, RcvPlaces, CtlPlaces
  <2> QED BY <1>1, <1>3, <1>4, <1>5, <1>7, <2>1, NoCallFrame, GoesOn DEF Return, Goto
<1>8. CASE MsgrcvWaited(p)
  BY <1>6, <1>7, <1>8 DEF MsgrcvWaited, At
<1>9. CASE MsgsndWaited(p)
  BY <1>6, <1>9 DEF MsgsndWaited
<1> QED BY <1>8, <1>9

\* The checks at the start of msgsnd and msgrcv give the lock up and take it again.
LEMMA ChecksInv ==
    ASSUME Inv, NEW p \in Proc, Checks(p) PROVE Inv'
<1>1. /\ msgque' = msgque /\ msglock' = msglock /\ call' = call
      /\ msgfp' = msgfp /\ msgmap' = msgmap /\ mapwant' = mapwant
      /\ Wakeprocs({Lock(Q(p))})
  BY DEF Checks, poolVars
<1>2. call[p] \in Frame /\ Asks(pc[p], call[p]) /\ [call EXCEPT ![p] = call[p]] = call
  BY Own DEF Good
<1>3. PICK where \in {"getres", "findmsg"} :
        /\ pc' = [pc EXCEPT ![p] = where]
        /\ \/ pc[p] = "type" /\ where = "getres"
           \/ pc[p] = "check" /\ where = "findmsg"
  BY DEF Checks, At, Goto
<1>4. msgfp' \in Nat
  BY <1>1 DEF Inv, Types
<1>5. Ends(p, msgque[Q(p)], NoChan, where, call[p])
  BY <1>2, <1>3 DEF Ends, Asks, SndPlaces, RcvPlaces, CtlPlaces
<1>6. pc[p] \notin Sleeps /\ pc[p] \in Locked /\ where \in Locked /\ where \in Pcs
  BY <1>3 DEF Sleeps, Locked, Pcs
<1> QED BY <1>1, <1>2, <1>3, <1>4, <1>5, <1>6, GoesOn

\* A check that fails, and IPC_STAT or a msgctl that is refused, leave the queue
\* as it was.
LEMMA LeavesAlone ==
    ASSUME Inv, NEW p \in Proc, pc[p] \in Locked, NEW C, Unlocked(Q(p), C), Return(p),
           UNCHANGED <<msgque, poolVars>>
    PROVE  Inv'
<1>1. msgque[Q(p)] \in Hdr /\ msgque' = [msgque EXCEPT ![Q(p)] = msgque[Q(p)]]
  BY Own
<1>2. msgfp' = msgfp /\ msgmap' = msgmap /\ mapwant' = mapwant
  BY DEF poolVars
<1>3. msgfp' \in Nat /\ msgmap' \subseteq Int /\ mapwant' \in BOOLEAN
  BY <1>2 DEF Inv, Types
<1>4. Wakes(p, msgque[Q(p)], FALSE, C \cup {Lock(Q(p))})
  BY <1>2 DEF Wakes, SameQueue
<1> QED BY <1>1, <1>3, <1>4, Leaves

\* IPC_SET changes msg_qbytes only.
LEMMA MsgctlSetInv ==
    ASSUME Inv, NEW p \in Proc, MsgctlSet(p) PROVE Inv'
<1>1. pc[p] \in Locked /\ Unlocked(Q(p), {}) /\ Return(p) /\ UNCHANGED poolVars
  BY DEF MsgctlSet, At, Locked
<1>2. CASE UNCHANGED msgque
  BY <1>1, <1>2, LeavesAlone
<1>3. ASSUME NEW limit \in Limits, msgque' = [msgque EXCEPT ![Q(p)].qbytes = limit]
      PROVE  Inv'
  <2> DEFINE h == [msgque[Q(p)] EXCEPT !.qbytes = limit]
  <2>1. limit \in Nat /\ msgque[Q(p)] \in Hdr
    BY SizesAssumption, Own
  <2>2. /\ h \in Hdr /\ h.alloc = msgque[Q(p)].alloc /\ h.seq = msgque[Q(p)].seq
        /\ h.rwait = msgque[Q(p)].rwait /\ h.wwait = msgque[Q(p)].wwait
        /\ h.msgs = msgque[Q(p)].msgs
    BY <2>1 DEF Hdr
  <2>3. msgque' = [msgque EXCEPT ![Q(p)] = h]
    BY <1>3
  <2>4. msgfp' = msgfp /\ msgmap' = msgmap /\ mapwant' = mapwant
    BY <1>1 DEF poolVars
  <2>5. msgfp' \in Nat /\ msgmap' \subseteq Int /\ mapwant' \in BOOLEAN
    BY <2>4 DEF Inv, Types
  <2> HIDE DEF h
  <2>6. Wakes(p, h, FALSE, {} \cup {Lock(Q(p))})
    BY <2>2, <2>4 DEF Wakes, SameQueue
  <2> QED BY <1>1, <2>2, <2>3, <2>5, <2>6, Leaves
<1> QED BY <1>2, <1>3 DEF MsgctlSet

\* A header with other messages, counts and flags.
LEMMA NewHdr ==
    ASSUME NEW q \in Hdr, NEW h, DOMAIN h = DOMAIN q, h = [x \in DOMAIN h |-> h[x]],
           h.alloc \in BOOLEAN, h.seq \in 0 .. SEQMAX, h.qbytes = q.qbytes \/ h.qbytes \in Nat,
           h.cbytes \in Int, h.qnum \in Int, h.msgs \in Seq(Node),
           h.rwait \in BOOLEAN, h.wwait \in BOOLEAN
    PROVE  h \in Hdr
<1> DEFINE S == Seq(Node)
<1>1. h.msgs \in S
  OBVIOUS
<1>2. Hdr = [alloc : BOOLEAN, seq : 0 .. SEQMAX, qbytes : Nat, cbytes : Int, qnum : Int,
             msgs : S, rwait : BOOLEAN, wwait : BOOLEAN]
  BY DEF Hdr
<1> HIDE DEF S
<1> QED BY <1>1, <1>2

\* What the wakeups of headers and of segments cover.
LEMMA PoolWakes ==
    ASSUME NEW n \in Nat, NEW free, Inv, msgfp' = msgfp + n, FreeMsgmap(free),
           msgmap \subseteq free, free \subseteq Int
    PROVE  /\ msgfp' \in Nat /\ msgmap' \subseteq Int /\ mapwant' \in BOOLEAN
           /\ msgfp = 0 => Msgfp \in HeaderWakes(n) \/ msgfp' = 0
           /\ mapwant => Msgmap \in MapWakes(free) \/ (mapwant' /\ msgmap' \subseteq msgmap)
<1>1. msgfp \in Nat /\ mapwant \in BOOLEAN
  BY DEF Inv, Types
<1>2. msgfp' \in Nat /\ (msgfp = 0 => Msgfp \in HeaderWakes(n) \/ msgfp' = 0)
  BY <1>1 DEF HeaderWakes
<1>3. msgmap' \subseteq Int /\ mapwant' \in BOOLEAN
  BY <1>1 DEF FreeMsgmap
<1>4. mapwant => Msgmap \in MapWakes(free) \/ (mapwant' /\ msgmap' \subseteq msgmap)
  BY DEF FreeMsgmap, MapWakes
<1> QED BY <1>2, <1>3, <1>4

\* The removal of a queue wakes all who wait on it for a message or for room.
LEMMA MsgctlRmidInv ==
    ASSUME Inv, NEW p \in Proc, MsgctlRmid(p) PROVE Inv'
<1>1. pc[p] \in Locked /\ Return(p)
  BY DEF MsgctlRmid, At, Locked
<1>2. CASE Unlocked(Q(p), {}) /\ UNCHANGED <<msgque, poolVars>>
  BY <1>1, <1>2, LeavesAlone
<1>3. CASE ~ (Unlocked(Q(p), {}) /\ UNCHANGED <<msgque, poolVars>>)
  <2> DEFINE s    == Q(p)
             q    == msgque[s]
             n    == Len(q.msgs)
             free == FreeAll(msgmap, q.msgs)
             h    == [q EXCEPT !.alloc = FALSE, !.seq = NextSeq(q.seq), !.msgs = <<>>,
                             !.qnum = q.qnum - n, !.cbytes = 0,
                             !.rwait = FALSE, !.wwait = FALSE]
             C    == RmidWakes(s) \cup HeaderWakes(n) \cup MapWakes(free)
  <2>1. /\ msgque' = [msgque EXCEPT ![s] = h] /\ msgfp' = msgfp + n
        /\ FreeMsgmap(free) /\ Unlocked(s, C)
    BY <1>3 DEF MsgctlRmid
  <2>2. q \in Hdr
    BY Own
  <2>3. q.msgs \in Seq(Node)
    BY <2>2 DEF Hdr
  <2>4. n \in Nat
    BY <2>3, LenProperties
  <2>5. msgmap \subseteq free /\ free \subseteq Int
    BY <2>3, FreeAllAdds DEF Inv, Types
  <2>6. NextSeq(q.seq) \in 0 .. SEQMAX
    BY <2>2, SizesAssumption DEF Hdr, NextSeq
  <2>7. <<>> \in Seq(Node) /\ q.qnum \in Int
    BY <2>2 DEF Hdr
  <2>8. h \in Hdr
    <3>1. DOMAIN h = DOMAIN q /\ h = [x \in DOMAIN h |-> h[x]]
      OBVIOUS
    <3>2. /\ h.alloc = FALSE /\ h.seq = NextSeq(q.seq) /\ h.msgs = <<>>
          /\ h.qnum = q.qnum - n /\ h.cbytes = 0 /\ h.rwait = FALSE /\ h.wwait = FALSE
          /\ h.qbytes = q.qbytes
      BY <2>2 DEF Hdr
    <3>3. q.qnum - n \in Int
      BY <2>4, <2>7
    <3> HIDE DEF h, q, n
    <3>7. h.qnum \in Int
      BY <3>2, <3>3
    <3>8. h.seq \in 0 .. SEQMAX
      BY <2>6, <3>2
    <3>4. h.alloc \in BOOLEAN
      BY <3>2
    <3>9. h.cbytes \in Int
      BY <3>2
    <3>5. h.msgs \in Seq(Node)
      BY <2>7, <3>2
    <3>6. h.rwait \in BOOLEAN /\ h.wwait \in BOOLEAN /\ h.qbytes = q.qbytes
      BY <3>2
    <3> QED BY <2>2, <3>1, <3>4, <3>5, <3>6, <3>7, <3>8, <3>9, NewHdr
  <2> HIDE DEF h, n, free
  <2>9. /\ msgfp' \in Nat /\ msgmap' \subseteq Int /\ mapwant' \in BOOLEAN
        /\ msgfp = 0 => Msgfp \in HeaderWakes(n) \/ msgfp' = 0
        /\ mapwant => Msgmap \in MapWakes(free) \/ (mapwant' /\ msgmap' \subseteq msgmap)
    BY <2>1, <2>4, <2>5, PoolWakes
  <2>10. Wakes(p, h, FALSE, C \cup {Lock(Q(p))})
    BY <2>9 DEF Wakes, RmidWakes
  <2> QED BY <1>1, <2>1, <2>8, <2>9, <2>10, Leaves
<1> QED BY <1>2, <1>3

\* msgrcv's search: a message is chosen, the call fails, or the process waits
\* for one with MSG_RWAIT set.
LEMMA MsgrcvFindInv ==
    ASSUME Inv, NEW p \in Proc, MsgrcvFind(p) PROVE Inv'
<1> DEFINE q   == msgque[Q(p)]
           arg == call[p].arg
           i   == Findmsg(q.msgs, arg.type)
<1>1. pc[p] = "findmsg" /\ pc[p] \in Locked /\ pc[p] \notin Sleeps /\ UNCHANGED poolVars
  BY DEF MsgrcvFind, At, Locked, Sleeps
<1>2. msgfp' = msgfp /\ msgmap' = msgmap /\ mapwant' = mapwant
  BY <1>1 DEF poolVars
<1>3. msgfp' \in Nat /\ msgmap' \subseteq Int /\ mapwant' \in BOOLEAN
  BY <1>2 DEF Inv, Types
<1>4. q \in Hdr /\ call[p] \in Frame /\ Good(p) /\ Q(p) \in Slot
  BY Own
<1>5. Asks("findmsg", call[p]) /\ Live(call[p].id)
  BY <1>1, <1>4 DEF Good, Works
<1>6. i \in Nat
  <2>1. q.msgs \in Seq(Node) /\ arg.type \in Int
    BY <1>4 DEF Hdr, Frame, Argument
  <2>2. Found(q.msgs, arg.type, i)
    BY <2>1, FindmsgFinds
  <2> HIDE DEF i
  <2> QED BY <2>1, <2>2, LenProperties DEF Found
<1>7. CASE /\ i # 0 /\ Goto(p, "copyout") /\ call' = [call EXCEPT ![p].pick = i]
           /\ UNCHANGED <<msgque, msglock, wchan>>
  <2> DEFINE f == [call[p] EXCEPT !.pick = i]
  <2>1. call' = [call EXCEPT ![p] = f] /\ pc' = [pc EXCEPT ![p] = "copyout"]
    BY <1>7 DEF Goto
  <2>2. /\ f \in Frame /\ f.id = call[p].id /\ f.arg = arg /\ f.pick = i
        /\ f.op = call[p].op
    <3> HIDE DEF i
    <3> QED BY <1>4, <1>6 DEF Frame
  <2>3. Wakeprocs({})
    BY <1>7 DEF Wakeprocs, Inv, Types
  <2> HIDE DEF f
  <2>4. Ends(p, msgque[Q(p)], NoChan, "copyout", f)
    BY <1>5, <1>7, <2>2 DEF Ends, Asks, SndPlaces, RcvPlaces, CtlPlaces
  <2>5. "copyout" \in Pcs /\ "copyout" \in Locked
    BY DEF Pcs, Locked
  <2> QED BY <1>1, <1>2, <1>3, <1>7, <2>1, <2>2, <2>3, <2>4, <2>5, GoesOn
<1>8. CASE Unlocked(Q(p), {}) /\ Return(p) /\ UNCHANGED msgque
  BY <1>1, <1>8, LeavesAlone
<1>9. CASE /\ i = 0 /\ ~ arg.nowait
           /\ msgque' = [msgque EXCEPT ![Q(p)].rwait = TRUE]
           /\ UnlockedAsleep(p, {}, Qnum(Q(p)), "rwait")
  <2> DEFINE h == [q EXCEPT !.rwait = TRUE]
  <2>1. msgque' = [msgque EXCEPT ![Q(p)] = h]
    BY <1>9
  <2>2. /\ h \in Hdr /\ h.alloc = q.alloc /\ h.seq = q.seq /\ h.msgs = q.msgs
        /\ h.rwait /\ h.wwait = q.wwait
    BY <1>4 DEF Hdr
  <2> HIDE DEF h
  <2>3. Wakes(p, h, FALSE, {} \cup {Lock(Q(p))})
    BY <1>2, <2>2 DEF Wakes, SameQueue
  <2>4. Asks("rwait", call[p])
    BY <1>5 DEF Asks, SndPlaces, RcvPlaces, CtlPlaces
  <2>5. Waits(p)'
    <3>1. /\ pc'[p] = "rwait" /\ wchan'[p] = Qnum(Q(p)) /\ call' = call
      BY <1>9 DEF UnlockedAsleep, Goto, Inv, Types
    <3>2. msgque'[Q(p)] = h
      BY <1>4, <2>1 DEF Inv, Types
    <3> QED BY <1>5, <1>9, <2>2, <3>1, <3>2 DEF Waits, Live, Q
  <2>6. Qnum(Q(p)) \in Chan /\ "rwait" \in Sleeps
    BY <1>4 DEF Chan, Qnum, Sleeps
  <2> QED BY <1>1, <1>3, <1>9, <2>1, <2>2, <2>3, <2>4, <2>5, <2>6, FallsAsleep
<1> QED BY <1>7, <1>8, <1>9 DEF MsgrcvFind

\* msgrcv takes its message off and wakes those who want what it frees.
LEMMA MsgrcvCopyoutInv ==
    ASSUME Inv, NEW p \in Proc, MsgrcvCopyout(p) PROVE Inv'
<1>1. pc[p] = "copyout" /\ pc[p] \in Locked /\ Return(p)
  BY DEF MsgrcvCopyout, At, Locked
<1>2. CASE Unlocked(Q(p), {}) /\ UNCHANGED <<msgque, poolVars>>
  BY <1>1, <1>2, LeavesAlone
<1>3. CASE ~ (Unlocked(Q(p), {}) /\ UNCHANGED <<msgque, poolVars>>)
  <2> DEFINE s    == Q(p)
             q    == msgque[s]
             k    == call[p].pick
             m    == q.msgs[k]
             free == Mapped(msgmap, m.spot, m.ts)
             rest == RemoveAt(q.msgs, k)
             h    == [q EXCEPT !.msgs = rest, !.qnum = q.qnum - 1,
                             !.cbytes = q.cbytes - Taken(p), !.wwait = FALSE]
             C    == {c \in {Qp(s)} : q.wwait} \cup HeaderWakes(1) \cup MapWakes(free)
  <2>1. /\ msgque' = [msgque EXCEPT ![s] = h] /\ msgfp' = msgfp + 1
        /\ FreeMsgmap(free) /\ Unlocked(s, C)
    BY <1>3 DEF MsgrcvCopyout
  <2>2. q \in Hdr /\ q.msgs \in Seq(Node) /\ q.cbytes \in Int /\ q.qnum \in Int
    BY Own DEF Hdr
  <2>3. k \in 1 .. Len(q.msgs)
    <3>1. call[p].arg.type \in Int
      BY Own DEF Frame, Argument
    <3>2. k # 0 /\ k = Findmsg(q.msgs, call[p].arg.type)
      BY <1>1, Own DEF Good, Works
    <3>3. Found(q.msgs, call[p].arg.type, k)
      BY <2>2, <3>1, <3>2, FindmsgFinds
    <3> QED BY <2>2, <3>2, <3>3, LenProperties DEF Found
  <2>4. m \in Node
    BY <2>2, <2>3, ElementOfSeq
  <2>5. m.spot \in Int /\ m.ts \in Nat /\ Taken(p) = m.ts
    BY <2>4 DEF Node, Taken
  <2>6. msgmap \subseteq free /\ free \subseteq Int
    <3>1. msgmap \in SUBSET Int
      BY DEF Inv, Types
    <3> HIDE DEF m
    <3> QED BY <2>5, <3>1, MappedAdds
  <2>7. rest \in Seq(Node)
    BY <2>2, <2>3, Removed
  <2>8. /\ h.alloc = q.alloc /\ h.seq = q.seq /\ h.msgs = rest
        /\ h.qnum = q.qnum - 1 /\ h.cbytes = q.cbytes - m.ts
        /\ h.rwait = q.rwait /\ h.wwait = FALSE /\ h.qbytes = q.qbytes
    <3> HIDE DEF rest, m
    <3> QED BY <2>2, <2>5 DEF Hdr
  <2>9. h \in Hdr
    <3>1. DOMAIN h = DOMAIN q /\ h = [x \in DOMAIN h |-> h[x]]
      OBVIOUS
    <3> HIDE DEF h, rest, m
    <3>2. q.cbytes - m.ts \in Int /\ q.qnum - 1 \in Int
      BY <2>2, <2>5
    <3>3. h.cbytes \in Int /\ h.qnum \in Int
      BY <2>8, <3>2
    <3>4. h.alloc \in BOOLEAN
      BY <2>2, <2>8 DEF Hdr
    <3>5. h.seq \in 0 .. SEQMAX
      BY <2>2, <2>8 DEF Hdr
    <3>6. h.rwait \in BOOLEAN
      BY <2>2, <2>8 DEF Hdr
    <3>7. h.wwait \in BOOLEAN
      BY <2>8
    <3>8. h.msgs \in Seq(Node) /\ h.qbytes = q.qbytes
      BY <2>7, <2>8
    <3> HIDE DEF q
    <3> QED BY <2>2, <3>1, <3>3, <3>4, <3>5, <3>6, <3>7, <3>8, NewHdr
  <2>10. \A type \in Int : Findmsg(q.msgs, type) = 0 => Findmsg(h.msgs, type) = 0
    <3> HIDE DEF h
    <3> QED BY <2>2, <2>3, <2>8, RemovedFinds
  <2> HIDE DEF h, free
  <2>11. /\ msgfp' \in Nat /\ msgmap' \subseteq Int /\ mapwant' \in BOOLEAN
         /\ msgfp = 0 => Msgfp \in HeaderWakes(1) \/ msgfp' = 0
         /\ mapwant => Msgmap \in MapWakes(free) \/ (mapwant' /\ msgmap' \subseteq msgmap)
    BY <2>1, <2>6, PoolWakes
  <2>12. Wakes(p, h, FALSE, C \cup {Lock(Q(p))})
    BY <2>8, <2>10, <2>11 DEF Wakes, SameQueue
  <2> QED BY <1>1, <2>1, <2>9, <2>11, <2>12, Leaves
<1> QED BY <1>2, <1>3

\* A sender that lacks something fails, or waits for it with the flag set that
\* makes others wake it.
LEMMA MsgsndBlockedInv ==
    ASSUME Inv, NEW p \in Proc, MsgsndBlocked(p) PROVE Inv'
<1> DEFINE s == Q(p)
           q == msgque[s]
           C == {c \in {Msgfp} : ~ NoRoom(p) /\ msgfp = 1}
<1>1. /\ pc[p] = "getres" /\ pc[p] \in Locked /\ msgfp' = msgfp /\ msgmap' = msgmap
      /\ msgfp' \in Nat /\ msgmap' \subseteq Int
  BY DEF MsgsndBlocked, At, Locked, Inv, Types
<1>2. q \in Hdr /\ s \in Slot /\ call[p] \in Frame /\ [msgque EXCEPT ![s] = q] = msgque
  BY Own
<1>3. Asks("getres", call[p]) /\ Live(call[p].id)
  BY <1>1, Own DEF Good, Works
<1>4. \A where \in {"wwait", "hwait", "mwait"} : Asks(where, call[p])
  BY <1>3 DEF Asks, SndPlaces, RcvPlaces, CtlPlaces
<1>5. Qp(s) \in Chan /\ Msgfp \in Chan /\ Msgmap \in Chan
  BY <1>2 DEF Chan, Qp
<1>6. Wakes(p, q, FALSE, C \cup {Lock(s)}) \/ mapwant' # mapwant
  BY <1>1 DEF Wakes, SameQueue
<1>7. CASE Unlocked(s, C) /\ Return(p) /\ UNCHANGED <<msgque, mapwant>>
  BY <1>1, <1>7, LeavesAlone DEF poolVars
<1>8. CASE /\ msgque' = [msgque EXCEPT ![s].wwait = TRUE]
           /\ UnlockedAsleep(p, {}, Qp(s), "wwait")
           /\ UNCHANGED mapwant
  <2> DEFINE h == [q EXCEPT !.wwait = TRUE]
  <2>1. msgque' = [msgque EXCEPT ![s] = h]
    BY <1>8
  <2>2. /\ h \in Hdr /\ h.alloc = q.alloc /\ h.seq = q.seq /\ h.msgs = q.msgs
        /\ h.wwait /\ h.rwait = q.rwait
    BY <1>2 DEF Hdr
  <2> HIDE DEF h
  <2>3. Wakes(p, h, FALSE, {} \cup {Lock(s)})
    BY <1>1, <1>8, <2>2 DEF Wakes, SameQueue
  <2>4. Waits(p)'
    <3>1. pc'[p] = "wwait" /\ wchan'[p] = Qp(s) /\ call' = call
      BY <1>8 DEF UnlockedAsleep, Goto, Inv, Types
    <3>2. msgque'[s] = h
      BY <1>2, <2>1 DEF Inv, Types
    <3> QED BY <1>3, <2>2, <3>1, <3>2 DEF Waits, Live, Q
  <2>5. mapwant' \in BOOLEAN
    BY <1>8 DEF Inv, Types
  <2> QED BY <1>1, <1>4, <1>5, <1>8, <2>1, <2>2, <2>3, <2>4, <2>5, FallsAsleep DEF Sleeps
<1>9. CASE /\ msgfp = 0 /\ UnlockedAsleep(p, {}, Msgfp, "hwait")
           /\ UNCHANGED <<msgque, mapwant>>
  <2>1. Wakes(p, q, FALSE, {} \cup {Lock(s)})
    BY <1>1, <1>9 DEF Wakes, SameQueue
  <2>2. Waits(p)'
    <3>1. pc'[p] = "hwait" /\ wchan'[p] = Msgfp
      BY <1>9 DEF UnlockedAsleep, Goto, Inv, Types
    <3> QED BY <1>1, <1>9, <3>1 DEF Waits
  <2>3. mapwant' \in BOOLEAN /\ msgque' = [msgque EXCEPT ![s] = q]
    BY <1>2, <1>9 DEF Inv, Types
  <2> HIDE DEF q
  <2> QED BY <1>1, <1>2, <1>4, <1>5, <1>9, <2>1, <2>2, <2>3, FallsAsleep DEF Sleeps
<1>10. CASE /\ NoSegments(p) /\ mapwant' = TRUE
            /\ UnlockedAsleep(p, C, Msgmap, "mwait") /\ UNCHANGED msgque
  <2>1. Wakes(p, q, FALSE, C \cup {Lock(s)})
    BY <1>1, <1>10 DEF Wakes, SameQueue
  <2>2. Waits(p)'
    <3>1. pc'[p] = "mwait" /\ wchan'[p] = Msgmap /\ call' = call
      BY <1>10 DEF UnlockedAsleep, Goto, Inv, Types
    <3>2. NoSegments(p)'
      BY <1>1, <1>10, <3>1 DEF NoSegments
    <3> QED BY <1>10, <3>1, <3>2 DEF Waits
  <2>3. mapwant' \in BOOLEAN /\ msgque' = [msgque EXCEPT ![s] = q]
    BY <1>2, <1>10
  <2> HIDE DEF q, C
  <2> QED BY <1>1, <1>2, <1>4, <1>5, <1>10, <2>1, <2>2, <2>3, FallsAsleep DEF Sleeps
<1> QED BY <1>7, <1>8, <1>9, <1>10 DEF MsgsndBlocked

\* A message that comes wakes all receivers that wait on the queue.
LEMMA EnqueueInv ==
    ASSUME Inv, NEW p \in Proc, pc[p] \in {"getres", "text"}, NEW spot \in Int,
           Enqueue(p, spot), msgfp' \in Nat, msgfp = 0 => msgfp' = 0,
           mapwant' = mapwant, msgmap' = msgmap
    PROVE  Inv'
<1> DEFINE s   == Q(p)
           q   == msgque[s]
           arg == call[p].arg
           m   == [type |-> arg.type, ts |-> arg.size, spot |-> spot]
           all == Append(q.msgs, m)
           h   == [q EXCEPT !.msgs = all, !.qnum = q.qnum + 1,
                            !.cbytes = q.cbytes + arg.size, !.rwait = FALSE]
           C   == {c \in {Qnum(s)} : q.rwait}
<1>1. msgque' = [msgque EXCEPT ![s] = h] /\ Unlocked(s, C) /\ Return(p)
  BY DEF Enqueue
<1>2. q \in Hdr /\ q.msgs \in Seq(Node) /\ q.cbytes \in Int /\ q.qnum \in Int
  BY Own DEF Hdr
<1>3. arg.type \in Nat \ {0} /\ arg.size \in Nat
  <2>1. call[p].arg \in Sends
    BY Own DEF Good, Asks, SndPlaces
  <2>2. arg \in Argument /\ arg.type > 0
    BY <2>1, InputsAssumption
  <2> HIDE DEF arg
  <2> QED BY <2>2 DEF Argument
<1>4. m \in Node
  BY <1>3 DEF Node
<1>5. all \in Seq(Node)
  <2> HIDE DEF m
  <2> QED BY <1>2, <1>4, AppendProperties
<1>6. /\ h.alloc = q.alloc /\ h.seq = q.seq /\ h.msgs = all
      /\ h.qnum = q.qnum + 1 /\ h.cbytes = q.cbytes + arg.size
      /\ h.rwait = FALSE /\ h.wwait = q.wwait /\ h.qbytes = q.qbytes
  <2> HIDE DEF all
  <2> QED BY <1>2 DEF Hdr
<1>7. h \in Hdr
  <2>1. DOMAIN h = DOMAIN q /\ h = [x \in DOMAIN h |-> h[x]]
    OBVIOUS
  <2> HIDE DEF h, all
  <2>2. q.cbytes + arg.size \in Int /\ q.qnum + 1 \in Int
    BY <1>2, <1>3
  <2>3. h.cbytes \in Int /\ h.qnum \in Int
    BY <1>6, <2>2
  <2>4. h.alloc \in BOOLEAN
    BY <1>2, <1>6 DEF Hdr
  <2>5. h.seq \in 0 .. SEQMAX
    BY <1>2, <1>6 DEF Hdr
  <2>6. h.rwait \in BOOLEAN
    BY <1>6
  <2>7. h.wwait \in BOOLEAN
    BY <1>2, <1>6 DEF Hdr
  <2>8. h.msgs \in Seq(Node) /\ h.qbytes = q.qbytes
    BY <1>5, <1>6
  <2> HIDE DEF q
  <2> QED BY <1>2, <2>1, <2>3, <2>4, <2>5, <2>6, <2>7, <2>8, NewHdr
<1> HIDE DEF h, all
<1>8. Wakes(p, h, FALSE, C \cup {Lock(s)})
  BY <1>6 DEF Wakes, SameQueue
<1>9. pc[p] \in Locked /\ msgmap' \subseteq Int /\ mapwant' \in BOOLEAN
  BY DEF Locked, Inv, Types
<1> QED BY <1>1, <1>7, <1>8, <1>9, Leaves

\* A sender takes a header, and segments for its text.
LEMMA MsgsndTakeInv ==
    ASSUME Inv, NEW p \in Proc, MsgsndTake(p) PROVE Inv'
<1>1. /\ pc[p] = "getres" /\ pc[p] \in Locked /\ pc[p] \notin Sleeps
      /\ msgfp # 0 /\ msgfp' = msgfp - 1 /\ mapwant' = mapwant /\ msgfp \in Nat
  BY DEF MsgsndTake, At, Locked, Sleeps, Inv, Types
<1>2. msgfp' \in Nat /\ (msgfp = 0 => msgfp' = 0)
  BY <1>1
<1>3. CASE Enqueue(p, 0) /\ UNCHANGED msgmap
  BY <1>1, <1>2, <1>3, EnqueueInv
<1>4. ASSUME call[p].arg.size > 0,
             NEW spot \in Windows(msgmap, Btoq(call[p].arg.size)),
             msgmap' = msgmap \ Segs(spot, call[p].arg.size),
             call' = [call EXCEPT ![p].spot = spot],
             Goto(p, "text"), UNCHANGED <<msgque, msglock, wchan>>
      PROVE  Inv'
  <2> DEFINE f == [call[p] EXCEPT !.spot = spot]
  <2>1. spot \in Int
    BY DEF Windows, Inv, Types
  <2>2. call' = [call EXCEPT ![p] = f] /\ pc' = [pc EXCEPT ![p] = "text"]
    BY <1>4 DEF Goto
  <2>3. call[p] \in Frame /\ Asks("getres", call[p])
    BY <1>1, Own DEF Good
  <2>4. /\ f \in Frame /\ f.id = call[p].id /\ f.arg = call[p].arg /\ f.op = call[p].op
    BY <2>1, <2>3 DEF Frame
  <2> HIDE DEF f
  <2>5. Ends(p, msgque[Q(p)], NoChan, "text", f)
    BY <1>4, <2>3, <2>4 DEF Ends, Asks, SndPlaces, RcvPlaces, CtlPlaces
  <2>6. "text" \in Pcs /\ "text" \in Locked /\ msgmap' \subseteq msgmap
    BY <1>4 DEF Pcs, Locked
  <2>7. Wakeprocs({})
    BY <1>4 DEF Wakeprocs, Inv, Types
  <2> QED BY <1>1, <1>2, <1>4, <2>2, <2>4, <2>5, <2>6, <2>7, GoesOn
<1> QED BY <1>3, <1>4 DEF MsgsndTake

\* A sender queues its text, or gives back what it took.
LEMMA MsgsndTextInv ==
    ASSUME Inv, NEW p \in Proc, MsgsndText(p) PROVE Inv'
<1>1. pc[p] = "text" /\ pc[p] \in Locked
  BY DEF MsgsndText, At, Locked
<1>2. call[p].spot \in Int /\ call[p].arg.size \in Nat
  BY Own DEF Frame, Argument
<1>3. CASE Enqueue(p, call[p].spot) /\ UNCHANGED poolVars
  <2>1. msgfp' = msgfp /\ msgmap' = msgmap /\ mapwant' = mapwant
    BY <1>3 DEF poolVars
  <2>2. msgfp' \in Nat
    BY <2>1 DEF Inv, Types
  <2> QED BY <1>1, <1>2, <1>3, <2>1, <2>2, EnqueueInv
<1>4. CASE ~ (Enqueue(p, call[p].spot) /\ UNCHANGED poolVars)
  <2> DEFINE q    == msgque[Q(p)]
             free == Mapped(msgmap, call[p].spot, call[p].arg.size)
             C    == HeaderWakes(1) \cup MapWakes(free)
  <2>1. FreeMsgmap(free) /\ msgfp' = msgfp + 1 /\ Unlocked(Q(p), C) /\ Return(p) /\ msgque' = msgque
    BY <1>4 DEF MsgsndText
  <2>2. msgmap \subseteq free /\ free \subseteq Int
    <3>1. msgmap \in SUBSET Int
      BY DEF Inv, Types
    <3> QED BY <1>2, <3>1, MappedAdds
  <2> HIDE DEF free
  <2>3. /\ msgfp' \in Nat /\ msgmap' \subseteq Int /\ mapwant' \in BOOLEAN
        /\ msgfp = 0 => Msgfp \in HeaderWakes(1) \/ msgfp' = 0
        /\ mapwant => Msgmap \in MapWakes(free) \/ (mapwant' /\ msgmap' \subseteq msgmap)
    BY <2>1, <2>2, PoolWakes
  <2>4. Wakes(p, q, FALSE, C \cup {Lock(Q(p))})
    BY <2>3 DEF Wakes, SameQueue
  <2>5. q \in Hdr /\ msgque' = [msgque EXCEPT ![Q(p)] = q]
    BY <2>1, Own
  <2> HIDE DEF q
  <2> QED BY <1>1, <2>1, <2>3, <2>4, <2>5, Leaves
<1> QED BY <1>3, <1>4

\* A sender that was interrupted clears MSG_WWAIT and wakes those it was set for.
LEMMA MsgsndInterruptedInv ==
    ASSUME Inv, NEW p \in Proc, MsgsndInterrupted(p) PROVE Inv'
<1>1. pc[p] \in Locked /\ Return(p) /\ UNCHANGED poolVars
  BY DEF MsgsndInterrupted, At, Locked
<1>2. CASE Unlocked(Q(p), {}) /\ UNCHANGED msgque
  BY <1>1, <1>2, LeavesAlone
<1>3. CASE /\ msgque' = [msgque EXCEPT ![Q(p)].wwait = FALSE]
           /\ Unlocked(Q(p), {Qp(Q(p))})
  <2> DEFINE q == msgque[Q(p)]
             h == [q EXCEPT !.wwait = FALSE]
  <2>1. msgque' = [msgque EXCEPT ![Q(p)] = h] /\ q \in Hdr
    BY <1>3, Own
  <2>2. /\ h \in Hdr /\ h.alloc = q.alloc /\ h.seq = q.seq /\ h.msgs = q.msgs
        /\ h.rwait = q.rwait
    BY <2>1 DEF Hdr
  <2> HIDE DEF h
  <2>3. msgfp' = msgfp /\ msgmap' = msgmap /\ mapwant' = mapwant
    BY <1>1 DEF poolVars
  <2>4. msgfp' \in Nat /\ msgmap' \subseteq Int /\ mapwant' \in BOOLEAN
    BY <2>3 DEF Inv, Types
  <2>5. Wakes(p, h, FALSE, {Qp(Q(p))} \cup {Lock(Q(p))})
    BY <2>2, <2>3 DEF Wakes, SameQueue
  <2> QED BY <1>1, <1>3, <2>1, <2>2, <2>4, <2>5, Leaves
<1> QED BY <1>2, <1>3 DEF MsgsndInterrupted

\* msgget takes a slot where nobody works or sleeps for the queue.
LEMMA MsggetInv ==
    ASSUME Inv, NEW p \in Proc, Msgget(p) PROVE Inv'
<1>1. PICK s \in Slot :
        /\ ~ msgque[s].alloc
        /\ msgque' = [msgque EXCEPT ![s] =
              [@ EXCEPT !.alloc = TRUE, !.msgs = <<>>, !.qnum = 0, !.qbytes = MSGMNB]]
  BY DEF Msgget
<1>2. /\ msglock' = msglock /\ msgfp' = msgfp /\ msgmap' = msgmap /\ mapwant' = mapwant
      /\ wchan' = wchan /\ pc' = pc /\ call' = call
  BY DEF Msgget, poolVars, procVars
<1> DEFINE q == msgque[s]
           h == [q EXCEPT !.alloc = TRUE, !.msgs = <<>>, !.qnum = 0, !.qbytes = MSGMNB]
<1>3. q \in Hdr
  BY DEF Inv, Types
<1>4. h \in Hdr
  <2>1. /\ h.alloc = TRUE /\ h.seq = q.seq /\ h.msgs = <<>> /\ h.qnum = 0 /\ h.cbytes = q.cbytes
        /\ h.rwait = q.rwait /\ h.wwait = q.wwait /\ h.qbytes = MSGMNB
    BY <1>3 DEF Hdr
  <2>2. DOMAIN h = DOMAIN q /\ h = [x \in DOMAIN h |-> h[x]]
    OBVIOUS
  <2> HIDE DEF h
  <2>3. h.alloc \in BOOLEAN
    BY <2>1
  <2>4. h.seq \in 0 .. SEQMAX
    BY <1>3, <2>1 DEF Hdr
  <2>5. h.cbytes \in Int
    BY <1>3, <2>1 DEF Hdr
  <2>6. h.qnum \in Int
    BY <2>1
  <2>7. h.msgs \in Seq(Node)
    BY <2>1
  <2>8. h.rwait \in BOOLEAN
    BY <1>3, <2>1 DEF Hdr
  <2>9. h.wwait \in BOOLEAN
    BY <1>3, <2>1 DEF Hdr
  <2>10. h.qbytes \in Nat
    BY <2>1, SizesAssumption
  <2> HIDE DEF q
  <2> QED BY <1>3, <2>2, <2>3, <2>4, <2>5, <2>6, <2>7, <2>8, <2>9, <2>10, NewHdr
<1>5. msgque' = [msgque EXCEPT ![s] = h]
  BY <1>1
<1> HIDE DEF h
<1>6. msgque' \in [Slot -> Hdr] /\ \A t \in Slot \ {s} : msgque'[t] = msgque[t]
  BY <1>4, <1>5 DEF Inv, Types
<1>7. Types'
  BY <1>2, <1>6 DEF Inv, Types
<1>8. OneHolder' /\ LockOwned'
  BY <1>2 DEF Inv, OneHolder, LockOwned, Q
<1>9. ASSUME NEW r \in Proc PROVE Good(r)'
  <2>1. Good(r) /\ Q(r) \in Slot /\ Q(r)' = Q(r)
    BY <1>2, Own DEF Q
  <2>2. CASE Q(r) = s
    <3>1. ~ Live(call[r].id)
      BY <1>1, <2>2 DEF Live, Q
    <3>2. pc[r] \notin Locked /\ pc[r] # "copyout"
      BY <2>1, <3>1 DEF Good, Works, Locked
    <3>3. Works(r)'
      BY <1>2, <3>2 DEF Works
    <3>4. Waits(r)'
      BY <1>2, <2>1, <3>1 DEF Good, Waits, Asleep, NoSegments, Q
    <3> QED BY <1>2, <2>1, <3>3, <3>4 DEF Good
  <2>3. CASE Q(r) # s
    <3>1. msgque'[Q(r)] = msgque[Q(r)]
      BY <1>6, <2>1, <2>3
    <3>2. Works(r)' /\ Waits(r)'
      BY <1>2, <2>1, <3>1 DEF Good, Works, Waits, Asleep, NoSegments, Live, Q
    <3> QED BY <1>2, <2>1, <3>2 DEF Good
  <2> QED BY <2>2, <2>3
<1> QED BY <1>7, <1>8, <1>9 DEF Inv

\* A signal takes one sleeper off its queue.
LEMMA SignalInv ==
    ASSUME Inv, NEW p \in Proc, Signal(p) PROVE Inv'
<1>1. /\ msglock' = msglock /\ msgfp' = msgfp /\ msgmap' = msgmap /\ mapwant' = mapwant
      /\ msgque' = msgque /\ pc' = pc /\ call' = call
      /\ wchan' = [wchan EXCEPT ![p] = NoChan]
  BY DEF Signal, Setrun, poolVars, procVars
<1>2. Types' /\ OneHolder' /\ LockOwned'
  BY <1>1 DEF Inv, Types, OneHolder, LockOwned, Q
<1>3. ASSUME NEW r \in Proc PROVE Good(r)'
  <2>1. Good(r)
    BY DEF Inv
  <2>2. Works(r)'
    BY <1>1, <2>1 DEF Good, Works, Live, Q
  <2>3. Waits(r)'
    BY <1>1, <2>1 DEF Good, Waits, Asleep, NoSegments, Live, Q, Inv, Types
  <2> QED BY <1>1, <2>1, <2>2, <2>3 DEF Good
<1> QED BY <1>2, <1>3 DEF Inv

\* Every system call that begins keeps the invariant.
LEMMA RequestInv ==
    ASSUME Inv, NEW p \in Proc, Request(p) PROVE Inv'
<1>1. NoCall.arg \in Argument /\ Sends \subseteq Argument /\ Receives \subseteq Argument
  BY InputsAssumption DEF NoCall, Argument
<1>2. CASE Msgget(p)
  BY <1>2, MsggetInv
<1>3. ASSUME NEW id \in Id, Enter(p, "msgctl", id, NoCall.arg, "rmid") PROVE Inv'
  BY <1>1, <1>3, EnterInv
<1>4. ASSUME NEW id \in Id, Enter(p, "msgctl", id, NoCall.arg, "set") PROVE Inv'
  BY <1>1, <1>4, EnterInv
<1>5. ASSUME NEW id \in Id, NEW arg \in Sends, Enter(p, "msgsnd", id, arg, "type") PROVE Inv'
  BY <1>1, <1>5, EnterInv
<1>6. ASSUME NEW id \in Id, NEW arg \in Receives, Enter(p, "msgrcv", id, arg, "check") PROVE Inv'
  BY <1>1, <1>6, EnterInv
<1> QED BY <1>2, <1>3, <1>4, <1>5, <1>6 DEF Request

\* Every step inside the kernel keeps it.
LEMMA ContinueInv ==
    ASSUME Inv, NEW p \in Proc, Continue(p) PROVE Inv'
<1>1. CASE ChecksFail(p)
  BY <1>1, LeavesAlone DEF ChecksFail, At, Locked
<1> QED
  BY <1>1, MsgconvInv, LockWaitedInv, ChecksInv, MsgctlRmidInv, MsgctlSetInv, MsgrcvFindInv,
     MsgrcvCopyoutInv, WaitedInv, MsgsndBlockedInv, MsgsndTakeInv, MsgsndTextInv,
     MsgsndInterruptedInv DEF Continue

\* The constants give the initial state its types.
LEMMA InitInv == Init => Inv
<1> SUFFICES ASSUME Init PROVE Inv
  OBVIOUS
<1>1. msgque \in [Slot -> Hdr]
  <2>1. <<>> \in Seq(Node) /\ 0 \in 0 .. SEQMAX
    BY SizesAssumption
  <2> QED BY <2>1 DEF Init, Hdr
<1>2. Types
  <2>1. msgfp \in Nat /\ msgmap \subseteq Int
    BY SizesAssumption DEF Init, Seg
  <2>4. mapwant \in BOOLEAN
    BY DEF Init
  <2>5. msglock \in [Slot -> BOOLEAN]
    BY DEF Init
  <2>2. pc \in [Proc -> Pcs] /\ wchan \in [Proc -> Chan \cup {NoChan}]
    BY DEF Init, Pcs
  <2>3. call \in [Proc -> Frame]
    BY NoCallFrame DEF Init
  <2> QED BY <1>1, <2>1, <2>2, <2>3, <2>4, <2>5 DEF Types
<1>3. OneHolder /\ LockOwned
  BY DEF Init, OneHolder, LockOwned, Locked
<1>4. ASSUME NEW p \in Proc PROVE Good(p)
  BY DEF Init, Good, Asks, Works, Waits, Asleep, Locked, SndPlaces, RcvPlaces, CtlPlaces
<1> QED BY <1>2, <1>3, <1>4 DEF Inv

\* The invariant is inductive.
LEMMA NextInv == Inv /\ [Next]_vars => Inv'
<1> SUFFICES ASSUME Inv, [Next]_vars PROVE Inv'
  OBVIOUS
<1>1. CASE Next
  BY <1>1, RequestInv, ContinueInv, SignalInv DEF Next
<1>2. CASE UNCHANGED vars
  <2>1. /\ msgque' = msgque /\ msglock' = msglock /\ msgfp' = msgfp /\ msgmap' = msgmap
        /\ mapwant' = mapwant /\ wchan' = wchan /\ pc' = pc /\ call' = call
    BY <1>2 DEF vars, poolVars, procVars
  <2>2. Types' /\ OneHolder' /\ LockOwned'
    BY <2>1 DEF Inv, Types, OneHolder, LockOwned, Q
  <2>3. \A p \in Proc : Good(p)'
    BY <2>1 DEF Inv, Good, Works, Waits, Asleep, NoSegments, Live, Q
  <2> QED BY <2>2, <2>3 DEF Inv
<1> QED BY <1>1, <1>2

\* A queue is locked exactly when one process works on it.
LEMMA InvLocks == Inv => LocksHeld
<1> SUFFICES ASSUME Inv, NEW s \in Slot
             PROVE  LET holders == {p \in Proc : pc[p] \in Locked /\ Q(p) = s} IN
                    /\ Cardinality(holders) = IF msglock[s] THEN 1 ELSE 0
                    /\ \A p \in holders : Live(call[p].id)
  BY DEF LocksHeld
<1> DEFINE holders == {p \in Proc : pc[p] \in Locked /\ Q(p) = s}
<1>1. \A p \in holders : msglock[s] /\ Live(call[p].id)
  BY DEF Inv, Good, Works
<1>2. CASE msglock[s]
  <2>1. PICK p \in Proc : p \in holders
    BY <1>2 DEF Inv, LockOwned
  <2>2. holders = {p}
    BY <2>1 DEF Inv, OneHolder
  <2>3. Cardinality(holders) = 1
    BY <2>2, FS_Singleton
  <2> QED BY <1>1, <1>2, <2>3
<1>3. CASE ~ msglock[s]
  <2>1. holders = {}
    BY <1>1, <1>3
  <2>2. Cardinality(holders) = 0
    BY <2>1, FS_EmptySet
  <2> QED BY <1>1, <1>3, <2>2
<1> QED BY <1>2, <1>3

\* For every number of processes, queues, headers and segments: msgconv, the
\* sleeps of msgsnd and msgrcv, signals and removals leave each queue locked
\* exactly when one process works on it, and that queue is the one it asked for.
THEOREM QueuesLocked == Spec => []LocksHeld
<1>1. Spec => []Inv
  BY InitInv, NextInv, PTL DEF Spec
<1> QED BY <1>1, InvLocks, PTL

\* For every number of processes, queues, headers and segments: nobody sleeps
\* for a lock that is free, a message that is there, or headers or segments that
\* are free, and the flags that make others wake a sleeper are set.
THEOREM NobodyStarved == Spec => []SleepersStarved
<1>1. Inv => SleepersStarved
  BY DEF Inv, Good, Waits, SleepersStarved
<1>2. Spec => []Inv
  BY InitInv, NextInv, PTL DEF Spec
<1> QED BY <1>1, <1>2, PTL

-----------------------------------------------------------------------------
(* The headers on the queues *)

\* The messages on all queues.
Linked(mq) == MapThenSumSet(LAMBDA s : Len(mq[s].msgs), Slot)

\* g adds up the messages on the queues of each set of slots.
First(A) == CHOOSE s \in A : TRUE

AddsUp(g, mq) ==
    /\ g \in [SUBSET Slot -> Nat] /\ g[Slot] = Linked(mq)
    /\ \A A \in SUBSET Slot :
         g[A] = IF A = {} THEN 0 ELSE Len(mq[First(A)].msgs) + g[A \ {First(A)}]

\* There are finitely many slots.
LEMMA SlotsFinite == IsFiniteSet(Slot)
BY FS_Interval, SizesAssumption DEF Slot

\* The sum over the slots is such a sum.
LEMMA LinkedAddsUp ==
    ASSUME NEW mq, \A s \in Slot : Len(mq[s].msgs) \in Nat
    PROVE  \E g : AddsUp(g, mq)
<1> DEFINE V == Nat
           size(s) == Len(mq[s].msgs)
           next(s, v) == size(s) + v
           IsFold(g) == g = [A \in SUBSET Slot |->
                               IF A = {} THEN 0 ELSE next(First(A), g[A \ {First(A)}])]
           it == CHOOSE g : IsFold(g)
           step == [p \in Slot \X V |-> next(p[1], p[2])]
           pick == [A \in SUBSET Slot |-> First(A)]
<1>1. Linked(mq) = it[Slot]
  BY DEF Linked, MapThenSumSet, MapThenFoldSet, First
<1>2. \A v \in V, s \in Slot : next(s, v) \in V
  BY DEF V
<1>3. 0 \in V
  OBVIOUS
<1> HIDE DEF next, V
<1>4. \A s \in Slot, v \in V : step[<<s, v>>] = next(s, v)
  OBVIOUS
<1>5. \A A \in SUBSET Slot : A # {} => First(A) \in A /\ pick[A] = First(A)
  BY DEF First
<1>6. PICK g : IsRecursion(g, Slot, V, 0, step, pick)
  <2>1. \A s \in Slot, v \in V : step[<<s, v>>] \in V
    BY <1>2, <1>4
  <2>2. \A A \in SUBSET Slot : A # {} => pick[A] \in A
    BY <1>5
  <2> HIDE DEF step, pick
  <2> QED BY <1>3, <2>1, <2>2, SlotsFinite, SetRecursion
<1>7. g \in [SUBSET Slot -> V]
  BY <1>6 DEF IsRecursion
<1>8. ASSUME NEW A \in SUBSET Slot
      PROVE  g[A] = IF A = {} THEN 0 ELSE next(First(A), g[A \ {First(A)}])
  <2>1. CASE A = {}
    BY <1>6, <2>1 DEF IsRecursion
  <2>2. CASE A # {}
    <3>1. First(A) \in Slot /\ A \ {First(A)} \in SUBSET Slot /\ pick[A] = First(A)
      BY <1>5, <2>2
    <3>2. g[A \ {First(A)}] \in V
      BY <1>7, <3>1
    <3>3. g[A] = step[<<First(A), g[A \ {First(A)}]>>]
      BY <1>6, <2>2, <3>1 DEF IsRecursion
    <3> QED BY <1>4, <2>2, <3>1, <3>2, <3>3
  <2> QED BY <2>1, <2>2
<1>9. IsFold(g)
  BY <1>7, <1>8
<1>10. IsFold(it)
  <2> HIDE DEF IsFold
  <2> QED BY <1>9
<1> HIDE DEF it
<1>11. it \in [SUBSET Slot -> V]
  <2>1. it = [A \in SUBSET Slot |-> it[A]]
    BY <1>10
  <2>2. ASSUME NEW A \in SUBSET Slot PROVE it[A] = g[A]
    <3> DEFINE T == {n \in Nat : \A B \in SUBSET Slot : Cardinality(B) = n => it[B] = g[B]}
    <3>1. 0 \in T
      <4>1. ASSUME NEW B \in SUBSET Slot, Cardinality(B) = 0 PROVE it[B] = g[B]
        <5>1. B = {}
          BY <4>1, SlotsFinite, FS_Subset, FS_EmptySet
        <5> QED BY <1>8, <1>10, <5>1
      <4> QED BY <4>1
    <3>2. ASSUME NEW n \in Nat, n \in T PROVE n + 1 \in T
      <4> SUFFICES ASSUME NEW B \in SUBSET Slot, Cardinality(B) = n + 1 PROVE it[B] = g[B]
        OBVIOUS
      <4>1. B # {} /\ IsFiniteSet(B)
        BY SlotsFinite, FS_Subset, FS_EmptySet
      <4> DEFINE s == First(B)
      <4>2. s \in B /\ B \ {s} \in SUBSET Slot
        BY <1>5, <4>1
      <4>3. Cardinality(B \ {s}) = n
        <5> HIDE DEF s
        <5>1. Cardinality(B \ {s}) = Cardinality(B) - 1
          BY <4>1, <4>2, FS_RemoveElement
        <5> QED BY <5>1
      <4>4. it[B \ {s}] = g[B \ {s}]
        BY <3>2, <4>2, <4>3
      <4> QED BY <1>8, <1>10, <4>1, <4>4
    <3>3. Cardinality(A) \in Nat
      BY SlotsFinite, FS_Subset, FS_CardinalityType
    <3> HIDE DEF T
    <3>4. Cardinality(A) \in T
      BY <3>1, <3>2, <3>3, SetInduction
    <3> QED BY <3>4 DEF T
  <2> QED BY <1>7, <2>1, <2>2
<1>12. AddsUp(it, mq)
  BY <1>1, <1>10, <1>11 DEF AddsUp, V, next
<1> QED BY <1>12

\* A queue that changes changes the sum by as much.
LEMMA LinkedChanges ==
    ASSUME NEW mq, NEW mq2, NEW s \in Slot,
           \A t \in Slot : Len(mq[t].msgs) \in Nat /\ Len(mq2[t].msgs) \in Nat,
           \A t \in Slot \ {s} : mq2[t].msgs = mq[t].msgs
    PROVE  /\ Linked(mq) \in Nat /\ Linked(mq2) \in Nat
           /\ Linked(mq2) + Len(mq[s].msgs) = Linked(mq) + Len(mq2[s].msgs)
<1> DEFINE a == Len(mq[s].msgs)  b == Len(mq2[s].msgs)
<1>1. PICK f : AddsUp(f, mq)
  BY LinkedAddsUp
<1>2. PICK g : AddsUp(g, mq2)
  BY LinkedAddsUp
<1>3. a \in Nat /\ b \in Nat /\ f \in [SUBSET Slot -> Nat] /\ g \in [SUBSET Slot -> Nat]
  BY <1>1, <1>2 DEF AddsUp
<1> DEFINE Ok(A) == IF s \in A THEN g[A] + a = f[A] + b ELSE g[A] = f[A]
           T == {n \in Nat : \A A \in SUBSET Slot : Cardinality(A) = n => Ok(A)}
<1>4. 0 \in T
  <2>1. ASSUME NEW A \in SUBSET Slot, Cardinality(A) = 0 PROVE Ok(A)
    <3>1. A = {}
      BY <2>1, SlotsFinite, FS_Subset, FS_EmptySet
    <3> QED BY <1>1, <1>2, <3>1 DEF AddsUp
  <2> HIDE DEF Ok
  <2> QED BY <2>1
<1>5. ASSUME NEW n \in Nat, n \in T PROVE n + 1 \in T
  <2>1. ASSUME NEW A \in SUBSET Slot, Cardinality(A) = n + 1 PROVE Ok(A)
    <3> DEFINE t == First(A)  B == A \ {t}
    <3>1. A # {} /\ IsFiniteSet(A)
      BY <2>1, SlotsFinite, FS_Subset, FS_EmptySet
    <3>2. t \in A /\ t \in Slot /\ B \in SUBSET Slot
      BY <3>1 DEF First
    <3>3. f[A] = Len(mq[t].msgs) + f[B] /\ g[A] = Len(mq2[t].msgs) + g[B]
      BY <1>1, <1>2, <3>1 DEF AddsUp
    <3> HIDE DEF t
    <3>4. Cardinality(B) = Cardinality(A) - 1
      BY <3>1, <3>2, FS_RemoveElement
    <3>5. Cardinality(B) = n
      BY <2>1, <3>4
    <3>6. Ok(B)
      BY <1>5, <3>2, <3>5
    <3>7. f[B] \in Nat /\ g[B] \in Nat /\ Len(mq[t].msgs) \in Nat
      BY <1>3, <3>2
    <3>8. CASE t = s
      <4>1. g[B] = f[B] /\ f[A] = a + f[B] /\ g[A] = b + g[B] /\ s \in A
        BY <3>2, <3>3, <3>6, <3>8
      <4> DEFINE x == f[B]  y == f[A]  z == g[A]
      <4>2. a \in Nat /\ b \in Nat /\ x \in Nat /\ y = a + x /\ z = b + x
        BY <1>3, <3>7, <4>1
      <4> HIDE DEF a, b, x, y, z
      <4>3. z + a = y + b
        BY ONLY <4>2
      <4> QED BY <4>1, <4>3 DEF y, z
    <3>9. CASE t # s
      <4>1. (s \in A <=> s \in B) /\ mq2[t].msgs = mq[t].msgs
        BY <3>2, <3>9
      <4> DEFINE c == Len(mq[t].msgs)  x == f[B]  y == g[B]
      <4>2. /\ c \in Nat /\ x \in Nat /\ y \in Nat /\ f[A] = c + x /\ g[A] = c + y
            /\ IF s \in A THEN y + a = x + b ELSE y = x
        BY <3>3, <3>6, <3>7, <4>1
      <4> HIDE DEF a, b, c, x, y
      <4>3. CASE s \in A
        <5>1. y + a = x + b
          BY <4>2, <4>3
        <5>2. (c + y) + a = (c + x) + b
          BY <1>3, <4>2, <5>1
        <5> QED BY <4>2, <4>3, <5>2
      <4>4. CASE s \notin A
        BY <4>2, <4>4
      <4> QED BY <4>3, <4>4
    <3> QED BY <3>8, <3>9
  <2> HIDE DEF Ok
  <2> QED BY <2>1
<1>6. Ok(Slot)
  <2>1. Cardinality(Slot) \in Nat
    BY SlotsFinite, FS_CardinalityType
  <2> HIDE DEF T, Ok
  <2>2. Cardinality(Slot) \in T
    BY <1>4, <1>5, <2>1, SetInduction
  <2> QED BY <2>2 DEF T
<1>7. f[Slot] = Linked(mq) /\ g[Slot] = Linked(mq2)
  BY <1>1, <1>2 DEF AddsUp
<1> QED BY <1>3, <1>6, <1>7
-----------------------------------------------------------------------------
(* Owners of segments *)

\* The segments of the texts on a queue, by position.
TextOf(msgs) ==
    [i \in Nat |-> IF i \in 1 .. Len(msgs) /\ msgs[i].ts > 0
                   THEN Segs(msgs[i].spot, msgs[i].ts) ELSE {}]

\* The segments a process at the place `at` with the locals f copies its text to.
SentBy(at, f) == IF at = "text" THEN Segs(f.spot, f.arg.size) ELSE {}

\* The senders S own and the queues T store segments that are not free, and no
\* two of them the same one.
Apart(S, T, free) ==
    /\ \A p \in Proc : S[p] \subseteq Seg \ free
    /\ \A s \in Slot : \A i \in Nat : T[s][i] \subseteq Seg \ free
    /\ \A p, q \in Proc : p # q => S[p] \cap S[q] = {}
    /\ \A p \in Proc, s \in Slot : \A i \in Nat : S[p] \cap T[s][i] = {}
    /\ \A s, t \in Slot : \A i, j \in Nat : (s # t \/ i # j) => T[s][i] \cap T[t][j] = {}

\* A queue loses all its texts, and the segments of some are free.
LEMMA ApartDropped ==
    ASSUME NEW S, NEW T \in [Slot -> [Nat -> SUBSET Int]], NEW free, Apart(S, T, free),
           NEW s \in Slot, NEW none, \A i \in Nat : none[i] = {},
           NEW after, \A u \in after : u \in free \/ \E i \in Nat : u \in T[s][i]
    PROVE  Apart(S, [T EXCEPT ![s] = none], after)
<1> DEFINE U == [T EXCEPT ![s] = none]
<1>1. \A t \in Slot : \A i \in Nat : U[t][i] = IF t = s THEN {} ELSE T[t][i]
  OBVIOUS
<1> HIDE DEF U
<1>2. \A p \in Proc : S[p] \subseteq Seg \ after
  BY DEF Apart
<1>3. \A t \in Slot : \A i \in Nat : U[t][i] \subseteq Seg \ after
  BY <1>1 DEF Apart
<1>4. \A p \in Proc, t \in Slot : \A i \in Nat : S[p] \cap U[t][i] = {}
  BY <1>1 DEF Apart
<1>5. \A r, t \in Slot : \A i, j \in Nat : (r # t \/ i # j) => U[r][i] \cap U[t][j] = {}
  BY <1>1 DEF Apart
<1> QED BY <1>2, <1>3, <1>4, <1>5 DEF Apart, U

\* One text leaves a queue, and its segments are free or lost.
LEMMA ApartRemoved ==
    ASSUME NEW S, NEW T \in [Slot -> [Nat -> SUBSET Int]], NEW free, Apart(S, T, free),
           NEW s \in Slot, NEW k \in Nat,
           NEW rest, \A i \in Nat : rest[i] = {} \/ rest[i] = T[s][IF i < k THEN i ELSE i + 1],
           NEW after, \A u \in after : u \in free \/ u \in T[s][k]
    PROVE  Apart(S, [T EXCEPT ![s] = rest], after)
<1> DEFINE U == [T EXCEPT ![s] = rest]
           from(t, i) == IF t = s /\ ~ (i < k) THEN i + 1 ELSE i
<1>1. \A t \in Slot : \A i \in Nat :
        from(t, i) \in Nat /\ (U[t][i] = {} \/ U[t][i] = T[t][from(t, i)])
  OBVIOUS
<1>2. \A t \in Slot : \A i, j \in Nat : i # j => from(t, i) # from(t, j)
  OBVIOUS
<1>3. \A i \in Nat : from(s, i) # k
  OBVIOUS
<1> HIDE DEF U, from
<1>4. \A p \in Proc : S[p] \subseteq Seg \ after
  BY DEF Apart
<1>8. /\ \A t \in Slot : \A i \in Nat : T[t][i] \subseteq Seg \ free
      /\ \A p \in Proc, t \in Slot : \A i \in Nat : S[p] \cap T[t][i] = {}
      /\ \A r, t \in Slot : \A i, j \in Nat : (r # t \/ i # j) => T[r][i] \cap T[t][j] = {}
  BY DEF Apart
<1>5. ASSUME NEW t \in Slot, NEW i \in Nat PROVE U[t][i] \subseteq Seg \ after
  <2> DEFINE j == from(t, i)
  <2>1. j \in Nat /\ (U[t][i] = {} \/ U[t][i] = T[t][j]) /\ (t = s => j # k)
    BY <1>1, <1>3
  <2> HIDE DEF j
  <2>2. T[t][j] \subseteq Seg \ free /\ T[t][j] \cap T[s][k] = {}
    BY <1>8, <2>1
  <2> QED BY <2>1, <2>2
<1>6. ASSUME NEW p \in Proc, NEW t \in Slot, NEW i \in Nat PROVE S[p] \cap U[t][i] = {}
  <2>1. from(t, i) \in Nat /\ (U[t][i] = {} \/ U[t][i] = T[t][from(t, i)])
    BY <1>1
  <2> QED BY <1>8, <2>1
<1>7. ASSUME NEW r \in Slot, NEW t \in Slot, NEW i \in Nat, NEW j \in Nat, r # t \/ i # j
      PROVE  U[r][i] \cap U[t][j] = {}
  <2> DEFINE a == from(r, i)  b == from(t, j)
  <2>1. /\ a \in Nat /\ (U[r][i] = {} \/ U[r][i] = T[r][a])
        /\ b \in Nat /\ (U[t][j] = {} \/ U[t][j] = T[t][b])
        /\ r # t \/ a # b
    BY <1>1, <1>2, <1>7
  <2> HIDE DEF a, b
  <2>2. T[r][a] \cap T[t][b] = {}
    BY <1>8, <2>1
  <2> QED BY <2>1, <2>2
<1> QED BY <1>4, <1>5, <1>6, <1>7 DEF Apart, U

\* A sender takes segments that are free.
LEMMA ApartTaken ==
    ASSUME NEW S \in [Proc -> SUBSET Int], NEW T, NEW free \in SUBSET Seg, Apart(S, T, free),
           NEW p \in Proc, NEW X \in SUBSET free
    PROVE  Apart([S EXCEPT ![p] = X], T, free \ X)
<1> DEFINE U == [S EXCEPT ![p] = X]
<1>1. \A q \in Proc : U[q] = IF q = p THEN X ELSE S[q]
  OBVIOUS
<1> HIDE DEF U
<1> QED BY <1>1 DEF Apart, U

\* A sender that has nothing any more: its segments are free or lost.
LEMMA ApartGivenBack ==
    ASSUME NEW S \in [Proc -> SUBSET Int], NEW T, NEW free, Apart(S, T, free),
           NEW p \in Proc, NEW after, \A u \in after : u \in free \/ u \in S[p]
    PROVE  Apart([S EXCEPT ![p] = {}], T, after)
<1> DEFINE U == [S EXCEPT ![p] = {}]
<1>1. \A q \in Proc : U[q] = IF q = p THEN {} ELSE S[q]
  OBVIOUS
<1> HIDE DEF U
<1> QED BY <1>1 DEF Apart, U

\* What a sender owned is a new text of a queue.
LEMMA ApartStored ==
    ASSUME NEW S \in [Proc -> SUBSET Int], NEW T \in [Slot -> [Nat -> SUBSET Int]], NEW free,
           Apart(S, T, free),
           NEW p \in Proc, NEW s \in Slot, NEW n \in Nat,
           NEW all, all[n] = S[p], \A i \in Nat \ {n} : all[i] = T[s][i]
    PROVE  Apart([S EXCEPT ![p] = {}], [T EXCEPT ![s] = all], free)
<1> DEFINE U == [S EXCEPT ![p] = {}]
           V == [T EXCEPT ![s] = all]
<1>1. \A q \in Proc : U[q] = IF q = p THEN {} ELSE S[q]
  OBVIOUS
<1>2. \A t \in Slot : \A i \in Nat : V[t][i] = IF t = s /\ i = n THEN S[p] ELSE T[t][i]
  OBVIOUS
<1> HIDE DEF U, V
<1>3. \A q \in Proc : U[q] \subseteq Seg \ free
  BY <1>1 DEF Apart
<1>4. \A t \in Slot : \A i \in Nat : V[t][i] \subseteq Seg \ free
  BY <1>2 DEF Apart
<1>5. \A q, r \in Proc : q # r => U[q] \cap U[r] = {}
  BY <1>1 DEF Apart
<1>6. \A q \in Proc, t \in Slot : \A i \in Nat : U[q] \cap V[t][i] = {}
  BY <1>1, <1>2 DEF Apart
<1>7. ASSUME NEW r \in Slot, NEW t \in Slot, NEW i \in Nat, NEW j \in Nat, r # t \/ i # j
      PROVE  V[r][i] \cap V[t][j] = {}
  <2>1. T[r][i] \cap T[t][j] = {} /\ S[p] \cap T[t][j] = {} /\ S[p] \cap T[r][i] = {}
    BY <1>7 DEF Apart
  <2>2. V[r][i] = IF r = s /\ i = n THEN S[p] ELSE T[r][i]
    BY <1>2
  <2>3. V[t][j] = IF t = s /\ j = n THEN S[p] ELSE T[t][j]
    BY <1>2
  <2> QED BY <1>7, <2>1, <2>2, <2>3
<1> QED BY <1>3, <1>4, <1>5, <1>6, <1>7 DEF Apart, U, V
-----------------------------------------------------------------------------
(* The invariant *)

Sent   == [p \in Proc |-> SentBy(pc[p], call[p])]
Stored == [s \in Slot |-> TextOf(msgque[s].msgs)]

\* The counters of a queue and what a slot without a queue still has
QueueOK(h) ==
    /\ h.qnum = Len(h.msgs) /\ h.cbytes = Bytes(h.msgs)
    /\ h.msgs \in Seq(Message)
    /\ ~ h.alloc => h.msgs = <<>> /\ ~ h.rwait /\ ~ h.wwait

Res ==
    /\ IsFiniteSet(Senders)
    /\ msgfp + Cardinality(Senders) + Linked(msgque) = MSGTQL
    /\ msgmap \subseteq Seg /\ Apart(Sent, Stored, msgmap)
    /\ \A s \in Slot : QueueOK(msgque[s])
    /\ \A p \in Proc : call[p].spot \in Seg \cup {0}

\* A message with a text in the buffer is a message.
LEMMA MessageIsNode == Seq(Message) \subseteq Seq(Node) /\ Message \subseteq Node
<1>1. Message \subseteq Node
  BY DEF Message, Node, Seg
<1> QED BY <1>1

\* The lists of the queues and the segments are of the types the lemmas ask for.
LEMMA ResTypes ==
    ASSUME Inv, Res
    PROVE  /\ \A s \in Slot : /\ msgque[s] \in Hdr /\ msgque[s].msgs \in Seq(Node)
                              /\ Len(msgque[s].msgs) \in Nat
           /\ Sent \in [Proc -> SUBSET Int]
           /\ Stored \in [Slot -> [Nat -> SUBSET Int]]
           /\ Cardinality(Senders) \in Nat /\ msgfp \in Nat /\ Linked(msgque) \in Nat
<1>1. \A s \in Slot : /\ msgque[s] \in Hdr /\ msgque[s].msgs \in Seq(Node)
                      /\ Len(msgque[s].msgs) \in Nat
  <2> SUFFICES ASSUME NEW s \in Slot
               PROVE  /\ msgque[s] \in Hdr /\ msgque[s].msgs \in Seq(Node)
                      /\ Len(msgque[s].msgs) \in Nat
    OBVIOUS
  <2>1. msgque[s] \in Hdr
    BY DEF Inv, Types
  <2>2. msgque[s].msgs \in Seq(Node)
    BY <2>1 DEF Hdr
  <2> QED BY <2>1, <2>2, ListAdds
<1>2. \A spot, n : Segs(spot, n) \subseteq Int
  BY DEF Segs
<1>3. Sent \in [Proc -> SUBSET Int]
  BY <1>2 DEF Sent, SentBy
<1>4. Stored \in [Slot -> [Nat -> SUBSET Int]]
  BY <1>2 DEF Stored, TextOf
<1>5. Cardinality(Senders) \in Nat
  BY FS_CardinalityType DEF Res
<1>6. Linked(msgque) \in Nat
  <2>1. 0 \in Slot
    BY SizesAssumption DEF Slot
  <2> QED BY <1>1, <2>1, LinkedChanges
<1>7. msgfp \in Nat
  BY DEF Inv, Types
<1> QED BY <1>1, <1>3, <1>4, <1>5, <1>6, <1>7

One(where) == IF where = "text" THEN 1 ELSE 0

\* Headers that move between the free list, senders and queues.
LEMMA Balance ==
    ASSUME NEW fp \in Nat, NEW fp2 \in Nat, NEW a \in Nat, NEW b \in Nat, NEW x \in Nat, NEW y \in Nat,
           NEW m \in Nat, NEW n \in Nat, NEW was \in Nat, NEW is \in Nat,
           y + m = x + n, b + was = a + is, fp2 + is + n = fp + was + m
    PROVE  fp2 + b + y = fp + a + x
OBVIOUS

\* What a step has to show that sets the queue of s to h, p to the place `where`
\* and the locals f, and the free segments to `free`.
LEMMA Settle ==
    ASSUME Inv, Res, NEW p \in Proc, NEW s \in Slot,
           NEW h \in Hdr, QueueOK(h), msgque' = [msgque EXCEPT ![s] = h],
           NEW where, pc' = [pc EXCEPT ![p] = where],
           NEW f, f.spot \in Seg \cup {0}, call' = [call EXCEPT ![p] = f],
           msgmap' \subseteq Seg, msgfp' \in Nat,
           msgfp' + One(where) + Len(h.msgs) = msgfp + One(pc[p]) + Len(msgque[s].msgs),
           Apart([Sent EXCEPT ![p] = SentBy(where, f)],
                 [Stored EXCEPT ![s] = TextOf(h.msgs)], msgmap')
    PROVE  Res'
<1>1. /\ msgque \in [Slot -> Hdr] /\ pc \in [Proc -> Pcs] /\ call \in [Proc -> Frame]
  BY DEF Inv, Types
<1>2. /\ msgque'[s] = h /\ \A t \in Slot \ {s} : msgque'[t] = msgque[t]
      /\ pc'[p] = where /\ \A q \in Proc \ {p} : pc'[q] = pc[q]
      /\ call'[p] = f /\ \A q \in Proc \ {p} : call'[q] = call[q]
  BY <1>1
<1>3. h.msgs \in Seq(Node) /\ Len(h.msgs) \in Nat
  <2>1. h.msgs \in Seq(Node)
    BY DEF Hdr
  <2> QED BY <2>1, ListAdds
<1>4. \A q \in Proc : QueueOK(h) /\ call'[q].spot \in Seg \cup {0}
  BY <1>2 DEF Res
<1>5. \A t \in Slot : QueueOK(msgque'[t])
  BY <1>2 DEF Res
<1>6. Linked(msgque') \in Nat /\ Linked(msgque') + Len(msgque[s].msgs) = Linked(msgque) + Len(h.msgs)
  <2>1. \A t \in Slot : Len(msgque[t].msgs) \in Nat /\ Len(msgque'[t].msgs) \in Nat
    <3> SUFFICES ASSUME NEW t \in Slot
                 PROVE  Len(msgque[t].msgs) \in Nat /\ Len(msgque'[t].msgs) \in Nat
      OBVIOUS
    <3>1. Len(msgque[t].msgs) \in Nat
      BY ResTypes
    <3> QED BY <1>2, <1>3, <3>1
  <2>2. \A t \in Slot \ {s} : msgque'[t].msgs = msgque[t].msgs
    BY <1>2
  <2> DEFINE mq == msgque  mq2 == msgque'
  <2>3. /\ \A t \in Slot : Len(mq[t].msgs) \in Nat /\ Len(mq2[t].msgs) \in Nat
        /\ \A t \in Slot \ {s} : mq2[t].msgs = mq[t].msgs
    BY <2>1, <2>2
  <2> HIDE DEF mq, mq2
  <2>4. Linked(mq2) \in Nat /\ Linked(mq2) + Len(mq[s].msgs) = Linked(mq) + Len(mq2[s].msgs)
    BY <2>3, LinkedChanges
  <2> QED BY <1>2, <2>4 DEF mq, mq2
<1>7. IsFiniteSet(Senders') /\ Cardinality(Senders') + One(pc[p]) = Cardinality(Senders) + One(where)
  <2>1. CASE where = "text"
    <3>1. Senders' = Senders \cup {p}
      BY <1>2, <2>1 DEF Senders
    <3>2. p \in Senders <=> pc[p] = "text"
      BY DEF Senders
    <3>3. IsFiniteSet(Senders) /\ Cardinality(Senders) \in Nat
      BY ResTypes DEF Res
    <3>4. /\ IsFiniteSet(Senders')
          /\ Cardinality(Senders') = IF p \in Senders THEN Cardinality(Senders)
                                                      ELSE Cardinality(Senders) + 1
      BY <3>1, <3>3, FS_AddElement
    <3> QED BY <2>1, <3>2, <3>3, <3>4 DEF One
  <2>2. CASE where # "text"
    <3>1. Senders' = Senders \ {p}
      BY <1>2, <2>2 DEF Senders
    <3>2. p \in Senders <=> pc[p] = "text"
      BY DEF Senders
    <3>3. IsFiniteSet(Senders) /\ Cardinality(Senders) \in Nat
      BY ResTypes DEF Res
    <3>4. /\ IsFiniteSet(Senders')
          /\ Cardinality(Senders') = IF p \in Senders THEN Cardinality(Senders) - 1
                                                      ELSE Cardinality(Senders)
      BY <3>1, <3>3, FS_RemoveElement
    <3> QED BY <2>2, <3>2, <3>3, <3>4 DEF One
  <2> QED BY <2>1, <2>2
<1>8. msgfp' + Cardinality(Senders') + Linked(msgque') = MSGTQL
  <2> DEFINE a == Cardinality(Senders)  b == Cardinality(Senders')
             x == Linked(msgque)  y == Linked(msgque')
             m == Len(msgque[s].msgs)  n == Len(h.msgs)
  <2>1. /\ a \in Nat /\ x \in Nat /\ m \in Nat /\ msgfp \in Nat
        /\ msgfp + a + x = MSGTQL
    BY ResTypes DEF Res
  <2>2. b \in Nat
    BY <1>7, FS_CardinalityType
  <2>3. y \in Nat /\ n \in Nat /\ One(where) \in Nat /\ One(pc[p]) \in Nat
    BY <1>3, <1>6 DEF One
  <2>4. /\ y + m = x + n /\ b + One(pc[p]) = a + One(where)
        /\ msgfp' + One(where) + n = msgfp + One(pc[p]) + m
    BY <1>6, <1>7
  <2> DEFINE was == One(pc[p])  is == One(where)  fp == msgfp  fp2 == msgfp'
  <2>6. /\ a \in Nat /\ b \in Nat /\ x \in Nat /\ y \in Nat /\ m \in Nat /\ n \in Nat
        /\ was \in Nat /\ is \in Nat /\ fp \in Nat /\ fp2 \in Nat
        /\ y + m = x + n /\ b + was = a + is /\ fp2 + is + n = fp + was + m
        /\ fp + a + x = MSGTQL
    BY <2>1, <2>2, <2>3, <2>4
  <2> HIDE DEF a, b, x, y, m, n, was, is, fp, fp2
  <2>7. fp2 + b + y = fp + a + x
    BY <2>6, Balance
  <2>5. msgfp' + b + y = MSGTQL
    BY <2>6, <2>7 DEF fp2
  <2> QED BY <2>5 DEF b, y
<1>9. Sent' = [Sent EXCEPT ![p] = SentBy(where, f)]
  <2>1. \A q \in Proc : SentBy(pc'[q], call'[q]) = IF q = p THEN SentBy(where, f)
                                                   ELSE SentBy(pc[q], call[q])
    BY <1>2
  <2> HIDE DEF SentBy
  <2>2. Sent' = [q \in Proc |-> SentBy(pc'[q], call'[q])]
    BY DEF Sent
  <2> QED BY <2>1, <2>2 DEF Sent
<1>10. Stored' = [Stored EXCEPT ![s] = TextOf(h.msgs)]
  <2>1. \A t \in Slot : TextOf(msgque'[t].msgs) = IF t = s THEN TextOf(h.msgs)
                                                  ELSE TextOf(msgque[t].msgs)
    BY <1>2
  <2>2. Stored' = [t \in Slot |-> TextOf(msgque'[t].msgs)]
    BY DEF Stored
  <2> QED BY <2>1, <2>2 DEF Stored
<1>11. Apart(Sent', Stored', msgmap')
  BY <1>9, <1>10
<1> QED BY <1>4, <1>5, <1>7, <1>8, <1>11 DEF Res
-----------------------------------------------------------------------------
(* Steps that move nothing *)

\* p goes to a place where it owns nothing.
MovesOn(p) ==
    \E where, f : /\ where # "text" /\ f.spot \in Seg \cup {0}
                  /\ pc' = [pc EXCEPT ![p] = where] /\ call' = [call EXCEPT ![p] = f]

\* A return, a step to another place and a new call of msgconv are such steps.
LEMMA MovingOn ==
    ASSUME Inv, Res, NEW p \in Proc
    PROVE  /\ Return(p) => MovesOn(p)
           /\ \A where : where # "text" /\ Goto(p, where) /\ call' = call => MovesOn(p)
           /\ \A then : Reenter(p, then) => MovesOn(p)
<1>1. NoCall.spot = 0
  BY DEF NoCall
<1>2. ASSUME Return(p) PROVE MovesOn(p)
  <2>1. "user" # "text" /\ NoCall.spot \in Seg \cup {0}
    BY <1>1
  <2> QED BY <1>2, <2>1 DEF Return, Goto, MovesOn
<1>3. ASSUME NEW where, where # "text", Goto(p, where), call' = call PROVE MovesOn(p)
  <2>1. call' = [call EXCEPT ![p] = call[p]] /\ call[p].spot \in Seg \cup {0}
    BY <1>3, Own DEF Res
  <2> QED BY <1>3, <2>1 DEF Goto, MovesOn
<1>4. ASSUME NEW then, Reenter(p, then) PROVE MovesOn(p)
  <2> DEFINE f == [call[p] EXCEPT !.then = then]
  <2>1. call' = [call EXCEPT ![p] = f]
    BY <1>4 DEF Reenter
  <2>2. f.spot \in Seg \cup {0}
    <3>1. f.spot = call[p].spot
      BY Own DEF Frame
    <3> QED BY <3>1 DEF Res
  <2> HIDE DEF f
  <2>3. "conv" # "text"
    OBVIOUS
  <2> QED BY <1>4, <2>1, <2>2, <2>3 DEF Reenter, Goto, MovesOn
<1> QED BY <1>2, <1>3, <1>4

\* A step that moves no header, no segment and no message.
LEMMA Quiet ==
    ASSUME Inv, Res, Inv', NEW p \in Proc, pc[p] # "text", MovesOn(p),
           NEW s \in Slot, NEW h, msgque' = [msgque EXCEPT ![s] = h],
           h.msgs = msgque[s].msgs, QueueOK(h), msgfp' = msgfp, msgmap' = msgmap
    PROVE  Res'
<1>1. PICK where, f : /\ where # "text" /\ f.spot \in Seg \cup {0}
                      /\ pc' = [pc EXCEPT ![p] = where] /\ call' = [call EXCEPT ![p] = f]
  BY DEF MovesOn
<1>2. h \in Hdr
  <2>1. msgque'[s] = h
    BY DEF Inv, Types
  <2> QED BY <2>1 DEF Inv, Types
<1>3. [Sent EXCEPT ![p] = SentBy(where, f)] = Sent
  <2>1. Sent[p] = {} /\ SentBy(where, f) = {}
    BY <1>1 DEF Sent, SentBy
  <2> QED BY <2>1 DEF Sent
<1>4. [Stored EXCEPT ![s] = TextOf(h.msgs)] = Stored
  <2>1. Stored[s] = TextOf(h.msgs)
    BY DEF Stored
  <2> QED BY <2>1 DEF Stored
<1>5. Apart([Sent EXCEPT ![p] = SentBy(where, f)], [Stored EXCEPT ![s] = TextOf(h.msgs)], msgmap')
  BY <1>3, <1>4 DEF Res
<1>6. msgfp' + One(where) + Len(h.msgs) = msgfp + One(pc[p]) + Len(msgque[s].msgs)
  BY <1>1 DEF One
<1>7. msgmap' \subseteq Seg /\ msgfp' \in Nat
  BY ResTypes DEF Res
<1> QED BY <1>1, <1>2, <1>5, <1>6, <1>7, Settle

\* A step that leaves the queues alone as well.
LEMMA Still ==
    ASSUME Inv, Res, Inv', NEW p \in Proc, pc[p] # "text", MovesOn(p),
           msgque' = msgque, msgfp' = msgfp, msgmap' = msgmap
    PROVE  Res'
<1> DEFINE s == Q(p)  h == msgque[s]
<1>1. s \in Slot /\ msgque' = [msgque EXCEPT ![s] = h] /\ QueueOK(h)
  BY Own DEF Res
<1>2. h.msgs = msgque[s].msgs
  OBVIOUS
<1> HIDE DEF s, h
<1> QED BY <1>1, <1>2, Quiet

\* The places a process goes to at which it does not copy a text in.
LEMMA StillSteps ==
    ASSUME Inv, Res, Inv', NEW p \in Proc,
           \/ Msgconv(p) \/ LockWaited(p) \/ Checks(p) \/ ChecksFail(p)
           \/ MsgrcvWaited(p) \/ MsgsndWaited(p)
    PROVE  Res'
<1>1. msgque' = msgque /\ msgfp' = msgfp /\ msgmap' = msgmap
  BY DEF Msgconv, LockWaited, Checks, ChecksFail, MsgrcvWaited, MsgsndWaited, poolVars
<1>2. CASE Msgconv(p)
  <2>1. pc[p] = "conv" /\ call[p].then # "text"
    BY <1>2, Own DEF Msgconv, At, Good, Asks
  <2>2. MovesOn(p)
    BY <1>2, <2>1, MovingOn DEF Msgconv
  <2> QED BY <1>1, <2>1, <2>2, Still
<1>3. CASE LockWaited(p)
  BY <1>1, <1>3, MovingOn, Still DEF LockWaited, At
<1>4. CASE Checks(p)
  BY <1>1, <1>4, MovingOn, Still DEF Checks, At
<1>5. CASE ChecksFail(p)
  BY <1>1, <1>5, MovingOn, Still DEF ChecksFail, At
<1>6. CASE MsgrcvWaited(p)
  BY <1>1, <1>6, MovingOn, Still DEF MsgrcvWaited, At
<1>7. CASE MsgsndWaited(p)
  BY <1>1, <1>7, MovingOn, Still DEF MsgsndWaited
<1> QED BY <1>2, <1>3, <1>4, <1>5, <1>6, <1>7

\* A queue keeps its counters when a flag changes.
LEMMA FlagsOnly ==
    ASSUME NEW q, QueueOK(q), NEW h, h.msgs = q.msgs, h.qnum = q.qnum, h.cbytes = q.cbytes,
           h.alloc = q.alloc, q.alloc \/ (h.rwait = q.rwait /\ h.wwait = q.wwait)
    PROVE  QueueOK(h)
BY DEF QueueOK

\* Calls of msgconv.
LEMMA EnterAccounts ==
    ASSUME Inv, Res, Inv', NEW p \in Proc, NEW op, NEW id, NEW arg, NEW then,
           Enter(p, op, id, arg, then)
    PROVE  Res'
<1> DEFINE f == [NoCall EXCEPT !.op = op, !.id = id, !.arg = arg, !.then = then]
<1>1. f.spot = 0
  BY DEF NoCall
<1>2. /\ pc[p] = "user" /\ pc' = [pc EXCEPT ![p] = "conv"] /\ call' = [call EXCEPT ![p] = f]
      /\ msgque' = msgque /\ msgfp' = msgfp /\ msgmap' = msgmap
  BY DEF Enter, At, Goto, poolVars
<1> HIDE DEF f
<1>3. MovesOn(p)
  <2>1. "conv" # "text" /\ f.spot \in Seg \cup {0}
    BY <1>1
  <2> QED BY <1>2, <2>1 DEF MovesOn
<1> QED BY <1>2, <1>3, Still

\* A new queue is empty: its slot had none, and msg_cbytes, which msgget does
\* not set, was zero.
LEMMA MsggetAccounts ==
    ASSUME Inv, Res, Inv', NEW p \in Proc, Msgget(p)
    PROVE  Res'
<1>1. PICK s \in Slot :
        /\ ~ msgque[s].alloc
        /\ msgque' = [msgque EXCEPT ![s] =
              [@ EXCEPT !.alloc = TRUE, !.msgs = <<>>, !.qnum = 0, !.qbytes = MSGMNB]]
  BY DEF Msgget
<1>2. /\ pc[p] = "user" /\ msgfp' = msgfp /\ msgmap' = msgmap /\ pc' = pc /\ call' = call
  BY DEF Msgget, At, poolVars, procVars
<1> DEFINE q == msgque[s]
           h == [q EXCEPT !.alloc = TRUE, !.msgs = <<>>, !.qnum = 0, !.qbytes = MSGMNB]
<1>3. q \in Hdr /\ QueueOK(q) /\ ~ q.alloc
  BY <1>1 DEF Inv, Types, Res
<1>4. q.msgs = <<>> /\ q.cbytes = Bytes(q.msgs)
  BY <1>3 DEF QueueOK
<1>5. h.alloc = TRUE /\ h.msgs = <<>> /\ h.qnum = 0 /\ h.cbytes = q.cbytes
  BY <1>3 DEF Hdr
<1>6. QueueOK(h)
  <2> HIDE DEF h, q
  <2> QED BY <1>4, <1>5 DEF QueueOK
<1>7. h.msgs = msgque[s].msgs /\ msgque' = [msgque EXCEPT ![s] = h]
  BY <1>1, <1>4, <1>5
<1> HIDE DEF h
<1>8. MovesOn(p)
  <2>1. pc' = [pc EXCEPT ![p] = pc[p]] /\ call' = [call EXCEPT ![p] = call[p]]
    BY <1>2, Own
  <2>2. pc[p] # "text" /\ call[p].spot \in Seg \cup {0}
    BY <1>2 DEF Res
  <2> QED BY <2>1, <2>2 DEF MovesOn
<1> QED BY <1>2, <1>6, <1>7, <1>8, Quiet

\* The limit of a queue, and the flags of one that lives.
LEMMA FlagSteps ==
    ASSUME Inv, Res, Inv', NEW p \in Proc,
           MsgctlSet(p) \/ MsgrcvFind(p) \/ MsgsndBlocked(p) \/ MsgsndInterrupted(p)
    PROVE  Res'
<1> DEFINE s == Q(p)  q == msgque[s]
<1>1. s \in Slot /\ q \in Hdr /\ QueueOK(q) /\ Good(p)
  BY Own DEF Res
<1>2. /\ msgfp' = msgfp /\ msgmap' = msgmap
      /\ pc[p] \in {"set", "findmsg", "getres", "wintr", "intr"}
  BY DEF MsgctlSet, MsgrcvFind, MsgsndBlocked, MsgsndInterrupted, At, poolVars
<1>3. q.alloc
  BY <1>1, <1>2 DEF Good, Works, Locked, Live, Q
<1>4. ASSUME NEW h, msgque' = [msgque EXCEPT ![s] = h],
             h.msgs = q.msgs, h.qnum = q.qnum, h.cbytes = q.cbytes, h.alloc = q.alloc,
             MovesOn(p)
      PROVE  Res'
  <2>1. QueueOK(h)
    <3> HIDE DEF q
    <3> QED BY <1>1, <1>3, <1>4, FlagsOnly
  <2>2. pc[p] # "text"
    BY <1>2
  <2> HIDE DEF s
  <2> QED BY <1>1, <1>2, <1>4, <2>1, <2>2, Quiet
<1>5. ASSUME msgque' = msgque, MovesOn(p) PROVE Res'
  BY <1>2, <1>5, Still
<1>6. CASE MsgctlSet(p)
  <2>1. MovesOn(p)
    BY <1>6, MovingOn DEF MsgctlSet
  <2>2. ASSUME NEW limit \in Limits, msgque' = [msgque EXCEPT ![Q(p)].qbytes = limit] PROVE Res'
    <3> DEFINE h == [q EXCEPT !.qbytes = limit]
    <3>1. h.msgs = q.msgs /\ h.qnum = q.qnum /\ h.cbytes = q.cbytes /\ h.alloc = q.alloc
      BY <1>1 DEF Hdr
    <3>2. msgque' = [msgque EXCEPT ![s] = h]
      BY <2>2
    <3> HIDE DEF h, q, s
    <3> QED BY <1>4, <2>1, <3>1, <3>2
  <2> QED BY <1>5, <1>6, <2>1, <2>2 DEF MsgctlSet
<1>7. CASE MsgrcvFind(p)
  <2>1. MovesOn(p)
    <3>1. \/ Return(p)
          \/ Goto(p, "rwait") /\ call' = call
          \/ \E i : Goto(p, "copyout") /\ call' = [call EXCEPT ![p].pick = i]
      BY <1>7 DEF MsgrcvFind, UnlockedAsleep
    <3>2. ASSUME NEW i, Goto(p, "copyout"), call' = [call EXCEPT ![p].pick = i] PROVE MovesOn(p)
      <4> DEFINE f == [call[p] EXCEPT !.pick = i]
      <4>1. call' = [call EXCEPT ![p] = f]
        BY <3>2
      <4>2. f.spot \in Seg \cup {0}
        <5>1. f.spot = call[p].spot
          BY Own DEF Frame
        <5> QED BY <5>1 DEF Res
      <4> HIDE DEF f
      <4>3. "copyout" # "text"
        OBVIOUS
      <4> QED BY <3>2, <4>1, <4>2, <4>3 DEF Goto, MovesOn
    <3> QED BY <3>1, <3>2, MovingOn
  <2>2. CASE msgque' = [msgque EXCEPT ![Q(p)].rwait = TRUE]
    <3> DEFINE h == [q EXCEPT !.rwait = TRUE]
    <3>1. h.msgs = q.msgs /\ h.qnum = q.qnum /\ h.cbytes = q.cbytes /\ h.alloc = q.alloc
      BY <1>1 DEF Hdr
    <3>2. msgque' = [msgque EXCEPT ![s] = h]
      BY <2>2
    <3> HIDE DEF h, q, s
    <3> QED BY <1>4, <2>1, <3>1, <3>2
  <2> QED BY <1>5, <1>7, <2>1, <2>2 DEF MsgrcvFind
<1>8. CASE MsgsndBlocked(p)
  <2>1. MovesOn(p)
    BY <1>8, MovingOn DEF MsgsndBlocked, UnlockedAsleep
  <2>2. CASE msgque' = [msgque EXCEPT ![Q(p)].wwait = TRUE]
    <3> DEFINE h == [q EXCEPT !.wwait = TRUE]
    <3>1. h.msgs = q.msgs /\ h.qnum = q.qnum /\ h.cbytes = q.cbytes /\ h.alloc = q.alloc
      BY <1>1 DEF Hdr
    <3>2. msgque' = [msgque EXCEPT ![s] = h]
      BY <2>2
    <3> HIDE DEF h, q, s
    <3> QED BY <1>4, <2>1, <3>1, <3>2
  <2> QED BY <1>5, <1>8, <2>1, <2>2 DEF MsgsndBlocked
<1>9. CASE MsgsndInterrupted(p)
  <2>1. MovesOn(p)
    BY <1>9, MovingOn DEF MsgsndInterrupted
  <2>2. CASE msgque' = [msgque EXCEPT ![Q(p)].wwait = FALSE]
    <3> DEFINE h == [q EXCEPT !.wwait = FALSE]
    <3>1. h.msgs = q.msgs /\ h.qnum = q.qnum /\ h.cbytes = q.cbytes /\ h.alloc = q.alloc
      BY <1>1 DEF Hdr
    <3>2. msgque' = [msgque EXCEPT ![s] = h]
      BY <2>2
    <3> HIDE DEF h, q, s
    <3> QED BY <1>4, <2>1, <3>1, <3>2
  <2> QED BY <1>5, <1>9, <2>1, <2>2 DEF MsgsndInterrupted
<1> QED BY <1>6, <1>7, <1>8, <1>9
-----------------------------------------------------------------------------
(* Steps that move messages *)

\* What a step sets the header of a queue to has its type.
LEMMA IsHeader ==
    ASSUME Inv, Inv', NEW s \in Slot, NEW h, msgque' = [msgque EXCEPT ![s] = h]
    PROVE  h \in Hdr
<1>1. msgque'[s] = h
  BY DEF Inv, Types
<1> QED BY <1>1 DEF Inv, Types

\* A process that owns no segments before and after a step does not count.
LEMMA OwnsNothing ==
    ASSUME NEW p \in Proc, pc[p] # "text", NEW where, where # "text", NEW f
    PROVE  [Sent EXCEPT ![p] = SentBy(where, f)] = Sent
<1>1. Sent[p] = {} /\ SentBy(where, f) = {}
  BY DEF Sent, SentBy
<1> QED BY <1>1 DEF Sent

\* msgrmid: all messages go, and the headers with them.
LEMMA MsgctlRmidAccounts ==
    ASSUME Inv, Res, Inv', NEW p \in Proc, MsgctlRmid(p)
    PROVE  Res'
<1>1. pc[p] = "rmid" /\ pc[p] # "text" /\ Return(p)
  BY DEF MsgctlRmid, At
<1>2. CASE UNCHANGED <<msgque, poolVars>>
  BY <1>1, <1>2, MovingOn, Still DEF poolVars
<1>3. CASE ~ UNCHANGED <<msgque, poolVars>>
  <2> DEFINE s    == Q(p)
             q    == msgque[s]
             h    == [q EXCEPT !.alloc = FALSE, !.seq = NextSeq(q.seq), !.msgs = <<>>,
                               !.qnum = q.qnum - Len(q.msgs), !.cbytes = 0,
                               !.rwait = FALSE, !.wwait = FALSE]
             free == FreeAll(msgmap, q.msgs)
  <2>1. msgque' = [msgque EXCEPT ![s] = h] /\ msgfp' = msgfp + Len(q.msgs) /\ msgmap' = free
    BY <1>3 DEF MsgctlRmid, FreeMsgmap
  <2>2. s \in Slot /\ q \in Hdr /\ QueueOK(q) /\ q.msgs \in Seq(Node) /\ Len(q.msgs) \in Nat
    BY Own, ResTypes DEF Res
  <2>3. /\ h.msgs = <<>> /\ h.qnum = q.qnum - Len(q.msgs) /\ h.cbytes = 0
        /\ h.alloc = FALSE /\ h.rwait = FALSE /\ h.wwait = FALSE
    BY <2>2 DEF Hdr
  <2>4. h \in Hdr
    <3> HIDE DEF h, s
    <3> QED BY <2>1, <2>2, IsHeader
  <2>5. Len(h.msgs) = 0 /\ QueueOK(h)
    <3>1. h.qnum = 0 /\ Len(h.msgs) = 0
      BY <2>2, <2>3 DEF QueueOK
    <3>2. h.msgs \in Seq(Message)
      BY <2>3
    <3> HIDE DEF h
    <3> QED BY <2>3, <3>1, <3>2, NoBytes DEF QueueOK
  <2>6. \A u \in free : u \in msgmap \/ \E i \in Nat : u \in Stored[s][i]
    <3>1. msgmap \in SUBSET Int
      BY DEF Inv, Types
    <3>2. ASSUME NEW u \in free PROVE u \in msgmap \/ \E i \in Nat : u \in Stored[s][i]
      <4>1. u \in msgmap \/ \E i \in 1 .. Len(q.msgs) :
                              q.msgs[i].ts > 0 /\ u \in Segs(q.msgs[i].spot, q.msgs[i].ts)
        BY <2>2, <3>1, <3>2, FreeAllAdds
      <4>2. ASSUME NEW i \in 1 .. Len(q.msgs), q.msgs[i].ts > 0,
                   u \in Segs(q.msgs[i].spot, q.msgs[i].ts)
            PROVE  i \in Nat /\ u \in Stored[s][i]
        BY <2>2, <4>2 DEF Stored, TextOf
      <4> QED BY <4>1, <4>2
    <3> QED BY <3>2
  <2>7. \A i \in Nat : TextOf(h.msgs)[i] = {}
    <3> HIDE DEF h
    <3> QED BY <2>3, <2>5 DEF TextOf
  <2> HIDE DEF h, q, s, free
  <2>8. Apart(Sent, [Stored EXCEPT ![s] = TextOf(h.msgs)], free)
    <3>1. Stored \in [Slot -> [Nat -> SUBSET Int]] /\ Apart(Sent, Stored, msgmap)
      BY ResTypes DEF Res
    <3> QED BY <2>2, <2>6, <2>7, <3>1, ApartDropped
  <2>9. free \subseteq Seg
    BY <2>2, <2>6 DEF Res, Apart
  <2>10. /\ "user" # "text" /\ NoCall.spot \in Seg \cup {0}
         /\ pc' = [pc EXCEPT ![p] = "user"] /\ call' = [call EXCEPT ![p] = NoCall]
    BY <1>1 DEF Return, Goto, NoCall
  <2>11. Apart([Sent EXCEPT ![p] = SentBy("user", NoCall)], [Stored EXCEPT ![s] = TextOf(h.msgs)], msgmap')
    BY <1>1, <2>1, <2>8, <2>10, OwnsNothing
  <2>12. msgfp' \in Nat /\ msgfp' + One("user") + Len(h.msgs) = msgfp + One(pc[p]) + Len(msgque[s].msgs)
    BY <1>1, <2>1, <2>2, <2>5, ResTypes DEF One, q
  <2> QED BY <2>1, <2>2, <2>4, <2>5, <2>9, <2>10, <2>11, <2>12, Settle
<1> QED BY <1>2, <1>3

\* The chosen message is on the queue.
LEMMA PickedIsThere ==
    ASSUME Inv, NEW p \in Proc, pc[p] = "copyout"
    PROVE  call[p].pick \in 1 .. Len(msgque[Q(p)].msgs)
<1> DEFINE msgs == msgque[Q(p)].msgs  k == call[p].pick
<1>1. msgs \in Seq(Node) /\ call[p].arg.type \in Int
  BY Own DEF Hdr, Frame, Argument
<1>2. k # 0 /\ k = Findmsg(msgs, call[p].arg.type)
  BY Own DEF Good, Works
<1>3. Found(msgs, call[p].arg.type, k)
  BY <1>1, <1>2, FindmsgFinds
<1> QED BY <1>1, <1>2, <1>3, LenProperties DEF Found

\* The texts of a queue that lost message k.
LEMMA TextsRemoved ==
    ASSUME NEW msgs \in Seq(Node), NEW k \in 1 .. Len(msgs), NEW i \in Nat
    PROVE  \/ TextOf(RemoveAt(msgs, k))[i] = {}
           \/ TextOf(RemoveAt(msgs, k))[i] = TextOf(msgs)[IF i < k THEN i ELSE i + 1]
<1> DEFINE n == Len(msgs)  r == RemoveAt(msgs, k)  j == IF i < k THEN i ELSE i + 1
<1>1. n \in Nat /\ k \in Nat /\ j \in Nat
  BY ListAdds
<1>2. Len(r) = n - 1 /\ \A l \in 1 .. n - 1 : r[l] = msgs[IF l < k THEN l ELSE l + 1]
  BY Removed
<1> HIDE DEF r
<1>3. CASE i \in 1 .. n - 1
  <2>1. j \in 1 .. n /\ r[i] = msgs[j]
    BY <1>1, <1>2, <1>3
  <2> HIDE DEF j
  <2>2. TextOf(r)[i] = TextOf(msgs)[j]
    BY <1>1, <1>2, <1>3, <2>1 DEF TextOf
  <2> QED BY <2>2 DEF j, r
<1>4. CASE i \notin 1 .. n - 1
  <2>1. TextOf(r)[i] = {}
    BY <1>2, <1>4 DEF TextOf
  <2> QED BY <2>1 DEF r
<1> QED BY <1>3, <1>4

\* msgrcv takes a message off its queue.
LEMMA MsgrcvCopyoutAccounts ==
    ASSUME Inv, Res, Inv', NEW p \in Proc, MsgrcvCopyout(p)
    PROVE  Res'
<1>1. pc[p] = "copyout" /\ pc[p] # "text" /\ Return(p)
  BY DEF MsgrcvCopyout, At
<1>2. CASE UNCHANGED <<msgque, poolVars>>
  BY <1>1, <1>2, MovingOn, Still DEF poolVars
<1>3. CASE ~ UNCHANGED <<msgque, poolVars>>
  <2> DEFINE s    == Q(p)
             q    == msgque[s]
             k    == call[p].pick
             m    == q.msgs[k]
             rest == RemoveAt(q.msgs, k)
             h    == [q EXCEPT !.msgs = rest, !.qnum = q.qnum - 1,
                               !.cbytes = q.cbytes - Taken(p), !.wwait = FALSE]
             free == Mapped(msgmap, m.spot, m.ts)
  <2>1. msgque' = [msgque EXCEPT ![s] = h] /\ msgfp' = msgfp + 1 /\ msgmap' = free
    BY <1>3 DEF MsgrcvCopyout, FreeMsgmap
  <2>2. /\ s \in Slot /\ q \in Hdr /\ QueueOK(q) /\ Good(p)
        /\ q.msgs \in Seq(Node) /\ Len(q.msgs) \in Nat /\ k \in 1 .. Len(q.msgs)
    BY <1>1, Own, ResTypes, PickedIsThere DEF Res
  <2>3. m.spot \in Int /\ m.ts \in Nat /\ Taken(p) = m.ts
    <3>1. m \in Node
      BY <2>2, ElementOfSeq
    <3> QED BY <3>1 DEF Node, Taken
  <2>4. /\ rest \in Seq(Message) /\ Len(rest) = Len(q.msgs) - 1
        /\ Bytes(rest) = Bytes(q.msgs) - m.ts
    <3>1. q.msgs \in Seq(Message)
      BY <2>2 DEF QueueOK
    <3>2. rest \in Seq(Message) /\ Len(rest) = Len(q.msgs) - 1
      BY <2>2, <3>1, Removed
    <3>3. Bytes(rest) = Bytes(q.msgs) - m.ts
      BY <2>2, BytesRemove
    <3> QED BY <3>2, <3>3
  <2>5. /\ h.msgs = rest /\ h.qnum = q.qnum - 1 /\ h.cbytes = q.cbytes - m.ts
        /\ h.alloc = q.alloc
    <3> HIDE DEF rest, m
    <3> QED BY <2>2, <2>3 DEF Hdr
  <2>6. q.alloc
    BY <1>1, <2>2 DEF Good, Works, Locked, Live, Q
  <2>7. h \in Hdr
    <3> HIDE DEF h, s
    <3> QED BY <2>1, <2>2, IsHeader
  <2>8. QueueOK(h)
    <3> HIDE DEF h, rest, m
    <3> QED BY <2>2, <2>4, <2>5, <2>6 DEF QueueOK
  <2>9. \A u \in free : u \in msgmap \/ u \in Stored[s][k]
    <3>1. msgmap \in SUBSET Int
      BY DEF Inv, Types
    <3>2. ASSUME NEW u \in free PROVE u \in msgmap \/ (m.ts > 0 /\ u \in Segs(m.spot, m.ts))
      <4> HIDE DEF m
      <4> QED BY <2>3, <3>1, <3>2, MappedAdds
    <3> QED BY <2>2, <3>2 DEF Stored, TextOf
  <2>10. \A i \in Nat : \/ TextOf(rest)[i] = {}
                        \/ TextOf(rest)[i] = Stored[s][IF i < k THEN i ELSE i + 1]
    <3>1. Stored[s] = TextOf(q.msgs)
      BY <2>2 DEF Stored
    <3> QED BY <2>2, <3>1, TextsRemoved
  <2>11. k \in Nat
    BY <2>2
  <2> HIDE DEF h, q, s, free, rest, k, m
  <2>12. Apart(Sent, [Stored EXCEPT ![s] = TextOf(h.msgs)], free)
    <3>1. Stored \in [Slot -> [Nat -> SUBSET Int]] /\ Apart(Sent, Stored, msgmap)
      BY ResTypes DEF Res
    <3> QED BY <2>2, <2>5, <2>9, <2>10, <2>11, <3>1, ApartRemoved
  <2>13. free \subseteq Seg
    BY <2>2, <2>9, <2>11 DEF Res, Apart
  <2>14. /\ "user" # "text" /\ NoCall.spot \in Seg \cup {0}
         /\ pc' = [pc EXCEPT ![p] = "user"] /\ call' = [call EXCEPT ![p] = NoCall]
    BY <1>1 DEF Return, Goto, NoCall
  <2>15. Apart([Sent EXCEPT ![p] = SentBy("user", NoCall)], [Stored EXCEPT ![s] = TextOf(h.msgs)], msgmap')
    BY <1>1, <2>1, <2>12, <2>14, OwnsNothing
  <2>16. msgfp' \in Nat /\ msgfp' + One("user") + Len(h.msgs) = msgfp + One(pc[p]) + Len(msgque[s].msgs)
    <3>1. One("user") = 0 /\ One(pc[p]) = 0
      BY <1>1 DEF One
    <3>2. msgfp \in Nat /\ msgfp' = msgfp + 1 /\ Len(q.msgs) \in Nat
      BY <2>1, <2>2, ResTypes
    <3>3. Len(h.msgs) = Len(q.msgs) - 1
      BY <2>4, <2>5
    <3>4. msgque[s].msgs = q.msgs
      BY DEF q
    <3> QED BY <3>1, <3>2, <3>3, <3>4
  <2> QED BY <2>1, <2>2, <2>7, <2>8, <2>13, <2>14, <2>15, <2>16, Settle
<1> QED BY <1>2, <1>3

\* msgsnd puts a message at the end of its queue.
LEMMA Enqueued ==
    ASSUME Inv, Res, NEW p \in Proc, pc[p] \in {"getres", "text"}, NEW spot \in Seg \cup {0},
           Enqueue(p, spot)
    PROVE  \E h : LET n == Len(msgque[Q(p)].msgs) + 1 IN
             /\ msgque' = [msgque EXCEPT ![Q(p)] = h] /\ QueueOK(h) /\ Len(h.msgs) = n
             /\ TextOf(h.msgs)[n] = IF call[p].arg.size > 0 THEN Segs(spot, call[p].arg.size)
                                    ELSE {}
             /\ \A i \in Nat \ {n} : TextOf(h.msgs)[i] = Stored[Q(p)][i]
<1> DEFINE s   == Q(p)
           q   == msgque[s]
           arg == call[p].arg
           m   == [type |-> arg.type, ts |-> arg.size, spot |-> spot]
           all == Append(q.msgs, m)
           n   == Len(q.msgs) + 1
           h   == [q EXCEPT !.msgs = all, !.qnum = q.qnum + 1,
                            !.cbytes = q.cbytes + arg.size, !.rwait = FALSE]
<1>1. msgque' = [msgque EXCEPT ![s] = h]
  BY DEF Enqueue
<1>2. /\ s \in Slot /\ q \in Hdr /\ QueueOK(q) /\ Good(p)
      /\ q.msgs \in Seq(Node) /\ Len(q.msgs) \in Nat
  BY Own, ResTypes DEF Res
<1>3. arg.type \in Nat \ {0} /\ arg.size \in Nat
  <2>1. call[p].arg \in Sends
    BY Own DEF Good, Asks, SndPlaces
  <2>2. arg \in Argument /\ arg.type > 0
    BY <2>1, InputsAssumption
  <2> HIDE DEF arg
  <2> QED BY <2>2 DEF Argument
<1>4. m \in Message /\ m \in Node /\ m.ts = arg.size /\ m.spot = spot
  <2>1. m \in Message
    BY <1>3 DEF Message
  <2> QED BY <2>1, MessageIsNode
<1> HIDE DEF m
<1>5. /\ all \in Seq(Message) /\ all \in Seq(Node) /\ Len(all) = n /\ all[n] = m
      /\ \A i \in 1 .. n - 1 : all[i] = q.msgs[i]
  <2>1. q.msgs \in Seq(Message)
    BY <1>2 DEF QueueOK
  <2> QED BY <1>2, <1>4, <2>1, AppendProperties
<1>6. Bytes(all) = Bytes(q.msgs) + arg.size
  BY <1>2, <1>4, BytesAppend
<1>7. /\ h.msgs = all /\ h.qnum = q.qnum + 1 /\ h.cbytes = q.cbytes + arg.size
      /\ h.alloc = q.alloc
  <2> HIDE DEF all
  <2> QED BY <1>2 DEF Hdr
<1>8. q.alloc
  BY <1>2 DEF Good, Works, Locked, Live, Q
<1> HIDE DEF h, all
<1>9. QueueOK(h)
  BY <1>2, <1>5, <1>6, <1>7, <1>8 DEF QueueOK
<1>10. TextOf(all)[n] = IF arg.size > 0 THEN Segs(spot, arg.size) ELSE {}
  BY <1>2, <1>3, <1>4, <1>5 DEF TextOf
<1>11. ASSUME NEW i \in Nat \ {n} PROVE TextOf(all)[i] = Stored[s][i]
  <2>1. Stored[s] = TextOf(q.msgs)
    BY <1>2 DEF Stored
  <2>2. i \in 1 .. Len(all) <=> i \in 1 .. Len(q.msgs)
    BY <1>2, <1>5
  <2>3. i \in 1 .. Len(q.msgs) => all[i] = q.msgs[i]
    BY <1>2, <1>5
  <2> QED BY <2>1, <2>2, <2>3 DEF TextOf
<1> QED BY <1>1, <1>5, <1>7, <1>9, <1>10, <1>11

\* msgsnd takes a header, and segments for the text, if there is one.
LEMMA MsgsndTakeAccounts ==
    ASSUME Inv, Res, Inv', NEW p \in Proc, MsgsndTake(p)
    PROVE  Res'
<1> DEFINE s == Q(p)  size == call[p].arg.size
<1>1. /\ pc[p] = "getres" /\ pc[p] # "text" /\ One(pc[p]) = 0
      /\ msgfp # 0 /\ msgfp' = msgfp - 1 /\ msgfp \in Nat /\ msgfp' \in Nat
  BY ResTypes DEF MsgsndTake, At, One
<1>2. /\ s \in Slot /\ msgque[s] \in Hdr /\ QueueOK(msgque[s]) /\ Len(msgque[s].msgs) \in Nat
      /\ call[p] \in Frame
  BY Own, ResTypes DEF Res
<1>3. ASSUME size = 0, Enqueue(p, 0), msgmap' = msgmap PROVE Res'
  <2> DEFINE n == Len(msgque[s].msgs) + 1
  <2>1. PICK h : /\ msgque' = [msgque EXCEPT ![s] = h] /\ QueueOK(h) /\ Len(h.msgs) = n
                 /\ TextOf(h.msgs)[n] = IF size > 0 THEN Segs(0, size) ELSE {}
                 /\ \A i \in Nat \ {n} : TextOf(h.msgs)[i] = Stored[s][i]
    BY <1>1, <1>3, Enqueued
  <2>2. h \in Hdr
    BY <1>2, <2>1, IsHeader
  <2>3. /\ pc' = [pc EXCEPT ![p] = "user"] /\ call' = [call EXCEPT ![p] = NoCall]
        /\ NoCall.spot \in Seg \cup {0} /\ "user" # "text" /\ One("user") = 0
    BY <1>3 DEF Enqueue, Return, Goto, NoCall, One
  <2>4. [Stored EXCEPT ![s] = TextOf(h.msgs)] = Stored
    <3>1. Stored[s] = TextOf(msgque[s].msgs)
      BY <1>2 DEF Stored
    <3>2. TextOf(h.msgs)[n] = {} /\ TextOf(msgque[s].msgs)[n] = {}
      BY <1>2, <1>3, <2>1 DEF TextOf
    <3>3. \A i \in Nat : TextOf(h.msgs)[i] = TextOf(msgque[s].msgs)[i]
      BY <2>1, <3>1, <3>2
    <3>4. TextOf(h.msgs) = TextOf(msgque[s].msgs)
      BY <3>3 DEF TextOf
    <3> QED BY <3>1, <3>4 DEF Stored
  <2>5. [Sent EXCEPT ![p] = SentBy("user", NoCall)] = Sent
    BY <1>1, OwnsNothing
  <2>6. Apart([Sent EXCEPT ![p] = SentBy("user", NoCall)], [Stored EXCEPT ![s] = TextOf(h.msgs)], msgmap')
    BY <1>3, <2>4, <2>5 DEF Res
  <2>7. msgfp' + One("user") + Len(h.msgs) = msgfp + One(pc[p]) + Len(msgque[s].msgs)
    BY <1>1, <1>2, <2>1, <2>3
  <2>8. msgmap' \subseteq Seg
    BY <1>3 DEF Res
  <2> HIDE DEF s
  <2> QED BY <1>1, <1>2, <2>1, <2>2, <2>3, <2>6, <2>7, <2>8, Settle
<1>4. ASSUME NEW spot \in Windows(msgmap, Btoq(size)),
             msgmap' = msgmap \ Segs(spot, size),
             call' = [call EXCEPT ![p].spot = spot],
             Goto(p, "text"), msgque' = msgque
      PROVE  Res'
  <2> DEFINE f == [call[p] EXCEPT !.spot = spot]  h == msgque[s]  X == Segs(spot, size)
  <2>1. spot \in msgmap /\ X \subseteq msgmap
    BY <1>4 DEF Windows, Segs
  <2>2. f.spot = spot /\ f.arg.size = size
    BY <1>2 DEF Frame
  <2>3. f.spot \in Seg \cup {0} /\ msgmap \in SUBSET Seg
    BY <2>1, <2>2 DEF Res
  <2>4. /\ pc' = [pc EXCEPT ![p] = "text"] /\ call' = [call EXCEPT ![p] = f]
        /\ msgque' = [msgque EXCEPT ![s] = h]
    BY <1>4, Own DEF Goto
  <2>5. SentBy("text", f) = X
    BY <2>2 DEF SentBy
  <2> HIDE DEF f, X
  <2>6. Apart([Sent EXCEPT ![p] = X], Stored, msgmap \ X)
    BY <2>1, <2>3, ResTypes, ApartTaken DEF Res
  <2>7. [Stored EXCEPT ![s] = TextOf(h.msgs)] = Stored
    BY <1>2 DEF Stored
  <2>8. Apart([Sent EXCEPT ![p] = SentBy("text", f)], [Stored EXCEPT ![s] = TextOf(h.msgs)], msgmap')
    BY <1>4, <2>5, <2>6, <2>7 DEF X
  <2>9. msgmap' \subseteq Seg
    BY <1>4, <2>3
  <2>10. msgfp' + One("text") + Len(h.msgs) = msgfp + One(pc[p]) + Len(msgque[s].msgs)
    <3>1. One("text") = 1
      BY DEF One
    <3> QED BY <1>1, <1>2, <3>1
  <2> HIDE DEF s
  <2> QED BY <1>1, <1>2, <2>3, <2>4, <2>8, <2>9, <2>10, Settle
<1> QED BY <1>3, <1>4 DEF MsgsndTake

\* The text is on the queue, or what was taken goes back.
LEMMA MsgsndTextAccounts ==
    ASSUME Inv, Res, Inv', NEW p \in Proc, MsgsndText(p)
    PROVE  Res'
<1> DEFINE s == Q(p)  size == call[p].arg.size  spot == call[p].spot
<1>1. /\ pc[p] = "text" /\ One(pc[p]) = 1 /\ msgfp \in Nat /\ Return(p)
  BY ResTypes DEF MsgsndText, Enqueue, At, One
<1>2. /\ s \in Slot /\ msgque[s] \in Hdr /\ QueueOK(msgque[s]) /\ Len(msgque[s].msgs) \in Nat
      /\ call[p] \in Frame /\ spot \in Seg \cup {0} /\ size > 0
  BY <1>1, Own, ResTypes DEF Res, Good, Asks
<1>3. spot \in Int /\ size \in Nat
  BY <1>2 DEF Frame, Argument
<1>4. Sent[p] = Segs(spot, size)
  BY <1>1 DEF Sent, SentBy
<1>5. /\ pc' = [pc EXCEPT ![p] = "user"] /\ call' = [call EXCEPT ![p] = NoCall]
      /\ NoCall.spot \in Seg \cup {0} /\ One("user") = 0 /\ SentBy("user", NoCall) = {}
  BY <1>1 DEF Return, Goto, NoCall, One, SentBy
<1>6. /\ Sent \in [Proc -> SUBSET Int] /\ Stored \in [Slot -> [Nat -> SUBSET Int]]
      /\ Apart(Sent, Stored, msgmap) /\ msgmap \in SUBSET Seg /\ msgmap \in SUBSET Int
  BY ResTypes DEF Res, Seg
<1>7. CASE Enqueue(p, spot) /\ UNCHANGED poolVars
  <2> DEFINE n == Len(msgque[s].msgs) + 1
  <2>1. PICK h : /\ msgque' = [msgque EXCEPT ![s] = h] /\ QueueOK(h) /\ Len(h.msgs) = n
                 /\ TextOf(h.msgs)[n] = IF size > 0 THEN Segs(spot, size) ELSE {}
                 /\ \A i \in Nat \ {n} : TextOf(h.msgs)[i] = Stored[s][i]
    BY <1>1, <1>2, <1>7, Enqueued
  <2>2. h \in Hdr
    BY <1>2, <2>1, IsHeader
  <2>3. msgfp' = msgfp /\ msgmap' = msgmap
    BY <1>7 DEF poolVars
  <2>4. n \in Nat /\ TextOf(h.msgs)[n] = Sent[p]
    BY <1>2, <1>4, <2>1
  <2>5. Apart([Sent EXCEPT ![p] = {}], [Stored EXCEPT ![s] = TextOf(h.msgs)], msgmap)
    <3> HIDE DEF n, s
    <3> QED BY <1>2, <1>6, <2>1, <2>4, ApartStored
  <2>6. Apart([Sent EXCEPT ![p] = SentBy("user", NoCall)], [Stored EXCEPT ![s] = TextOf(h.msgs)], msgmap')
    BY <1>5, <2>3, <2>5
  <2>7. msgfp' \in Nat /\ msgfp' + One("user") + Len(h.msgs) = msgfp + One(pc[p]) + Len(msgque[s].msgs)
    <3>1. Len(h.msgs) = Len(msgque[s].msgs) + 1 /\ One(pc[p]) = 1 /\ One("user") = 0
      BY <1>1, <1>5, <2>1
    <3>2. msgfp' = msgfp /\ msgfp \in Nat /\ Len(msgque[s].msgs) \in Nat
      BY <1>1, <1>2, <2>3
    <3> DEFINE l == Len(msgque[s].msgs)  l2 == Len(h.msgs)  fp == msgfp
    <3>3. fp \in Nat /\ l \in Nat /\ l2 = l + 1
      BY <3>1, <3>2
    <3> HIDE DEF l, l2, fp
    <3>4. fp + 0 + l2 = fp + 1 + l
      BY <3>3
    <3> QED BY <3>1, <3>2, <3>4 DEF l, l2, fp
  <2>8. msgmap' \subseteq Seg
    BY <1>6, <2>3
  <2> HIDE DEF s
  <2> QED BY <1>2, <1>5, <2>1, <2>2, <2>6, <2>7, <2>8, Settle
<1>8. CASE ~ (Enqueue(p, spot) /\ UNCHANGED poolVars)
  <2> DEFINE free == Mapped(msgmap, spot, size)  h == msgque[s]
  <2>1. msgmap' = free /\ msgfp' = msgfp + 1 /\ msgque' = [msgque EXCEPT ![s] = h]
    BY <1>8, Own DEF MsgsndText, FreeMsgmap
  <2>2. \A u \in free : u \in msgmap \/ u \in Sent[p]
    BY <1>3, <1>4, <1>6, MappedAdds
  <2> HIDE DEF free
  <2>3. Apart([Sent EXCEPT ![p] = {}], Stored, free)
    BY <1>6, <2>2, ApartGivenBack
  <2>4. [Stored EXCEPT ![s] = TextOf(h.msgs)] = Stored
    BY <1>2 DEF Stored
  <2>5. Apart([Sent EXCEPT ![p] = SentBy("user", NoCall)], [Stored EXCEPT ![s] = TextOf(h.msgs)], msgmap')
    BY <1>5, <2>1, <2>3, <2>4
  <2>6. msgmap' \subseteq Seg
    BY <1>6, <2>1, <2>2 DEF Apart
  <2>7. msgfp' \in Nat /\ msgfp' + One("user") + Len(h.msgs) = msgfp + One(pc[p]) + Len(msgque[s].msgs)
    BY <1>1, <1>2, <1>5, <2>1
  <2> HIDE DEF s
  <2> QED BY <1>2, <1>5, <2>1, <2>5, <2>6, <2>7, Settle
<1> QED BY <1>7, <1>8
-----------------------------------------------------------------------------
(* The theorem *)

\* Empty queues have no messages.
LEMMA LinkedNone ==
    ASSUME NEW mq, \A s \in Slot : Len(mq[s].msgs) = 0
    PROVE  Linked(mq) = 0
<1>1. PICK g : AddsUp(g, mq)
  <2>1. \A s \in Slot : Len(mq[s].msgs) \in Nat
    OBVIOUS
  <2> QED BY <2>1, LinkedAddsUp
<1> DEFINE T == {n \in Nat : \A A \in SUBSET Slot : Cardinality(A) = n => g[A] = 0}
<1>2. 0 \in T
  <2>1. ASSUME NEW A \in SUBSET Slot, Cardinality(A) = 0 PROVE g[A] = 0
    <3>1. A = {}
      BY <2>1, SlotsFinite, FS_Subset, FS_EmptySet
    <3> QED BY <1>1, <3>1 DEF AddsUp
  <2> QED BY <2>1
<1>3. ASSUME NEW n \in Nat, n \in T PROVE n + 1 \in T
  <2>1. ASSUME NEW A \in SUBSET Slot, Cardinality(A) = n + 1 PROVE g[A] = 0
    <3> DEFINE t == First(A)  B == A \ {t}
    <3>1. A # {} /\ IsFiniteSet(A)
      BY <2>1, SlotsFinite, FS_Subset, FS_EmptySet
    <3>2. t \in A /\ t \in Slot /\ B \in SUBSET Slot
      BY <3>1 DEF First
    <3>3. g[A] = Len(mq[t].msgs) + g[B]
      BY <1>1, <3>1 DEF AddsUp
    <3> HIDE DEF t
    <3>4. Cardinality(B) = Cardinality(A) - 1
      BY <3>1, <3>2, FS_RemoveElement
    <3>5. g[B] = 0
      BY <1>3, <2>1, <3>2, <3>4
    <3> QED BY <3>2, <3>3, <3>5
  <2> QED BY <2>1
<1>4. Cardinality(Slot) \in Nat
  BY SlotsFinite, FS_CardinalityType
<1> HIDE DEF T
<1>5. Cardinality(Slot) \in T
  BY <1>2, <1>3, <1>4, SetInduction
<1> QED BY <1>1, <1>5 DEF T, AddsUp

\* Nobody owns anything at first.
LEMMA InitRes == Init => Res
<1> SUFFICES ASSUME Init PROVE Res
  OBVIOUS
<1>1. Senders = {}
  BY DEF Init, Senders
<1>2. IsFiniteSet(Senders) /\ Cardinality(Senders) = 0
  BY <1>1, FS_EmptySet
<1>3. /\ msgfp = MSGTQL /\ msgmap = Seg
      /\ \A s \in Slot : /\ msgque[s].msgs = <<>> /\ msgque[s].qnum = 0 /\ msgque[s].cbytes = 0
                         /\ ~ msgque[s].rwait /\ ~ msgque[s].wwait
      /\ \A p \in Proc : pc[p] = "user" /\ call[p].spot = 0
  BY DEF Init, NoCall
<1>4. Linked(msgque) = 0
  <2>1. \A s \in Slot : Len(msgque[s].msgs) = 0
    BY <1>3
  <2> DEFINE mq == msgque
  <2>2. \A s \in Slot : Len(mq[s].msgs) = 0
    BY <2>1
  <2> HIDE DEF mq
  <2>3. Linked(mq) = 0
    BY <2>2, LinkedNone
  <2> QED BY <2>3 DEF mq
<1>5. msgfp + Cardinality(Senders) + Linked(msgque) = MSGTQL
  BY <1>2, <1>3, <1>4, SizesAssumption
<1>6. Apart(Sent, Stored, msgmap)
  <2>1. \A p \in Proc : Sent[p] = {}
    BY <1>3 DEF Sent, SentBy
  <2>2. \A s \in Slot : \A i \in Nat : Stored[s][i] = {}
    BY <1>3 DEF Stored, TextOf
  <2> QED BY <2>1, <2>2 DEF Apart
<1>7. \A s \in Slot : QueueOK(msgque[s])
  <2>1. <<>> \in Seq(Message) /\ Len(<<>>) = 0
    OBVIOUS
  <2> QED BY <1>3, <2>1, NoBytes DEF QueueOK
<1> QED BY <1>2, <1>3, <1>5, <1>6, <1>7 DEF Res

\* With the invariant about locks, the accounts are inductive.
LEMMA NextRes == Inv /\ Inv' /\ Res /\ [Next]_vars => Res'
<1> SUFFICES ASSUME Inv, Inv', Res, [Next]_vars PROVE Res'
  OBVIOUS
<1>1. ASSUME NEW p \in Proc, Request(p) PROVE Res'
  BY <1>1, EnterAccounts, MsggetAccounts DEF Request
<1>2. ASSUME NEW p \in Proc, Continue(p) PROVE Res'
  BY <1>2, StillSteps, FlagSteps, MsgctlRmidAccounts, MsgrcvCopyoutAccounts,
     MsgsndTakeAccounts, MsgsndTextAccounts DEF Continue
<1>3. ASSUME msgque' = msgque, msgfp' = msgfp, msgmap' = msgmap, pc' = pc, call' = call
      PROVE  Res'
  BY <1>3 DEF Res, Senders, Sent, Stored
<1>4. ASSUME NEW p \in Proc, Signal(p) PROVE Res'
  BY <1>3, <1>4 DEF Signal, poolVars, procVars
<1>5. CASE UNCHANGED vars
  BY <1>3, <1>5 DEF vars, poolVars, procVars
<1> QED BY <1>1, <1>2, <1>4, <1>5 DEF Next

\* The types of TypeOK rest on the accounts: counts of bytes and of messages are
\* not below zero, and a text starts at a segment.
LEMMA AccountsType == Inv /\ Res => TypeOK
<1> SUFFICES ASSUME Inv, Res PROVE TypeOK
  OBVIOUS
<1>1. ASSUME NEW s \in Slot PROVE msgque[s] \in Header
  <2> DEFINE h == msgque[s]
  <2>1. h \in Hdr /\ QueueOK(h) /\ h.msgs \in Seq(Node) /\ Len(h.msgs) \in Nat
    BY ResTypes DEF Res
  <2> HIDE DEF h
  <2>2. h.msgs \in Seq(Message) /\ h.qnum \in Nat
    BY <2>1 DEF QueueOK
  <2>3. h.cbytes \in Nat
    BY <2>1, SomeBytes DEF QueueOK
  <2>4. h \in Header
    BY <2>1, <2>2, <2>3 DEF Hdr, Header
  <2> QED BY <2>4 DEF h
<1>2. ASSUME NEW p \in Proc PROVE call[p] \in Call
  <2>1. call[p] \in Frame /\ call[p].spot \in Seg \cup {0}
    BY DEF Inv, Types, Res
  <2> QED BY <2>1 DEF Frame, Call
<1>3. msgque \in [Slot -> Header]
  BY <1>1 DEF Inv, Types
<1>4. call \in [Proc -> Call]
  BY <1>2 DEF Inv, Types
<1> QED BY <1>3, <1>4 DEF TypeOK, Inv, Types, Res

\* The same accounts, of the senders and texts there are.
LEMMA AccountsSegments == Inv /\ Res => SegmentsConserved
<1> SUFFICES ASSUME Inv, Res PROVE SegmentsConserved
  OBVIOUS
<1>1. \A p \in Senders : p \in Proc /\ Sent[p] = SenderSegs(p)
  BY DEF Senders, Sent, SentBy, SenderSegs
<1>2. ASSUME NEW s \in Slot, NEW i \in Texts(s)
      PROVE  i \in Nat /\ Stored[s][i] = TextSegs(s, i)
  <2>1. msgque[s].msgs \in Seq(Node) /\ Len(msgque[s].msgs) \in Nat
    BY ResTypes
  <2>2. i \in 1 .. Len(msgque[s].msgs) /\ msgque[s].msgs[i].ts > 0
    BY <2>1, LenProperties DEF Texts
  <2> QED BY <2>1, <2>2 DEF Stored, TextOf, TextSegs
<1>3. Apart(Sent, Stored, msgmap)
  BY DEF Res
<1>4. ASSUME NEW p \in Senders
      PROVE  /\ SenderSegs(p) \subseteq Seg \ msgmap
             /\ \A q \in Senders \ {p} : SenderSegs(p) \cap SenderSegs(q) = {}
             /\ \A s \in Slot : \A i \in Texts(s) : SenderSegs(p) \cap TextSegs(s, i) = {}
  BY <1>1, <1>2, <1>3 DEF Apart
<1>5. ASSUME NEW s \in Slot, NEW i \in Texts(s), NEW t \in Slot, NEW j \in Texts(t),
             <<s, i>> # <<t, j>>
      PROVE  TextSegs(s, i) \cap TextSegs(t, j) = {}
  <2>1. s # t \/ i # j
    BY <1>5
  <2>2. Stored[s][i] \cap Stored[t][j] = {}
    BY <1>2, <1>3, <2>1 DEF Apart
  <2> QED BY <1>2, <2>2
<1>6. ASSUME NEW s \in Slot, NEW i \in Texts(s) PROVE TextSegs(s, i) \subseteq Seg \ msgmap
  BY <1>2, <1>3 DEF Apart
<1> QED BY <1>4, <1>5, <1>6 DEF SegmentsConserved

\* For every number of processes, queues, headers and segments: no way through
\* msgsnd, msgrcv and msgrmid, the failing ones included, loses a header, a
\* segment or a byte of a queue, or gives one two owners; the counts of a queue
\* are those of its messages and never below zero.
THEOREM NothingLost == Spec => []ResourcesConserved
<1>1. Res => HeadersConserved
  BY DEF Res, HeadersConserved, Linked
<1>2. Res => CountsRight
  BY DEF Res, QueueOK, CountsRight, Bytes
<1>3. Inv /\ Res => ResourcesConserved
  BY <1>1, <1>2, AccountsType, AccountsSegments DEF ResourcesConserved
<1>4. Spec => [](Inv /\ Res)
  BY InitInv, NextInv, InitRes, NextRes, PTL DEF Spec
<1> QED BY <1>3, <1>4, PTL
-----------------------------------------------------------------------------
(* Msg implements MsgAbs *)

\* What is seen of a queue, and of a step that sets one to h.
SeenQueue(h) == [exists |-> h.alloc, msgs |-> Seen(h.msgs)]

\* A step that sets one queue is seen to set that queue.
LEMMA QueueSet ==
    ASSUME Inv, NEW s \in Slot, NEW h, msgque' = [msgque EXCEPT ![s] = h]
    PROVE  queueBar' = [queueBar EXCEPT ![s] = SeenQueue(h)]
<1>1. \A t \in Slot : SeenQueue(msgque'[t]) = IF t = s THEN SeenQueue(h) ELSE SeenQueue(msgque[t])
  BY DEF Inv, Types
<1>2. queueBar = [t \in Slot |-> SeenQueue(msgque[t])] /\ queueBar' = [t \in Slot |-> SeenQueue(msgque'[t])]
  BY DEF queueBar, SeenQueue
<1> HIDE DEF SeenQueue
<1> QED BY <1>1, <1>2

\* What a step asks for that sets the locals of p to f.
LEMMA CallSet ==
    ASSUME Inv, NEW p \in Proc, NEW f, call' = [call EXCEPT ![p] = f]
    PROVE  /\ reqBar' = [reqBar EXCEPT ![p] = Asked(f)]
           /\ Asked(f) = Asked(call[p]) => reqBar' = reqBar
<1>1. \A q \in Proc : Asked(call'[q]) = IF q = p THEN Asked(f) ELSE Asked(call[q])
  BY DEF Inv, Types
<1>2. reqBar = [q \in Proc |-> Asked(call[q])] /\ reqBar' = [q \in Proc |-> Asked(call'[q])]
  BY DEF reqBar
<1> HIDE DEF Asked
<1> QED BY <1>1, <1>2

\* A process in the kernel asks for what its place says.
LEMMA InCall ==
    ASSUME Inv, NEW p \in Proc, pc[p] # "user"
    PROVE  /\ call[p].op \in {"msgctl", "msgsnd", "msgrcv"}
           /\ pc[p] \in SndPlaces => call[p].op = "msgsnd"
           /\ pc[p] \in RcvPlaces => call[p].op = "msgrcv"
           /\ pc[p] \in CtlPlaces => call[p].op = "msgctl"
           /\ reqBar[p] # Abs!Idle
<1>1. Asks(pc[p], call[p]) /\ pc[p] \in Pcs
  BY Own DEF Good
<1>2. /\ pc[p] \in SndPlaces => call[p].op = "msgsnd"
      /\ pc[p] \in RcvPlaces => call[p].op = "msgrcv"
      /\ pc[p] \in CtlPlaces => call[p].op = "msgctl"
  BY <1>1 DEF Asks, SndPlaces, RcvPlaces, CtlPlaces
<1>3. call[p].op \in {"msgctl", "msgsnd", "msgrcv"}
  <2>1. CASE pc[p] \in {"conv", "lockwait"}
    BY <1>1, <2>1 DEF Asks, SndPlaces, RcvPlaces, CtlPlaces, Locked
  <2>2. CASE pc[p] \notin {"conv", "lockwait"}
    BY <1>1, <1>2, <2>2 DEF Pcs, SndPlaces, RcvPlaces, CtlPlaces
  <2> QED BY <2>1, <2>2
<1>4. reqBar[p].op = call[p].op
  BY <1>3 DEF reqBar, Asked
<1> QED BY <1>2, <1>3, <1>4 DEF Abs!Idle

\* A return is the answer.
LEMMA Answers ==
    ASSUME Inv, NEW p \in Proc, pc[p] # "user", Return(p)
    PROVE  Abs!Answer(p)
<1>1. Asked(NoCall) = Abs!Idle
  BY DEF Asked, NoCall, Abs!Idle
<1>2. reqBar' = [reqBar EXCEPT ![p] = Asked(NoCall)]
  BY CallSet DEF Return
<1> QED BY <1>1, <1>2, InCall DEF Abs!Answer

\* A step of MsgAbs, or none.
AbsStep == Abs!Next \/ (queueBar' = queueBar /\ reqBar' = reqBar)

\* A step that moves no message is an answer, or is not seen.
LEMMA NothingSeen ==
    ASSUME Inv, NEW p \in Proc, pc[p] # "user", queueBar' = queueBar,
           Return(p) \/ reqBar' = reqBar
    PROVE  AbsStep
<1>1. CASE Return(p)
  <2>1. Abs!Nothing(p)
    BY <1>1, Answers DEF Abs!Nothing
  <2> QED BY <2>1 DEF AbsStep, Abs!Next
<1> QED BY <1>1 DEF AbsStep

\* The calls that begin.
LEMMA EnterSeen ==
    ASSUME Inv, NEW p \in Proc, NEW op \in {"msgctl", "msgrcv", "msgsnd"}, NEW id \in Id,
           NEW arg \in Argument, NEW then, op = "msgsnd" => arg \in Sends,
           op = "msgrcv" => arg \in Receives, Enter(p, op, id, arg, then)
    PROVE  AbsStep
<1> DEFINE f == [NoCall EXCEPT !.op = op, !.id = id, !.arg = arg, !.then = then]
<1>1. f.op = op /\ f.id = id /\ f.arg = arg
  BY DEF NoCall
<1>2. pc[p] = "user" /\ call' = [call EXCEPT ![p] = f] /\ msgque' = msgque
  BY DEF Enter, At
<1> HIDE DEF f
<1>3. Asked(f) \in Abs!Requests
  <2>1. id.slot \in Slot
    BY DEF Id
  <2>2. CASE op = "msgctl"
    <3>1. Asked(f) = [op |-> "msgctl", slot |-> id.slot]
      BY <1>1, <2>2 DEF Asked
    <3> QED BY <2>1, <3>1 DEF Abs!Requests
  <2>3. CASE op = "msgsnd"
    <3>1. Asked(f) = [op |-> "msgsnd", slot |-> id.slot, msg |-> <<arg.type, arg.size>>]
      BY <1>1, <2>3 DEF Asked
    <3> DEFINE S == {<<a.type, a.size>> : a \in Sends}  m == <<arg.type, arg.size>>
    <3>2. m \in S
      BY <2>3
    <3> HIDE DEF S, m
    <3>3. [op |-> "msgsnd", slot |-> id.slot, msg |-> m]
            \in {[op |-> "msgsnd", slot |-> t, msg |-> n] : t \in Slot, n \in S}
      BY <2>1, <3>2
    <3>4. Asked(f) \in {[op |-> "msgsnd", slot |-> t, msg |-> n] : t \in Slot, n \in S}
      BY <3>1, <3>3 DEF m
    <3> HIDE DEF Asked
    <3> QED BY <3>4 DEF Abs!Requests, S
  <2>4. CASE op = "msgrcv"
    <3>1. Asked(f) = [op |-> "msgrcv", slot |-> id.slot, type |-> arg.type]
      BY <1>1, <2>4 DEF Asked
    <3> DEFINE T == {a.type : a \in Receives}
    <3>2. arg.type \in T
      BY <2>4
    <3> HIDE DEF T
    <3>3. Asked(f) \in {[op |-> "msgrcv", slot |-> t, type |-> u] : t \in Slot, u \in T}
      BY <2>1, <3>1, <3>2
    <3> HIDE DEF Asked
    <3> QED BY <3>3 DEF Abs!Requests, T
  <2> QED BY <2>2, <2>3, <2>4
<1>4. reqBar[p] = Abs!Idle
  <2>1. call[p] = NoCall
    BY <1>2, Own DEF Good, Asks
  <2> QED BY <2>1 DEF reqBar, Asked, NoCall, Abs!Idle
<1>5. reqBar' = [reqBar EXCEPT ![p] = Asked(f)] /\ queueBar' = queueBar
  BY <1>2, CallSet DEF queueBar
<1>6. Abs!Ask(p)
  BY <1>3, <1>4, <1>5 DEF Abs!Ask
<1> QED BY <1>6 DEF AbsStep, Abs!Next

\* Most steps inside the kernel are not seen, or end a call that did nothing.
LEMMA QuietSeen ==
    ASSUME Inv, NEW p \in Proc,
           \/ Msgconv(p) \/ LockWaited(p) \/ Checks(p) \/ ChecksFail(p)
           \/ MsgctlSet(p) \/ MsgrcvFind(p) \/ MsgrcvWaited(p)
           \/ MsgsndBlocked(p) \/ MsgsndWaited(p) \/ MsgsndInterrupted(p)
    PROVE  AbsStep
<1>1. pc[p] # "user"
  BY DEF Msgconv, LockWaited, Checks, ChecksFail, MsgctlSet, MsgrcvFind, MsgrcvWaited,
         MsgsndBlocked, MsgsndWaited, MsgsndInterrupted, At
<1>2. \A s \in Slot : msgque'[s].alloc = msgque[s].alloc /\ msgque'[s].msgs = msgque[s].msgs
  <2> DEFINE s == Q(p)  q == msgque[s]
  <2>1. s \in Slot /\ q \in Hdr /\ msgque \in [Slot -> Hdr]
    BY Own DEF Inv, Types
  <2>2. ASSUME NEW h, msgque' = [msgque EXCEPT ![s] = h], h.alloc = q.alloc, h.msgs = q.msgs
        PROVE  \A t \in Slot : msgque'[t].alloc = msgque[t].alloc /\ msgque'[t].msgs = msgque[t].msgs
    <3> HIDE DEF s
    <3> QED BY <2>1, <2>2
  <2>3. CASE msgque' = msgque
    BY <2>3
  <2>4. ASSUME NEW limit, msgque' = [msgque EXCEPT ![s].qbytes = limit]
        PROVE  \A t \in Slot : msgque'[t].alloc = msgque[t].alloc /\ msgque'[t].msgs = msgque[t].msgs
    <3> DEFINE h == [q EXCEPT !.qbytes = limit]
    <3>1. msgque' = [msgque EXCEPT ![s] = h] /\ h.alloc = q.alloc /\ h.msgs = q.msgs
      BY <2>1, <2>4 DEF Hdr
    <3> HIDE DEF h, s, q
    <3> QED BY <2>2, <3>1
  <2>5. CASE msgque' = [msgque EXCEPT ![s].rwait = TRUE]
    <3> DEFINE h == [q EXCEPT !.rwait = TRUE]
    <3>1. msgque' = [msgque EXCEPT ![s] = h] /\ h.alloc = q.alloc /\ h.msgs = q.msgs
      BY <2>1, <2>5 DEF Hdr
    <3> HIDE DEF h, s, q
    <3> QED BY <2>2, <3>1
  <2>6. ASSUME NEW b, msgque' = [msgque EXCEPT ![s].wwait = b]
        PROVE  \A t \in Slot : msgque'[t].alloc = msgque[t].alloc /\ msgque'[t].msgs = msgque[t].msgs
    <3> DEFINE h == [q EXCEPT !.wwait = b]
    <3>1. msgque' = [msgque EXCEPT ![s] = h] /\ h.alloc = q.alloc /\ h.msgs = q.msgs
      BY <2>1, <2>6 DEF Hdr
    <3> HIDE DEF h, s, q
    <3> QED BY <2>2, <3>1
  <2> QED BY <2>3, <2>4, <2>5, <2>6
          DEF Msgconv, LockWaited, Checks, ChecksFail, MsgctlSet, MsgrcvFind, MsgrcvWaited,
              MsgsndBlocked, MsgsndWaited, MsgsndInterrupted
<1>3. queueBar' = queueBar
  BY <1>2 DEF queueBar
<1>4. ASSUME NEW then, Reenter(p, then) PROVE reqBar' = reqBar
  <2> DEFINE f == [call[p] EXCEPT !.then = then]
  <2>1. call' = [call EXCEPT ![p] = f]
    BY <1>4 DEF Reenter
  <2>2. f.op = call[p].op /\ f.id = call[p].id /\ f.arg = call[p].arg
    BY Own DEF Frame
  <2> HIDE DEF f
  <2>3. Asked(f) = Asked(call[p])
    BY <2>2 DEF Asked
  <2> QED BY <2>1, <2>3, CallSet
<1>5. ASSUME NEW i, call' = [call EXCEPT ![p].pick = i] PROVE reqBar' = reqBar
  <2> DEFINE f == [call[p] EXCEPT !.pick = i]
  <2>1. call' = [call EXCEPT ![p] = f]
    BY <1>5
  <2>2. f.op = call[p].op /\ f.id = call[p].id /\ f.arg = call[p].arg
    BY Own DEF Frame
  <2> HIDE DEF f
  <2>3. Asked(f) = Asked(call[p])
    BY <2>2 DEF Asked
  <2> QED BY <2>1, <2>3, CallSet
<1>6. call' = call => reqBar' = reqBar
  BY DEF reqBar
<1>7. Return(p) \/ reqBar' = reqBar
  <2>1. CASE Msgconv(p) \/ LockWaited(p) \/ Checks(p) \/ ChecksFail(p) \/ MsgctlSet(p) \/ MsgsndInterrupted(p)
    BY <1>6, <2>1 DEF Msgconv, LockWaited, Checks, ChecksFail, MsgctlSet, MsgsndInterrupted
  <2>2. CASE MsgrcvFind(p)
    BY <1>5, <1>6, <2>2 DEF MsgrcvFind, UnlockedAsleep
  <2>3. CASE MsgrcvWaited(p) \/ MsgsndWaited(p)
    BY <1>4, <2>3 DEF MsgrcvWaited, MsgsndWaited
  <2>4. CASE MsgsndBlocked(p)
    BY <1>6, <2>4 DEF MsgsndBlocked, UnlockedAsleep
  <2> QED BY <2>1, <2>2, <2>3, <2>4
<1> QED BY <1>1, <1>3, <1>7, NothingSeen

\* A new queue has no messages.
LEMMA SeenNone == Seen(<<>>) = <<>>
<1> DEFINE e == <<>>
<1>1. DOMAIN e = {}
  OBVIOUS
<1>2. Seen(e) \in Seq(Int) /\ Len(Seen(e)) = 0
  <2>1. Seen(e) \in [1..0 -> Int]
    BY <1>1 DEF Seen
  <2> HIDE DEF e
  <2> QED BY <2>1, FunctionIsSeq
<1>3. e \in Seq(Int) /\ Len(e) = 0
  OBVIOUS
<1> HIDE DEF e
<1>4. Seen(e) = e
  BY <1>2, <1>3, SeqEqual
<1> QED BY <1>4 DEF e

\* msgget creates a queue.
LEMMA MsggetSeen ==
    ASSUME Inv, NEW p \in Proc, Msgget(p) PROVE AbsStep
<1>1. PICK s \in Slot :
        /\ ~ msgque[s].alloc
        /\ msgque' = [msgque EXCEPT ![s] =
              [@ EXCEPT !.alloc = TRUE, !.msgs = <<>>, !.qnum = 0, !.qbytes = MSGMNB]]
  BY DEF Msgget
<1> DEFINE q == msgque[s]
           h == [q EXCEPT !.alloc = TRUE, !.msgs = <<>>, !.qnum = 0, !.qbytes = MSGMNB]
<1>2. q \in Hdr
  BY DEF Inv, Types
<1>3. h.alloc = TRUE /\ h.msgs = <<>> /\ msgque' = [msgque EXCEPT ![s] = h]
  BY <1>1, <1>2 DEF Hdr
<1> HIDE DEF h
<1>4. SeenQueue(h) = [exists |-> TRUE, msgs |-> <<>>]
  BY <1>3, SeenNone DEF SeenQueue
<1>5. queueBar' = [queueBar EXCEPT ![s] = [exists |-> TRUE, msgs |-> <<>>]]
  <2>1. queueBar' = [queueBar EXCEPT ![s] = SeenQueue(h)]
    BY <1>3, QueueSet
  <2> QED BY ONLY <1>4, <2>1
<1>6. ~ queueBar[s].exists
  BY <1>1 DEF queueBar
<1>7. reqBar' = reqBar
  BY DEF Msgget, procVars, reqBar
<1>8. Abs!CreateQueue(s)
  BY <1>5, <1>6, <1>7 DEF Abs!CreateQueue
<1> QED BY <1>8 DEF Abs!Next, AbsStep

\* msgrmid removes a queue with its messages, or is refused.
LEMMA MsgctlRmidSeen ==
    ASSUME Inv, NEW p \in Proc, MsgctlRmid(p) PROVE AbsStep
<1>1. pc[p] = "rmid" /\ pc[p] # "user" /\ Return(p)
  BY DEF MsgctlRmid, At
<1>2. CASE UNCHANGED <<msgque, poolVars>>
  <2>1. queueBar' = queueBar
    BY <1>2 DEF queueBar
  <2> QED BY <1>1, <2>1, NothingSeen
<1>3. CASE ~ UNCHANGED <<msgque, poolVars>>
  <2> DEFINE s == Q(p)
             q == msgque[s]
             h == [q EXCEPT !.alloc = FALSE, !.seq = NextSeq(q.seq), !.msgs = <<>>,
                            !.qnum = q.qnum - Len(q.msgs), !.cbytes = 0,
                            !.rwait = FALSE, !.wwait = FALSE]
  <2>1. msgque' = [msgque EXCEPT ![s] = h]
    BY <1>3 DEF MsgctlRmid
  <2>2. s \in Slot /\ q \in Hdr /\ Good(p)
    BY Own
  <2>3. h.alloc = FALSE /\ h.msgs = <<>>
    BY <2>2 DEF Hdr
  <2> HIDE DEF h
  <2>4. SeenQueue(h) = Abs!None
    BY <2>3, SeenNone DEF SeenQueue, Abs!None
  <2>5. queueBar' = [queueBar EXCEPT ![s] = Abs!None]
    <3> HIDE DEF s
    <3> QED BY <2>1, <2>2, <2>4, QueueSet
  <2>6. call[p].op = "msgctl" /\ reqBar[p] = Asked(call[p])
    BY <1>1, InCall DEF CtlPlaces, reqBar
  <2>7. reqBar[p].op = "msgctl" /\ reqBar[p].slot = s
    BY <2>6 DEF Asked, Q
  <2>8. queueBar[s].exists
    BY <1>1, <2>2 DEF queueBar, Good, Works, Locked, Live, Q
  <2>9. Abs!RemoveQueue(p)
    BY <1>1, <2>5, <2>7, <2>8, Answers DEF Abs!RemoveQueue
  <2> QED BY <2>9 DEF Abs!Next, AbsStep
<1> QED BY <1>2, <1>3

Pair == Int \X Int

\* What is seen of a list is a list.
LEMMA SeenList ==
    ASSUME NEW msgs \in Seq(Node)
    PROVE  /\ Seen(msgs) \in Seq(Pair) /\ Len(Seen(msgs)) = Len(msgs) /\ Len(msgs) \in Nat
           /\ \A i \in 1 .. Len(msgs) : Seen(msgs)[i] = <<msgs[i].type, msgs[i].ts>>
<1> DEFINE n == Len(msgs)
<1>1. n \in Nat /\ DOMAIN msgs = 1 .. n
  BY LenProperties
<1>2. \A i \in 1 .. n : msgs[i] \in Node
  BY ElementOfSeq
<1> HIDE DEF n
<1>3. \A i \in 1 .. n : <<msgs[i].type, msgs[i].ts>> \in Pair
  <2> SUFFICES ASSUME NEW i \in 1 .. n PROVE <<msgs[i].type, msgs[i].ts>> \in Pair
    OBVIOUS
  <2>1. msgs[i].type \in Int /\ msgs[i].ts \in Int
    BY <1>2 DEF Node
  <2> QED BY <2>1 DEF Pair
<1>4. /\ DOMAIN Seen(msgs) = 1 .. n
      /\ \A i \in 1 .. n : Seen(msgs)[i] = <<msgs[i].type, msgs[i].ts>>
      /\ Seen(msgs) = [i \in 1 .. n |-> Seen(msgs)[i]]
  BY <1>1 DEF Seen
<1> DEFINE r == Seen(msgs)
<1>5. r \in [1 .. n -> Pair]
  BY <1>3, <1>4
<1> HIDE DEF r
<1>6. r \in Seq(Pair) /\ Len(r) = n
  BY <1>1, <1>5, FunctionIsSeq
<1> QED BY <1>1, <1>4, <1>6 DEF r, n

\* A message that comes, and one that goes, comes and goes in what is seen.
LEMMA SeenAppend ==
    ASSUME NEW msgs \in Seq(Node), NEW m \in Node
    PROVE  Seen(Append(msgs, m)) = Append(Seen(msgs), <<m.type, m.ts>>)
<1> DEFINE n == Len(msgs)  all == Append(msgs, m)  e == <<m.type, m.ts>>
           a == Seen(all)  b == Append(Seen(msgs), e)
<1>1. /\ all \in Seq(Node) /\ Len(all) = n + 1 /\ all[n + 1] = m /\ n \in Nat
      /\ \A i \in 1 .. n : all[i] = msgs[i]
  BY AppendProperties, SeenList
<1>2. e \in Pair
  <2>1. m.type \in Int /\ m.ts \in Int
    BY DEF Node
  <2> QED BY <2>1 DEF Pair
<1>3. /\ Seen(msgs) \in Seq(Pair) /\ Len(Seen(msgs)) = n
      /\ \A i \in 1 .. n : Seen(msgs)[i] = <<msgs[i].type, msgs[i].ts>>
  BY SeenList
<1> HIDE DEF all, e
<1>4. /\ a \in Seq(Pair) /\ Len(a) = n + 1
      /\ \A i \in 1 .. n + 1 : a[i] = <<all[i].type, all[i].ts>>
  BY <1>1, SeenList
<1>5. /\ b \in Seq(Pair) /\ Len(b) = n + 1 /\ b[n + 1] = e
      /\ \A i \in 1 .. n : b[i] = Seen(msgs)[i]
  BY <1>2, <1>3, AppendProperties
<1>6. ASSUME NEW i \in 1 .. n + 1 PROVE a[i] = b[i]
  <2>1. CASE i = n + 1
    BY <1>1, <1>4, <1>5, <2>1 DEF e
  <2>2. CASE i # n + 1
    <3>1. i \in 1 .. n
      BY <1>1, <2>2
    <3> QED BY <1>1, <1>3, <1>4, <1>5, <3>1
  <2> QED BY <2>1, <2>2
<1> HIDE DEF a, b, n
<1>7. a = b
  BY <1>4, <1>5, <1>6, SeqEqual
<1> QED BY <1>7 DEF a, b, all, e

\* What is seen of a list without its member k.
LEMMA SeenRemove ==
    ASSUME NEW msgs \in Seq(Node), NEW k \in 1 .. Len(msgs)
    PROVE  Seen(RemoveAt(msgs, k)) = RemoveAt(Seen(msgs), k)
<1> DEFINE n == Len(msgs)  rest == RemoveAt(msgs, k)
           a == Seen(rest)  b == RemoveAt(Seen(msgs), k)
<1>1. /\ rest \in Seq(Node) /\ Len(rest) = n - 1 /\ n \in Nat
      /\ \A i \in 1 .. n - 1 : rest[i] = msgs[IF i < k THEN i ELSE i + 1]
  BY Removed, SeenList
<1>2. /\ Seen(msgs) \in Seq(Pair) /\ Len(Seen(msgs)) = n
      /\ \A i \in 1 .. n : Seen(msgs)[i] = <<msgs[i].type, msgs[i].ts>>
  BY SeenList
<1> HIDE DEF rest
<1>3. /\ a \in Seq(Pair) /\ Len(a) = n - 1
      /\ \A i \in 1 .. n - 1 : a[i] = <<rest[i].type, rest[i].ts>>
  BY <1>1, SeenList
<1>4. /\ b \in Seq(Pair) /\ Len(b) = n - 1
      /\ \A i \in 1 .. n - 1 : b[i] = Seen(msgs)[IF i < k THEN i ELSE i + 1]
  <2> DEFINE c == Seen(msgs)
  <2>1. c \in Seq(Pair) /\ Len(c) = n /\ k \in 1 .. Len(c)
    BY <1>2
  <2> HIDE DEF c
  <2>2. /\ RemoveAt(c, k) \in Seq(Pair) /\ Len(RemoveAt(c, k)) = Len(c) - 1
        /\ \A i \in 1 .. Len(c) - 1 : RemoveAt(c, k)[i] = c[IF i < k THEN i ELSE i + 1]
    BY <2>1, Removed
  <2> QED BY <2>1, <2>2 DEF c
<1>5. ASSUME NEW i \in 1 .. n - 1 PROVE a[i] = b[i]
  <2> DEFINE j == IF i < k THEN i ELSE i + 1
  <2>1. j \in 1 .. n
    BY <1>1
  <2> QED BY <1>1, <1>2, <1>3, <1>4, <2>1
<1> HIDE DEF a, b, n
<1>6. a = b
  BY <1>3, <1>4, <1>5, SeqEqual
<1> QED BY <1>6 DEF a, b, rest

\* What the search of msgrcv finds is what the abstract receive may take.
LEMMA FoundReceivable ==
    ASSUME NEW msgs \in Seq(Node), NEW type \in Int, NEW r, r # 0, Found(msgs, type, r)
    PROVE  r \in Abs!Receivable(Seen(msgs), type)
<1> DEFINE n == Len(msgs)  q == Seen(msgs)
           types == {q[i][1] : i \in DOMAIN q}
           among == IF type = 0 THEN types
                    ELSE IF type > 0 THEN types \cap {type}
                    ELSE {u \in types : u <= -type /\ \A v \in types : u <= v}
<1>1. /\ q \in Seq(Pair) /\ Len(q) = n /\ n \in Nat
      /\ \A i \in 1 .. n : q[i] = <<msgs[i].type, msgs[i].ts>>
  BY SeenList
<1>2. DOMAIN q = 1 .. n /\ \A i \in 1 .. n : q[i][1] = msgs[i].type
  <2> HIDE DEF q
  <2> QED BY <1>1, LenProperties
<1>3. \A i \in 1 .. n : msgs[i].type \in Int
  <2>1. \A i \in 1 .. n : msgs[i] \in Node
    BY ElementOfSeq
  <2> QED BY <2>1 DEF Node
<1>4. r \in 1 .. n
  BY <1>1 DEF Found
<1> HIDE DEF q, n
<1>5. \A u : u \in types <=> \E i \in 1 .. n : u = msgs[i].type
  BY <1>2
<1> HIDE DEF types
<1>6. q[r][1] \in among /\ \A j \in 1 .. r - 1 : q[j][1] \notin among
  <2>1. \A j \in 1 .. r - 1 : j \in 1 .. n
    BY <1>1, <1>4
  <2>2. CASE type = 0
    BY <1>2, <1>4, <1>5, <2>2 DEF Found
  <2>3. CASE type > 0
    BY <1>2, <1>3, <1>4, <1>5, <2>1, <2>3 DEF Found, Suits
  <2>4. CASE type < 0
    <3>1. \A u : u \in among <=> u \in types /\ u <= -type /\ \A v \in types : u <= v
      BY <2>4
    <3> HIDE DEF among
    <3>2. /\ msgs[r].type <= -type
          /\ \A j \in 1 .. n : msgs[r].type <= msgs[j].type
          /\ \A j \in 1 .. r - 1 : msgs[r].type < msgs[j].type
      BY <2>4 DEF Found, Suits, n
    <3>3. q[r][1] \in among
      BY <1>2, <1>4, <1>5, <3>1, <3>2
    <3>4. ASSUME NEW j \in 1 .. r - 1 PROVE q[j][1] \notin among
      <4>1. /\ msgs[j].type \in Int /\ msgs[r].type \in Int /\ msgs[r].type < msgs[j].type
            /\ msgs[r].type \in types /\ q[j][1] = msgs[j].type
        BY <1>2, <1>3, <1>4, <1>5, <2>1, <3>2
      <4> QED BY <3>1, <4>1
    <3> QED BY <3>3, <3>4
  <2>5. type = 0 \/ type > 0 \/ type < 0
    OBVIOUS
  <2> HIDE DEF among
  <2> QED BY <2>2, <2>3, <2>4, <2>5
<1> QED BY <1>2, <1>4, <1>6 DEF Abs!Receivable, q, types, among

\* A message that is put on a queue is sent.
LEMMA EnqueueSeen ==
    ASSUME Inv, NEW p \in Proc, pc[p] \in {"getres", "text"}, NEW spot \in Int, Enqueue(p, spot)
    PROVE  AbsStep
<1> DEFINE s   == Q(p)
           q   == msgque[s]
           arg == call[p].arg
           m   == [type |-> arg.type, ts |-> arg.size, spot |-> spot]
           all == Append(q.msgs, m)
           h   == [q EXCEPT !.msgs = all, !.qnum = q.qnum + 1,
                            !.cbytes = q.cbytes + arg.size, !.rwait = FALSE]
<1>1. msgque' = [msgque EXCEPT ![s] = h] /\ Return(p) /\ pc[p] # "user"
  BY DEF Enqueue
<1>2. s \in Slot /\ q \in Hdr /\ Good(p) /\ q.msgs \in Seq(Node)
  BY Own DEF Hdr
<1>3. m \in Node /\ m.type = arg.type /\ m.ts = arg.size
  <2>1. call[p].arg \in Sends
    BY Own DEF Good, Asks, SndPlaces
  <2>2. arg \in Argument /\ arg.type > 0
    BY <2>1, InputsAssumption
  <2> HIDE DEF arg
  <2> QED BY <2>2 DEF Argument, Node
<1> HIDE DEF m
<1>4. h.msgs = all /\ h.alloc = q.alloc
  <2> HIDE DEF all
  <2> QED BY <1>2 DEF Hdr
<1>5. q.alloc
  BY <1>2 DEF Good, Works, Locked, Live, Q
<1>6. Seen(all) = Append(Seen(q.msgs), <<arg.type, arg.size>>)
  BY <1>2, <1>3, SeenAppend
<1> HIDE DEF h, all
<1>7. queueBar' = [queueBar EXCEPT ![s] = SeenQueue(h)]
  BY <1>1, <1>2, QueueSet
<1>8. queueBar[s] = [exists |-> q.alloc, msgs |-> Seen(q.msgs)]
  BY <1>2 DEF queueBar
<1>9. call[p].op = "msgsnd" /\ reqBar[p] = Asked(call[p])
  BY InCall DEF SndPlaces, reqBar
<1>10. reqBar[p].op = "msgsnd" /\ reqBar[p].slot = s /\ reqBar[p].msg = <<arg.type, arg.size>>
  BY <1>9 DEF Asked, Q
<1>11. SeenQueue(h) = [queueBar[s] EXCEPT !.msgs = Append(@, <<arg.type, arg.size>>)]
  <2> DEFINE old == Seen(q.msgs)
             e == <<arg.type, arg.size>>
             now == Append(old, e)
  <2>1. SeenQueue(h) = [exists |-> h.alloc, msgs |-> Seen(h.msgs)]
    BY DEF SeenQueue
  <2>2. SeenQueue(h) = [exists |-> q.alloc, msgs |-> now]
    BY <1>4, <1>6, <2>1
  <2>3. queueBar[s] = [exists |-> q.alloc, msgs |-> old]
    BY <1>8
  <2>4. now = Append(old, e)
    OBVIOUS
  <2> HIDE DEF old, e, now, q
  <2> DEFINE is == q.alloc
             was == queueBar[s]
             new == SeenQueue(h)
  <2>5. new = [exists |-> is, msgs |-> now] /\ was = [exists |-> is, msgs |-> old]
    BY <2>2, <2>3
  <2> HIDE DEF is, was, new
  <2>6. new = [was EXCEPT !.msgs = now]
    BY ONLY <2>5
  <2>7. new = [was EXCEPT !.msgs = Append(@, e)]
    BY ONLY <2>4, <2>5, <2>6
  <2> QED BY ONLY <2>7 DEF new, was, e
<1> DEFINE r == reqBar[p].slot  e == reqBar[p].msg
<1>12. r = s /\ e = <<arg.type, arg.size>>
  BY <1>10
<1> HIDE DEF s, r, e
<1>13. queueBar' = [queueBar EXCEPT ![r].msgs = Append(@, e)]
  BY <1>7, <1>11, <1>12
<1>14. reqBar[p].op = "msgsnd" /\ queueBar[r].exists
  BY <1>5, <1>8, <1>10, <1>12
<1>15. Abs!Answer(p)
  BY <1>1, Answers
<1>16. Abs!Send(p)
  BY <1>13, <1>14, <1>15 DEF Abs!Send, r, e
<1> QED BY <1>16 DEF Abs!Next, AbsStep

\* Segments that are taken are not seen; with no text the message is sent.
LEMMA MsgsndTakeSeen ==
    ASSUME Inv, NEW p \in Proc, MsgsndTake(p) PROVE AbsStep
<1>1. pc[p] = "getres"
  BY DEF MsgsndTake, At
<1>2. CASE Enqueue(p, 0)
  BY <1>1, <1>2, EnqueueSeen
<1>3. ASSUME NEW spot, call' = [call EXCEPT ![p].spot = spot], msgque' = msgque PROVE AbsStep
  <2> DEFINE f == [call[p] EXCEPT !.spot = spot]
  <2>1. call' = [call EXCEPT ![p] = f]
    BY <1>3
  <2>2. f.op = call[p].op /\ f.id = call[p].id /\ f.arg = call[p].arg
    BY Own DEF Frame
  <2> HIDE DEF f
  <2>3. Asked(f) = Asked(call[p])
    BY <2>2 DEF Asked
  <2>4. reqBar' = reqBar /\ queueBar' = queueBar
    BY <1>3, <2>1, <2>3, CallSet DEF queueBar
  <2> QED BY <2>4 DEF AbsStep
<1> QED BY <1>2, <1>3 DEF MsgsndTake

\* After the copyin the message is sent, or the call fails.
LEMMA MsgsndTextSeen ==
    ASSUME Inv, NEW p \in Proc, MsgsndText(p) PROVE AbsStep
<1>1. pc[p] = "text" /\ pc[p] # "user" /\ call[p].spot \in Int
  BY Own DEF MsgsndText, At, Frame
<1>2. CASE Enqueue(p, call[p].spot)
  BY <1>1, <1>2, EnqueueSeen
<1>3. CASE ~ Enqueue(p, call[p].spot)
  <2>1. Return(p) /\ queueBar' = queueBar
    BY <1>3 DEF MsgsndText, queueBar
  <2> QED BY <1>1, <2>1, NothingSeen
<1> QED BY <1>2, <1>3

\* The message that is taken off after the copyout is still what the abstract
\* receive takes at that moment.
LEMMA MsgrcvCopyoutSeen ==
    ASSUME Inv, NEW p \in Proc, MsgrcvCopyout(p) PROVE AbsStep
<1>1. pc[p] = "copyout" /\ pc[p] # "user" /\ Return(p)
  BY DEF MsgrcvCopyout, At
<1>2. CASE UNCHANGED <<msgque, poolVars>>
  <2>1. queueBar' = queueBar
    BY <1>2 DEF queueBar
  <2> QED BY <1>1, <2>1, NothingSeen
<1>3. CASE ~ UNCHANGED <<msgque, poolVars>>
  <2> DEFINE s    == Q(p)
             q    == msgque[s]
             k    == call[p].pick
             type == call[p].arg.type
             rest == RemoveAt(q.msgs, k)
             h    == [q EXCEPT !.msgs = rest, !.qnum = q.qnum - 1,
                               !.cbytes = q.cbytes - Taken(p), !.wwait = FALSE]
  <2>1. msgque' = [msgque EXCEPT ![s] = h]
    BY <1>3 DEF MsgrcvCopyout
  <2>2. s \in Slot /\ q \in Hdr /\ Good(p) /\ q.msgs \in Seq(Node) /\ type \in Int
    BY Own DEF Hdr, Frame, Argument
  <2>3. k # 0 /\ Found(q.msgs, type, k) /\ k \in 1 .. Len(q.msgs)
    <3>1. k # 0 /\ k = Findmsg(q.msgs, type)
      BY <1>1, <2>2 DEF Good, Works
    <3>2. Found(q.msgs, type, k)
      BY <2>2, <3>1, FindmsgFinds
    <3>3. k \in 1 .. Len(q.msgs)
      <4> HIDE DEF k, type
      <4> QED BY <2>2, <3>1, <3>2, LenProperties DEF Found
    <3> QED BY <3>1, <3>2, <3>3
  <2>4. h.msgs = rest /\ h.alloc = q.alloc
    <3> HIDE DEF rest
    <3> QED BY <2>2 DEF Hdr
  <2>5. Seen(rest) = RemoveAt(Seen(q.msgs), k)
    BY <2>2, <2>3, SeenRemove
  <2>6. k \in Abs!Receivable(Seen(q.msgs), type)
    BY <2>2, <2>3, FoundReceivable
  <2> HIDE DEF h, rest
  <2>7. queueBar' = [queueBar EXCEPT ![s] = SeenQueue(h)]
    BY <2>1, <2>2, QueueSet
  <2>8. queueBar[s] = [exists |-> q.alloc, msgs |-> Seen(q.msgs)]
    BY <2>2 DEF queueBar
  <2>9. call[p].op = "msgrcv" /\ reqBar[p] = Asked(call[p])
    BY <1>1, InCall DEF RcvPlaces, reqBar
  <2> DEFINE r == reqBar[p].slot  t == reqBar[p].type
  <2>10. reqBar[p].op = "msgrcv" /\ r = s /\ t = type
    BY <2>9 DEF Asked, Q
  <2>11. SeenQueue(h) = [queueBar[s] EXCEPT !.msgs = RemoveAt(@, k)]
    <3> HIDE DEF s, q, k
    <3> QED BY <2>4, <2>5, <2>8 DEF SeenQueue
  <2> HIDE DEF s, r, t, k, type
  <2>12. queueBar' = [queueBar EXCEPT ![r].msgs = Abs!RemoveAt(@, k)]
    <3>1. queueBar' = [queueBar EXCEPT ![r].msgs = RemoveAt(@, k)]
      BY <2>7, <2>10, <2>11
    <3>2. RemoveAt(queueBar[r].msgs, k) = Abs!RemoveAt(queueBar[r].msgs, k)
      BY DEF RemoveAt, Abs!RemoveAt
    <3> QED BY <3>1, <3>2
  <2>13. k \in Abs!Receivable(queueBar[r].msgs, t)
    BY <2>6, <2>8, <2>10
  <2>14. Abs!Answer(p)
    BY <1>1, Answers
  <2>15. Abs!Receive(p)
    BY <2>10, <2>12, <2>13, <2>14 DEF Abs!Receive, r, t
  <2> QED BY <2>15 DEF Abs!Next, AbsStep
<1> QED BY <1>2, <1>3

\* For every number of processes, queues, headers and segments: msgsnd and msgrcv
\* are atomic although both may sleep in the middle, and page faults, signals and
\* removals fall in between.
THEOREM MsgImplementsAbs == Spec => AtomicMessages
<1>1. Init => Abs!Init
  <2> SUFFICES ASSUME Init PROVE Abs!Init
    OBVIOUS
  <2>1. \A s \in Slot : ~ msgque[s].alloc /\ msgque[s].alloc = FALSE /\ msgque[s].msgs = <<>>
    BY DEF Init
  <2>2. queueBar = [s \in Slot |-> Abs!None]
    BY <2>1, SeenNone DEF queueBar, Abs!None
  <2>3. reqBar = [p \in Proc |-> Abs!Idle]
    BY DEF Init, reqBar, Asked, NoCall, Abs!Idle
  <2> QED BY <2>2, <2>3 DEF Abs!Init
<1>2. ASSUME Inv, [Next]_vars PROVE AbsStep
  <2>1. NoCall.arg \in Argument /\ Sends \subseteq Argument /\ Receives \subseteq Argument
    BY InputsAssumption DEF NoCall, Argument
  <2>2. ASSUME NEW p \in Proc, Request(p) PROVE AbsStep
    <3>1. CASE Msgget(p)
      BY <1>2, <3>1, MsggetSeen
    <3>2. ASSUME NEW id \in Id, NEW then, Enter(p, "msgctl", id, NoCall.arg, then) PROVE AbsStep
      BY <1>2, <2>1, <3>2, EnterSeen
    <3>3. ASSUME NEW id \in Id, NEW arg \in Sends, Enter(p, "msgsnd", id, arg, "type") PROVE AbsStep
      BY <1>2, <2>1, <3>3, EnterSeen
    <3>4. ASSUME NEW id \in Id, NEW arg \in Receives, Enter(p, "msgrcv", id, arg, "check") PROVE AbsStep
      BY <1>2, <2>1, <3>4, EnterSeen
    <3> QED BY <2>2, <3>1, <3>2, <3>3, <3>4 DEF Request
  <2>3. ASSUME NEW p \in Proc, Continue(p) PROVE AbsStep
    BY <1>2, <2>3, QuietSeen, MsgctlRmidSeen, MsgrcvCopyoutSeen, MsgsndTakeSeen,
       MsgsndTextSeen DEF Continue
  <2>4. ASSUME msgque' = msgque, call' = call PROVE AbsStep
    BY <2>4 DEF AbsStep, queueBar, reqBar
  <2>5. ASSUME NEW p \in Proc, Signal(p) PROVE AbsStep
    BY <2>4, <2>5 DEF Signal, procVars
  <2>6. CASE UNCHANGED vars
    BY <2>4, <2>6 DEF vars, procVars
  <2> QED BY <1>2, <2>2, <2>3, <2>5, <2>6 DEF Next
<1>3. Inv /\ [Next]_vars => [Abs!Next]_<<queueBar, reqBar>>
  BY <1>2 DEF AbsStep
<1>4. Spec => []Inv
  BY InitInv, NextInv, PTL DEF Spec
<1> QED BY <1>1, <1>3, <1>4, PTL DEF AtomicMessages, Spec, Abs!Spec
=============================================================================
