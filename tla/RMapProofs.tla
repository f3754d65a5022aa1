----------------------------- MODULE RMapProofs ------------------------------
(***************************************************************************)
(* Theorems about the table of RMap.  The loops of rmalloc and rmfree stop *)
(* at the entry of size 0, so everything rests on how many entries are in  *)
(* front of it.  The inductive invariant names that number.                *)
(***************************************************************************)
EXTENDS RMap, InductionLemmas

\* A leaf is tried with SMT, then with Zenon, then with more time for each
USE SMT, Zenon, SMTT(30), ZenonT(60)

\* The first k entries are runs in the order of their addresses, with units
\* between them
Sorted(f, k) ==
    /\ \A i \in 1..k : f[i].m_addr \in Nat \ {0} /\ f[i].m_size \in Nat \ {0}
    /\ \A i, j \in 1..k : i < j => f[i].m_addr + f[i].m_size < f[j].m_addr

RunOf(r) == r.m_addr .. r.m_addr + r.m_size - 1

\* The units of the first k entries
UnitsOf(f, k) == UNION {RunOf(f[i]) : i \in 1..k}

Entries == [m_size : Nat, m_addr : Nat]

Table(e, k) ==
    /\ e \in [Entry -> Entries] /\ k \in 0 .. MAPSIZ - 2
    /\ Sorted(e, k)
    /\ \A i \in Entry : k < i => e[i] = Empty

\* The units that are neither free nor held are those that a full table lost
TableOK ==
    /\ held \subseteq 1 .. Units
    /\ \E k \in 0 .. MAPSIZ - 2 :
         /\ Table(X, k) /\ mapsize = MAPSIZ - 2 - k
         /\ UnitsOf(X, k) \subseteq (1 .. Units) \ held

SleepersOK ==
    /\ wchan \in [Proc -> {NoChan, Map}] /\ need \in [Proc -> Nat] /\ mapwant \in BOOLEAN
    /\ WantersStarved

Inv == TableOK /\ SleepersOK
-----------------------------------------------------------------------------
(* What the loops find *)

\* Smallest is the least member, when there is one.
LEMMA SmallestIs ==
    ASSUME NEW S \in SUBSET Int, NEW m \in S, \A j \in S : m <= j
    PROVE  Smallest(S) = m
<1>1. \A i \in S : (\A j \in S : i <= j) => i = m
  OBVIOUS
<1> QED BY <1>1 DEF Smallest

\* A set of entries that is not empty has a smallest one.
LEMMA SmallestIn ==
    ASSUME NEW S \in SUBSET Entry, S # {}
    PROVE  Smallest(S) \in S /\ \A j \in S : Smallest(S) <= j
<1>1. S \in SUBSET Nat
  BY DEF Entry
<1>2. \E m \in S : \A j \in S : m <= j
  BY <1>1, NatLeast
<1> QED BY <1>2 DEF Smallest

\* The loops go through the first k entries.
LEMMA EntriesUsed ==
    ASSUME NEW e, NEW k, Table(e, k)
    PROVE  {i \in Entry : \A j \in 1..i : e[j].m_size # 0} = 1..k
<1>1. k \in Nat /\ k <= MAPSIZ - 2
  BY MapAssumption DEF Table
<1>2. \A i \in Entry : (\A j \in 1..i : e[j].m_size # 0) <=> i <= k
  <2> SUFFICES ASSUME NEW i \in Entry PROVE (\A j \in 1..i : e[j].m_size # 0) <=> i <= k
    OBVIOUS
  <2>1. CASE i <= k
    <3>1. \A j \in 1..i : j \in 1..k
      BY <1>1, <2>1 DEF Entry
    <3> QED BY <2>1, <3>1 DEF Table, Sorted
  <2>2. CASE k < i
    <3>1. e[i] = Empty /\ i \in 1..i
      BY <2>2 DEF Table, Entry
    <3>2. e[i].m_size = 0
      BY <3>1 DEF Empty
    <3> QED BY <1>1, <2>2, <3>1, <3>2 DEF Entry
  <2> QED BY <1>1, <2>1, <2>2 DEF Entry
<1>3. 1..k \subseteq Entry
  BY <1>1, MapAssumption DEF Entry
<1>4. \A i \in Entry : i <= k <=> i \in 1..k
  BY <1>1 DEF Entry
<1> QED BY <1>2, <1>3, <1>4

\* The units they see are free.
LEMMA UsedIs ==
    ASSUME NEW k, Table(X, k)
    PROVE  Used = 1..k /\ Free = UnitsOf(X, k)
<1>1. Used = 1..k
  BY EntriesUsed DEF Used
<1>2. Free = UNION {RunOf(X[i]) : i \in Used}
  BY DEF Free, Run, RunOf
<1> QED BY <1>1, <1>2 DEF UnitsOf

\* The same after a step.
LEMMA UsedIsNext ==
    ASSUME NEW k, Table(X', k)
    PROVE  Used' = 1..k /\ Free' = UnitsOf(X', k)
<1>1. Used' = 1..k
  BY EntriesUsed DEF Used
<1>2. Free' = UNION {RunOf(X'[i]) : i \in Used'}
  BY DEF Free, Run, RunOf
<1> QED BY <1>1, <1>2 DEF UnitsOf

\* A unit is in a table when it is in one of its runs.
LEMMA UnitIn ==
    ASSUME NEW f, NEW k, NEW u
    PROVE  u \in UnitsOf(f, k) <=> \E i \in 1..k : u \in RunOf(f[i])
BY DEF UnitsOf

\* A run that is long enough lies in one entry: the entries do not touch.
LEMMA WindowIn ==
    ASSUME NEW f, NEW k \in Nat, Sorted(f, k), NEW n \in Nat \ {0}, NEW a \in Int,
           a .. a + n - 1 \subseteq UnitsOf(f, k)
    PROVE  \E i \in 1..k : /\ f[i].m_addr <= a
                           /\ a + n <= f[i].m_addr + f[i].m_size
<1>1. a \in UnitsOf(f, k)
  OBVIOUS
<1>2. PICK i \in 1..k : a \in RunOf(f[i])
  BY <1>1, UnitIn
<1>3. /\ \A j \in 1..k : f[j].m_addr \in Nat /\ f[j].m_size \in Nat /\ f[j].m_size # 0
      /\ f[i].m_addr <= a /\ a < f[i].m_addr + f[i].m_size
  BY <1>2 DEF Sorted, RunOf
<1> DEFINE e == f[i].m_addr + f[i].m_size
<1>4. ASSUME e < a + n PROVE FALSE
  <2>1. e \in a .. a + n - 1
    BY <1>3, <1>4
  <2>2. PICK j \in 1..k : e \in RunOf(f[j])
    BY <2>1, UnitIn
  <2>3. f[j].m_addr <= e /\ e < f[j].m_addr + f[j].m_size
    BY <1>3, <2>2 DEF RunOf
  <2>4. i < j \/ j < i \/ i = j
    OBVIOUS
  <2>5. CASE i < j
    BY <2>3, <2>5, <1>3 DEF Sorted
  <2>6. CASE j < i
    BY <2>3, <2>6, <1>3 DEF Sorted
  <2>7. CASE i = j
    BY <2>3, <2>7, <1>3
  <2> QED BY <2>4, <2>5, <2>6, <2>7
<1> QED BY <1>3, <1>4

\* Every run has an entry: the table is full when the set of free units has
\* as many runs as there are entries.
LEMMA RunsCounted ==
    ASSUME NEW f, NEW k \in Nat, Sorted(f, k)
    PROVE  Cardinality(Runs(UnitsOf(f, k))) = k
<1> DEFINE R == Runs(UnitsOf(f, k))
           g == [i \in 1..k |-> f[i].m_addr]
<1>1. \A j \in 1..k : f[j].m_addr \in Nat /\ f[j].m_size \in Nat /\ f[j].m_size # 0
  BY DEF Sorted
<1>2. \A i, j \in 1..k : i < j \/ j < i \/ i = j
  OBVIOUS
<1>3. \A i, j \in 1..k : g[i] = g[j] => i = j
  BY <1>1, <1>2 DEF Sorted
<1>4. ASSUME NEW i \in 1..k PROVE f[i].m_addr \in R
  <2>1. f[i].m_addr \in UnitsOf(f, k)
    BY <1>1, UnitIn DEF RunOf
  <2>2. ASSUME NEW j \in 1..k, f[i].m_addr - 1 \in RunOf(f[j]) PROVE FALSE
    <3>1. f[j].m_addr < f[i].m_addr /\ f[i].m_addr <= f[j].m_addr + f[j].m_size
      BY <1>1, <2>2 DEF RunOf
    <3> QED BY <1>1, <1>2, <3>1 DEF Sorted
  <2>3. f[i].m_addr - 1 \notin UnitsOf(f, k)
    BY <2>2, UnitIn
  <2> QED BY <2>1, <2>3 DEF Runs
<1>5. ASSUME NEW u \in R PROVE \E i \in 1..k : u = f[i].m_addr
  <2>1. u \in UnitsOf(f, k) /\ u - 1 \notin UnitsOf(f, k)
    BY DEF Runs
  <2>2. PICK i \in 1..k : u \in RunOf(f[i])
    BY <2>1, UnitIn
  <2>3. u - 1 \notin RunOf(f[i])
    BY <2>1, UnitIn
  <2> QED BY <1>1, <2>2, <2>3 DEF RunOf
<1>6. \A x : x \in R <=> \E i \in 1..k : x = g[i]
  <2> HIDE DEF R
  <2> QED BY <1>4, <1>5
<1> HIDE DEF g, R
<1>7. IsFiniteSet(R) /\ Cardinality(R) = k
  BY <1>3, <1>6, InjectiveLength
<1> QED BY <1>7 DEF R
-----------------------------------------------------------------------------
(* What the shifts do *)

\* Without the entry at i, which nobody looks at, the table is one shorter.
LEMMA ShiftUpIs ==
    ASSUME NEW e \in [Entry -> Entries], NEW k \in 1 .. MAPSIZ - 2, NEW i \in 1..k,
           \A j \in 1..k : j # i => e[j].m_size # 0,
           \A j \in Entry : k < j => e[j] = Empty
    PROVE  /\ ShiftUp(e, i) \in [Entry -> Entries]
           /\ \A j \in Entry : ShiftUp(e, i)[j] = IF i <= j /\ j <= k THEN e[j + 1] ELSE e[j]
<1> DEFINE S == {j \in i .. MAPSIZ - 2 : e[j + 1].m_size = 0}
<1>1. MAPSIZ \in Nat /\ k \in Nat /\ i \in Nat /\ k <= MAPSIZ - 2 /\ i <= k /\ 1 <= i
  BY MapAssumption
<1>2. k \in S
  <2>1. k + 1 \in Entry
    BY <1>1 DEF Entry
  <2>2. e[k + 1] = Empty
    BY <1>1, <2>1
  <2> QED BY <1>1, <2>2 DEF Empty
<1>3. \A j \in S : k <= j
  <2> SUFFICES ASSUME NEW j \in S, j < k PROVE FALSE
    BY <1>1
  <2>1. j + 1 \in 1..k /\ j + 1 # i
    BY <1>1
  <2> QED BY <2>1
<1>4. Smallest(S) = k
  <2>1. S \in SUBSET Int
    OBVIOUS
  <2> HIDE DEF S
  <2> QED BY <1>2, <1>3, <2>1, SmallestIs
<1>5. ShiftUp(e, i) = [j \in Entry |-> IF j \in i .. k THEN e[j + 1] ELSE e[j]]
  BY <1>4 DEF ShiftUp
<1>6. \A j \in Entry : j \in i .. k => j + 1 \in Entry
  BY <1>1 DEF Entry
<1>7. \A j \in Entry : j \in i .. k <=> i <= j /\ j <= k
  BY <1>1 DEF Entry
<1> QED BY <1>5, <1>6, <1>7

\* With a new entry at i the table is one longer.
LEMMA ShiftDownIs ==
    ASSUME NEW e \in [Entry -> Entries], NEW k \in 0 .. MAPSIZ - 3, NEW i \in 1 .. k + 1,
           NEW new \in Entries,
           \A j \in 1..k : e[j].m_size # 0,
           \A j \in Entry : k < j => e[j] = Empty
    PROVE  /\ ShiftDown(e, i, new) \in [Entry -> Entries]
           /\ \A j \in Entry : ShiftDown(e, i, new)[j] =
                IF j = i THEN new ELSE IF i < j /\ j <= k + 1 THEN e[j - 1] ELSE e[j]
<1> DEFINE S == {j \in i .. MAPSIZ - 1 : e[j].m_size = 0}
<1>1. MAPSIZ \in Nat /\ k \in Nat /\ i \in Nat /\ k <= MAPSIZ - 3 /\ i <= k + 1 /\ 1 <= i
  BY MapAssumption
<1>2. k + 1 \in S
  <2>1. k + 1 \in Entry
    BY <1>1 DEF Entry
  <2>2. e[k + 1] = Empty
    BY <1>1, <2>1
  <2> QED BY <1>1, <2>2 DEF Empty
<1>3. \A j \in S : k + 1 <= j
  <2> SUFFICES ASSUME NEW j \in S, j < k + 1 PROVE FALSE
    BY <1>1
  <2>1. j \in 1..k
    BY <1>1
  <2> QED BY <2>1
<1>4. Smallest(S) = k + 1
  <2>1. S \in SUBSET Int
    OBVIOUS
  <2> HIDE DEF S
  <2> QED BY <1>2, <1>3, <2>1, SmallestIs
<1>5. ShiftDown(e, i, new) =
        [j \in Entry |-> IF j = i THEN new ELSE IF j \in i + 1 .. k + 1 THEN e[j - 1] ELSE e[j]]
  BY <1>4 DEF ShiftDown
<1>6. \A j \in Entry : j \in i + 1 .. k + 1 => j - 1 \in Entry
  BY <1>1 DEF Entry
<1>7. \A j \in Entry : j \in i + 1 .. k + 1 <=> i < j /\ j <= k + 1
  BY <1>1 DEF Entry
<1> QED BY <1>5, <1>6, <1>7
-----------------------------------------------------------------------------
(* Changes to a sorted table *)

\* No unit is in two runs.
LEMMA OneRun ==
    ASSUME NEW f, NEW k \in Nat, Sorted(f, k), NEW i \in 1..k, NEW j \in 1..k,
           NEW u, u \in RunOf(f[i]), u \in RunOf(f[j])
    PROVE  i = j
<1>1. i < j \/ j < i \/ i = j
  OBVIOUS
<1>2. /\ f[i].m_addr \in Nat /\ f[i].m_size \in Nat /\ f[j].m_addr \in Nat /\ f[j].m_size \in Nat
      /\ i < j => f[i].m_addr + f[i].m_size < f[j].m_addr
      /\ j < i => f[j].m_addr + f[j].m_size < f[i].m_addr
  BY DEF Sorted
<1> QED BY <1>1, <1>2 DEF RunOf

\* In g, of length l, the entries of f between lo and hi give way to one run r
\* that touches neither lo nor hi
Replaces(f, k, lo, hi, r, g, l) ==
    /\ lo \in 0..k /\ hi \in lo + 1 .. k + 1 /\ l = k - (hi - lo) + 2
    /\ r \in Entries /\ r.m_addr # 0 /\ r.m_size # 0
    /\ \A j \in 1..lo : g[j] = f[j]
    /\ g[lo + 1] = r
    /\ \A j \in 1..l : lo + 1 < j => g[j] = f[j + (hi - lo) - 2]
    /\ lo # 0 => f[lo].m_addr + f[lo].m_size < r.m_addr
    /\ hi <= k => r.m_addr + r.m_size < f[hi].m_addr

\* It stays sorted, and has the units of r and of the entries that stay.
LEMMA Replaced ==
    ASSUME NEW f, NEW k \in Nat, Sorted(f, k), NEW lo, NEW hi, NEW r, NEW g, NEW l,
           Replaces(f, k, lo, hi, r, g, l)
    PROVE  /\ Sorted(g, l)
           /\ \A u : u \in UnitsOf(g, l) <=>
                 \/ u \in RunOf(r)
                 \/ \E j \in 1..k : (j <= lo \/ hi <= j) /\ u \in RunOf(f[j])
<1> USE DEF Replaces
<1>1. l \in Nat /\ lo \in Nat /\ hi \in Nat /\ lo + 1 <= l /\ l = k - (hi - lo) + 2
  OBVIOUS
<1>2. r.m_addr \in Nat \ {0} /\ r.m_size \in Nat \ {0}
  BY DEF Entries
<1>3. \A j \in 1..k : f[j].m_addr \in Nat \ {0} /\ f[j].m_size \in Nat \ {0}
  BY DEF Sorted
<1>4. \A j \in 1..lo : f[j].m_addr + f[j].m_size < r.m_addr
  <2> SUFFICES ASSUME NEW j \in 1..lo PROVE f[j].m_addr + f[j].m_size < r.m_addr
    OBVIOUS
  <2>1. j \in 1..k /\ lo \in 1..k /\ f[lo].m_addr + f[lo].m_size < r.m_addr
    OBVIOUS
  <2>2. j = lo \/ f[j].m_addr + f[j].m_size < f[lo].m_addr
    BY <2>1 DEF Sorted
  <2> QED BY <1>2, <1>3, <2>1, <2>2
<1>5. \A j \in hi..k : r.m_addr + r.m_size < f[j].m_addr
  <2> SUFFICES ASSUME NEW j \in hi..k PROVE r.m_addr + r.m_size < f[j].m_addr
    OBVIOUS
  <2>1. j \in 1..k /\ hi \in 1..k /\ r.m_addr + r.m_size < f[hi].m_addr
    OBVIOUS
  <2>2. j = hi \/ f[hi].m_addr + f[hi].m_size < f[j].m_addr
    BY <2>1 DEF Sorted
  <2> QED BY <1>2, <1>3, <2>1, <2>2
<1>6. \A i \in 1..l : \/ i \in 1..lo /\ g[i] = f[i]
                      \/ i = lo + 1 /\ g[i] = r
                      \/ lo + 1 < i /\ i + (hi - lo) - 2 \in hi..k /\ g[i] = f[i + (hi - lo) - 2]
  <2> SUFFICES ASSUME NEW i \in 1..l
               PROVE  \/ i \in 1..lo /\ g[i] = f[i]
                      \/ i = lo + 1 /\ g[i] = r
                      \/ lo + 1 < i /\ i + (hi - lo) - 2 \in hi..k /\ g[i] = f[i + (hi - lo) - 2]
    OBVIOUS
  <2>1. i \in 1..lo \/ i = lo + 1 \/ lo + 1 < i
    BY <1>1
  <2>2. lo + 1 < i => i + (hi - lo) - 2 \in hi..k
    BY <1>1
  <2> QED BY <2>1, <2>2
<1>7. Sorted(g, l)
  <2>1. \A i \in 1..l : g[i].m_addr \in Nat \ {0} /\ g[i].m_size \in Nat \ {0}
    BY <1>2, <1>3, <1>6
  <2>2. ASSUME NEW i \in 1..l, NEW j \in 1..l, i < j
        PROVE  g[i].m_addr + g[i].m_size < g[j].m_addr
    <3>1. CASE i \in 1..lo /\ j \in 1..lo
      BY <1>6, <2>2, <3>1 DEF Sorted
    <3>2. CASE i \in 1..lo /\ j = lo + 1
      BY <1>4, <1>6, <3>2
    <3>3. CASE i \in 1..lo /\ lo + 1 < j
      <4> DEFINE m == j + (hi - lo) - 2
      <4>1. g[i] = f[i] /\ g[j] = f[m] /\ m \in hi..k
        BY <1>6, <3>3
      <4>2. i \in 1..k /\ m \in 1..k /\ i < m
        BY <1>1, <3>3, <4>1
      <4> QED BY <4>1, <4>2 DEF Sorted
    <3>4. CASE i = lo + 1 /\ lo + 1 < j
      BY <1>5, <1>6, <3>4
    <3>5. CASE lo + 1 < i /\ lo + 1 < j
      <4> DEFINE m == i + (hi - lo) - 2
                 o == j + (hi - lo) - 2
      <4>1. g[i] = f[m] /\ g[j] = f[o] /\ m \in hi..k /\ o \in hi..k
        BY <1>6, <3>5
      <4>2. m \in 1..k /\ o \in 1..k /\ m < o
        BY <1>1, <2>2, <3>5, <4>1
      <4> QED BY <4>1, <4>2 DEF Sorted
    <3> QED BY <1>1, <2>2, <3>1, <3>2, <3>3, <3>4, <3>5
  <2> QED BY <2>1, <2>2 DEF Sorted
<1>8. ASSUME NEW u, u \in UnitsOf(g, l)
      PROVE  u \in RunOf(r) \/ \E j \in 1..k : (j <= lo \/ hi <= j) /\ u \in RunOf(f[j])
  <2>1. PICK i \in 1..l : u \in RunOf(g[i])
    BY <1>8, UnitIn
  <2>2. CASE i \in 1..lo
    BY <1>1, <1>6, <2>1, <2>2
  <2>3. CASE lo + 1 < i
    <3> DEFINE m == i + (hi - lo) - 2
    <3>1. m \in 1..k /\ hi <= m /\ u \in RunOf(f[m])
      BY <1>1, <1>6, <2>1, <2>3
    <3> QED BY <3>1
  <2> QED BY <1>1, <1>6, <2>1, <2>2, <2>3
<1>9. ASSUME NEW u, u \in RunOf(r) \/ \E j \in 1..k : (j <= lo \/ hi <= j) /\ u \in RunOf(f[j])
      PROVE  u \in UnitsOf(g, l)
  <2>1. CASE u \in RunOf(r)
    BY <1>1, <2>1, UnitIn
  <2>2. ASSUME NEW j \in 1..k, j <= lo \/ hi <= j, u \in RunOf(f[j]) PROVE u \in UnitsOf(g, l)
    <3>1. CASE j <= lo
      BY <1>1, <2>2, <3>1, UnitIn
    <3>2. CASE hi <= j
      <4> DEFINE m == j - (hi - lo) + 2
      <4>1. m \in 1..l /\ lo + 1 < m /\ m + (hi - lo) - 2 = j
        BY <1>1, <3>2
      <4>2. g[m] = f[j]
        BY <4>1
      <4> QED BY <2>2, <4>1, <4>2, UnitIn
    <3> QED BY <2>2, <3>1, <3>2
  <2> QED BY <1>9, <2>1, <2>2
<1> QED BY <1>7, <1>8, <1>9

\* The entry i goes.
LEMMA Dropped ==
    ASSUME NEW f, NEW k \in Nat, Sorted(f, k), NEW i \in 1..k, NEW g,
           \A j \in 1 .. k - 1 : g[j] = IF j < i THEN f[j] ELSE f[j + 1]
    PROVE  /\ Sorted(g, k - 1)
           /\ \A u : u \in UnitsOf(g, k - 1) <=> \E j \in 1..k : j # i /\ u \in RunOf(f[j])
<1>1. \A j \in 1 .. k - 1 : j \in 1..k /\ j + 1 \in 1..k
  OBVIOUS
<1>2. Sorted(g, k - 1)
  <2>1. \A j \in 1 .. k - 1 : g[j].m_addr \in Nat \ {0} /\ g[j].m_size \in Nat \ {0}
    BY <1>1 DEF Sorted
  <2>2. ASSUME NEW j \in 1 .. k - 1, NEW m \in 1 .. k - 1, j < m
        PROVE  g[j].m_addr + g[j].m_size < g[m].m_addr
    <3>1. CASE j < i /\ m < i
      BY <1>1, <2>2, <3>1 DEF Sorted
    <3>2. CASE j < i /\ i <= m
      <4>1. g[j] = f[j] /\ g[m] = f[m + 1] /\ j < m + 1
        BY <2>2, <3>2
      <4> QED BY <1>1, <4>1 DEF Sorted
    <3>3. CASE i <= j /\ i <= m
      <4>1. g[j] = f[j + 1] /\ g[m] = f[m + 1] /\ j + 1 < m + 1
        BY <2>2, <3>3
      <4> QED BY <1>1, <4>1 DEF Sorted
    <3> QED BY <2>2, <3>1, <3>2, <3>3
  <2> QED BY <2>1, <2>2 DEF Sorted
<1>3. ASSUME NEW u, u \in UnitsOf(g, k - 1) PROVE \E j \in 1..k : j # i /\ u \in RunOf(f[j])
  <2>1. PICK j \in 1 .. k - 1 : u \in RunOf(g[j])
    BY <1>3, UnitIn
  <2>2. CASE j < i
    BY <1>1, <2>1, <2>2
  <2>3. CASE i <= j
    <3>1. u \in RunOf(f[j + 1]) /\ j + 1 # i
      BY <2>1, <2>3
    <3> QED BY <1>1, <3>1
  <2> QED BY <2>2, <2>3
<1>4. ASSUME NEW j \in 1..k, j # i, NEW u, u \in RunOf(f[j]) PROVE u \in UnitsOf(g, k - 1)
  <2>1. CASE j < i
    <3>1. j \in 1 .. k - 1 /\ g[j] = f[j]
      BY <2>1
    <3> QED BY <1>4, <3>1, UnitIn
  <2>2. CASE i < j
    <3>1. j - 1 \in 1 .. k - 1 /\ g[j - 1] = f[j]
      BY <2>2
    <3> QED BY <1>4, <3>1, UnitIn
  <2> QED BY <1>4, <2>1, <2>2
<1> QED BY <1>2, <1>3, <1>4
-----------------------------------------------------------------------------
(* rmalloc *)

\* What a table says of its numbers.
LEMMA TableTypes ==
    ASSUME NEW e, NEW k, Table(e, k)
    PROVE  /\ k \in Nat /\ k <= MAPSIZ - 2 /\ MAPSIZ \in Nat /\ k + 1 \in Entry
           /\ 1..k \subseteq Entry /\ e[k + 1] = Empty
           /\ \A i \in Entry : e[i] \in Entries /\ e[i].m_addr \in Nat /\ e[i].m_size \in Nat
           /\ \A i \in 1..k : e[i].m_addr # 0 /\ e[i].m_size # 0
<1>1. k \in Nat /\ k <= MAPSIZ - 2 /\ MAPSIZ \in Nat /\ k + 1 \in Entry /\ 1..k \subseteq Entry
  BY MapAssumption DEF Table, Entry
<1>2. e[k + 1] = Empty
  BY <1>1 DEF Table
<1>3. \A i \in Entry : e[i] \in Entries /\ e[i].m_addr \in Nat /\ e[i].m_size \in Nat
  BY DEF Table, Entries
<1>4. \A i \in 1..k : e[i].m_addr # 0 /\ e[i].m_size # 0
  BY DEF Table, Sorted
<1> QED BY <1>1, <1>2, <1>3, <1>4

\* One entry becomes another run that touches no neighbour.
LEMMA EntryChanged ==
    ASSUME NEW e, NEW k, Table(e, k), NEW i \in 1..k,
           NEW r \in Entries, r.m_addr # 0, r.m_size # 0,
           i # 1 => e[i - 1].m_addr + e[i - 1].m_size < r.m_addr,
           i # k => r.m_addr + r.m_size < e[i + 1].m_addr,
           NEW g, g = [e EXCEPT ![i] = r]
    PROVE  /\ Table(g, k)
           /\ \A u : u \in UnitsOf(g, k) <=>
                 u \in RunOf(r) \/ \E j \in 1..k : j # i /\ u \in RunOf(e[j])
<1> DEFINE lo == i - 1
           hi == i + 1
<1>1. k \in Nat /\ k <= MAPSIZ - 2 /\ i \in Nat /\ 1 <= i /\ i <= k /\ 1..k \subseteq Entry
  BY TableTypes
<1>2. /\ g \in [Entry -> Entries] /\ g[i] = r
      /\ \A j \in Entry : j # i => g[j] = e[j]
  BY <1>1 DEF Table
<1>3. Replaces(e, k, lo, hi, r, g, k)
  <2>1. lo \in 0..k /\ hi \in lo + 1 .. k + 1 /\ k = k - (hi - lo) + 2 /\ lo + 1 = i
    BY <1>1
  <2>2. \A j \in 1..lo : g[j] = e[j]
    BY <1>1, <1>2
  <2>3. \A j \in 1..k : lo + 1 < j => g[j] = e[j + (hi - lo) - 2]
    <3>1. \A j \in 1..k : j + (hi - lo) - 2 = j
      BY <1>1
    <3> QED BY <1>1, <1>2, <3>1
  <2>4. lo # 0 <=> i # 1
    BY <1>1
  <2>5. hi <= k <=> i # k
    BY <1>1
  <2> QED BY <1>2, <2>1, <2>2, <2>3, <2>4, <2>5 DEF Replaces
<1>4. \A j \in 1..k : j <= lo \/ hi <= j <=> j # i
  BY <1>1
<1> HIDE DEF lo, hi
<1>5. /\ Sorted(g, k)
      /\ \A u : u \in UnitsOf(g, k) <=>
            u \in RunOf(r) \/ \E j \in 1..k : (j <= lo \/ hi <= j) /\ u \in RunOf(e[j])
  <2>1. Sorted(e, k)
    BY DEF Table
  <2>2. k \in Nat
    BY <1>1
  <2> QED BY <1>3, <2>1, <2>2, Replaced, Zenon
<1>6. \A j \in Entry : k < j => g[j] = Empty
  BY <1>1, <1>2 DEF Table
<1>7. Table(g, k)
  BY <1>2, <1>5, <1>6 DEF Table
<1> QED BY <1>4, <1>5, <1>7

\* The first n units of the first entry that has them are the lowest n units
\* that can be had, and they are in no other entry.
LEMMA FirstFits ==
    ASSUME NEW f, NEW k \in Nat, Sorted(f, k), NEW n \in Nat \ {0}, NEW i \in 1..k,
           n <= f[i].m_size, \A j \in 1..k : n <= f[j].m_size => i <= j
    PROVE  Fits(UnitsOf(f, k), n, f[i].m_addr)
<1> DEFINE a == f[i].m_addr
           U == UnitsOf(f, k)
<1>1. \A j \in 1..k : f[j].m_addr \in Nat /\ f[j].m_size \in Nat /\ f[j].m_size # 0
  BY DEF Sorted
<1>2. a .. a + n - 1 \subseteq U /\ a \in U
  <2>1. \A u \in a .. a + n - 1 : u \in RunOf(f[i])
    BY <1>1 DEF RunOf
  <2>2. a \in a .. a + n - 1
    BY <1>1
  <2> QED BY <2>1, <2>2, UnitIn
<1>3. ASSUME NEW b \in U, b .. b + n - 1 \subseteq U PROVE a <= b
  <2>1. b \in Int
    <3>1. PICK j \in 1..k : b \in RunOf(f[j])
      BY UnitIn
    <3> QED BY <1>1, <3>1 DEF RunOf
  <2>2. PICK j \in 1..k : f[j].m_addr <= b /\ b + n <= f[j].m_addr + f[j].m_size
    <3> HIDE DEF a
    <3> QED BY <1>3, <2>1, WindowIn
  <2>3. n <= f[j].m_size
    BY <1>1, <2>1, <2>2
  <2>4. i <= j
    BY <2>3
  <2>5. i = j \/ f[i].m_addr + f[i].m_size < f[j].m_addr
    BY <2>4 DEF Sorted
  <2> QED BY <1>1, <2>1, <2>2, <2>5
<1> QED BY <1>2, <1>3 DEF Fits, Windows

\* rmalloc takes the first units of the first run that is long enough, and
\* the table stays a table.
LEMMA RmallocTakes ==
    ASSUME NEW k, Table(X, k), mapsize \in Nat, NEW n \in Nat \ {0}, NEW a, Rmalloc(n, a)
    PROVE  /\ Fits(UnitsOf(X, k), n, a)
           /\ \E l \in 0 .. MAPSIZ - 2 :
                /\ Table(X', l) /\ mapsize' + l = mapsize + k
                /\ UnitsOf(X', l) = UnitsOf(X, k) \ (a .. a + n - 1)
<1> DEFINE bp == Smallest(Enough(n))
           cut == [m_size |-> X[bp].m_size - n, m_addr |-> X[bp].m_addr + n]
           Y == [X EXCEPT ![bp] = cut]
<1>1. Used = 1..k
  BY UsedIs
<1>2. /\ k \in Nat /\ k <= MAPSIZ - 2 /\ MAPSIZ \in Nat /\ k + 1 \in Entry
      /\ 1..k \subseteq Entry /\ X[k + 1] = Empty
      /\ \A i \in Entry : X[i] \in Entries /\ X[i].m_addr \in Nat /\ X[i].m_size \in Nat
      /\ \A i \in 1..k : X[i].m_addr # 0 /\ X[i].m_size # 0
  BY TableTypes
<1>3. bp \in 1..k /\ n <= X[bp].m_size /\ \A j \in 1..k : n <= X[j].m_size => bp <= j
  <2>1. Enough(n) \in SUBSET Entry /\ Enough(n) # {}
    BY <1>1, <1>2 DEF Enough, Rmalloc
  <2>2. bp \in Enough(n) /\ \A j \in Enough(n) : bp <= j
    BY <2>1, SmallestIn
  <2>3. \A j \in 1..k : X[j].m_size \in Nat
    BY <1>2
  <2> HIDE DEF bp
  <2> QED BY <1>1, <2>2, <2>3 DEF Enough
<1>4. a = X[bp].m_addr
  BY DEF Rmalloc
<1>5. IF X[bp].m_size - n = 0
      THEN X' = ShiftUp(Y, bp) /\ mapsize' = mapsize + 1
      ELSE X' = Y /\ mapsize' = mapsize
  BY DEF Rmalloc
<1>6. Sorted(X, k)
  BY DEF Table
<1> HIDE DEF bp
<1>7. Fits(UnitsOf(X, k), n, a)
  BY <1>2, <1>3, <1>4, <1>6, FirstFits
<1>8. X[bp].m_addr \in Nat /\ X[bp].m_size \in Nat /\ bp \in Nat /\ 1 <= bp /\ bp <= k /\ bp \in Entry
  BY <1>2, <1>3
<1>9. X \in [Entry -> Entries] /\ cut \in Entries
  BY <1>3, <1>8 DEF Table, Entries
<1>10. /\ Y \in [Entry -> Entries] /\ Y[bp] = cut
       /\ \A j \in Entry : j # bp => Y[j] = X[j]
  <2> HIDE DEF cut
  <2> QED BY <1>8, <1>9
<1> DEFINE U == UnitsOf(X, k)
           V == U \ (a .. a + n - 1)
<1>11. \A u : u \in V <=> \/ u \in RunOf(X[bp]) /\ u \notin a .. a + n - 1
                         \/ \E j \in 1..k : j # bp /\ u \in RunOf(X[j])
  <2>1. ASSUME NEW j \in 1..k, j # bp, NEW u \in RunOf(X[j]) PROVE u \notin a .. a + n - 1
    <3>1. u \notin RunOf(X[bp])
      BY <1>2, <1>3, <1>6, <2>1, OneRun
    <3> QED BY <1>3, <1>4, <1>8, <3>1 DEF RunOf
  <2> QED BY <1>3, <2>1, UnitIn
<1>12. CASE X[bp].m_size = n
  <2>1. X' = ShiftUp(Y, bp) /\ mapsize' = mapsize + 1
    BY <1>5, <1>8, <1>12
  <2>2. \A j \in 1..k : j # bp => Y[j].m_size # 0
    BY <1>2, <1>10
  <2>3. \A j \in Entry : k < j => Y[j] = Empty
    BY <1>8, <1>10 DEF Table
  <2> HIDE DEF Y
  <2>4. /\ X' \in [Entry -> Entries]
        /\ \A j \in Entry : X'[j] = IF bp <= j /\ j <= k THEN Y[j + 1] ELSE Y[j]
    <3>1. k \in 1 .. MAPSIZ - 2
      BY <1>2, <1>8
    <3> QED BY <1>3, <1>10, <2>1, <2>2, <2>3, <3>1, ShiftUpIs
  <2>5. \A j \in 1 .. k - 1 : X'[j] = IF j < bp THEN X[j] ELSE X[j + 1]
    <3> SUFFICES ASSUME NEW j \in 1 .. k - 1
                 PROVE  X'[j] = IF j < bp THEN X[j] ELSE X[j + 1]
      OBVIOUS
    <3>1. j \in Entry /\ j + 1 \in Entry /\ j <= k /\ j \in Nat
      BY <1>2
    <3>2. X'[j] = IF bp <= j THEN Y[j + 1] ELSE Y[j]
      BY <2>4, <3>1
    <3>3. CASE j < bp
      BY <1>8, <1>10, <3>1, <3>2, <3>3
    <3>4. CASE bp <= j
      <4>1. j + 1 # bp
        BY <1>8, <3>1, <3>4
      <4> QED BY <1>8, <1>10, <3>1, <3>2, <3>4, <4>1
    <3> QED BY <1>8, <3>1, <3>3, <3>4
  <2>6. \A j \in Entry : k - 1 < j => X'[j] = Empty
    <3> SUFFICES ASSUME NEW j \in Entry, k - 1 < j PROVE X'[j] = Empty
      OBVIOUS
    <3>1. CASE j = k
      BY <1>2, <1>8, <1>10, <2>4, <3>1
    <3>2. CASE k < j
      BY <1>2, <2>3, <2>4, <3>2 DEF Entry
    <3> QED BY <1>2, <3>1, <3>2 DEF Entry
  <2>7. /\ Sorted(X', k - 1)
        /\ \A u : u \in UnitsOf(X', k - 1) <=> \E j \in 1..k : j # bp /\ u \in RunOf(X[j])
    BY <1>2, <1>3, <1>6, <2>5, Dropped
  <2>8. \A u \in RunOf(X[bp]) : u \in a .. a + n - 1
    BY <1>4, <1>12 DEF RunOf
  <2>9. UnitsOf(X', k - 1) = V
    <3> HIDE DEF V
    <3> QED BY <1>11, <2>7, <2>8
  <2>10. k - 1 \in 0 .. MAPSIZ - 2 /\ mapsize' + (k - 1) = mapsize + k
    BY <1>2, <1>8, <2>1
  <2>11. Table(X', k - 1)
    BY <2>4, <2>6, <2>7, <2>10 DEF Table
  <2> QED BY <1>7, <2>9, <2>10, <2>11
<1>13. CASE X[bp].m_size # n
  <2>1. X' = Y /\ mapsize' = mapsize
    BY <1>5, <1>8, <1>13
  <2>2. /\ cut \in Entries /\ cut.m_addr # 0 /\ cut.m_size # 0
        /\ cut.m_addr = a + n /\ cut.m_size = X[bp].m_size - n
    BY <1>4, <1>8, <1>9, <1>13
  <2>3. bp # 1 => X[bp - 1].m_addr + X[bp - 1].m_size < cut.m_addr
    <3> SUFFICES ASSUME bp # 1 PROVE X[bp - 1].m_addr + X[bp - 1].m_size < cut.m_addr
      OBVIOUS
    <3>1. bp - 1 \in 1..k
      BY <1>2, <1>8
    <3>2. X[bp - 1].m_addr + X[bp - 1].m_size < X[bp].m_addr
      BY <1>3, <1>6, <1>8, <3>1 DEF Sorted
    <3>3. X[bp - 1].m_addr \in Nat /\ X[bp - 1].m_size \in Nat
      BY <1>2, <3>1
    <3> QED BY <1>4, <1>8, <2>2, <3>2, <3>3
  <2>4. bp # k => cut.m_addr + cut.m_size < X[bp + 1].m_addr
    <3> SUFFICES ASSUME bp # k PROVE cut.m_addr + cut.m_size < X[bp + 1].m_addr
      OBVIOUS
    <3>1. bp + 1 \in 1..k
      BY <1>2, <1>8
    <3>2. X[bp].m_addr + X[bp].m_size < X[bp + 1].m_addr
      BY <1>3, <1>6, <1>8, <3>1 DEF Sorted
    <3> QED BY <1>4, <1>8, <2>2, <3>2
  <2> HIDE DEF cut
  <2>5. X' = [X EXCEPT ![bp] = cut]
    BY <2>1
  <2> HIDE DEF Y
  <2>6. /\ Table(X', k)
        /\ \A u : u \in UnitsOf(X', k) <=>
             u \in RunOf(cut) \/ \E j \in 1..k : j # bp /\ u \in RunOf(X[j])
    BY <1>3, <2>2, <2>3, <2>4, <2>5, EntryChanged
  <2>7. \A u : u \in RunOf(cut) <=> u \in RunOf(X[bp]) /\ u \notin a .. a + n - 1
    BY <1>3, <1>4, <1>8, <2>2 DEF RunOf
  <2>8. UnitsOf(X', k) = V
    <3> HIDE DEF V
    <3> QED BY <1>11, <2>6, <2>7
  <2>9. k \in 0 .. MAPSIZ - 2 /\ mapsize' + k = mapsize + k
    BY <1>2, <2>1
  <2> QED BY <1>7, <2>6, <2>8, <2>9
<1> QED BY <1>12, <1>13
-----------------------------------------------------------------------------
(* rmfree *)

\* Where rmfree looks: all entries before bp end at or before a, and bp and
\* all behind it begin at or behind the n units.
Between(k, bp, n, a) ==
    /\ bp \in 1 .. k + 1
    /\ \A j \in 1..k : j < bp => X[j].m_addr + X[j].m_size <= a
    /\ \A j \in 1..k : bp <= j => a + n <= X[j].m_addr

\* rmfree's loop finds this place, when the units are not free already.
LEMMA PlaceFound ==
    ASSUME NEW k, Table(X, k), NEW n \in Nat \ {0}, NEW a \in Nat,
           \A u \in a .. a + n - 1 : u \notin UnitsOf(X, k)
    PROVE  Between(k, Smallest({i \in Entry : i \notin Used \/ X[i].m_addr > a}), n, a)
<1> DEFINE S == {i \in Entry : i \notin Used \/ X[i].m_addr > a}
           bp == Smallest(S)
<1>1. Used = 1..k
  BY UsedIs
<1>2. /\ k \in Nat /\ k + 1 \in Entry /\ 1..k \subseteq Entry
      /\ \A i \in 1..k : X[i].m_addr \in Nat /\ X[i].m_size \in Nat /\ X[i].m_size # 0
  BY TableTypes
<1>3. bp \in S /\ \A j \in S : bp <= j
  <2>1. k + 1 \in S
    BY <1>1, <1>2
  <2>2. S \in SUBSET Entry /\ S # {}
    BY <2>1
  <2> HIDE DEF S
  <2> QED BY <2>2, SmallestIn
<1>4. k + 1 \in S /\ bp \in Nat /\ 1 <= bp /\ bp <= k + 1
  <2>1. k + 1 \in S
    BY <1>1, <1>2
  <2>2. bp \in Entry /\ bp <= k + 1
    BY <1>3, <2>1
  <2> HIDE DEF bp, S
  <2> QED BY <2>1, <2>2 DEF Entry
<1>5. Sorted(X, k)
  BY DEF Table
<1>6. \A j \in 1..k : \A u \in RunOf(X[j]) : u \notin a .. a + n - 1
  BY UnitIn
<1>7. ASSUME NEW j \in 1..k, j < bp PROVE X[j].m_addr + X[j].m_size <= a
  <2>1. j \notin S
    <3> HIDE DEF bp, S
    <3> QED BY <1>3, <1>4, <1>7
  <2>2. X[j].m_addr <= a
    BY <1>1, <1>2, <2>1
  <2>3. a \notin RunOf(X[j])
    <3>1. a \in a .. a + n - 1
      OBVIOUS
    <3> QED BY <1>6, <3>1
  <2> QED BY <1>2, <2>2, <2>3 DEF RunOf
<1>8. ASSUME NEW j \in 1..k, bp <= j PROVE a + n <= X[j].m_addr
  <2>1. bp \in 1..k
    <3> HIDE DEF bp, S
    <3> QED BY <1>2, <1>4, <1>8
  <2>2. X[bp].m_addr > a
    <3> HIDE DEF bp
    <3> QED BY <1>1, <1>3, <2>1
  <2> HIDE DEF bp, S
  <2>3. X[j].m_addr > a
    <3>1. bp = j \/ X[bp].m_addr + X[bp].m_size < X[j].m_addr
      BY <1>4, <1>5, <1>8, <2>1 DEF Sorted
    <3> QED BY <1>2, <2>1, <2>2, <3>1
  <2>4. X[j].m_addr \notin a .. a + n - 1
    <3>1. X[j].m_addr \in RunOf(X[j])
      BY <1>2 DEF RunOf
    <3> QED BY <1>6, <3>1
  <2> QED BY <1>2, <2>3, <2>4
<1> HIDE DEF bp, S
<1>9. bp \in 1 .. k + 1
  BY <1>2, <1>4
<1>10. Between(k, bp, n, a)
  BY <1>7, <1>8, <1>9 DEF Between
<1> QED BY <1>10 DEF bp, S

\* What every way through rmfree has to do: the table has l entries now, and
\* the units are in it.
Freeing(k, l, n, a) ==
    /\ l \in 0 .. MAPSIZ - 2 /\ Table(X', l) /\ mapsize' + l = mapsize + k
    /\ UnitsOf(X', l) = UnitsOf(X, k) \cup (a .. a + n - 1)

\* One entry grows by the units.
LEMMA EntryGrows ==
    ASSUME NEW k, Table(X, k), mapsize \in Nat, NEW n \in Nat \ {0}, NEW a \in Nat \ {0},
           NEW i \in 1..k, NEW r \in Entries, X' = [X EXCEPT ![i] = r], mapsize' = mapsize,
           r.m_size = X[i].m_size + n,
           \/ r.m_addr = a /\ a + n = X[i].m_addr
           \/ r.m_addr = X[i].m_addr /\ X[i].m_addr + X[i].m_size = a,
           i # 1 => X[i - 1].m_addr + X[i - 1].m_size < r.m_addr,
           i # k => r.m_addr + r.m_size < X[i + 1].m_addr
    PROVE  Freeing(k, k, n, a)
<1>1. /\ k \in 0 .. MAPSIZ - 2 /\ k \in Nat /\ i \in Entry
      /\ X[i].m_addr \in Nat /\ X[i].m_size \in Nat /\ X[i].m_addr # 0 /\ X[i].m_size # 0
  BY TableTypes
<1>2. r.m_addr # 0 /\ r.m_size # 0
  BY <1>1
<1>3. /\ Table(X', k)
      /\ \A u : u \in UnitsOf(X', k) <=>
            u \in RunOf(r) \/ \E j \in 1..k : j # i /\ u \in RunOf(X[j])
  BY <1>2, EntryChanged
<1>4. \A u : u \in RunOf(r) <=> u \in RunOf(X[i]) \/ u \in a .. a + n - 1
  BY <1>1 DEF RunOf
<1>5. \A u : u \in UnitsOf(X, k) <=> u \in RunOf(X[i]) \/ \E j \in 1..k : j # i /\ u \in RunOf(X[j])
  BY UnitIn
<1>6. UnitsOf(X', k) = UnitsOf(X, k) \cup (a .. a + n - 1)
  BY <1>3, <1>4, <1>5
<1> QED BY <1>1, <1>3, <1>6 DEF Freeing

\* The units close the gap between two entries, and those become one.
LEMMA EntriesJoin ==
    ASSUME NEW k, Table(X, k), mapsize \in Nat, NEW n \in Nat \ {0}, NEW a \in Nat \ {0},
           NEW i \in 2..k, X[i - 1].m_addr + X[i - 1].m_size = a, a + n = X[i].m_addr,
           NEW r, r = [m_size |-> X[i - 1].m_size + n + X[i].m_size, m_addr |-> X[i - 1].m_addr],
           X' = ShiftUp([X EXCEPT ![i - 1] = r], i), mapsize' = mapsize + 1
    PROVE  Freeing(k, k - 1, n, a)
<1> DEFINE Y == [X EXCEPT ![i - 1] = r]
<1>1. /\ MAPSIZ \in Nat /\ k \in 1 .. MAPSIZ - 2 /\ k \in Nat /\ i \in Nat /\ 2 <= i /\ i <= k
      /\ 1..k \subseteq Entry /\ i \in 1..k /\ i - 1 \in 1..k /\ k + 1 \in Entry
      /\ \A j \in Entry : X[j] \in Entries
      /\ \A j \in 1..k : /\ X[j].m_addr \in Nat /\ X[j].m_size \in Nat
                         /\ X[j].m_addr # 0 /\ X[j].m_size # 0
  BY TableTypes
<1>2. Sorted(X, k)
  BY DEF Table
<1>3. /\ r \in Entries /\ r.m_addr = X[i - 1].m_addr /\ r.m_addr # 0 /\ r.m_size # 0
      /\ r.m_addr + r.m_size = X[i].m_addr + X[i].m_size
  <2>1. /\ X[i - 1].m_addr \in Nat /\ X[i - 1].m_size \in Nat /\ X[i - 1].m_addr # 0
        /\ X[i].m_addr \in Nat /\ X[i].m_size \in Nat /\ X[i].m_size # 0
    BY <1>1
  <2>2. r.m_size = X[i - 1].m_size + n + X[i].m_size /\ r.m_addr = X[i - 1].m_addr
    OBVIOUS
  <2>3. r \in Entries
    BY <2>1 DEF Entries
  <2> QED BY <2>1, <2>2, <2>3
<1>4. /\ Y \in [Entry -> Entries] /\ Y[i - 1] = r
      /\ \A j \in Entry : j # i - 1 => Y[j] = X[j]
  BY <1>1, <1>3 DEF Table
<1>5. X' = ShiftUp(Y, i)
  OBVIOUS
<1> HIDE DEF Y
<1>6. /\ X' \in [Entry -> Entries]
      /\ \A j \in Entry : X'[j] = IF i <= j /\ j <= k THEN Y[j + 1] ELSE Y[j]
  <2>1. \A j \in 1..k : j # i => Y[j].m_size # 0
    <3> SUFFICES ASSUME NEW j \in 1..k PROVE Y[j].m_size # 0
      OBVIOUS
    <3>1. Y[j] = r \/ Y[j] = X[j]
      BY <1>1, <1>4
    <3> QED BY <1>1, <1>3, <3>1
  <2>2. \A j \in Entry : k < j => Y[j] = Empty
    <3> SUFFICES ASSUME NEW j \in Entry, k < j PROVE Y[j] = Empty
      OBVIOUS
    <3>1. j # i - 1
      BY <1>1, <1>1 DEF Entry
    <3> QED BY <1>4, <3>1 DEF Table
  <2>3. k \in 1 .. MAPSIZ - 2 /\ i \in 1..k /\ Y \in [Entry -> Entries]
    BY <1>1, <1>4
  <2>4. /\ ShiftUp(Y, i) \in [Entry -> Entries]
        /\ \A j \in Entry : ShiftUp(Y, i)[j] = IF i <= j /\ j <= k THEN Y[j + 1] ELSE Y[j]
    BY <2>1, <2>2, <2>3, ShiftUpIs, Zenon
  <2> QED BY <1>5, <2>4
<1> DEFINE lo == i - 2
           hi == i + 1
           l == k - 1
<1>7. Replaces(X, k, lo, hi, r, X', l)
  <2>1. lo \in 0..k /\ hi \in lo + 1 .. k + 1 /\ l = k - (hi - lo) + 2 /\ lo + 1 = i - 1
    BY <1>1
  <2>2. \A j \in 1..lo : X'[j] = X[j]
    <3> SUFFICES ASSUME NEW j \in 1..lo PROVE X'[j] = X[j]
      OBVIOUS
    <3>1. j \in Entry /\ ~ (i <= j) /\ j # i - 1
      BY <1>1
    <3> QED BY <1>4, <1>6, <3>1
  <2>3. X'[lo + 1] = r
    <3>1. i - 1 \in Entry /\ ~ (i <= i - 1)
      BY <1>1
    <3> QED BY <1>4, <1>6, <2>1, <3>1
  <2>4. \A j \in 1..l : lo + 1 < j => X'[j] = X[j + (hi - lo) - 2]
    <3> SUFFICES ASSUME NEW j \in 1..l, lo + 1 < j PROVE X'[j] = X[j + (hi - lo) - 2]
      OBVIOUS
    <3>1. j + (hi - lo) - 2 = j + 1
      BY <1>1
    <3>2. j \in Entry /\ j + 1 \in Entry /\ i <= j /\ j <= k /\ j + 1 # i - 1
      BY <1>1
    <3> QED BY <1>4, <1>6, <3>1, <3>2
  <2>5. lo # 0 => X[lo].m_addr + X[lo].m_size < r.m_addr
    <3> SUFFICES ASSUME lo # 0 PROVE X[lo].m_addr + X[lo].m_size < X[i - 1].m_addr
      BY <1>3
    <3>1. lo \in 1..k /\ lo < i - 1
      BY <1>1
    <3> QED BY <1>1, <1>2, <3>1 DEF Sorted
  <2>6. hi <= k => r.m_addr + r.m_size < X[hi].m_addr
    <3> SUFFICES ASSUME hi <= k PROVE X[i].m_addr + X[i].m_size < X[hi].m_addr
      BY <1>3
    <3>1. hi \in 1..k /\ i < hi
      BY <1>1
    <3> QED BY <1>1, <1>2, <3>1 DEF Sorted
  <2> HIDE DEF lo, hi, l
  <2> QED BY <1>3, <2>1, <2>2, <2>3, <2>4, <2>5, <2>6 DEF Replaces
<1>8. \A j \in 1..k : (j <= lo \/ hi <= j) <=> (j # i /\ j # i - 1)
  BY <1>1
<1>9. l \in 0 .. MAPSIZ - 2 /\ mapsize' + l = mapsize + k
  BY <1>1
<1>10. \A j \in Entry : l < j => X'[j] = Empty
  <2> SUFFICES ASSUME NEW j \in Entry, l < j PROVE X'[j] = Empty
    OBVIOUS
  <2>1. \A m \in Entry : k < m => m # i - 1 /\ X[m] = Empty
    BY <1>1 DEF Table, Entry
  <2>2. CASE j = k
    <3>1. Y[k + 1] = Empty
      BY <1>1, <1>4, <2>1
    <3>2. X'[k] = Y[k + 1]
      <4>1. k \in Entry /\ i <= k /\ k <= k
        BY <1>1
      <4> QED BY <1>6, <4>1
    <3> QED BY <2>2, <3>1, <3>2
  <2>3. CASE k < j
    <3>1. ~ (j <= k)
      BY <1>1, <2>3 DEF Entry
    <3> QED BY <1>4, <1>6, <2>1, <2>3, <3>1
  <2> QED BY <1>1, <2>2, <2>3 DEF Entry
<1> HIDE DEF lo, hi, l
<1>11. /\ Sorted(X', l)
       /\ \A u : u \in UnitsOf(X', l) <=>
             u \in RunOf(r) \/ \E j \in 1..k : (j <= lo \/ hi <= j) /\ u \in RunOf(X[j])
  <2>1. k \in Nat
    BY <1>1
  <2>2. PICK g : g = X'
    OBVIOUS
  <2>3. Replaces(X, k, lo, hi, r, g, l)
    BY <1>7, <2>2
  <2>4. /\ Sorted(g, l)
        /\ \A u : u \in UnitsOf(g, l) <=>
             u \in RunOf(r) \/ \E j \in 1..k : (j <= lo \/ hi <= j) /\ u \in RunOf(X[j])
    BY <1>2, <2>1, <2>3, Replaced
  <2> QED BY <2>2, <2>4
<1>12. \A u : u \in RunOf(r) <=> \/ u \in RunOf(X[i - 1]) \/ u \in RunOf(X[i])
                               \/ u \in a .. a + n - 1
  <2>1. /\ X[i - 1].m_addr \in Nat /\ X[i - 1].m_size \in Nat /\ X[i - 1].m_addr # 0
        /\ X[i].m_addr \in Nat /\ X[i].m_size \in Nat /\ X[i].m_size # 0
    BY <1>1
  <2>2. r.m_size = X[i - 1].m_size + n + X[i].m_size /\ r.m_addr = X[i - 1].m_addr
    OBVIOUS
  <2> DEFINE s == r.m_size
             d == r.m_addr
             s1 == X[i - 1].m_size
             s2 == X[i].m_size
             d1 == X[i - 1].m_addr
             d2 == X[i].m_addr
  <2>3. \A u : u \in d .. d + s - 1 <=> \/ u \in d1 .. d1 + s1 - 1 \/ u \in d2 .. d2 + s2 - 1
                                      \/ u \in a .. a + n - 1
    <3>1. d = d1 /\ s = s1 + n + s2 /\ d1 + s1 = a /\ a + n = d2
      BY <2>2
    <3>2. d1 \in Nat /\ s1 \in Nat /\ d2 \in Nat /\ s2 \in Nat
      BY <2>1
    <3> HIDE DEF d, s, d1, s1, d2, s2
    <3> QED BY <3>1, <3>2
  <2> QED BY <2>3 DEF RunOf
<1>13. \A u : u \in UnitsOf(X, k) <=>
         \/ u \in RunOf(X[i - 1]) \/ u \in RunOf(X[i])
         \/ \E j \in 1..k : j # i /\ j # i - 1 /\ u \in RunOf(X[j])
  BY <1>1, UnitIn
<1>14. UnitsOf(X', l) = UnitsOf(X, k) \cup (a .. a + n - 1)
  BY <1>8, <1>11, <1>12, <1>13
<1>15. Freeing(k, l, n, a)
  BY <1>6, <1>9, <1>10, <1>11, <1>14 DEF Freeing, Table
<1> QED BY <1>15 DEF l

\* The units touch neither neighbour of the place bp
Alone(k, bp, n, a) ==
    /\ bp # 1 => X[bp - 1].m_addr + X[bp - 1].m_size # a
    /\ bp # k + 1 => a + n # X[bp].m_addr

\* Then they need an entry of their own.
LEMMA EntryAdded ==
    ASSUME NEW k, Table(X, k), NEW n \in Nat \ {0}, NEW a \in Nat \ {0}, NEW bp,
           Between(k, bp, n, a), Alone(k, bp, n, a),
           NEW g, \A j \in 1 .. k + 1 :
             g[j] = IF j = bp THEN [m_size |-> n, m_addr |-> a]
                    ELSE IF bp < j THEN X[j - 1] ELSE X[j]
    PROVE  Sorted(g, k + 1) /\ UnitsOf(g, k + 1) = UnitsOf(X, k) \cup (a .. a + n - 1)
<1> DEFINE r == [m_size |-> n, m_addr |-> a]
           lo == bp - 1
           l == k + 1
<1>1. /\ k \in Nat /\ bp \in 1 .. k + 1 /\ bp \in Nat /\ 1 <= bp /\ bp <= k + 1
      /\ \A j \in 1..k : X[j].m_addr \in Nat /\ X[j].m_size \in Nat
  <2>1. k \in Nat
    BY TableTypes
  <2> QED BY <2>1, TableTypes DEF Between
<1>2. r \in Entries /\ r.m_addr = a /\ r.m_size = n
  BY DEF Entries
<1>3. Replaces(X, k, lo, bp, r, g, l)
  <2>1. lo \in 0..k /\ bp \in lo + 1 .. k + 1 /\ l = k - (bp - lo) + 2 /\ lo + 1 = bp
    BY <1>1
  <2>2. \A j \in 1..lo : g[j] = X[j]
    BY <1>1
  <2>3. g[lo + 1] = r
    BY <1>1
  <2>4. \A j \in 1..l : lo + 1 < j => g[j] = X[j + (bp - lo) - 2]
    <3> SUFFICES ASSUME NEW j \in 1..l, lo + 1 < j PROVE g[j] = X[j + (bp - lo) - 2]
      OBVIOUS
    <3>1. j + (bp - lo) - 2 = j - 1 /\ bp < j /\ j # bp /\ j \in 1 .. k + 1
      BY <1>1
    <3> QED BY <3>1
  <2>5. lo # 0 => X[lo].m_addr + X[lo].m_size < r.m_addr
    <3> SUFFICES ASSUME lo # 0 PROVE X[lo].m_addr + X[lo].m_size < a
      BY <1>2
    <3>1. lo \in 1..k /\ lo < bp /\ bp # 1
      BY <1>1
    <3>2. X[lo].m_addr + X[lo].m_size <= a
      BY <3>1 DEF Between
    <3>3. X[lo].m_addr + X[lo].m_size # a
      BY <3>1 DEF Alone
    <3> QED BY <1>1, <3>1, <3>2, <3>3
  <2>6. bp <= k => r.m_addr + r.m_size < X[bp].m_addr
    <3> SUFFICES ASSUME bp <= k PROVE a + n < X[bp].m_addr
      BY <1>2
    <3>1. bp \in 1..k /\ bp <= bp /\ bp # k + 1
      BY <1>1
    <3>2. a + n <= X[bp].m_addr
      BY <3>1 DEF Between
    <3>3. a + n # X[bp].m_addr
      BY <3>1 DEF Alone
    <3> QED BY <1>1, <3>1, <3>2, <3>3
  <2>7. r.m_addr # 0 /\ r.m_size # 0
    BY <1>2
  <2> HIDE DEF lo, l, r
  <2> QED BY <1>2, <2>1, <2>2, <2>3, <2>4, <2>5, <2>6, <2>7 DEF Replaces
<1>4. \A j \in 1..k : j <= lo \/ bp <= j
  BY <1>1
<1>5. \A u : u \in RunOf(r) <=> u \in a .. a + n - 1
  BY <1>2 DEF RunOf
<1>6. Sorted(X, k) /\ k \in Nat
  BY <1>1 DEF Table
<1> HIDE DEF lo, r, l
<1>7. /\ Sorted(g, l)
      /\ \A u : u \in UnitsOf(g, l) <=>
            u \in RunOf(r) \/ \E j \in 1..k : (j <= lo \/ bp <= j) /\ u \in RunOf(X[j])
  BY <1>3, <1>6, Replaced
<1>8. UnitsOf(g, l) = UnitsOf(X, k) \cup (a .. a + n - 1)
  BY <1>4, <1>5, <1>7, UnitIn
<1> QED BY <1>7, <1>8 DEF l

\* An entry whose size changes keeps its address.
LEMMA SizeChanges ==
    ASSUME NEW r \in Entries, NEW s
    PROVE  [r EXCEPT !.m_size = s] = [m_size |-> s, m_addr |-> r.m_addr]
BY DEF Entries

\* rmfree puts the units into the table and wakes those who want some, unless
\* the units would need an entry and there is none.
LEMMA RmfreeFrees ==
    ASSUME NEW k, Table(X, k), mapsize = MAPSIZ - 2 - k,
           NEW n \in Nat \ {0}, NEW a \in Nat \ {0},
           \A u \in a .. a + n - 1 : u \notin UnitsOf(X, k),
           Rmfree(n, a)
    PROVE  \/ WakeWanting /\ \E l \in 0 .. MAPSIZ - 2 : Freeing(k, l, n, a)
           \/ /\ UNCHANGED <<X, mapsize, mapwant, wchan>>
              /\ Cardinality(Runs(UnitsOf(X, k) \cup (a .. a + n - 1))) > MAPSIZ - 2
<1> DEFINE bp == Smallest({i \in Entry : i \notin Used \/ X[i].m_addr > a})
           new == [m_size |-> n, m_addr |-> a]
           Joins == bp > 1 /\ X[bp - 1].m_addr + X[bp - 1].m_size = a
           Leads == a + n = X[bp].m_addr /\ X[bp].m_size # 0
<1>1. /\ k \in Nat /\ k <= MAPSIZ - 2 /\ MAPSIZ \in Nat /\ k + 1 \in Entry /\ k \in 0 .. MAPSIZ - 2
      /\ 1..k \subseteq Entry /\ X[k + 1] = Empty
      /\ \A i \in Entry : X[i] \in Entries /\ X[i].m_addr \in Nat /\ X[i].m_size \in Nat
      /\ \A i \in 1..k : X[i].m_addr # 0 /\ X[i].m_size # 0
  BY TableTypes
<1>2. Between(k, bp, n, a)
  BY PlaceFound
<1>3. \/ Joins /\ RmfreeJoin(bp, n) /\ WakeWanting
      \/ /\ ~ Joins /\ Leads
         /\ X' = [X EXCEPT ![bp] = [m_size |-> @.m_size + n, m_addr |-> a]]
         /\ mapsize' = mapsize /\ WakeWanting
      \/ /\ ~ Joins /\ ~ Leads
         /\ IF mapsize = 0
            THEN UNCHANGED <<X, mapsize, mapwant, wchan>>
            ELSE X' = ShiftDown(X, bp, new) /\ mapsize' = mapsize - 1 /\ WakeWanting
  BY DEF Rmfree
<1> HIDE DEF bp
<1>4. bp \in 1 .. k + 1 /\ bp \in Nat /\ 1 <= bp /\ bp <= k + 1
  BY <1>1, <1>2 DEF Between
<1>5. mapsize \in Nat /\ mapsize + k = MAPSIZ - 2
  BY <1>1
<1>6. Sorted(X, k)
  BY DEF Table
<1>7. Leads <=> bp # k + 1 /\ a + n = X[bp].m_addr
  <2>1. CASE bp = k + 1
    BY <1>1, <2>1 DEF Empty
  <2>2. CASE bp # k + 1
    BY <1>1, <1>4, <2>2
  <2> QED BY <2>1, <2>2
<1>8. CASE Joins /\ RmfreeJoin(bp, n) /\ WakeWanting
  <2>1. bp - 1 \in 1..k /\ bp - 1 \in Entry /\ bp # 1
    BY <1>1, <1>4, <1>8
  <2> DEFINE grown == [X EXCEPT ![bp - 1].m_size = @ + n]
             end == X[bp - 1].m_addr + X[bp - 1].m_size + n
             r1 == [m_size |-> X[bp - 1].m_size + n, m_addr |-> X[bp - 1].m_addr]
             r2 == [m_size |-> X[bp - 1].m_size + n + X[bp].m_size, m_addr |-> X[bp - 1].m_addr]
  <2>2. end = a + n
    BY <1>1, <1>8, <2>1
  <2>3. X[bp].m_addr # 0 <=> bp # k + 1
    <3>1. CASE bp = k + 1
      BY <1>1, <3>1 DEF Empty
    <3>2. CASE bp # k + 1
      BY <1>1, <1>4, <3>2
    <3> QED BY <3>1, <3>2
  <2>4. X \in [Entry -> Entries]
    BY DEF Table
  <2>5. grown = [X EXCEPT ![bp - 1] = r1]
    <3>1. [X[bp - 1] EXCEPT !.m_size = @ + n] = r1
      BY <2>1, <2>4, SizeChanges
    <3>2. grown = [X EXCEPT ![bp - 1] = [X[bp - 1] EXCEPT !.m_size = @ + n]]
      OBVIOUS
    <3> QED BY <3>1, <3>2
  <2>6. [grown EXCEPT ![bp - 1].m_size = @ + X[bp].m_size] = [X EXCEPT ![bp - 1] = r2]
    <3>1. /\ r1 \in Entries /\ r1.m_size = X[bp - 1].m_size + n /\ r1.m_addr = X[bp - 1].m_addr
          /\ X[bp].m_size \in Nat
      BY <1>1, <1>4, <2>1 DEF Entries
    <3> DEFINE Y == [X EXCEPT ![bp - 1] = r1]
               s == X[bp].m_size
    <3> HIDE DEF r1, grown
    <3>2. Y \in [Entry -> Entries] /\ Y[bp - 1] = r1
      BY <2>1, <2>4, <3>1
    <3>3. [Y EXCEPT ![bp - 1] = r2] = [X EXCEPT ![bp - 1] = r2]
      BY <2>1, <2>4
    <3> HIDE DEF Y, s
    <3>4. [Y EXCEPT ![bp - 1].m_size = @ + s] =
          [Y EXCEPT ![bp - 1] = [m_size |-> Y[bp - 1].m_size + s, m_addr |-> Y[bp - 1].m_addr]]
      <4>1. [Y[bp - 1] EXCEPT !.m_size = @ + s] =
            [m_size |-> Y[bp - 1].m_size + s, m_addr |-> Y[bp - 1].m_addr]
        BY <3>1, <3>2, SizeChanges
      <4>2. [Y EXCEPT ![bp - 1].m_size = @ + s] = [Y EXCEPT ![bp - 1] = [Y[bp - 1] EXCEPT !.m_size = @ + s]]
        OBVIOUS
      <4> QED BY <4>1, <4>2
    <3>5. Y[bp - 1].m_size + s = r2.m_size /\ Y[bp - 1].m_addr = r2.m_addr
      BY <3>1, <3>2 DEF s
    <3>6. grown = Y
      BY <2>5 DEF Y
    <3>7. [m_size |-> Y[bp - 1].m_size + s, m_addr |-> Y[bp - 1].m_addr] = r2
      BY <3>5
    <3> QED BY <3>3, <3>4, <3>6, <3>7 DEF s
  <2>7. CASE bp # k + 1 /\ a + n = X[bp].m_addr
    <3>1. X' = ShiftUp([X EXCEPT ![bp - 1] = r2], bp) /\ mapsize' = mapsize + 1
      BY <1>8, <2>2, <2>3, <2>6, <2>7 DEF RmfreeJoin
    <3>2. bp \in 2..k /\ X[bp - 1].m_addr + X[bp - 1].m_size = a
      BY <1>1, <1>4, <1>8, <2>1, <2>7
    <3>3. Freeing(k, k - 1, n, a)
      BY <1>5, <2>7, <3>1, <3>2, EntriesJoin
    <3>4. k - 1 \in 0 .. MAPSIZ - 2
      BY <1>1, <3>2
    <3> QED BY <1>8, <3>3, <3>4
  <2>8. CASE ~ (bp # k + 1 /\ a + n = X[bp].m_addr)
    <3>1. X' = [X EXCEPT ![bp - 1] = r1] /\ mapsize' = mapsize
      <4>1. ~ (X[bp].m_addr # 0 /\ end = X[bp].m_addr)
        BY <2>2, <2>3, <2>8
      <4> HIDE DEF r1
      <4> QED BY <1>8, <2>5, <4>1 DEF RmfreeJoin
    <3> DEFINE i == bp - 1
    <3>2. /\ X[i].m_addr \in Nat /\ X[i].m_size \in Nat /\ X[i].m_addr + X[i].m_size = a
          /\ r1 \in Entries /\ r1.m_size = X[i].m_size + n /\ r1.m_addr = X[i].m_addr
      BY <1>1, <1>8, <2>1 DEF Entries
    <3>3. i # 1 => X[i - 1].m_addr + X[i - 1].m_size < r1.m_addr
      <4> SUFFICES ASSUME i # 1 PROVE X[i - 1].m_addr + X[i - 1].m_size < X[i].m_addr
        BY <3>2
      <4>1. i - 1 \in 1..k /\ i \in 1..k /\ i - 1 < i
        BY <1>1, <1>4, <2>1
      <4> QED BY <1>6, <4>1 DEF Sorted
    <3>4. i # k => r1.m_addr + r1.m_size < X[i + 1].m_addr
      <4> SUFFICES ASSUME i # k PROVE a + n < X[bp].m_addr
        BY <1>4, <3>2
      <4>1. bp \in 1..k /\ bp # k + 1 /\ bp <= bp
        BY <1>1, <1>4
      <4>2. a + n <= X[bp].m_addr /\ a + n # X[bp].m_addr
        BY <1>2, <2>8, <4>1 DEF Between
      <4> QED BY <1>1, <4>1, <4>2
    <3>5. i \in 1..k
      BY <2>1
    <3> HIDE DEF i, r1
    <3>6. Freeing(k, k, n, a)
      <4>1. X' = [X EXCEPT ![i] = r1] /\ mapsize' = mapsize
        BY <3>1 DEF i
      <4> QED BY <1>5, <3>2, <3>3, <3>4, <3>5, <4>1, EntryGrows
    <3> QED BY <1>1, <1>8, <3>6
  <2> QED BY <2>7, <2>8
<1>9. bp # 1 => (Joins <=> X[bp - 1].m_addr + X[bp - 1].m_size = a)
  BY <1>4
<1>10. ASSUME ~ Joins, Leads, WakeWanting, mapsize' = mapsize,
              X' = [X EXCEPT ![bp] = [m_size |-> @.m_size + n, m_addr |-> a]]
       PROVE  Freeing(k, k, n, a)
  <2> DEFINE r == [m_size |-> X[bp].m_size + n, m_addr |-> a]
  <2>1. bp \in 1..k /\ bp # k + 1 /\ a + n = X[bp].m_addr
    BY <1>1, <1>4, <1>7, <1>10
  <2>2. X' = [X EXCEPT ![bp] = r]
    BY <1>10
  <2>3. /\ X[bp].m_addr \in Nat /\ X[bp].m_size \in Nat
        /\ r \in Entries /\ r.m_size = X[bp].m_size + n /\ r.m_addr = a
    BY <1>1, <2>1 DEF Entries
  <2>4. bp # 1 => X[bp - 1].m_addr + X[bp - 1].m_size < r.m_addr
    <3> SUFFICES ASSUME bp # 1 PROVE X[bp - 1].m_addr + X[bp - 1].m_size < a
      BY <2>3
    <3>1. bp - 1 \in 1..k /\ bp - 1 < bp
      BY <1>1, <1>4, <2>1
    <3>2. X[bp - 1].m_addr + X[bp - 1].m_size <= a
      BY <1>2, <3>1 DEF Between
    <3>3. X[bp - 1].m_addr + X[bp - 1].m_size # a
      BY <1>9, <1>10
    <3>4. X[bp - 1].m_addr \in Nat /\ X[bp - 1].m_size \in Nat
      BY <1>1, <3>1
    <3> QED BY <3>2, <3>3, <3>4
  <2>5. bp # k => r.m_addr + r.m_size < X[bp + 1].m_addr
    <3> SUFFICES ASSUME bp # k PROVE X[bp].m_addr + X[bp].m_size < X[bp + 1].m_addr
      BY <2>1, <2>3
    <3>1. bp + 1 \in 1..k /\ bp < bp + 1
      BY <1>1, <2>1
    <3> QED BY <1>6, <2>1, <3>1 DEF Sorted
  <2> HIDE DEF r
  <2> QED BY <1>5, <1>10, <2>1, <2>2, <2>3, <2>4, <2>5, EntryGrows
<1>11. ASSUME ~ Joins, ~ Leads PROVE Alone(k, bp, n, a)
  BY <1>7, <1>9, <1>11 DEF Alone
<1>12. ASSUME ~ Joins, ~ Leads, mapsize # 0, X' = ShiftDown(X, bp, new), mapsize' = mapsize - 1
       PROVE  Freeing(k, k + 1, n, a) /\ k + 1 \in 0 .. MAPSIZ - 2
  <2>1. k \in 0 .. MAPSIZ - 3 /\ k + 1 \in 0 .. MAPSIZ - 2
    BY <1>1, <1>5, <1>12
  <2>2. new \in Entries
    BY DEF Entries
  <2>3. X \in [Entry -> Entries] /\ \A j \in Entry : k < j => X[j] = Empty
    BY DEF Table
  <2>4. \A j \in 1..k : X[j].m_size # 0
    BY <1>1
  <2> HIDE DEF new, Joins, Leads
  <2>5. /\ X' \in [Entry -> Entries]
        /\ \A j \in Entry : X'[j] =
             IF j = bp THEN new ELSE IF bp < j /\ j <= k + 1 THEN X[j - 1] ELSE X[j]
    <3>1. /\ ShiftDown(X, bp, new) \in [Entry -> Entries]
          /\ \A j \in Entry : ShiftDown(X, bp, new)[j] =
               IF j = bp THEN new ELSE IF bp < j /\ j <= k + 1 THEN X[j - 1] ELSE X[j]
      BY <1>4, <2>1, <2>2, <2>3, <2>4, ShiftDownIs, Zenon
    <3> QED BY <1>12, <3>1
  <2>6. \A j \in 1 .. k + 1 : X'[j] = IF j = bp THEN new ELSE IF bp < j THEN X[j - 1] ELSE X[j]
    <3> SUFFICES ASSUME NEW j \in 1 .. k + 1
                 PROVE  X'[j] = IF j = bp THEN new ELSE IF bp < j THEN X[j - 1] ELSE X[j]
      OBVIOUS
    <3>1. j \in Entry /\ j <= k + 1
      BY <1>1
    <3> QED BY <2>5, <3>1
  <2>7. Sorted(X', k + 1) /\ UnitsOf(X', k + 1) = UnitsOf(X, k) \cup (a .. a + n - 1)
    BY <1>2, <1>11, <1>12, <2>6, EntryAdded DEF new
  <2>8. \A j \in Entry : k + 1 < j => X'[j] = Empty
    <3> SUFFICES ASSUME NEW j \in Entry, k + 1 < j PROVE X'[j] = Empty
      OBVIOUS
    <3>1. j # bp /\ ~ (j <= k + 1) /\ k < j
      BY <1>1, <1>4 DEF Entry
    <3> QED BY <2>3, <2>5, <3>1
  <2>9. mapsize' + (k + 1) = mapsize + k
    BY <1>1, <1>5, <1>12
  <2> QED BY <2>1, <2>5, <2>7, <2>8, <2>9 DEF Freeing, Table
<1>13. ASSUME ~ Joins, ~ Leads, mapsize = 0
       PROVE  Cardinality(Runs(UnitsOf(X, k) \cup (a .. a + n - 1))) > MAPSIZ - 2
  <2> DEFINE g == [j \in 1 .. k + 1 |-> IF j = bp THEN new ELSE IF bp < j THEN X[j - 1] ELSE X[j]]
  <2>1. \A j \in 1 .. k + 1 : g[j] = IF j = bp THEN new ELSE IF bp < j THEN X[j - 1] ELSE X[j]
    OBVIOUS
  <2> HIDE DEF g, Joins, Leads
  <2>2. Sorted(g, k + 1) /\ UnitsOf(g, k + 1) = UnitsOf(X, k) \cup (a .. a + n - 1)
    BY <1>2, <1>11, <1>13, <2>1, EntryAdded
  <2>3. k + 1 \in Nat /\ k + 1 > MAPSIZ - 2
    <3>1. k = MAPSIZ - 2
      BY <1>1, <1>5, <1>13
    <3> QED BY <1>1, <3>1
  <2>4. Cardinality(Runs(UnitsOf(g, k + 1))) = k + 1
    BY <2>2, <2>3, RunsCounted
  <2> QED BY <2>2, <2>3, <2>4
<1> HIDE DEF Joins, Leads
<1> QED BY <1>1, <1>3, <1>8, <1>10, <1>12, <1>13
-----------------------------------------------------------------------------
(* The callers *)

\* A step of the set of free units, as FreeMap allows it
FreeMapStep ==
    \E n, a \in 1 .. Units :
      \/ /\ Fits(Free, n, a)
         /\ Free' = Free \ (a .. a + n - 1) /\ held' = held \cup (a .. a + n - 1)
      \/ /\ Free' = Freed(Free, a .. a + n - 1, MAPSIZ - 2)
         /\ held' = held \ (a .. a + n - 1)

\* The first state.
LEMMA InitInv == Init => Inv /\ Free = 1 .. Units
<1> SUFFICES ASSUME Init PROVE Inv /\ Free = 1 .. Units
  OBVIOUS
<1>1. MAPSIZ \in Nat /\ 3 <= MAPSIZ /\ Units \in Nat /\ 1 <= Units
  BY MapAssumption
<1>2. /\ X \in [Entry -> Entries] /\ 1 \in Entry
      /\ X[1] = [m_size |-> Units, m_addr |-> 1]
      /\ \A i \in Entry : 1 < i => X[i] = Empty
  BY <1>1 DEF Init, Entry, Entries, Empty
<1>3. 1..1 = {1}
  OBVIOUS
<1>4. Sorted(X, 1)
  BY <1>1, <1>2, <1>3 DEF Sorted
<1>5. Table(X, 1)
  BY <1>1, <1>2, <1>4 DEF Table
<1>6. UnitsOf(X, 1) = 1 .. Units
  <2>1. RunOf(X[1]) = 1 .. Units
    BY <1>1, <1>2 DEF RunOf
  <2>2. \A u : u \in UnitsOf(X, 1) <=> u \in RunOf(X[1])
    BY <1>3, UnitIn
  <2> QED BY <2>1, <2>2
<1>7. 1 \in 0 .. MAPSIZ - 2 /\ mapsize = MAPSIZ - 2 - 1 /\ held = {}
  BY <1>1 DEF Init
<1>8. TableOK
  BY <1>5, <1>6, <1>7 DEF TableOK
<1>9. SleepersOK
  BY <1>1 DEF Init, SleepersOK, WantersStarved, Asleep
<1> QED BY <1>5, <1>6, <1>8, <1>9, UsedIs DEF Inv

\* When no entry has n units there is no window of n units.
LEMMA NoneFits ==
    ASSUME NEW k, Table(X, k), NEW n \in Nat \ {0}, Enough(n) = {}
    PROVE  Windows(Free, n) = {}
<1>1. Used = 1..k /\ Free = UnitsOf(X, k)
  BY UsedIs
<1>2. k \in Nat /\ \A i \in 1..k : X[i].m_addr \in Nat /\ X[i].m_size \in Nat
  BY TableTypes
<1> SUFFICES ASSUME NEW a \in UnitsOf(X, k), a .. a + n - 1 \subseteq UnitsOf(X, k) PROVE FALSE
  BY <1>1 DEF Windows
<1>3. a \in Int
  <2>1. PICK i \in 1..k : a \in RunOf(X[i])
    BY UnitIn
  <2> QED BY <1>2, <2>1 DEF RunOf
<1>4. Sorted(X, k)
  BY DEF Table
<1>5. PICK i \in 1..k : X[i].m_addr <= a /\ a + n <= X[i].m_addr + X[i].m_size
  BY <1>2, <1>3, <1>4, WindowIn
<1>6. i \in Enough(n)
  BY <1>1, <1>2, <1>3, <1>5 DEF Enough
<1> QED BY <1>6

\* Where fewer units are free there are fewer windows.
LEMMA FewerWindows ==
    ASSUME NEW F, NEW G, G \subseteq F, NEW n
    PROVE  Windows(G, n) \subseteq Windows(F, n)
BY DEF Windows

\* Take that gets its units.
LEMMA TakeGets ==
    ASSUME Inv, NEW n \in 1 .. Units, NEW a \in 1 .. Units, Rmalloc(n, a),
           held' = held \cup (a .. a + n - 1), UNCHANGED <<mapwant, need, wchan>>
    PROVE  Inv' /\ FreeMapStep
<1>1. n \in Nat \ {0} /\ a \in Nat \ {0}
  BY MapAssumption
<1>2. PICK k \in 0 .. MAPSIZ - 2 :
        /\ Table(X, k) /\ mapsize = MAPSIZ - 2 - k
        /\ UnitsOf(X, k) \subseteq (1 .. Units) \ held
  BY DEF Inv, TableOK
<1>3. k \in Nat /\ MAPSIZ \in Nat /\ mapsize \in Nat
  BY <1>2, MapAssumption
<1>4. Free = UnitsOf(X, k)
  BY <1>2, UsedIs
<1>5. Fits(Free, n, a)
  BY <1>1, <1>2, <1>3, <1>4, RmallocTakes
<1>6. PICK l \in 0 .. MAPSIZ - 2 :
        /\ Table(X', l) /\ mapsize' + l = mapsize + k
        /\ UnitsOf(X', l) = UnitsOf(X, k) \ (a .. a + n - 1)
  BY <1>1, <1>2, <1>3, RmallocTakes
<1>7. Free' = UnitsOf(X', l)
  BY <1>6, UsedIsNext
<1>8. Free' = Free \ (a .. a + n - 1)
  BY <1>4, <1>6, <1>7
<1>9. FreeMapStep
  BY <1>5, <1>8 DEF FreeMapStep
<1>10. a .. a + n - 1 \subseteq 1 .. Units
  BY <1>2, <1>4, <1>5 DEF Fits, Windows
<1>11. mapsize' = MAPSIZ - 2 - l
  <2>1. mapsize' = mapsize + k - l
    <3>1. (UNCHANGED mapsize \/ mapsize' = mapsize + 1)
      BY DEF Rmalloc
    <3> QED BY <1>3, <1>6, <3>1
  <2> QED BY <1>2, <1>3, <2>1
<1>12. TableOK'
  <2>1. held' \subseteq 1 .. Units
    BY <1>10 DEF Inv, TableOK
  <2>2. UnitsOf(X', l) \subseteq (1 .. Units) \ held'
    BY <1>2, <1>6
  <2> QED BY <1>6, <1>11, <2>1, <2>2 DEF TableOK
<1>13. SleepersOK'
  <2>1. \A p \in Proc : Windows(Free', need[p]) \subseteq Windows(Free, need[p])
    BY <1>8, FewerWindows
  <2> QED BY <2>1 DEF Inv, SleepersOK, WantersStarved, Asleep
<1> QED BY <1>9, <1>12, <1>13 DEF Inv

\* Take that finds nothing and sleeps.
LEMMA TakeSleeps ==
    ASSUME Inv, NEW n \in 1 .. Units, NEW p \in Proc, Enough(n) = {},
           mapwant' = TRUE, need' = [need EXCEPT ![p] = n], GoToSleep(p, Map),
           UNCHANGED <<X, mapsize, held>>
    PROVE  Inv' /\ UNCHANGED <<Free, held>>
<1>1. n \in Nat \ {0}
  BY MapAssumption
<1>2. PICK k \in 0 .. MAPSIZ - 2 :
        /\ Table(X, k) /\ mapsize = MAPSIZ - 2 - k
        /\ UnitsOf(X, k) \subseteq (1 .. Units) \ held
  BY DEF Inv, TableOK
<1>3. Free = UnitsOf(X, k) /\ Free' = UnitsOf(X, k)
  BY <1>2, UsedIs, UsedIsNext
<1>4. TableOK'
  BY <1>2 DEF Inv, TableOK
<1>5. Windows(Free, n) = {}
  BY <1>1, <1>2, NoneFits
<1>6. SleepersOK'
  <2>1. /\ wchan' \in [Proc -> {NoChan, Map}] /\ need' \in [Proc -> Nat] /\ mapwant' \in BOOLEAN
        /\ need'[p] = n /\ \A q \in Proc : q # p => need'[q] = need[q] /\ wchan'[q] = wchan[q]
    BY <1>1 DEF Inv, SleepersOK, GoToSleep
  <2>2. \A q \in Proc : Asleep(q)' => mapwant' /\ Windows(Free', need'[q]) = {}
    BY <1>3, <1>5, <2>1 DEF Inv, SleepersOK, WantersStarved, Asleep
  <2> QED BY <2>1, <2>2 DEF SleepersOK, WantersStarved, Asleep
<1> QED BY <1>3, <1>4, <1>6 DEF Inv

\* Give.
LEMMA GiveKeeps ==
    ASSUME Inv, NEW n \in 1 .. Units, NEW a \in 1 .. Units, Give(n, a)
    PROVE  Inv' /\ FreeMapStep
<1> DEFINE units == a .. a + n - 1
<1>1. n \in Nat \ {0} /\ a \in Nat \ {0}
  BY MapAssumption
<1>2. PICK k \in 0 .. MAPSIZ - 2 :
        /\ Table(X, k) /\ mapsize = MAPSIZ - 2 - k
        /\ UnitsOf(X, k) \subseteq (1 .. Units) \ held
  BY DEF Inv, TableOK
<1>3. k \in Nat /\ MAPSIZ \in Nat /\ mapsize \in Nat /\ mapsize + k = MAPSIZ - 2
  BY <1>2, MapAssumption
<1>4. Free = UnitsOf(X, k)
  BY <1>2, UsedIs
<1>5. units \subseteq held /\ Rmfree(n, a) /\ held' = held \ units /\ need' = need
  BY DEF Give
<1>6. held \subseteq 1 .. Units
  BY DEF Inv, TableOK
<1>7. \/ WakeWanting /\ \E l \in 0 .. MAPSIZ - 2 : Freeing(k, l, n, a)
      \/ /\ UNCHANGED <<X, mapsize, mapwant, wchan>>
         /\ Cardinality(Runs(UnitsOf(X, k) \cup units)) > MAPSIZ - 2
  BY <1>1, <1>2, <1>5, RmfreeFrees
<1>8. CASE WakeWanting /\ \E l \in 0 .. MAPSIZ - 2 : Freeing(k, l, n, a)
  <2>1. PICK l \in 0 .. MAPSIZ - 2 : Freeing(k, l, n, a)
    BY <1>8
  <2>2. /\ Table(X', l) /\ mapsize' + l = MAPSIZ - 2
        /\ UnitsOf(X', l) = UnitsOf(X, k) \cup units
    BY <1>3, <2>1 DEF Freeing
  <2>3. Free' = UnitsOf(X', l)
    BY <2>2, UsedIsNext
  <2>4. Cardinality(Runs(Free')) = l /\ ~ (l > MAPSIZ - 2)
    <3>1. Sorted(X', l) /\ l \in Nat
      BY <2>2 DEF Table
    <3> QED BY <1>3, <2>3, <3>1, RunsCounted
  <2>5. Free' = Free \cup units
    BY <1>4, <2>2, <2>3
  <2>6. FreeMapStep
    BY <1>5, <2>4, <2>5 DEF FreeMapStep, Freed
  <2>7. mapsize' \in Int
    BY <1>5, <1>3 DEF Rmfree, RmfreeJoin
  <2>8. TableOK'
    <3>1. mapsize' = MAPSIZ - 2 - l
      <4>1. mapsize' + l = MAPSIZ - 2 /\ l \in Nat /\ MAPSIZ \in Nat
        BY <1>3, <2>2
      <4>2. \A x \in Int, y, m \in Nat : x + y = m - 2 => x = m - 2 - y
        OBVIOUS
      <4> QED BY <2>7, <4>1, <4>2
    <3>2. held' \subseteq 1 .. Units
      BY <1>5, <1>6
    <3>3. UnitsOf(X', l) \subseteq (1 .. Units) \ held'
      BY <1>2, <1>5, <1>6, <2>2
    <3> QED BY <2>2, <3>1, <3>2, <3>3 DEF TableOK
  <2>9. SleepersOK'
    <3>1. wchan' \in [Proc -> {NoChan, Map}] /\ need' \in [Proc -> Nat] /\ mapwant' \in BOOLEAN
      BY <1>5, <1>8 DEF Inv, SleepersOK, WakeWanting, Wakeprocs
    <3>2. \A p \in Proc : wchan'[p] = NoChan
      <4> SUFFICES ASSUME NEW p \in Proc PROVE wchan'[p] = NoChan
        OBVIOUS
      <4>1. CASE mapwant
        <5>1. wchan[p] = NoChan \/ wchan[p] = Map
          BY DEF Inv, SleepersOK
        <5> QED BY <1>8, <4>1, <5>1 DEF WakeWanting, Wakeprocs
      <4>2. CASE ~ mapwant
        BY <1>8, <4>2 DEF Inv, SleepersOK, WantersStarved, Asleep, WakeWanting
      <4> QED BY <4>1, <4>2
    <3> QED BY <3>1, <3>2 DEF SleepersOK, WantersStarved, Asleep
  <2> QED BY <2>6, <2>8, <2>9 DEF Inv
<1>9. CASE /\ UNCHANGED <<X, mapsize, mapwant, wchan>>
           /\ Cardinality(Runs(UnitsOf(X, k) \cup units)) > MAPSIZ - 2
  <2>1. Free' = Free
    BY <1>2, <1>4, <1>9, UsedIsNext
  <2>2. FreeMapStep
    BY <1>4, <1>5, <1>9, <2>1 DEF FreeMapStep, Freed
  <2>3. TableOK'
    BY <1>2, <1>5, <1>6, <1>9 DEF TableOK
  <2>4. SleepersOK'
    BY <1>5, <1>9, <2>1 DEF Inv, SleepersOK, WantersStarved, Asleep
  <2> QED BY <2>2, <2>3, <2>4 DEF Inv
<1> QED BY <1>7, <1>8, <1>9

\* Leave.
LEMMA LeaveKeeps ==
    ASSUME Inv, NEW p \in Proc, Leave(p)
    PROVE  Inv' /\ UNCHANGED <<Free, held>>
<1>1. UNCHANGED <<X, mapsize, mapwant, held, need>> /\ wchan' = [wchan EXCEPT ![p] = NoChan]
  BY DEF Leave, Setrun
<1>2. UNCHANGED <<Free, held>>
  BY <1>1 DEF Free, Run, Used
<1>3. TableOK'
  BY <1>1 DEF Inv, TableOK
<1>4. SleepersOK'
  BY <1>1, <1>2 DEF Inv, SleepersOK, WantersStarved, Asleep
<1> QED BY <1>2, <1>3, <1>4 DEF Inv

\* Every step keeps the invariant and does to the free units what FreeMap says.
LEMMA NextInv == Inv /\ [Next]_vars => Inv' /\ [FreeMapStep]_<<Free, held>>
<1> SUFFICES ASSUME Inv, [Next]_vars PROVE Inv' /\ [FreeMapStep]_<<Free, held>>
  OBVIOUS
<1>1. ASSUME NEW n \in 1 .. Units, NEW p \in Proc, Take(p, n)
      PROVE  Inv' /\ [FreeMapStep]_<<Free, held>>
  BY <1>1, TakeGets, TakeSleeps DEF Take
<1>2. ASSUME NEW n \in 1 .. Units, NEW a \in 1 .. Units, Give(n, a)
      PROVE  Inv' /\ [FreeMapStep]_<<Free, held>>
  BY <1>2, GiveKeeps
<1>3. ASSUME NEW p \in Proc, Leave(p) PROVE Inv' /\ [FreeMapStep]_<<Free, held>>
  BY <1>3, LeaveKeeps
<1>4. CASE UNCHANGED vars
  <2>1. UNCHANGED <<X, mapsize, mapwant, held, need, wchan>>
    BY <1>4 DEF vars
  <2>2. UNCHANGED <<Free, held>>
    BY <2>1 DEF Free, Run, Used
  <2>3. TableOK'
    BY <2>1 DEF Inv, TableOK
  <2>4. SleepersOK'
    BY <2>1, <2>2 DEF Inv, SleepersOK, WantersStarved, Asleep
  <2> QED BY <2>2, <2>3, <2>4 DEF Inv
<1> QED BY <1>1, <1>2, <1>3, <1>4 DEF Next

\* The invariant holds in every state.
LEMMA Always == Spec => []Inv
<1>1. Init => Inv
  BY InitInv
<1>2. Inv /\ [Next]_vars => Inv'
  BY NextInv
<1> QED BY <1>1, <1>2, PTL DEF Spec

\* TableSorted, the form of the table that rmalloc's and rmfree's loops rely on,
\* holds for tables of every size and every number of units.
THEOREM TablesStaySorted == Spec => []TableSorted
<1>1. Inv => TableSorted
  <2> SUFFICES ASSUME Inv PROVE TableSorted
    OBVIOUS
  <2>1. PICK k \in 0 .. MAPSIZ - 2 :
          /\ Table(X, k) /\ mapsize = MAPSIZ - 2 - k
          /\ UnitsOf(X, k) \subseteq (1 .. Units) \ held
    BY DEF Inv, TableOK
  <2>2. Used = 1..k /\ Free = UnitsOf(X, k) /\ k \in Nat /\ MAPSIZ \in Nat
    BY <2>1, UsedIs, MapAssumption
  <2>3. \A i \in Entry \ Used : X[i] = Empty
    <3>1. \A i \in Entry : i \notin 1..k => k < i
      BY <2>2 DEF Entry
    <3> QED BY <2>1, <2>2, <3>1 DEF Table
  <2>4. MAPSIZ - 1 \notin Used
    BY <2>2
  <2>5. \A i \in Used : i + 1 \in Used => X[i].m_addr + X[i].m_size < X[i + 1].m_addr
    BY <2>1, <2>2 DEF Table, Sorted
  <2>6. mapsize + Cardinality(Used) = MAPSIZ - 2
    <3>1. Cardinality(1..k) = k
      BY <2>2, FS_Interval
    <3> QED BY <2>1, <2>2, <3>1
  <2> QED BY <2>1, <2>2, <2>3, <2>4, <2>5, <2>6 DEF TableSorted
<1> QED BY <1>1, Always, PTL

\* WantersStarved, that nobody sleeps on the map for units that are there,
\* because rmfree wakes everybody whenever mapwant is set.
THEOREM NobodyWantsInVain == Spec => []WantersStarved
<1>1. Inv => WantersStarved
  BY DEF Inv, SleepersOK
<1> QED BY <1>1, Always, PTL

\* ImplementsFreeMap, that the table does what the code that calls rmalloc and
\* rmfree takes it for: a set of free units of which a full table loses some.
THEOREM RMapImplementsFreeMap == Spec => ImplementsFreeMap
<1>1. Init => Free = 1 .. Units
  BY InitInv
<1>2. Inv /\ [Next]_vars => [FreeMapStep]_<<Free, held>>
  BY NextInv
<1> QED BY <1>1, <1>2, Always, PTL DEF Spec, ImplementsFreeMap, FreeMapStep
=============================================================================
