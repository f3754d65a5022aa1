-------------------------- MODULE InductionLemmas ---------------------------
(***************************************************************************)
(* Induction and recursion stated with sets: what is proved for every n is *)
(* the membership of n in a set, and what is iterated is a function.       *)
(* The proofs about recursive definitions rest on these lemmas.            *)
(***************************************************************************)
EXTENDS Integers, FiniteSets, TLAPS, Sequences, WellFoundedInduction,
        FiniteSetTheorems, SequenceTheorems, SequencesExt

\* A leaf is tried with SMT, then with Zenon, then with more time for each
USE SMT, Zenon, SMTT(30), ZenonT(60)

\* A set of natural numbers that is not empty has a least element.
LEMMA NatLeast ==
    ASSUME NEW T \in SUBSET Nat, T # {}
    PROVE  \E m \in T : \A n \in T : m <= n
<1> DEFINE R == OpToRel(<, Nat)
<1>1. PICK x \in T : \A y \in T : ~ (<<y, x>> \in R)
  BY NatLessThanWellFounded, WFMin
<1>2. \A y \in T : ~ (y < x)
  BY <1>1 DEF OpToRel
<1> QED BY <1>2

\* A set of integers that is bounded below has a least element.
LEMMA IntLeast ==
    ASSUME NEW T \in SUBSET Int, T # {}, NEW b \in Int, \A n \in T : b <= n
    PROVE  \E m \in T : \A n \in T : m <= n
<1> DEFINE U == {k \in Nat : b + k \in T}
<1>1. PICK t \in T : TRUE
  OBVIOUS
<1>2. t - b \in U
  BY b + (t - b) = t
<1>3. PICK k \in U : \A j \in U : k <= j
  BY <1>2, NatLeast
<1>4. ASSUME NEW n \in T PROVE b + k <= n
  <2>1. n - b \in U
    BY b + (n - b) = n
  <2> QED BY <1>3, <2>1
<1> QED BY <1>3, <1>4

\* A set of integers that is bounded above has a greatest element.
LEMMA IntGreatest ==
    ASSUME NEW T \in SUBSET Int, T # {}, NEW b \in Int, \A n \in T : n <= b
    PROVE  \E m \in T : \A n \in T : n <= m
<1> DEFINE U == {k \in Int : -k \in T}
<1>1. PICK t \in T : TRUE
  OBVIOUS
<1>2. -t \in U /\ -b \in Int /\ \A n \in U : -b <= n
  BY t = -(-t)
<1>3. PICK m \in U : \A n \in U : m <= n
  <2> HIDE DEF U
  <2>1. U \in SUBSET Int
    BY DEF U
  <2> QED BY <1>2, <2>1, IntLeast
<1>4. ASSUME NEW n \in T PROVE n <= -m
  <2>1. -n \in U
    BY n = -(-n)
  <2> QED BY <1>3, <2>1
<1> QED BY <1>3, <1>4

\* A set that holds 0 and the successor of each of its numbers holds every
\* natural number.
LEMMA SetInduction ==
    ASSUME NEW S, 0 \in S, \A n \in Nat : n \in S => n + 1 \in S
    PROVE  \A n \in Nat : n \in S
<1> SUFFICES ASSUME NEW k \in Nat, k \notin S PROVE FALSE
  OBVIOUS
<1> DEFINE T == Nat \ S
<1>1. PICK m \in T : \A n \in T : m <= n
  BY NatLeast
<1>2. m # 0 /\ m - 1 \in Nat
  BY <1>1
<1>3. m - 1 \in S
  BY <1>1, <1>2
<1> QED BY <1>1, <1>2, <1>3, m = (m - 1) + 1

\* A function on a set can be iterated from any of its members.
LEMMA Iteration ==
    ASSUME NEW V, NEW init \in V, NEW step \in [V -> V]
    PROVE  \E f \in [Nat -> V] : f[0] = init /\ \A n \in Nat : f[n + 1] = step[f[n]]
<1> DEFINE Run(n) == {g \in [0..n -> V] : g[0] = init /\
                         \A i \in Nat : i < n => g[i + 1] = step[g[i]]}
           S == {n \in Nat : Run(n) # {}}
<1>1. \A n \in Nat : n \in S
  <2>1. 0 \in S
    <3>1. [i \in 0..0 |-> init] \in Run(0)
      OBVIOUS
    <3> QED BY <3>1
  <2>2. ASSUME NEW n \in Nat, n \in S PROVE n + 1 \in S
    <3>1. PICK g \in [0..n -> V] : g[0] = init /\ \A i \in Nat : i < n => g[i + 1] = step[g[i]]
      BY <2>2
    <3> DEFINE h == [i \in 0..(n + 1) |-> IF i = n + 1 THEN step[g[n]] ELSE g[i]]
    <3>2. h \in [0..(n + 1) -> V] /\ h[0] = init
      BY <3>1
    <3>3. \A i \in Nat : i < n + 1 => h[i + 1] = step[h[i]]
      BY <3>1
    <3> HIDE DEF h
    <3> QED BY <3>2, <3>3
  <2> HIDE DEF S
  <2> QED BY <2>1, <2>2, SetInduction
<1>2. ASSUME NEW n \in Nat, NEW g \in Run(n), NEW h \in Run(n + 1) PROVE g[n] = h[n]
  <2> DEFINE A == {i \in Nat : i <= n => g[i] = h[i]}
  <2>1. 0 \in A
    OBVIOUS
  <2>2. ASSUME NEW i \in Nat, i \in A PROVE i + 1 \in A
    BY <2>2
  <2>3. n \in A
    <3> HIDE DEF A
    <3> QED BY <2>1, <2>2, SetInduction
  <2> QED BY <2>3
<1> DEFINE G(n) == CHOOSE g : g \in Run(n)
           f == [n \in Nat |-> G(n)[n]]
<1>3. \A n \in Nat : G(n) \in Run(n)
  <2>1. \A n \in Nat : Run(n) # {}
    BY <1>1
  <2> HIDE DEF Run
  <2> QED BY <2>1
<1>4. f \in [Nat -> V] /\ f[0] = init
  <2>1. \A n \in Nat : G(n) \in [0..n -> V] /\ G(n)[0] = init
    <3> HIDE DEF G
    <3> QED BY <1>3
  <2>2. \A n \in Nat : n \in 0..n
    OBVIOUS
  <2> HIDE DEF G
  <2> QED BY <2>1, <2>2
<1>5. ASSUME NEW n \in Nat PROVE f[n + 1] = step[f[n]]
  <2>1. G(n) \in Run(n) /\ G(n + 1) \in Run(n + 1)
    <3> HIDE DEF G, Run
    <3>1. n + 1 \in Nat
      OBVIOUS
    <3> QED BY <1>3, <3>1
  <2> HIDE DEF G
  <2>2. G(n)[n] = G(n + 1)[n]
    BY <1>2, <2>1
  <2>3. G(n + 1)[n + 1] = step[G(n + 1)[n]]
    BY <2>1
  <2> QED BY <2>2, <2>3
<1> QED BY <1>4, <1>5

\* A collection that holds the empty set, and with a set the set that has one
\* more member of S, holds every finite set S.
LEMMA FiniteSetInduction ==
    ASSUME NEW S, IsFiniteSet(S), NEW T, {} \in T,
           \A A \in SUBSET S : A \in T => \A x \in S \ A : A \cup {x} \in T
    PROVE  S \in T
<1> DEFINE N == {n \in Nat : \A A \in SUBSET S : Cardinality(A) = n => A \in T}
<1>1. \A A \in SUBSET S : IsFiniteSet(A) /\ Cardinality(A) \in Nat
  BY FS_Subset, FS_CardinalityType
<1>2. 0 \in N
  BY <1>1, FS_EmptySet
<1>3. ASSUME NEW n \in Nat, n \in N PROVE n + 1 \in N
  <2> SUFFICES ASSUME NEW A \in SUBSET S, Cardinality(A) = n + 1 PROVE A \in T
    OBVIOUS
  <2>1. PICK x \in A : TRUE
    <3>1. IsFiniteSet(A) /\ n + 1 # 0
      BY <1>1
    <3> QED BY <3>1, FS_EmptySet
  <2>2. Cardinality(A \ {x}) = n
    <3>1. Cardinality(A \ {x}) = Cardinality(A) - 1
      BY <1>1, <2>1, FS_RemoveElement
    <3> QED BY <3>1
  <2>3. A \ {x} \in T
    BY <1>3, <2>2
  <2> QED BY <2>3, A = (A \ {x}) \cup {x}
<1>4. Cardinality(S) \in N
  <2> HIDE DEF N
  <2> QED BY <1>1, <1>2, <1>3, SetInduction
<1> QED BY <1>4

\* A list without repetitions has as many members as it is long.
LEMMA InjectiveLength ==
    ASSUME NEW n \in Nat, NEW f, \A i, j \in 1..n : f[i] = f[j] => i = j,
           NEW R, \A x : x \in R <=> \E i \in 1..n : x = f[i]
    PROVE  IsFiniteSet(R) /\ Cardinality(R) = n
<1> DEFINE g == [i \in 1..n |-> f[i]]
<1>1. g \in Bijection(1..n, R)
  <2>1. g \in [1..n -> R]
    OBVIOUS
  <2>2. \A x \in R : \E i \in 1..n : g[i] = x
    OBVIOUS
  <2> QED BY <2>1, <2>2 DEF Bijection, Injection, Surjection, IsInjective
<1>2. IsFiniteSet(1..n) /\ Cardinality(1..n) = n
  BY FS_Interval
<1>3. ExistsBijection(1..n, R)
  BY <1>1 DEF ExistsBijection
<1>4. IsFiniteSet(R) /\ Cardinality(R) = Cardinality(1..n)
  BY <1>2, <1>3, FS_Bijection
<1> QED BY <1>2, <1>4

\* A function on 1..n is a list of n values.
LEMMA FunctionIsSeq ==
    ASSUME NEW S, NEW n \in Nat, NEW f \in [1..n -> S]
    PROVE  f \in Seq(S) /\ Len(f) = n
<1>1. f \in Seq(S)
  BY SeqDef
<1> QED BY <1>1, LenProperties

\* The first n members of a list are a list, and the next one comes behind them.
LEMMA Prefix ==
    ASSUME NEW S, NEW q \in Seq(S), NEW n \in 0..Len(q)
    PROVE  LET s == [i \in 1..n |-> q[i]]
           IN  /\ s \in Seq(S) /\ Len(s) = n
               /\ n < Len(q) => Append(s, q[n + 1]) = [i \in 1..(n + 1) |-> q[i]]
<1> DEFINE s == [i \in 1..n |-> q[i]]
           t == [i \in 1..(n + 1) |-> q[i]]
<1>1. Len(q) \in Nat /\ n \in Nat /\ \A i \in 1..Len(q) : q[i] \in S
  BY LenProperties, ElementOfSeq
<1>2. s \in [1..n -> S]
  BY <1>1
<1>3. s \in Seq(S) /\ Len(s) = n
  <2> HIDE DEF s
  <2> QED BY <1>1, <1>2, FunctionIsSeq
<1>4. ASSUME n < Len(q) PROVE Append(s, q[n + 1]) = t
  <2>1. t \in [1..(n + 1) -> S] /\ n + 1 \in Nat /\ q[n + 1] \in S
    BY <1>1, <1>4
  <2>2. t \in Seq(S) /\ Len(t) = n + 1
    <3> HIDE DEF t
    <3> QED BY <2>1, FunctionIsSeq
  <2>3. /\ Append(s, q[n + 1]) \in Seq(S) /\ Len(Append(s, q[n + 1])) = n + 1
        /\ \A i \in 1..n : Append(s, q[n + 1])[i] = s[i]
        /\ Append(s, q[n + 1])[n + 1] = q[n + 1]
    <3> HIDE DEF s
    <3> QED BY <1>3, <2>1, AppendProperties
  <2>4. \A i \in 1..(n + 1) : Append(s, q[n + 1])[i] = t[i]
    <3> DEFINE u == Append(s, q[n + 1])
    <3>1. \A i \in 1..n : u[i] = q[i] /\ u[n + 1] = q[n + 1]
      BY <2>3
    <3>2. \A i \in 1..(n + 1) : i \in 1..n \/ i = n + 1
      BY <1>1
    <3> HIDE DEF u
    <3> QED BY <2>3, <3>1, <3>2
  <2> HIDE DEF s, t
  <2> QED BY <2>2, <2>3, <2>4, SeqEqual
<1> QED BY <1>3, <1>4

\* The numbers of a set up to l can be listed in increasing order.
LEMMA Enumeration ==
    ASSUME NEW l \in Nat, NEW K \in SUBSET (1..l)
    PROVE  \E m \in Nat : \E h \in [1..m -> K] :
             /\ \A i, j \in 1..m : i < j => h[i] < h[j]
             /\ \A k \in K : \E i \in 1..m : h[i] = k
<1> DEFINE Lists(n, m, h) ==
             /\ h \in [1..m -> K] /\ \A i \in 1..m : h[i] <= n
             /\ \A i, j \in 1..m : i < j => h[i] < h[j]
             /\ \A k \in K : k <= n => \E i \in 1..m : h[i] = k
           S == {n \in Nat : \E m \in Nat : \E h : Lists(n, m, h)}
<1>1. 0 \in S
  <2>1. Lists(0, 0, [i \in 1..0 |-> 0])
    OBVIOUS
  <2> HIDE DEF Lists
  <2> QED BY <2>1
<1>2. ASSUME NEW n \in Nat, n \in S PROVE n + 1 \in S
  <2>1. PICK m \in Nat : \E h : Lists(n, m, h)
    <3> HIDE DEF Lists
    <3> QED BY <1>2
  <2>2. PICK h : Lists(n, m, h)
    <3> HIDE DEF Lists
    <3> QED BY <2>1
  <2>3. h \in [1..m -> K] /\ \A i \in 1..m : h[i] \in K /\ h[i] \in Nat /\ h[i] <= n
    <3>1. h \in [1..m -> K] /\ \A i \in 1..m : h[i] <= n
      BY <2>2
    <3>2. \A k \in K : k \in Nat
      OBVIOUS
    <3> QED BY <3>1, <3>2
  <2>4. CASE n + 1 \notin K
    <3>1. Lists(n + 1, m, h)
      <4>1. \A k \in K : k <= n + 1 <=> k <= n
        BY <2>4
      <4>2. \A i \in 1..m : h[i] <= n + 1
        BY <2>3
      <4> QED BY <2>2, <4>1, <4>2
    <3> HIDE DEF Lists
    <3> QED BY <3>1
  <2>5. CASE n + 1 \in K
    <3> DEFINE g == [i \in 1..(m + 1) |-> IF i = m + 1 THEN n + 1 ELSE h[i]]
    <3>1. g \in [1..(m + 1) -> K] /\ \A i \in 1..(m + 1) : g[i] <= n + 1
      <4>1. \A i \in 1..(m + 1) : i = m + 1 \/ i \in 1..m
        OBVIOUS
      <4> QED BY <2>3, <2>5, <4>1
    <3>2. \A i, j \in 1..(m + 1) : i < j => g[i] < g[j]
      <4>1. \A i, j \in 1..m : i < j => h[i] < h[j]
        BY <2>2
      <4> QED BY <2>3, <4>1
    <3>3. \A k \in K : k <= n + 1 => \E i \in 1..(m + 1) : g[i] = k
      <4> SUFFICES ASSUME NEW k \in K, k <= n + 1
                   PROVE  \E i \in 1..(m + 1) : g[i] = k
        OBVIOUS
      <4>1. CASE k = n + 1
        BY <4>1
      <4>2. CASE k # n + 1
        <5>1. PICK i \in 1..m : h[i] = k
          BY <2>2, <4>2
        <5> QED BY <5>1
      <4> QED BY <4>1, <4>2
    <3>4. Lists(n + 1, m + 1, g)
      <4> HIDE DEF g
      <4> QED BY <3>1, <3>2, <3>3
    <3> HIDE DEF Lists
    <3> QED BY <3>4
  <2> QED BY <2>4, <2>5
<1>3. l \in S
  <2> HIDE DEF S
  <2> QED BY <1>1, <1>2, SetInduction
<1>4. PICK m \in Nat : \E h : Lists(l, m, h)
  <2> HIDE DEF Lists
  <2> QED BY <1>3
<1>5. PICK h : Lists(l, m, h)
  <2> HIDE DEF Lists
  <2> QED BY <1>4
<1>6. h \in [1..m -> K] /\ \A k \in K : k <= l
  BY <1>5
<1> QED BY <1>5, <1>6

\* g is the fold that starts at base and takes the members of S as pick says
IsRecursion(g, S, V, base, step, pick) ==
    /\ g \in [SUBSET S -> V]
    /\ \A s \in SUBSET S :
         g[s] = IF s = {} THEN base ELSE step[<<pick[s], g[s \ {pick[s]}]>>]

\* A function on the subsets of a finite set may be defined from its values on
\* the sets that are smaller by the member picked from them: the folds of the
\* community modules are such functions.
LEMMA SetRecursion ==
    ASSUME NEW S, IsFiniteSet(S), NEW V, NEW base \in V,
           NEW step, \A x \in S, v \in V : step[<<x, v>>] \in V,
           NEW pick, \A s \in SUBSET S : s # {} => pick[s] \in s
    PROVE  \E g : IsRecursion(g, S, V, base, step, pick)
<1> DEFINE F == [SUBSET S -> V]
           Next(g) == [s \in SUBSET S |->
                         IF s = {} THEN base ELSE step[<<pick[s], g[s \ {pick[s]}]>>]]
           next == [g \in F |-> Next(g)]
           start == [s \in SUBSET S |-> base]
<1>1. \A g \in F : Next(g) \in F
  <2> SUFFICES ASSUME NEW g \in F, NEW s \in SUBSET S, s # {}
               PROVE  step[<<pick[s], g[s \ {pick[s]}]>>] \in V
    OBVIOUS
  <2>1. pick[s] \in S /\ g[s \ {pick[s]}] \in V
    OBVIOUS
  <2> QED BY <2>1
<1>2. start \in F /\ next \in [F -> F]
  <2> HIDE DEF Next
  <2> QED BY <1>1
<1>3. PICK h \in [Nat -> F] : h[0] = start /\ \A n \in Nat : h[n + 1] = next[h[n]]
  <2>1. ASSUME NEW W, NEW a \in W, NEW f \in [W -> W]
        PROVE  \E h \in [Nat -> W] : h[0] = a /\ \A n \in Nat : h[n + 1] = f[h[n]]
    BY Iteration
  <2> HIDE DEF F, start, next
  <2>2. start \in F
    BY <1>2
  <2>3. next \in [F -> F]
    BY <1>2
  <2> QED BY <2>1, <2>2, <2>3
<1>4. \A n \in Nat : h[n + 1] = Next(h[n])
  <2> HIDE DEF Next
  <2> QED BY <1>3
<1>5. \A s \in SUBSET S : IsFiniteSet(s) /\ Cardinality(s) \in Nat
  BY FS_Subset, FS_CardinalityType
<1> DEFINE T == {n \in Nat : \A s \in SUBSET S : Cardinality(s) < n => h[n + 1][s] = h[n][s]}
<1>6. 0 \in T
  BY <1>5
<1>7. ASSUME NEW n \in Nat, n \in T PROVE n + 1 \in T
  <2> SUFFICES ASSUME NEW s \in SUBSET S, Cardinality(s) < n + 1
               PROVE  h[(n + 1) + 1][s] = h[n + 1][s]
    OBVIOUS
  <2>1. h[n + 1] = Next(h[n]) /\ h[(n + 1) + 1] = Next(h[n + 1])
    <3>1. n + 1 \in Nat
      OBVIOUS
    <3> HIDE DEF Next
    <3> QED BY <1>4, <3>1
  <2>2. CASE s = {}
    BY <2>1, <2>2
  <2>3. CASE s # {}
    <3> DEFINE r == s \ {pick[s]}
    <3>1. r \in SUBSET S /\ Cardinality(r) < n
      <4>1. pick[s] \in s
        BY <2>3
      <4>2. Cardinality(r) = Cardinality(s) - 1
        BY <1>5, <4>1, FS_RemoveElement
      <4> QED BY <1>5, <4>2
    <3>2. h[n + 1][r] = h[n][r]
      BY <1>7, <3>1
    <3>3. h[n + 1][s] = step[<<pick[s], h[n][r]>>] /\ h[(n + 1) + 1][s] = step[<<pick[s], h[n + 1][r]>>]
      BY <2>1, <2>3
    <3> QED BY <3>2, <3>3
  <2> QED BY <2>2, <2>3
<1> DEFINE N == Cardinality(S) + 1
<1>8. N \in Nat /\ \A s \in SUBSET S : Cardinality(s) < N
  BY <1>5, FS_Subset
<1>9. N \in T
  <2> HIDE DEF T, N
  <2> QED BY <1>6, <1>7, <1>8, SetInduction
<1>10. \A s \in SUBSET S : h[N][s] = Next(h[N])[s]
  <2> HIDE DEF N, Next
  <2> QED BY <1>4, <1>8, <1>9
<1>11. h[N] \in F
  <2> HIDE DEF N, F
  <2> QED BY <1>3, <1>8
<1> HIDE DEF N
<1>12. IsRecursion(h[N], S, V, base, step, pick)
  BY <1>10, <1>11 DEF IsRecursion
<1> QED BY <1>12


\* The greatest number of 1..i is i, and without it 1..(i - 1) is left.
LEMMA Segments ==
    ASSUME NEW n \in Nat, NEW i \in 1..n
    PROVE  /\ Max(1..i) = i /\ (1..i) \ {i} = 1..(i - 1)
           /\ 1..i \in SUBSET (1..n) /\ 1..i # {} /\ 1..(i - 1) \in SUBSET (1..n)
<1>1. Max(1..i) = i
  <2>1. i \in 1..i /\ \A j \in 1..i : i >= j
    OBVIOUS
  <2>2. \A k \in 1..i : (\A j \in 1..i : k >= j) => k = i
    OBVIOUS
  <2> QED BY <2>1, <2>2 DEF Max
<1> QED BY <1>1

\* A set of positions that is not empty has a greatest one.
LEMMA MaxIn == ASSUME NEW n \in Nat, NEW s \in SUBSET (1..n), s # {} PROVE Max(s) \in s
<1>1. \E m \in s : \A k \in s : m >= k
  <2>1. s \in SUBSET Int
    OBVIOUS
  <2>3. \A k \in s : k <= n
    OBVIOUS
  <2>4. n \in Int
    OBVIOUS
  <2>2. PICK m \in s : \A k \in s : k <= m
    BY <2>1, <2>3, <2>4, IntGreatest, Zenon
  <2> QED BY <2>1, <2>2
<1> QED BY <1>1 DEF Max

\* g is the fold from the left over 1..n
IsLeftRecursion(g, n, V, base, step) ==
    /\ g \in [SUBSET (1..n) -> V]
    /\ \A s \in SUBSET (1..n) :
         g[s] = IF s = {} THEN base ELSE step[<<Max(s), g[s \ {Max(s)}]>>]

\* The same for folds that go through the positions 1..n from the left.
LEMMA LeftRecursion ==
    ASSUME NEW n \in Nat, NEW V, NEW base \in V,
           NEW step, \A x \in 1..n, v \in V : step[<<x, v>>] \in V
    PROVE  \E g : IsLeftRecursion(g, n, V, base, step)
<1> DEFINE S == 1..n
           pick == [s \in SUBSET S |-> Max(s)]
<1>1. IsFiniteSet(S)
  BY FS_Interval
<1>2. \A s \in SUBSET S : s # {} => pick[s] \in s
  BY MaxIn
<1>3. \A s \in SUBSET S : pick[s] = Max(s)
  OBVIOUS
<1>4. PICK g : IsRecursion(g, S, V, base, step, pick)
  <2>1. \A x \in S, v \in V : step[<<x, v>>] \in V
    OBVIOUS
  <2> HIDE DEF S, pick
  <2> QED BY <1>1, <1>2, <2>1, SetRecursion
<1>5. IsLeftRecursion(g, n, V, base, step)
  <2> HIDE DEF pick
  <2> QED BY <1>3, <1>4 DEF IsRecursion, IsLeftRecursion
<1> QED BY <1>5

\* it is such a fold, as long as its values are in V
IsFoldOf(it, n, V, base, step) ==
    /\ it[{}] = base
    /\ \A s \in SUBSET (1..n) :
         s # {} /\ it[s \ {Max(s)}] \in V => it[s] = step[<<Max(s), it[s \ {Max(s)}]>>]

\* f[i] is its value after the i-th turn
IsLoopOf(f, it, n, V, base, step) ==
    /\ f \in [0..n -> V] /\ f[0] = base /\ f[n] = it[1..n]
    /\ \A i \in 1..n : f[i] = step[<<i, f[i - 1]>>]

\* Such a fold is a loop.
LEMMA FoldTurns ==
    ASSUME NEW n \in Nat, NEW V, NEW base \in V,
           NEW step, \A i \in 1..n, v \in V : step[<<i, v>>] \in V,
           NEW it, IsFoldOf(it, n, V, base, step)
    PROVE  \E f : IsLoopOf(f, it, n, V, base, step)
<1> DEFINE f == [i \in 0..n |-> it[1..i]]
<1>1. f[0] = base /\ f[n] = it[1..n]
  BY 1..0 = {} DEF IsFoldOf
<1>2. ASSUME NEW i \in 1..n, f[i - 1] \in V PROVE f[i] = step[<<i, f[i - 1]>>] /\ f[i] \in V
  <2> DEFINE s == 1..i
  <2>1. Max(s) = i /\ s \ {i} = 1..(i - 1) /\ s \in SUBSET (1..n) /\ s # {}
    BY Segments
  <2>2. f[i] = it[s] /\ f[i - 1] = it[1..(i - 1)]
    OBVIOUS
  <2> HIDE DEF s, f
  <2>3. it[s \ {Max(s)}] \in V
    BY <1>2, <2>1, <2>2
  <2>4. it[s] = step[<<Max(s), it[s \ {Max(s)}]>>]
    BY <2>1, <2>3 DEF IsFoldOf
  <2> QED BY <1>2, <2>1, <2>2, <2>4
<1>3. \A i \in 0..n : f[i] \in V
  <2> DEFINE T == {i \in Nat : i <= n => f[i] \in V}
  <2> HIDE DEF f
  <2>1. 0 \in T
    BY <1>1
  <2>2. ASSUME NEW i \in Nat, i \in T PROVE i + 1 \in T
    <3> SUFFICES ASSUME i + 1 <= n PROVE f[i + 1] \in V
      OBVIOUS
    <3>1. f[i] \in V /\ i + 1 \in 1..n /\ (i + 1) - 1 = i
      BY <2>2
    <3> QED BY <1>2, <3>1
  <2>3. \A i \in Nat : i \in T
    <3> HIDE DEF T
    <3> QED BY <2>1, <2>2, SetInduction
  <2> QED BY <2>3
<1>4. \A i \in 1..n : f[i] = step[<<i, f[i - 1]>>]
  <2> HIDE DEF f
  <2>1. \A i \in 1..n : i - 1 \in 0..n
    OBVIOUS
  <2> QED BY <1>2, <1>3, <2>1
<1>5. f \in [0..n -> V]
  BY <1>3
<1>6. IsLoopOf(f, it, n, V, base, step)
  <2> HIDE DEF f
  <2> QED BY <1>1, <1>4, <1>5 DEF IsLoopOf
<1> QED BY <1>6

\* What is on a list is at one of its positions.
LEMMA Members ==
    ASSUME NEW S, NEW l \in Seq(S), NEW x
    PROVE  x \in ToSet(l) <=> \E i \in 1 .. Len(l) : x = l[i]
<1>1. DOMAIN l = 1 .. Len(l)
  OBVIOUS
<1> QED BY <1>1 DEF ToSet

\* A list without one of its members.
LEMMA Removed ==
    ASSUME NEW S, NEW l \in Seq(S), NEW k \in 1 .. Len(l)
    PROVE  /\ RemoveAt(l, k) \in Seq(S)
           /\ Len(RemoveAt(l, k)) = Len(l) - 1
           /\ \A i \in 1 .. Len(l) - 1 : RemoveAt(l, k)[i] = l[IF i < k THEN i ELSE i + 1]
<1> DEFINE n == Len(l)
           a == SubSeq(l, 1, k - 1)
           b == SubSeq(l, k + 1, n)
<1>1. n \in Nat /\ k \in Nat /\ 1 <= k /\ k <= n
  BY LenProperties
<1>2. /\ a \in Seq(S) /\ Len(a) = k - 1
      /\ \A i \in 1 .. k - 1 : a[i] = l[i]
  BY <1>1, SubSeqProperties
<1>3. /\ b \in Seq(S) /\ Len(b) = n - k
      /\ \A i \in 1 .. n - k : b[i] = l[k + i]
  BY <1>1, SubSeqProperties
<1> HIDE DEF a, b
<1>4. /\ a \o b \in Seq(S) /\ Len(a \o b) = Len(a) + Len(b)
      /\ \A i \in 1 .. Len(a) + Len(b) : (a \o b)[i] = IF i <= Len(a) THEN a[i] ELSE b[i - Len(a)]
  BY <1>2, <1>3, ConcatProperties
<1>5. RemoveAt(l, k) = a \o b
  BY DEF RemoveAt, a, b
<1> DEFINE r == a \o b
<1> HIDE DEF r, n
<1>6. /\ r \in Seq(S) /\ Len(r) = n - 1
  BY <1>1, <1>2, <1>3, <1>4 DEF r
<1>7. ASSUME NEW i \in 1 .. n - 1 PROVE r[i] = l[IF i < k THEN i ELSE i + 1]
  <2>1. r[i] = IF i <= k - 1 THEN a[i] ELSE b[i - (k - 1)]
    BY <1>1, <1>2, <1>3, <1>4 DEF r
  <2>2. CASE i < k
    BY <1>1, <1>2, <2>1, <2>2
  <2>3. CASE ~ (i < k)
    <3>1. i - (k - 1) \in 1 .. n - k /\ k + (i - (k - 1)) = i + 1 /\ ~ (i <= k - 1)
      BY <1>1, <2>3
    <3> QED BY <1>3, <2>1, <2>3, <3>1
  <2> QED BY <2>2, <2>3
<1> QED BY <1>5, <1>6, <1>7 DEF r, n
-----------------------------------------------------------------------------
(* Sums of integers over sets of arguments *)

\* The element that a fold takes next
Some(A) == CHOOSE x \in A : TRUE

\* g adds up f over each set of arguments, one argument after the other
IsSumOf(g, f, S) ==
    /\ g \in [SUBSET S -> Int]
    /\ \A A \in SUBSET S : g[A] = IF A = {} THEN 0 ELSE f[Some(A)] + g[A \ {Some(A)}]

\* There is such a function, and only one, and the sum of the community modules
\* is its value.
LEMMA SumValue ==
    ASSUME NEW S, IsFiniteSet(S), NEW f, NEW g, IsSumOf(g, f, S)
    PROVE  SumFunctionOnSet(f, S) = g[S]
<1> DEFINE IsFold(k) == k = [A \in SUBSET S |->
                               IF A = {} THEN 0 ELSE f[Some(A)] + k[A \ {Some(A)}]]
           it == CHOOSE k : IsFold(k)
<1>1. SumFunctionOnSet(f, S) = it[S]
  BY DEF SumFunctionOnSet, FoldFunctionOnSet, MapThenFoldSet, Some
<1>2. IsFold(g)
  BY DEF IsSumOf
<1>3. IsFold(it)
  <2> HIDE DEF IsFold
  <2> QED BY <1>2
<1> HIDE DEF it
<1> DEFINE T == {A \in SUBSET S : it[A] = g[A]}
<1>4. {} \in T
  BY <1>2, <1>3
<1>5. ASSUME NEW n \in Nat, \A A \in SUBSET S : Cardinality(A) = n => it[A] = g[A]
      PROVE  \A A \in SUBSET S : Cardinality(A) = n + 1 => it[A] = g[A]
  <2> SUFFICES ASSUME NEW A \in SUBSET S, Cardinality(A) = n + 1 PROVE it[A] = g[A]
    OBVIOUS
  <2>1. A # {} /\ IsFiniteSet(A)
    BY FS_Subset, FS_EmptySet
  <2> DEFINE x == Some(A)
  <2>2. x \in A /\ A \ {x} \in SUBSET S
    BY <2>1 DEF Some
  <2>3. Cardinality(A \ {x}) = n
    <3> HIDE DEF x
    <3>1. Cardinality(A \ {x}) = Cardinality(A) - 1
      BY <2>1, <2>2, FS_RemoveElement
    <3> QED BY <3>1
  <2>4. it[A \ {x}] = g[A \ {x}]
    BY <1>5, <2>2, <2>3
  <2> QED BY <1>2, <1>3, <2>1, <2>4
<1>6. \A A \in SUBSET S : Cardinality(A) = 0 => it[A] = g[A]
  <2> SUFFICES ASSUME NEW A \in SUBSET S, Cardinality(A) = 0 PROVE it[A] = g[A]
    OBVIOUS
  <2>1. A = {}
    BY FS_Subset, FS_EmptySet
  <2> QED BY <1>2, <1>3, <2>1
<1> DEFINE J == {n \in Nat : \A A \in SUBSET S : Cardinality(A) = n => it[A] = g[A]}
<1>7. 0 \in J /\ \A n \in Nat : n \in J => n + 1 \in J
  BY <1>5, <1>6
<1>8. Cardinality(S) \in Nat
  BY FS_CardinalityType
<1> HIDE DEF J
<1>9. Cardinality(S) \in J
  BY <1>7, <1>8, SetInduction
<1>10. it[S] = g[S]
  BY <1>9 DEF J
<1> QED BY <1>1, <1>10

\* A function to the integers can be added up.
LEMMA SumExists ==
    ASSUME NEW S, IsFiniteSet(S), NEW f, \A x \in S : f[x] \in Int
    PROVE  \E g : IsSumOf(g, f, S)
<1> DEFINE V == Int
           next(x, v) == f[x] + v
           step == [p \in S \X V |-> next(p[1], p[2])]
           pick == [A \in SUBSET S |-> Some(A)]
<1>1. \A v \in V, x \in S : next(x, v) \in V
  BY DEF V
<1>2. 0 \in V
  OBVIOUS
<1> HIDE DEF next, V
<1>3. \A x \in S, v \in V : step[<<x, v>>] = next(x, v)
  OBVIOUS
<1>4. \A A \in SUBSET S : A # {} => Some(A) \in A /\ pick[A] = Some(A)
  BY DEF Some
<1>5. PICK g : IsRecursion(g, S, V, 0, step, pick)
  <2>1. \A x \in S, v \in V : step[<<x, v>>] \in V
    BY <1>1, <1>3
  <2>2. \A A \in SUBSET S : A # {} => pick[A] \in A
    BY <1>4
  <2> HIDE DEF step, pick
  <2> QED BY <1>2, <2>1, <2>2, SetRecursion
<1>6. g \in [SUBSET S -> V]
  BY <1>5 DEF IsRecursion
<1>7. ASSUME NEW A \in SUBSET S
      PROVE  g[A] = IF A = {} THEN 0 ELSE next(Some(A), g[A \ {Some(A)}])
  <2>1. CASE A = {}
    BY <1>5, <2>1 DEF IsRecursion
  <2>2. CASE A # {}
    <3>1. Some(A) \in S /\ A \ {Some(A)} \in SUBSET S /\ pick[A] = Some(A)
      BY <1>4, <2>2
    <3>2. g[A \ {Some(A)}] \in V
      BY <1>6, <3>1
    <3>3. g[A] = step[<<Some(A), g[A \ {Some(A)}]>>]
      BY <1>5, <2>2, <3>1 DEF IsRecursion
    <3> QED BY <1>3, <2>2, <3>1, <3>2, <3>3
  <2> QED BY <2>1, <2>2
<1>8. IsSumOf(g, f, S)
  BY <1>6, <1>7 DEF IsSumOf, V, next
<1> QED BY <1>8

\* The order does not matter.
LEMMA SumWithout ==
    ASSUME NEW S, IsFiniteSet(S), NEW f, \A x \in S : f[x] \in Int,
           NEW g, IsSumOf(g, f, S)
    PROVE  \A A \in SUBSET S : \A x \in A : g[A] = g[A \ {x}] + f[x]
<1> DEFINE J == {n \in Nat : \A A \in SUBSET S :
                   Cardinality(A) = n => \A x \in A : g[A] = g[A \ {x}] + f[x]}
<1>0. /\ \A A \in SUBSET S : g[A] \in Int
      /\ \A A \in SUBSET S : A # {} => Some(A) \in A /\ g[A] = f[Some(A)] + g[A \ {Some(A)}]
  BY DEF IsSumOf, Some
<1>1. 0 \in J
  <2> SUFFICES ASSUME NEW A \in SUBSET S, Cardinality(A) = 0, NEW x \in A PROVE FALSE
    OBVIOUS
  <2> QED BY FS_Subset, FS_EmptySet
<1>2. ASSUME NEW n \in Nat, n \in J PROVE n + 1 \in J
  <2> SUFFICES ASSUME NEW A \in SUBSET S, Cardinality(A) = n + 1, NEW x \in A
               PROVE  g[A] = g[A \ {x}] + f[x]
    OBVIOUS
  <2> DEFINE y == Some(A)  B == A \ {x}  C == A \ {y}  D == B \ {y}
  <2>1. y \in A /\ g[A] = f[y] + g[C] /\ IsFiniteSet(A)
    BY <1>0, FS_Subset
  <2>2. B \in SUBSET S /\ C \in SUBSET S /\ D \in SUBSET S
    OBVIOUS
  <2>3. f[x] \in Int /\ f[y] \in Int /\ g[B] \in Int /\ g[C] \in Int /\ g[D] \in Int
    BY <1>0, <2>1, <2>2
  <2>4. CASE x = y
    BY <2>1, <2>3, <2>4
  <2>5. CASE x # y
    <3>1. x \in C /\ y \in B /\ C \ {x} = D
      BY <2>1, <2>5
    <3> HIDE DEF y
    <3>2. Cardinality(B) = n /\ Cardinality(C) = n
      <4>1. Cardinality(A \ {x}) = Cardinality(A) - 1 /\ Cardinality(A \ {y}) = Cardinality(A) - 1
        BY <2>1, FS_RemoveElement
      <4> QED BY <4>1
    <3>3. g[B] = g[D] + f[y]
      BY <1>2, <2>2, <3>1, <3>2
    <3>4. g[C] = g[D] + f[x]
      <4>1. \A z \in C : g[C] = g[C \ {z}] + f[z]
        BY <1>2, <2>2, <3>2
      <4> HIDE DEF C, D
      <4>2. g[C] = g[C \ {x}] + f[x]
        BY <3>1, <4>1
      <4> QED BY <3>1, <4>2
    <3> DEFINE ga == g[A]  gb == g[B]  gc == g[C]  gd == g[D]  fx == f[x]  fy == f[y]
    <3>5. ga = fy + gc /\ gb = gd + fy /\ gc = gd + fx /\ gd \in Int /\ fx \in Int /\ fy \in Int
      BY <2>1, <2>3, <3>3, <3>4
    <3> HIDE DEF ga, gb, gc, gd, fx, fy
    <3>6. ga = gb + fx
      BY ONLY <3>5
    <3> QED BY <3>6 DEF ga, gb, fx
  <2> QED BY <2>4, <2>5
<1> HIDE DEF J
<1>3. ASSUME NEW A \in SUBSET S PROVE Cardinality(A) \in J
  <2>1. Cardinality(A) \in Nat
    BY FS_Subset, FS_CardinalityType
  <2> QED BY <1>1, <1>2, <2>1, SetInduction
<1> QED BY <1>3 DEF J

\* The sum over no argument is zero.
LEMMA SumOfNone == ASSUME NEW f PROVE SumFunctionOnSet(f, {}) = 0
<1>1. IsFiniteSet({}) /\ \A x \in {} : f[x] \in Int
  BY FS_EmptySet
<1>2. PICK g : IsSumOf(g, f, {})
  BY <1>1, SumExists
<1> QED BY <1>1, <1>2, SumValue DEF IsSumOf

\* One more argument adds its value to the sum.
LEMMA SumOfMore ==
    ASSUME NEW S, IsFiniteSet(S), NEW f, \A y \in S : f[y] \in Int,
           NEW x, f[x] \in Int, x \notin S
    PROVE  /\ SumFunctionOnSet(f, S) \in Int
           /\ SumFunctionOnSet(f, S \cup {x}) = SumFunctionOnSet(f, S) + f[x]
<1> DEFINE R == S \cup {x}
<1>1. IsFiniteSet(R) /\ \A y \in R : f[y] \in Int
  BY FS_AddElement
<1>2. PICK g : IsSumOf(g, f, R)
  BY <1>1, SumExists
<1>3. SumFunctionOnSet(f, R) = g[R]
  BY <1>1, <1>2, SumValue
<1>4. g[R] = g[R \ {x}] + f[x] /\ R \ {x} = S
  BY <1>1, <1>2, SumWithout
<1>5. SumFunctionOnSet(f, S) = g[S] /\ g[S] \in Int
  <2> DEFINE k == [A \in SUBSET S |-> g[A]]
  <2>1. \A A \in SUBSET S : A \in SUBSET R
    OBVIOUS
  <2>2. IsSumOf(k, f, S)
    <3>1. k \in [SUBSET S -> Int]
      BY <1>2, <2>1 DEF IsSumOf
    <3>2. ASSUME NEW A \in SUBSET S
          PROVE  k[A] = IF A = {} THEN 0 ELSE f[Some(A)] + k[A \ {Some(A)}]
      <4>1. g[A] = IF A = {} THEN 0 ELSE f[Some(A)] + g[A \ {Some(A)}]
        BY <1>2, <2>1 DEF IsSumOf
      <4>2. k[A] = g[A] /\ k[A \ {Some(A)}] = g[A \ {Some(A)}]
        OBVIOUS
      <4> QED BY <4>1, <4>2
    <3> QED BY <3>1, <3>2 DEF IsSumOf
  <2>3. k[S] = g[S] /\ g[S] \in Int
    BY <1>2, <2>1 DEF IsSumOf
  <2> HIDE DEF k
  <2> QED BY <2>2, <2>3, SumValue
<1> HIDE DEF R
<1>6. SumFunctionOnSet(f, R) = SumFunctionOnSet(f, S) + f[x]
  BY <1>3, <1>4, <1>5
<1> QED BY <1>5, <1>6 DEF R

=============================================================================
