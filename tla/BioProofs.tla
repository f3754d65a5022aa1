----------------------------- MODULE BioProofs ------------------------------
(***************************************************************************)
(* Theorems about Bio, for every number of processes, buffers and blocks,  *)
(* every size of a block and every amount of memory.                       *)
(***************************************************************************)
EXTENDS Bio, InductionLemmas, TLAPS

\* A leaf is tried with SMT, then with Zenon, then with more time for each
USE SMT, Zenon, SMTT(30), ZenonT(60)

-----------------------------------------------------------------------------
(* Sums: the memory of the buffers, and what is set aside for new ones *)

\* g adds up f over each set of arguments
Adds(g, f, S) ==
    /\ g \in [SUBSET S -> Nat] /\ g[S] = SumFunction(f)
    /\ \A A \in SUBSET S : g[A] = IF A = {} THEN 0 ELSE f[Some(A)] + g[A \ {Some(A)}]

\* The sum of a function is such a sum.
LEMMA SumAdds ==
    ASSUME NEW S, IsFiniteSet(S), NEW f, DOMAIN f = S, \A x \in S : f[x] \in Nat
    PROVE  \E g : Adds(g, f, S)
<1> DEFINE V == Nat
           next(x, v) == f[x] + v
           IsFold(g) == g = [A \in SUBSET S |->
                               IF A = {} THEN 0 ELSE next(Some(A), g[A \ {Some(A)}])]
           it == CHOOSE g : IsFold(g)
           step == [p \in S \X V |-> next(p[1], p[2])]
           pick == [A \in SUBSET S |-> Some(A)]
<1>1. SumFunction(f) = it[S]
  BY DEF SumFunction, SumFunctionOnSet, FoldFunctionOnSet, MapThenFoldSet, Some
<1>2. \A v \in V, x \in S : next(x, v) \in V
  BY DEF V
<1>3. 0 \in V
  OBVIOUS
<1> HIDE DEF next, V
<1>4. \A x \in S, v \in V : step[<<x, v>>] = next(x, v)
  OBVIOUS
<1>5. \A A \in SUBSET S : A # {} => Some(A) \in A /\ pick[A] = Some(A)
  BY DEF Some
<1>6. PICK g : IsRecursion(g, S, V, 0, step, pick)
  <2>1. \A x \in S, v \in V : step[<<x, v>>] \in V
    BY <1>2, <1>4
  <2>2. \A A \in SUBSET S : A # {} => pick[A] \in A
    BY <1>5
  <2> HIDE DEF step, pick
  <2> QED BY <1>3, <2>1, <2>2, SetRecursion
<1>7. g \in [SUBSET S -> V]
  BY <1>6 DEF IsRecursion
<1>8. ASSUME NEW A \in SUBSET S
      PROVE  g[A] = IF A = {} THEN 0 ELSE next(Some(A), g[A \ {Some(A)}])
  <2>1. CASE A = {}
    BY <1>6, <2>1 DEF IsRecursion
  <2>2. CASE A # {}
    <3>1. Some(A) \in S /\ A \ {Some(A)} \in SUBSET S /\ pick[A] = Some(A)
      BY <1>5, <2>2
    <3>2. g[A \ {Some(A)}] \in V
      BY <1>7, <3>1
    <3>3. g[A] = step[<<Some(A), g[A \ {Some(A)}]>>]
      BY <1>6, <2>2, <3>1 DEF IsRecursion
    <3> QED BY <1>4, <2>2, <3>1, <3>2, <3>3
  <2> QED BY <2>1, <2>2
<1>9. IsFold(g)
  BY <1>7, <1>8
<1>10. IsFold(it)
  <2> HIDE DEF IsFold
  <2> QED BY <1>9
<1> HIDE DEF it
<1>11. it \in [SUBSET S -> V]
  <2>1. it = [A \in SUBSET S |-> it[A]]
    BY <1>10
  <2>2. ASSUME NEW A \in SUBSET S PROVE it[A] = g[A]
    <3> DEFINE T == {n \in Nat : \A B \in SUBSET S : Cardinality(B) = n => it[B] = g[B]}
    <3>1. 0 \in T
      <4>1. ASSUME NEW B \in SUBSET S, Cardinality(B) = 0 PROVE it[B] = g[B]
        <5>1. B = {}
          BY <4>1, FS_Subset, FS_EmptySet
        <5> QED BY <1>8, <1>10, <5>1
      <4> QED BY <4>1
    <3>2. ASSUME NEW n \in Nat, n \in T PROVE n + 1 \in T
      <4> SUFFICES ASSUME NEW B \in SUBSET S, Cardinality(B) = n + 1 PROVE it[B] = g[B]
        OBVIOUS
      <4>1. B # {} /\ IsFiniteSet(B)
        BY FS_Subset, FS_EmptySet
      <4> DEFINE s == Some(B)
      <4>2. s \in B /\ B \ {s} \in SUBSET S
        BY <1>5, <4>1
      <4>3. Cardinality(B \ {s}) = n
        <5> HIDE DEF s
        <5>1. Cardinality(B \ {s}) = Cardinality(B) - 1
          BY <4>1, <4>2, FS_RemoveElement
        <5> QED BY <5>1
      <4>4. it[B \ {s}] = g[B \ {s}]
        BY <3>2, <4>2, <4>3
      <4> QED BY <1>8, <1>10, <4>1, <4>4
    <3>3. Cardinality(A) \in Nat
      BY FS_Subset, FS_CardinalityType
    <3> HIDE DEF T
    <3>4. Cardinality(A) \in T
      BY <3>1, <3>2, <3>3, SetInduction
    <3> QED BY <3>4 DEF T
  <2> QED BY <1>7, <2>1, <2>2
<1>12. Adds(it, f, S)
  BY <1>1, <1>10, <1>11 DEF Adds, V, next
<1> QED BY <1>12

\* What holds of the sum over the empty set, and of a set when it holds of the set
\* without one element, holds of every set.
LEMMA SumInduction ==
    ASSUME NEW S, IsFiniteSet(S), NEW T, {} \in T,
           \A A \in SUBSET S : A # {} /\ A \ {Some(A)} \in T => A \in T
    PROVE  S \in T
<1> DEFINE J == {n \in Nat : \A A \in SUBSET S : Cardinality(A) = n => A \in T}
<1>1. 0 \in J
  <2>1. ASSUME NEW A \in SUBSET S, Cardinality(A) = 0 PROVE A \in T
    <3>1. A = {}
      BY <2>1, FS_Subset, FS_EmptySet
    <3> QED BY <3>1
  <2> QED BY <2>1
<1>2. ASSUME NEW n \in Nat, n \in J PROVE n + 1 \in J
  <2> SUFFICES ASSUME NEW A \in SUBSET S, Cardinality(A) = n + 1 PROVE A \in T
    OBVIOUS
  <2>1. A # {} /\ IsFiniteSet(A)
    BY FS_Subset, FS_EmptySet
  <2> DEFINE x == Some(A)
  <2>2. x \in A
    BY <2>1 DEF Some
  <2>3. Cardinality(A \ {x}) = n
    <3> HIDE DEF x
    <3>1. Cardinality(A \ {x}) = Cardinality(A) - 1
      BY <2>1, <2>2, FS_RemoveElement
    <3> QED BY <3>1
  <2>4. A \ {x} \in T
    <3>1. A \ {x} \in SUBSET S
      OBVIOUS
    <3> QED BY <1>2, <2>3, <3>1
  <2> QED BY <2>1, <2>4
<1>3. Cardinality(S) \in Nat
  BY FS_CardinalityType
<1> HIDE DEF J
<1>4. Cardinality(S) \in J
  BY <1>1, <1>2, <1>3, SetInduction
<1> QED BY <1>4 DEF J

\* Sums are natural numbers, and of functions that differ in one place they differ
\* by as much.
LEMMA SumChanges ==
    ASSUME NEW S, IsFiniteSet(S), NEW f, DOMAIN f = S, NEW h, DOMAIN h = S, NEW x \in S,
           \A y \in S : f[y] \in Nat /\ h[y] \in Nat,
           \A y \in S \ {x} : h[y] = f[y]
    PROVE  /\ SumFunction(f) \in Nat /\ SumFunction(h) \in Nat
           /\ SumFunction(h) + f[x] = SumFunction(f) + h[x]
<1>1. PICK g : Adds(g, f, S)
  BY SumAdds
<1>2. PICK k : Adds(k, h, S)
  BY SumAdds
<1>3. g \in [SUBSET S -> Nat] /\ k \in [SUBSET S -> Nat] /\ f[x] \in Nat /\ h[x] \in Nat
  BY <1>1, <1>2 DEF Adds
<1> DEFINE T == {A \in SUBSET S : IF x \in A THEN k[A] + f[x] = g[A] + h[x] ELSE k[A] = g[A]}
<1>4. {} \in T
  BY <1>1, <1>2 DEF Adds
<1>5. ASSUME NEW A \in SUBSET S, A # {}, A \ {Some(A)} \in T PROVE A \in T
  <2> DEFINE y == Some(A)  B == A \ {y}
  <2>1. y \in A /\ y \in S /\ B \in SUBSET S
    BY <1>5 DEF Some
  <2>2. g[A] = f[y] + g[B] /\ k[A] = h[y] + k[B]
    BY <1>1, <1>2, <1>5 DEF Adds
  <2>3. g[B] \in Nat /\ k[B] \in Nat /\ f[y] \in Nat /\ h[y] \in Nat
    BY <1>3, <2>1
  <2>4. IF x \in B THEN k[B] + f[x] = g[B] + h[x] ELSE k[B] = g[B]
    BY <1>5
  <2>5. B = A \ {y}
    OBVIOUS
  <2> HIDE DEF y, B
  <2> DEFINE ga == g[A]  ka == k[A]  gb == g[B]  kb == k[B]
             fx == f[x]  hx == h[x]  fy == f[y]  hy == h[y]
  <2>6. /\ ga = fy + gb /\ ka = hy + kb
        /\ gb \in Nat /\ kb \in Nat /\ fy \in Nat /\ hy \in Nat /\ fx \in Nat /\ hx \in Nat
    BY <1>3, <2>2, <2>3
  <2>7. CASE y = x
    <3>1. x \in A /\ x \notin B /\ kb = gb /\ fy = fx /\ hy = hx
      BY <2>1, <2>4, <2>5, <2>7
    <3> HIDE DEF ga, ka, gb, kb, fx, hx, fy, hy
    <3>2. ka + fx = ga + hx
      BY ONLY <2>6, <3>1
    <3> QED BY <3>1, <3>2 DEF ga, ka, fx, hx
  <2>8. CASE y # x
    <3>1. (x \in A <=> x \in B) /\ fy = hy
      BY <2>1, <2>5, <2>8
    <3>2. CASE x \in B
      <4>1. kb + fx = gb + hx
        BY <2>4, <3>2
      <4> HIDE DEF ga, ka, gb, kb, fx, hx, fy, hy
      <4>2. ka + fx = ga + hx
        BY ONLY <2>6, <3>1, <4>1
      <4> QED BY <3>1, <3>2, <4>2 DEF ga, ka, fx, hx
    <3>3. CASE x \notin B
      <4>1. kb = gb
        BY <2>4, <3>3
      <4> HIDE DEF gb, kb, fx, hx, fy, hy
      <4> QED BY <2>6, <3>1, <3>3, <4>1
    <3> QED BY <3>2, <3>3
  <2> QED BY <2>7, <2>8
<1> HIDE DEF T
<1>6. S \in T
  BY <1>4, <1>5, SumInduction
<1>7. k[S] + f[x] = g[S] + h[x]
  BY <1>6 DEF T
<1> QED BY <1>1, <1>2, <1>3, <1>7 DEF Adds

\* A sum is at least each of its terms, and at least the number of terms if they
\* are positive.
LEMMA SumAtLeast ==
    ASSUME NEW S, IsFiniteSet(S), NEW f, DOMAIN f = S, \A y \in S : f[y] \in Nat
    PROVE  /\ SumFunction(f) \in Nat
           /\ \A y \in S : f[y] <= SumFunction(f)
           /\ (\A y \in S : f[y] > 0) => Cardinality(S) <= SumFunction(f)
<1>1. PICK g : Adds(g, f, S)
  BY SumAdds
<1>2. g \in [SUBSET S -> Nat] /\ g[S] = SumFunction(f)
  BY <1>1 DEF Adds
<1> DEFINE T == {A \in SUBSET S : \A y \in A : f[y] <= g[A]}
           U == {A \in SUBSET S : (\A y \in S : f[y] > 0) => Cardinality(A) <= g[A]}
<1>3. {} \in T /\ {} \in U
  BY <1>1, FS_EmptySet DEF Adds
<1>4. ASSUME NEW A \in SUBSET S, A # {}
      PROVE  /\ Some(A) \in A /\ g[A] = f[Some(A)] + g[A \ {Some(A)}]
             /\ f[Some(A)] \in Nat /\ g[A \ {Some(A)}] \in Nat
  <2>1. Some(A) \in A
    BY <1>4 DEF Some
  <2>2. g[A] = f[Some(A)] + g[A \ {Some(A)}]
    BY <1>1, <1>4 DEF Adds
  <2>3. A \ {Some(A)} \in SUBSET S
    OBVIOUS
  <2> QED BY <1>2, <2>1, <2>2, <2>3
<1>5. ASSUME NEW A \in SUBSET S, A # {}, A \ {Some(A)} \in T PROVE A \in T
  <2> SUFFICES ASSUME NEW y \in A PROVE f[y] <= g[A]
    OBVIOUS
  <2>1. CASE y = Some(A)
    BY <1>4, <1>5, <2>1
  <2>2. CASE y # Some(A)
    <3>1. f[y] <= g[A \ {Some(A)}] /\ f[y] \in Nat
      BY <1>5, <2>2
    <3> QED BY <1>4, <1>5, <3>1
  <2> QED BY <2>1, <2>2
<1>6. ASSUME NEW A \in SUBSET S, A # {}, A \ {Some(A)} \in U PROVE A \in U
  <2> SUFFICES ASSUME \A y \in S : f[y] > 0 PROVE Cardinality(A) <= g[A]
    OBVIOUS
  <2> DEFINE y == Some(A)  B == A \ {y}
  <2>1. y \in A /\ g[A] = f[y] + g[B] /\ f[y] \in Nat /\ g[B] \in Nat /\ f[y] > 0
    BY <1>4, <1>6
  <2>2. Cardinality(B) <= g[B]
    BY <1>6
  <2>3. IsFiniteSet(A)
    BY FS_Subset
  <2> HIDE DEF y
  <2>4. Cardinality(B) = Cardinality(A) - 1 /\ Cardinality(A) \in Nat /\ Cardinality(B) \in Nat
    BY <2>1, <2>3, FS_RemoveElement, FS_CardinalityType
  <2> HIDE DEF B
  <2> QED BY <2>1, <2>2, <2>4
<1> HIDE DEF T, U
<1>7. S \in T
  BY <1>3, <1>5, SumInduction
<1>8. S \in U
  BY <1>3, <1>6, SumInduction
<1> QED BY <1>2, <1>7, <1>8 DEF T, U

\* A sum of zeros is zero.
LEMMA SumOfZeros ==
    ASSUME NEW S, IsFiniteSet(S), NEW f, DOMAIN f = S, \A y \in S : f[y] = 0
    PROVE  SumFunction(f) = 0
<1>1. PICK g : Adds(g, f, S)
  BY SumAdds
<1> DEFINE T == {A \in SUBSET S : g[A] = 0}
<1>2. {} \in T
  BY <1>1 DEF Adds
<1>3. ASSUME NEW A \in SUBSET S, A # {}, A \ {Some(A)} \in T PROVE A \in T
  <2>1. Some(A) \in A
    BY <1>3 DEF Some
  <2>2. g[A] = f[Some(A)] + g[A \ {Some(A)}]
    BY <1>1, <1>3 DEF Adds
  <2>3. f[Some(A)] = 0 /\ g[A \ {Some(A)}] = 0
    BY <1>3, <2>1
  <2> QED BY <2>2, <2>3
<1> HIDE DEF T
<1>4. S \in T
  BY <1>2, <1>3, SumInduction
<1>5. g[S] = 0
  BY <1>4 DEF T
<1> QED BY <1>1, <1>5 DEF Adds

-----------------------------------------------------------------------------
(* Lists without repetition *)

Single(l) == \A i, j \in 1 .. Len(l) : l[i] = l[j] => i = j

\* RemoveFirst removes a position.
LEMMA FirstAt ==
    ASSUME NEW S, NEW l \in Seq(S), NEW e, e \in ToSet(l)
    PROVE  \E k \in 1 .. Len(l) : l[k] = e /\ RemoveFirst(l, e) = RemoveAt(l, k)
<1> DEFINE I == {i \in 1 .. Len(l) : l[i] = e}
<1>1. PICK i \in 1 .. Len(l) : l[i] = e
  BY Members
<1>2. RemoveFirst(l, e) = RemoveAt(l, Min(I))
  BY <1>1 DEF RemoveFirst, SelectInSeq
<1>3. Min(I) \in I
  <2>1. I \in SUBSET Nat /\ I # {}
    BY <1>1
  <2>2. PICK m \in I : \A n \in I : m <= n
    BY <2>1, NatLeast
  <2> HIDE DEF I
  <2> QED BY <2>2 DEF Min
<1> QED BY <1>2, <1>3

\* A list without one of its members.
LEMMA Removal ==
    ASSUME NEW S, NEW l, l \in Seq(S), NEW k \in 1 .. Len(l), NEW m, m = RemoveAt(l, k)
    PROVE  /\ m \in Seq(S) /\ Len(m) = Len(l) - 1
           /\ \A x \in ToSet(m) : x \in ToSet(l)
           /\ \A i \in 1 .. Len(l) : i # k => l[i] \in ToSet(m)
           /\ \A i \in 1 .. Len(m) : \E j \in 1 .. Len(l) : j # k /\ m[i] = l[j]
           /\ Single(l) => Single(m) /\ ToSet(m) = ToSet(l) \ {l[k]}
<1> DEFINE at(i) == IF i < k THEN i ELSE i + 1
<1>1. Len(l) \in Nat
  OBVIOUS
<1>2. /\ m \in Seq(S) /\ Len(m) = Len(l) - 1
      /\ \A i \in 1 .. Len(m) : m[i] = l[at(i)]
  <2>1. /\ RemoveAt(l, k) \in Seq(S) /\ Len(RemoveAt(l, k)) = Len(l) - 1
        /\ \A i \in 1 .. Len(l) - 1 : RemoveAt(l, k)[i] = l[at(i)]
    BY Removed
  <2> QED BY <2>1
<1>3. \A i \in 1 .. Len(m) : at(i) \in 1 .. Len(l) /\ at(i) # k
  BY <1>1, <1>2
<1>4. \A i, j \in 1 .. Len(m) : at(i) = at(j) => i = j
  BY <1>1, <1>2
<1>5. ASSUME NEW i \in 1 .. Len(l), i # k PROVE \E j \in 1 .. Len(m) : at(j) = i
  <2>1. CASE i < k
    BY <1>1, <1>2, <2>1
  <2>2. CASE i > k
    <3>1. i - 1 \in 1 .. Len(m) /\ at(i - 1) = i
      BY <1>1, <1>2, <2>2
    <3> QED BY <3>1
  <2> QED BY <1>1, <1>5, <2>1, <2>2
<1> HIDE DEF at
<1>6. \A i \in 1 .. Len(m) : \E j \in 1 .. Len(l) : j # k /\ m[i] = l[j]
  BY <1>2, <1>3
<1>7. \A x \in ToSet(m) : x \in ToSet(l)
  <2> SUFFICES ASSUME NEW x \in ToSet(m) PROVE x \in ToSet(l)
    OBVIOUS
  <2>1. PICK i \in 1 .. Len(m) : x = m[i]
    BY <1>2, Members
  <2>2. PICK j \in 1 .. Len(l) : x = l[j]
    BY <1>6, <2>1
  <2> QED BY <2>2, Members
<1>8. \A i \in 1 .. Len(l) : i # k => l[i] \in ToSet(m)
  <2> SUFFICES ASSUME NEW i \in 1 .. Len(l), i # k PROVE l[i] \in ToSet(m)
    OBVIOUS
  <2>1. PICK j \in 1 .. Len(m) : at(j) = i
    BY <1>5
  <2>2. l[i] = m[j]
    BY <1>2, <2>1
  <2> QED BY <1>2, <2>2, Members
<1>9. ASSUME Single(l) PROVE Single(m) /\ ToSet(m) = ToSet(l) \ {l[k]}
  <2>1. Single(m)
    BY <1>2, <1>3, <1>4, <1>9 DEF Single
  <2>2. ASSUME NEW x \in ToSet(l), x # l[k] PROVE x \in ToSet(m)
    <3>1. PICK i \in 1 .. Len(l) : x = l[i]
      BY Members
    <3> QED BY <1>8, <2>2, <3>1
  <2>3. l[k] \notin ToSet(m)
    <3> SUFFICES ASSUME l[k] \in ToSet(m) PROVE FALSE
      OBVIOUS
    <3>1. PICK i \in 1 .. Len(m) : l[k] = m[i]
      BY <1>2, Members
    <3> QED BY <1>6, <1>9, <3>1 DEF Single
  <2> QED BY <1>7, <2>1, <2>2, <2>3
<1> QED BY <1>2, <1>6, <1>7, <1>8, <1>9

\* RemoveFirst takes a member off a list without repetition.
LEMMA TakenOff ==
    ASSUME NEW S, NEW l, l \in Seq(S), Single(l), NEW e, e \in ToSet(l)
    PROVE  /\ RemoveFirst(l, e) \in Seq(S) /\ Single(RemoveFirst(l, e))
           /\ ToSet(RemoveFirst(l, e)) = ToSet(l) \ {e}
<1>1. PICK k \in 1 .. Len(l) : l[k] = e /\ RemoveFirst(l, e) = RemoveAt(l, k)
  BY FirstAt
<1>2. /\ RemoveAt(l, k) \in Seq(S) /\ Single(RemoveAt(l, k))
      /\ ToSet(RemoveAt(l, k)) = ToSet(l) \ {l[k]}
  BY Removal
<1> QED BY <1>1, <1>2

\* A list with one more at its end.
LEMMA PutLast ==
    ASSUME NEW S, NEW l, l \in Seq(S), NEW e, e \in S
    PROVE  /\ Append(l, e) \in Seq(S) /\ ToSet(Append(l, e)) = ToSet(l) \cup {e}
           /\ Single(l) /\ e \notin ToSet(l) => Single(Append(l, e))
<1> DEFINE m == Append(l, e)
<1>1. /\ m \in Seq(S) /\ Len(m) = Len(l) + 1 /\ m[Len(l) + 1] = e /\ Len(l) \in Nat
      /\ \A i \in 1 .. Len(l) : m[i] = l[i]
  OBVIOUS
<1> HIDE DEF m
<1>2. \A i \in 1 .. Len(m) : i = Len(l) + 1 \/ i \in 1 .. Len(l)
  BY <1>1
<1>3. ASSUME NEW x PROVE x \in ToSet(m) <=> x \in ToSet(l) \cup {e}
  <2>1. x \in ToSet(m) <=> \E i \in 1 .. Len(m) : x = m[i]
    BY <1>1, Members
  <2>2. x \in ToSet(l) <=> \E i \in 1 .. Len(l) : x = l[i]
    BY Members
  <2> QED BY <1>1, <1>2, <2>1, <2>2
<1>4. ASSUME Single(l), e \notin ToSet(l) PROVE Single(m)
  <2>1. \A i \in 1 .. Len(l) : l[i] # e
    BY <1>4, Members
  <2> QED BY <1>1, <1>2, <1>4, <2>1 DEF Single
<1> QED BY <1>1, <1>3, <1>4 DEF m

\* A list with one more at its head.
LEMMA PutFirst ==
    ASSUME NEW S, NEW l, l \in Seq(S), NEW e, e \in S
    PROVE  /\ <<e>> \o l \in Seq(S) /\ ToSet(<<e>> \o l) = ToSet(l) \cup {e}
           /\ Single(l) /\ e \notin ToSet(l) => Single(<<e>> \o l)
           /\ Head(<<e>> \o l) = e
<1> DEFINE d == <<e>>
           m == d \o l
<1>1. d \in Seq(S) /\ Len(d) = 1 /\ d[1] = e
  OBVIOUS
<1> HIDE DEF d
<1>2. /\ m \in Seq(S) /\ Len(m) = Len(l) + 1 /\ Len(l) \in Nat
      /\ \A i \in 1 .. Len(l) + 1 : m[i] = IF i = 1 THEN e ELSE l[i - 1]
  <2>1. /\ m \in Seq(S) /\ Len(m) = Len(d) + Len(l)
        /\ \A i \in 1 .. Len(d) + Len(l) : m[i] = IF i <= Len(d) THEN d[i] ELSE l[i - Len(d)]
    BY <1>1, ConcatProperties
  <2>2. Len(l) \in Nat
    OBVIOUS
  <2> HIDE DEF m
  <2> QED BY <1>1, <2>1, <2>2
<1> HIDE DEF m
<1>3. \A i \in 1 .. Len(m) : i = 1 \/ i - 1 \in 1 .. Len(l)
  BY <1>2
<1>4. \A i \in 1 .. Len(l) : i + 1 \in 1 .. Len(m) /\ m[i + 1] = l[i]
  BY <1>2
<1>5. m[1] = e /\ 1 \in 1 .. Len(m)
  BY <1>2
<1>6. \A i \in 1 .. Len(m) : i # 1 => m[i] = l[i - 1]
  BY <1>2
<1>7. ASSUME NEW x PROVE x \in ToSet(m) <=> x \in ToSet(l) \cup {e}
  <2>1. x \in ToSet(m) <=> \E i \in 1 .. Len(m) : x = m[i]
    BY <1>2, Members
  <2>2. x \in ToSet(l) <=> \E i \in 1 .. Len(l) : x = l[i]
    BY Members
  <2> QED BY <1>3, <1>4, <1>5, <1>6, <2>1, <2>2
<1>8. ASSUME Single(l), e \notin ToSet(l) PROVE Single(m)
  <2>1. \A i \in 1 .. Len(l) : l[i] # e
    BY <1>8, Members
  <2> SUFFICES ASSUME NEW i \in 1 .. Len(m), NEW j \in 1 .. Len(m), m[i] = m[j] PROVE i = j
    BY DEF Single
  <2>2. CASE i = 1 \/ j = 1
    BY <1>3, <1>5, <1>6, <2>1, <2>2
  <2>3. CASE i # 1 /\ j # 1
    <3>1. i - 1 = j - 1
      BY <1>3, <1>6, <1>8, <2>3 DEF Single
    <3> QED BY <3>1
  <2> QED BY <2>2, <2>3
<1>9. Head(m) = e
  BY <1>2, <1>5
<1> QED BY <1>2, <1>7, <1>8, <1>9 DEF m, d

-----------------------------------------------------------------------------
(* The cache *)

Cache == [buf : [Buf -> Header], avail : Seq(Buf), bufsize : Nat, wanted : BOOLEAN,
          io : Seq(Request), woken : SUBSET Chan, saved : Buf \cup {NoBuf}, stop : BOOLEAN]

\* The buffers of a list of requests, of the free list, and those the driver has
Bps(q)      == {r.bp : r \in ToSet(q)}
OnList(s)   == ToSet(s.avail)
InDriver(s) == Bps(s.io)

\* No buffer has two requests
Apart(q) == \A i, j \in 1 .. Len(q) : q[i].bp = q[j].bp => i = j

\* What the driver has, and what is to be written, is the buffer of a block
Named(s, b) == b \in InDriver(s) \/ Is(s, b, "DELWRI") => s.buf[b].blk # NoBlock

\* Where the buffer b is, if processes have B as the buffers they work on and N as
\* new ones: on the free list; with a process; with a process that looks for its
\* block again; with the driver alone; nowhere, without memory
Role(s, b, B, N) ==
    \/ /\ b \in OnList(s) /\ b \notin B \cup N /\ b \notin InDriver(s)
       /\ ~ Is(s, b, "BUSY") /\ ~ Is(s, b, "ASYNC") /\ s.buf[b].size > 0 /\ Named(s, b)
    \/ /\ b \notin OnList(s) /\ b \in B /\ b \notin N
       /\ Is(s, b, "BUSY") /\ ~ Is(s, b, "ASYNC") /\ s.buf[b].size > 0 /\ Named(s, b)
       /\ b \in InDriver(s) => ~ Is(s, b, "DONE")
    \/ /\ b \notin OnList(s) /\ b \notin B /\ b \in N /\ b \notin InDriver(s)
       /\ s.buf[b].blk = NoBlock /\ ~ Is(s, b, "ASYNC") /\ s.buf[b].size > 0
    \/ /\ b \notin OnList(s) /\ b \notin B \cup N /\ b \in InDriver(s)
       /\ Is(s, b, "BUSY") /\ Is(s, b, "ASYNC") /\ ~ Is(s, b, "DONE") /\ s.buf[b].size > 0
       /\ Named(s, b)
    \/ /\ b \notin OnList(s) /\ b \notin B \cup N /\ b \notin InDriver(s)
       /\ s.buf[b] = Unused

\* A search finds at most one buffer of a block
Findable(s, b) == s.buf[b].blk # NoBlock /\ ~ Is(s, b, "STALE")
Unique(s) ==
    \A b, c \in Buf :
      Findable(s, b) /\ Findable(s, c) /\ s.buf[b].blk = s.buf[c].blk => b = c

Lists(s) == Single(s.avail) /\ Apart(s.io)

\* The cache is sound if processes have B and N
Sound(s, B, N) ==
    s \in Cache /\ Lists(s) /\ (\A b \in Buf : Role(s, b, B, N)) /\ Unique(s)

\* The memory of the cache
Sizes(s) == [b \in Buf |-> s.buf[b].size]
Mem(s)   == s.bufsize + SumFunction(Sizes(s))

\* Only b has changed, and not its place
OnlyBuf(s, t, b) ==
    /\ t \in Cache /\ \A c \in Buf \ {b} : t.buf[c] = s.buf[c]
    /\ t.avail = s.avail /\ t.bufsize = s.bufsize /\ t.wanted = s.wanted /\ t.io = s.io
    /\ t.woken = s.woken /\ t.saved = s.saved /\ t.stop = s.stop

\* The fields of a cache.
LEMMA CacheFields ==
    ASSUME NEW s \in Cache
    PROVE  /\ s.buf \in [Buf -> Header] /\ s.avail \in Seq(Buf) /\ s.bufsize \in Nat
           /\ s.wanted \in BOOLEAN /\ s.io \in Seq(Request) /\ s.woken \in SUBSET Chan
           /\ s.saved \in Buf \cup {NoBuf} /\ s.stop \in BOOLEAN
BY DEF Cache

\* The fields of a buffer.
LEMMA HeaderFields ==
    ASSUME NEW s \in Cache, NEW b \in Buf
    PROVE  /\ s.buf[b] \in Header
           /\ s.buf[b].blk \in Block \cup {NoBlock} /\ s.buf[b].flags \in SUBSET Flag
           /\ s.buf[b].size \in Nat /\ s.buf[b].data \in Value
BY DEF Cache, Header

\* Changing the header of one buffer.
LEMMA OneHeader ==
    ASSUME NEW s \in Cache, NEW b \in Buf, NEW h, h \in Header
    PROVE  /\ OnlyBuf(s, [s EXCEPT !.buf = [@ EXCEPT ![b] = h]], b)
           /\ [s EXCEPT !.buf = [@ EXCEPT ![b] = h]].buf[b] = h
<1> DEFINE f == [s.buf EXCEPT ![b] = h]
           t == [s EXCEPT !.buf = f]
<1>1. f \in [Buf -> Header] /\ f[b] = h /\ \A c \in Buf \ {b} : f[c] = s.buf[c]
  BY CacheFields
<1> HIDE DEF f
<1>2. t \in Cache
  BY <1>1 DEF Cache
<1>3. /\ t.buf = f /\ t.avail = s.avail /\ t.bufsize = s.bufsize /\ t.wanted = s.wanted
      /\ t.io = s.io /\ t.woken = s.woken /\ t.saved = s.saved /\ t.stop = s.stop
  BY DEF Cache
<1> HIDE DEF t
<1>4. OnlyBuf(s, t, b) /\ t.buf[b] = h
  BY <1>1, <1>2, <1>3 DEF OnlyBuf
<1> QED BY <1>4 DEF t, f

\* Setting and clearing flags.
LEMMA FlaggedIs ==
    ASSUME NEW s \in Cache, NEW b \in Buf, NEW on \in SUBSET Flag, NEW off
    PROVE  /\ OnlyBuf(s, Flagged(s, b, on, off), b)
           /\ Flagged(s, b, on, off).buf[b] =
                [s.buf[b] EXCEPT !.flags = (@ \ off) \cup on]
<1> DEFINE h == [s.buf[b] EXCEPT !.flags = (@ \ off) \cup on]
<1>1. h \in Header
  <2>1. s.buf[b] \in Header
    BY HeaderFields
  <2> DEFINE g == s.buf[b]
  <2> HIDE DEF g
  <2>2. [g EXCEPT !.flags = (g.flags \ off) \cup on] \in Header
    BY <2>1 DEF Header, g
  <2> QED BY <2>2 DEF g
<1>2. Flagged(s, b, on, off) = [s EXCEPT !.buf = [@ EXCEPT ![b] = h]]
  BY DEF Flagged
<1> HIDE DEF h
<1>3. /\ OnlyBuf(s, [s EXCEPT !.buf = [@ EXCEPT ![b] = h]], b)
      /\ [s EXCEPT !.buf = [@ EXCEPT ![b] = h]].buf[b] = h
  BY <1>1, OneHeader
<1> QED BY <1>2, <1>3 DEF h

\* The step concerns b alone
OnlyAt(s, t, b) ==
    /\ t \in Cache /\ Lists(t) /\ t.saved = s.saved /\ t.stop = s.stop
    /\ \A c \in Buf \ {b} :
         /\ t.buf[c] = s.buf[c]
         /\ c \in OnList(t) <=> c \in OnList(s)
         /\ c \in InDriver(t) <=> c \in InDriver(s)

\* What of a buffer does not change with its flags
SameBut(t, s, b) ==
    /\ t.buf[b].blk = s.buf[b].blk /\ t.buf[b].size = s.buf[b].size
    /\ t.buf[b].data = s.buf[b].data

\* Setting and clearing flags, field by field.
LEMMA FlagsAre ==
    ASSUME NEW s \in Cache, NEW b \in Buf, NEW on \in SUBSET Flag, NEW off,
           NEW t, t = Flagged(s, b, on, off)
    PROVE  /\ OnlyBuf(s, t, b) /\ SameBut(t, s, b)
           /\ t.buf[b].flags = (s.buf[b].flags \ off) \cup on
<1> DEFINE g == s.buf[b]
           F == (g.flags \ off) \cup on
<1>1. OnlyBuf(s, t, b) /\ t.buf[b] = [g EXCEPT !.flags = F]
  BY FlaggedIs
<1>2. g \in Header
  BY HeaderFields
<1>3. g.blk = s.buf[b].blk /\ g.size = s.buf[b].size /\ g.data = s.buf[b].data
  OBVIOUS
<1> HIDE DEF F
<1>4. t.buf[b].blk = g.blk /\ t.buf[b].size = g.size /\ t.buf[b].data = g.data /\ t.buf[b].flags = F
  <2> HIDE DEF g
  <2> QED BY <1>1, <1>2 DEF Header
<1> QED BY <1>1, <1>4 DEF F, SameBut

\* A buffer without requests gets one.
LEMMA Requested ==
    ASSUME NEW q, q \in Seq(Request), Apart(q), NEW e, e \in Request, e.bp \notin Bps(q)
    PROVE  LET m == Append(q, e)
           IN  m \in Seq(Request) /\ Apart(m) /\ Bps(m) = Bps(q) \cup {e.bp}
<1> DEFINE m == Append(q, e)
<1>1. /\ m \in Seq(Request) /\ Len(m) = Len(q) + 1 /\ m[Len(q) + 1] = e /\ Len(q) \in Nat
      /\ \A i \in 1 .. Len(q) : m[i] = q[i]
  OBVIOUS
<1>2. ToSet(m) = ToSet(q) \cup {e}
  BY PutLast
<1> HIDE DEF m
<1>3. Bps(m) = Bps(q) \cup {e.bp}
  BY <1>2 DEF Bps
<1>4. \A i \in 1 .. Len(q) : q[i].bp # e.bp
  <2> SUFFICES ASSUME NEW i \in 1 .. Len(q) PROVE q[i].bp # e.bp
    OBVIOUS
  <2>1. q[i] \in ToSet(q)
    BY Members
  <2> QED BY <2>1 DEF Bps
<1>5. Apart(m)
  BY <1>1, <1>4 DEF Apart
<1> QED BY <1>1, <1>3, <1>5 DEF m

\* A request ends.
LEMMA RequestEnds ==
    ASSUME NEW q, q \in Seq(Request), Apart(q), NEW r, r \in ToSet(q)
    PROVE  LET m == RemoveFirst(q, r)
           IN  m \in Seq(Request) /\ Apart(m) /\ Bps(m) = Bps(q) \ {r.bp}
<1> DEFINE m == RemoveFirst(q, r)
<1>1. PICK k \in 1 .. Len(q) : q[k] = r /\ m = RemoveAt(q, k)
  BY FirstAt
<1> HIDE DEF m
<1>2. Len(q) \in Nat
  OBVIOUS
<1>3. /\ m \in Seq(Request) /\ Len(m) = Len(q) - 1
      /\ \A i \in 1 .. Len(m) : m[i] = q[IF i < k THEN i ELSE i + 1]
  <2>1. /\ RemoveAt(q, k) \in Seq(Request) /\ Len(RemoveAt(q, k)) = Len(q) - 1
        /\ \A i \in 1 .. Len(q) - 1 : RemoveAt(q, k)[i] = q[IF i < k THEN i ELSE i + 1]
    BY Removed
  <2> QED BY <1>1, <2>1
<1>4. Single(q)
  BY DEF Single, Apart
<1>5. ToSet(m) = ToSet(q) \ {r}
  BY <1>1, <1>4, Removal
<1>6. \A e \in ToSet(q) : e.bp = r.bp => e = r
  <2> SUFFICES ASSUME NEW e \in ToSet(q), e.bp = r.bp PROVE e = r
    OBVIOUS
  <2>1. PICK i \in 1 .. Len(q) : e = q[i]
    BY Members
  <2> QED BY <1>1, <2>1 DEF Apart
<1>7. Bps(m) = Bps(q) \ {r.bp}
  BY <1>5, <1>6 DEF Bps
<1>8. Apart(m)
  <2> DEFINE at(i) == IF i < k THEN i ELSE i + 1
  <2>1. \A i \in 1 .. Len(m) : at(i) \in 1 .. Len(q) /\ m[i] = q[at(i)]
    BY <1>2, <1>3
  <2>2. \A i, j \in 1 .. Len(m) : at(i) = at(j) => i = j
    BY <1>2, <1>3
  <2> HIDE DEF at
  <2> QED BY <2>1, <2>2 DEF Apart
<1> QED BY <1>3, <1>7, <1>8 DEF m

\* The rest of the cache is the same
SameRest(t, s) == t.bufsize = s.bufsize /\ t.wanted = s.wanted /\ t.woken = s.woken

\* notavail takes a buffer off the free list.
LEMMA NotavailIs ==
    ASSUME NEW s, s \in Cache, Lists(s), NEW b \in Buf, b \in OnList(s), NEW t, t = Notavail(s, b)
    PROVE  /\ OnlyAt(s, t, b) /\ SameBut(t, s, b) /\ SameRest(t, s) /\ t.io = s.io
           /\ OnList(t) = OnList(s) \ {b}
           /\ t.buf[b].flags = s.buf[b].flags \cup {"BUSY"}
<1> DEFINE l == RemoveFirst(s.avail, b)
           u == [s EXCEPT !.avail = l]
<1>1. s.avail \in Seq(Buf) /\ Single(s.avail) /\ b \in ToSet(s.avail)
  BY CacheFields DEF Lists, OnList
<1>2. l \in Seq(Buf) /\ Single(l) /\ ToSet(l) = ToSet(s.avail) \ {b}
  BY <1>1, TakenOff
<1>3. t = Flagged(u, b, {"BUSY"}, {})
  BY DEF Notavail
<1> HIDE DEF l
<1>4. /\ u \in Cache /\ u.buf = s.buf /\ u.avail = l /\ u.bufsize = s.bufsize
      /\ u.wanted = s.wanted /\ u.io = s.io /\ u.woken = s.woken /\ u.saved = s.saved
      /\ u.stop = s.stop
  BY <1>2 DEF Cache
<1> HIDE DEF u
<1>5. /\ OnlyBuf(u, t, b) /\ SameBut(t, u, b)
      /\ t.buf[b].flags = (u.buf[b].flags \ {}) \cup {"BUSY"}
  <2>1. {"BUSY"} \in SUBSET Flag
    BY DEF Flag
  <2> QED BY <1>3, <1>4, <2>1, FlagsAre
<1>6. t.avail = l /\ t.io = s.io /\ t \in Cache
  BY <1>4, <1>5 DEF OnlyBuf
<1>7. Lists(t)
  BY <1>2, <1>6 DEF Lists
<1>8. OnList(t) = OnList(s) \ {b}
  BY <1>2, <1>6 DEF OnList
<1>9. SameRest(t, s) /\ SameBut(t, s, b) /\ t.buf[b].flags = s.buf[b].flags \cup {"BUSY"}
  BY <1>4, <1>5 DEF OnlyBuf, SameRest, SameBut
<1>10. OnlyAt(s, t, b)
  BY <1>4, <1>5, <1>6, <1>7, <1>8 DEF OnlyBuf, OnlyAt, InDriver
<1> QED BY <1>6, <1>8, <1>9, <1>10

\* brelse puts a buffer on the free list.
LEMMA BrelseIs ==
    ASSUME NEW s, s \in Cache, Lists(s), NEW b \in Buf, b \notin OnList(s), NEW t, t = Brelse(s, b)
    PROVE  /\ OnlyAt(s, t, b) /\ SameBut(t, s, b) /\ t.io = s.io
           /\ OnList(t) = OnList(s) \cup {b}
           /\ t.bufsize = s.bufsize /\ ~ t.wanted /\ t.woken = s.woken \cup BrelseWakes(s, b)
           /\ ~ Is(t, b, "BUSY") /\ ~ Is(t, b, "ASYNC")
           /\ Is(s, b, "STALE") => Is(t, b, "STALE")
           /\ Is(t, b, "DELWRI") => Is(s, b, "DELWRI")
<1> DEFINE failed == Is(s, b, "ERROR")
           old == failed \/ Is(s, b, "AGE")
           on == IF failed THEN {"STALE", "AGE"} ELSE {}
           off == {"WANTED", "BUSY", "ASYNC"} \cup (IF failed THEN {"ERROR", "DELWRI"} ELSE {})
           u == Flagged(s, b, on, off)
           l == IF old THEN <<b>> \o u.avail ELSE Append(u.avail, b)
           w == u.woken \cup BrelseWakes(s, b)
<1>1. t = [u EXCEPT !.woken = w, !.wanted = FALSE, !.avail = l]
  BY DEF Brelse
<1>2. /\ OnlyBuf(s, u, b) /\ SameBut(u, s, b)
      /\ u.buf[b].flags = (s.buf[b].flags \ off) \cup on
  <2>1. on \in SUBSET Flag
    BY DEF Flag
  <2> HIDE DEF on, off
  <2> QED BY <2>1, FlagsAre
<1>3. /\ "BUSY" \notin u.buf[b].flags /\ "ASYNC" \notin u.buf[b].flags
      /\ "STALE" \in s.buf[b].flags => "STALE" \in u.buf[b].flags
      /\ "DELWRI" \in u.buf[b].flags => "DELWRI" \in s.buf[b].flags
  BY <1>2
<1>4. w \in SUBSET Chan
  <2>1. u.woken \in SUBSET Chan
    BY <1>2, CacheFields DEF OnlyBuf
  <2>2. BrelseWakes(s, b) \in SUBSET Chan
    BY DEF BrelseWakes, Chan
  <2> QED BY <2>1, <2>2
<1>5. /\ u.avail \in Seq(Buf) /\ Single(u.avail)
      /\ b \notin ToSet(u.avail) /\ ToSet(u.avail) = OnList(s)
  BY <1>2, CacheFields DEF OnlyBuf, Lists, OnList
<1> HIDE DEF u, on, off, w
<1>6. l \in Seq(Buf) /\ Single(l) /\ ToSet(l) = ToSet(u.avail) \cup {b}
  <2> DEFINE m == u.avail
  <2>1. m \in Seq(Buf) /\ Single(m) /\ b \notin ToSet(m)
    BY <1>5
  <2> HIDE DEF m, old
  <2>2. /\ Append(m, b) \in Seq(Buf) /\ ToSet(Append(m, b)) = ToSet(m) \cup {b}
        /\ Single(Append(m, b))
    BY <2>1, PutLast
  <2>3. /\ <<b>> \o m \in Seq(Buf) /\ ToSet(<<b>> \o m) = ToSet(m) \cup {b}
        /\ Single(<<b>> \o m)
    BY <2>1, PutFirst
  <2> QED BY <2>2, <2>3 DEF m
<1> HIDE DEF l
<1>7. /\ t \in Cache /\ t.buf = u.buf /\ t.avail = l /\ t.bufsize = u.bufsize
      /\ t.wanted = FALSE /\ t.io = u.io /\ t.woken = w /\ t.saved = u.saved
      /\ t.stop = u.stop
  <2>1. u \in Cache
    BY <1>2 DEF OnlyBuf
  <2> QED BY <1>1, <1>4, <1>6, <2>1 DEF Cache
<1>8. t.io = s.io /\ t.bufsize = s.bufsize /\ t.woken = s.woken \cup BrelseWakes(s, b)
  BY <1>2, <1>7 DEF OnlyBuf, w
<1>9. OnList(t) = OnList(s) \cup {b}
  BY <1>5, <1>6, <1>7 DEF OnList
<1>10. Lists(t)
  BY <1>6, <1>7, <1>8 DEF Lists
<1>11. OnlyAt(s, t, b)
  BY <1>2, <1>7, <1>8, <1>9, <1>10 DEF OnlyBuf, OnlyAt, InDriver
<1>12. SameBut(t, s, b)
  BY <1>2, <1>7 DEF SameBut
<1> QED BY <1>3, <1>7, <1>8, <1>9, <1>11, <1>12 DEF Is

\* A request for b
GoodRequest(e, b) == e \in Request /\ e.bp = b

\* The strategy routine is given a request for a buffer whose flags change first
Given(s, b, on, off, e) == [Flagged(s, b, on, off) EXCEPT !.io = Append(@, e)]

Handed(s, t, b, on, off, e) ==
    /\ OnlyAt(s, t, b) /\ SameBut(t, s, b) /\ SameRest(t, s) /\ t.avail = s.avail
    /\ InDriver(t) = InDriver(s) \cup {b} /\ t.io = Append(s.io, e)
    /\ t.buf[b].flags = (s.buf[b].flags \ off) \cup on

\* The driver gets a request for a buffer whose flags change first.
LEMMA StrategyIs ==
    ASSUME NEW s, s \in Cache, Lists(s), NEW b \in Buf, b \notin InDriver(s),
           NEW on, on \in SUBSET Flag, NEW off, NEW e, GoodRequest(e, b)
    PROVE  Handed(s, Given(s, b, on, off, e), b, on, off, e)
<1> DEFINE t == Given(s, b, on, off, e)
           u == Flagged(s, b, on, off)
           q == Append(u.io, e)
<1>1. t = [u EXCEPT !.io = q]
  BY DEF Given
<1> HIDE DEF t
<1>2. /\ OnlyBuf(s, u, b) /\ SameBut(u, s, b)
      /\ u.buf[b].flags = (s.buf[b].flags \ off) \cup on
  BY FlagsAre
<1> HIDE DEF u
<1>3. u.io \in Seq(Request) /\ Apart(u.io) /\ b \notin Bps(u.io) /\ u.io = s.io
  BY <1>2, CacheFields DEF OnlyBuf, Lists, InDriver
<1>4. e \in Request /\ e.bp = b
  BY DEF GoodRequest
<1>5. q \in Seq(Request) /\ Apart(q) /\ Bps(q) = Bps(u.io) \cup {b}
  BY <1>3, <1>4, Requested
<1>6. q = Append(s.io, e)
  BY <1>3
<1> HIDE DEF q
<1>7. /\ t \in Cache /\ t.buf = u.buf /\ t.avail = u.avail /\ t.bufsize = u.bufsize
      /\ t.wanted = u.wanted /\ t.io = q /\ t.woken = u.woken /\ t.saved = u.saved
      /\ t.stop = u.stop
  <2>1. u \in Cache
    BY <1>2 DEF OnlyBuf
  <2> QED BY <1>1, <1>5, <2>1 DEF Cache
<1>8. t.avail = s.avail /\ InDriver(t) = InDriver(s) \cup {b}
  BY <1>2, <1>3, <1>5, <1>7 DEF OnlyBuf, InDriver
<1>9. Lists(t)
  BY <1>5, <1>7, <1>8 DEF Lists
<1>10. OnlyAt(s, t, b)
  BY <1>2, <1>7, <1>8, <1>9 DEF OnlyBuf, OnlyAt, OnList
<1>11. SameBut(t, s, b) /\ SameRest(t, s)
  BY <1>2, <1>7 DEF OnlyBuf, SameBut, SameRest
<1>12. t.buf[b].flags = (s.buf[b].flags \ off) \cup on
  BY <1>2, <1>7
<1>13. Handed(s, t, b, on, off, e)
  BY <1>6, <1>7, <1>8, <1>10, <1>11, <1>12 DEF Handed
<1> QED BY <1>13 DEF t

\* The cache stays sound if b does and nobody else has its block.
LEMMA SoundStep ==
    ASSUME NEW s, NEW B, NEW N, Sound(s, B, N), NEW b \in Buf, NEW t, OnlyAt(s, t, b),
           NEW C, NEW M, \A c \in Buf \ {b} : (c \in C <=> c \in B) /\ (c \in M <=> c \in N),
           Role(t, b, C, M),
           Findable(t, b) =>
             \A c \in Buf \ {b} : ~ (Findable(s, c) /\ s.buf[c].blk = t.buf[b].blk)
    PROVE  Sound(t, C, M)
<1>1. \A c \in Buf \ {b} : Role(t, c, C, M)
  <2> SUFFICES ASSUME NEW c \in Buf \ {b} PROVE Role(t, c, C, M)
    OBVIOUS
  <2>1. Role(s, c, B, N)
    BY DEF Sound
  <2>2. /\ t.buf[c] = s.buf[c] /\ (c \in C <=> c \in B) /\ (c \in M <=> c \in N)
        /\ (c \in OnList(t) <=> c \in OnList(s)) /\ (c \in InDriver(t) <=> c \in InDriver(s))
    BY DEF OnlyAt
  <2> QED BY <2>1, <2>2 DEF Role, Is, Named
<1>2. Unique(t)
  <2>1. \A c \in Buf \ {b} : (Findable(t, c) <=> Findable(s, c)) /\ t.buf[c].blk = s.buf[c].blk
    BY DEF Findable, OnlyAt, Is
  <2> SUFFICES ASSUME NEW c \in Buf, NEW d \in Buf, Findable(t, c), Findable(t, d),
                      t.buf[c].blk = t.buf[d].blk
               PROVE  c = d
    BY DEF Unique
  <2>2. CASE c # b /\ d # b
    BY <2>1, <2>2 DEF Sound, Unique
  <2>3. CASE c = b /\ d # b
    BY <2>1, <2>3
  <2>4. CASE c # b /\ d = b
    BY <2>1, <2>4
  <2> QED BY <2>2, <2>3, <2>4
<1> QED BY <1>1, <1>2 DEF Sound, OnlyAt

\* b keeps its block, or cannot be found.
LEMMA SoundSame ==
    ASSUME NEW s, NEW B, NEW N, Sound(s, B, N), NEW b \in Buf, NEW t, OnlyAt(s, t, b),
           NEW C, NEW M, \A c \in Buf \ {b} : (c \in C <=> c \in B) /\ (c \in M <=> c \in N),
           Role(t, b, C, M),
           t.buf[b].blk \in {s.buf[b].blk, NoBlock}, Is(s, b, "STALE") => Is(t, b, "STALE")
    PROVE  Sound(t, C, M)
<1>1. Findable(t, b) => Findable(s, b) /\ s.buf[b].blk = t.buf[b].blk
  BY DEF Findable
<1>2. Findable(t, b) =>
        \A c \in Buf \ {b} : ~ (Findable(s, c) /\ s.buf[c].blk = t.buf[b].blk)
  BY <1>1 DEF Sound, Unique
<1> QED BY <1>2, SoundStep

\* What a step of the cache means for others: who waits is woken or waits for
\* what somebody will still release, and the buffers K stay as they are
Waited(s, b) == Is(s, b, "BUSY") /\ Is(s, b, "WANTED")

Kept(s, t, b) ==
    /\ t.buf[b].blk = s.buf[b].blk /\ (Is(t, b, "STALE") <=> Is(s, b, "STALE"))
    /\ Is(s, b, "DONE") => Is(t, b, "DONE")
    /\ b \in InDriver(t) <=> b \in InDriver(s)

Served(s, t, b, B, C) ==
    Waited(s, b) /\ (b \in InDriver(s) \/ b \in B) =>
      \/ <<"buf", b>> \in t.woken
      \/ /\ Waited(t, b) /\ (b \in InDriver(t) \/ b \in C)
         /\ b \in InDriver(s) => b \in InDriver(t)

MemoryServed(s, t) ==
    s.wanted /\ s.avail = <<>> =>
      \/ Free \in t.woken
      \/ t.wanted /\ t.avail = <<>> /\ t.bufsize <= s.bufsize

Goes(s, t, B, C, K) ==
    /\ s.woken \subseteq t.woken /\ MemoryServed(s, t)
    /\ \A b \in Buf : Served(s, t, b, B, C)
    /\ \A b \in Buf : b \in K => Kept(s, t, b)

\* A step that concerns b.
LEMMA GoesStep ==
    ASSUME NEW s, NEW b \in Buf, NEW t, OnlyAt(s, t, b),
           NEW B, NEW C, \A c \in Buf \ {b} : c \in B => c \in C,
           NEW K, b \in K => Kept(s, t, b),
           s.woken \subseteq t.woken, MemoryServed(s, t), Served(s, t, b, B, C)
    PROVE  Goes(s, t, B, C, K)
<1>1. ASSUME NEW c \in Buf \ {b} PROVE Served(s, t, c, B, C)
  BY DEF Served, OnlyAt, Waited, Is
<1>2. ASSUME NEW c \in Buf \ {b} PROVE Kept(s, t, c)
  BY DEF Kept, OnlyAt, Is
<1> QED BY <1>1, <1>2 DEF Goes

\* Two steps.
LEMMA GoesOn ==
    ASSUME NEW s, NEW t, NEW u, t \in Cache, u \in Cache, s \in Cache, NEW B, NEW C, NEW D, NEW K,
           Goes(s, t, B, C, K), Goes(t, u, C, D, K)
    PROVE  Goes(s, u, B, D, K)
<1>1. s.woken \subseteq t.woken /\ t.woken \subseteq u.woken
  BY DEF Goes
<1>2. MemoryServed(s, u)
  <2>1. MemoryServed(s, t) /\ MemoryServed(t, u)
    BY DEF Goes
  <2>2. s.bufsize \in Nat /\ t.bufsize \in Nat /\ u.bufsize \in Nat
    BY CacheFields
  <2> QED BY <1>1, <2>1, <2>2 DEF MemoryServed
<1>3. ASSUME NEW b \in Buf PROVE Served(s, u, b, B, D)
  <2>1. Served(s, t, b, B, C) /\ Served(t, u, b, C, D)
    BY DEF Goes
  <2> QED BY <1>1, <2>1 DEF Served
<1>4. ASSUME NEW b \in Buf, b \in K PROVE Kept(s, u, b)
  <2>1. Kept(s, t, b) /\ Kept(t, u, b)
    BY <1>4 DEF Goes
  <2> QED BY <2>1 DEF Kept
<1> QED BY <1>1, <1>2, <1>3, <1>4 DEF Goes

\* Fewer buffers to look after.
LEMMA GoesLess ==
    ASSUME NEW s, NEW t, NEW B, NEW C, NEW K, Goes(s, t, B, C, K), NEW L, L \subseteq K
    PROVE  Goes(s, t, B, C, L)
BY DEF Goes

\* The memory is the same if the sizes are.
LEMMA MemSame ==
    ASSUME NEW s, NEW t, t.bufsize = s.bufsize, \A c \in Buf : t.buf[c].size = s.buf[c].size
    PROVE  Mem(t) = Mem(s)
<1>1. Sizes(t) = Sizes(s)
  BY DEF Sizes
<1> QED BY <1>1 DEF Mem

\* It is a natural number.
LEMMA MemNat == ASSUME NEW s, s \in Cache PROVE Mem(s) \in Nat /\ SumFunction(Sizes(s)) \in Nat
<1> DEFINE f == Sizes(s)
<1>1. DOMAIN f = Buf /\ \A c \in Buf : f[c] \in Nat
  BY HeaderFields DEF Sizes
<1> HIDE DEF f
<1>2. SumFunction(f) \in Nat
  BY <1>1, PoolsAssumption, SumAtLeast
<1>3. s.bufsize \in Nat
  BY CacheFields
<1> QED BY <1>2, <1>3 DEF Mem, f

\* The memory differs by as much as the buffer b and what is in no buffer
MemDiffers(s, t, b) ==
    /\ Mem(s) \in Nat /\ Mem(t) \in Nat
    /\ (Mem(t) + s.bufsize) + s.buf[b].size = (Mem(s) + t.bufsize) + t.buf[b].size

\* A buffer that has become another size changes it by as much.
LEMMA MemChanges ==
    ASSUME NEW s, s \in Cache, NEW b \in Buf, NEW t, OnlyAt(s, t, b)
    PROVE  MemDiffers(s, t, b)
<1> DEFINE f == Sizes(s)  h == Sizes(t)
<1>1. t \in Cache
  BY DEF OnlyAt
<1>2. /\ DOMAIN f = Buf /\ DOMAIN h = Buf
      /\ \A c \in Buf : f[c] = s.buf[c].size /\ h[c] = t.buf[c].size
  BY DEF Sizes
<1>3. \A c \in Buf : f[c] \in Nat /\ h[c] \in Nat
  BY <1>1, <1>2, HeaderFields
<1>4. \A c \in Buf \ {b} : h[c] = f[c]
  BY <1>2 DEF OnlyAt
<1> HIDE DEF f, h
<1>5. /\ SumFunction(f) \in Nat /\ SumFunction(h) \in Nat
      /\ SumFunction(h) + f[b] = SumFunction(f) + h[b]
  BY <1>2, <1>3, <1>4, PoolsAssumption, SumChanges
<1>6. s.bufsize \in Nat /\ t.bufsize \in Nat
  BY <1>1, CacheFields
<1> DEFINE x == SumFunction(f)  y == SumFunction(h)  i == s.bufsize  j == t.bufsize
           m == s.buf[b].size  n == t.buf[b].size
<1>7. /\ x \in Nat /\ y \in Nat /\ i \in Nat /\ j \in Nat /\ m \in Nat /\ n \in Nat /\ y + m = x + n
  BY <1>2, <1>3, <1>5, <1>6
<1>8. Mem(s) = i + x /\ Mem(t) = j + y
  BY DEF Mem, f, h
<1> HIDE DEF x, y, i, j, m, n
<1>9. Mem(s) \in Nat /\ Mem(t) \in Nat /\ (Mem(t) + i) + m = (Mem(s) + j) + n
  BY <1>7, <1>8
<1> QED BY <1>9 DEF i, j, m, n, MemDiffers

-----------------------------------------------------------------------------
(* The steps of the cache *)

\* A channel of a buffer is not that of the free list.
LEMMA ChannelsDiffer == \A b \in Buf : <<"buf", b>> # Free
BY NamesAssumption DEF Free

\* A buffer on the free list is nobody's.
LEMMA ListedFree ==
    ASSUME NEW s, NEW B, NEW N, Sound(s, B, N), NEW b, b \in OnList(s)
    PROVE  /\ b \in Buf /\ b \notin B \cup N /\ b \notin InDriver(s)
           /\ ~ Is(s, b, "BUSY") /\ ~ Is(s, b, "ASYNC") /\ s.buf[b].size > 0 /\ Named(s, b)
<1>1. s.avail \in Seq(Buf)
  BY CacheFields DEF Sound
<1>2. b \in Buf
  <2>1. PICK i \in 1 .. Len(s.avail) : b = s.avail[i]
    BY <1>1, Members DEF OnList
  <2> QED BY <1>1, <2>1
<1>3. Role(s, b, B, N)
  BY <1>2 DEF Sound
<1> QED BY <1>2, <1>3 DEF Role

\* A buffer that a process works on.
LEMMA HeldBusy ==
    ASSUME NEW s, NEW B, NEW N, Sound(s, B, N), NEW b \in Buf, b \in B
    PROVE  /\ b \notin OnList(s) /\ b \notin N
           /\ Is(s, b, "BUSY") /\ ~ Is(s, b, "ASYNC") /\ s.buf[b].size > 0
           /\ b \in InDriver(s) => ~ Is(s, b, "DONE")
           /\ Named(s, b)
<1>1. Role(s, b, B, N)
  BY DEF Sound
<1> QED BY <1>1 DEF Role

\* A new buffer.
LEMMA NewIs ==
    ASSUME NEW s, NEW B, NEW N, Sound(s, B, N), NEW b \in Buf, b \in N
    PROVE  /\ b \notin OnList(s) /\ b \notin B /\ b \notin InDriver(s)
           /\ s.buf[b].blk = NoBlock /\ ~ Is(s, b, "ASYNC") /\ s.buf[b].size > 0
<1>1. Role(s, b, B, N)
  BY DEF Sound
<1> QED BY <1>1 DEF Role

\* notavail: the caller has the buffer now.
LEMMA Take ==
    ASSUME NEW s, NEW B, NEW N, Sound(s, B, N), NEW b, b \in OnList(s), NEW t, t = Notavail(s, b)
    PROVE  /\ Sound(t, B \cup {b}, N) /\ OnlyAt(s, t, b) /\ SameBut(t, s, b)
           /\ Goes(s, t, B, B \cup {b}, B) /\ Mem(t) = Mem(s)
           /\ t.io = s.io /\ t.bufsize = s.bufsize /\ t.woken = s.woken
           /\ OnList(t) = OnList(s) \ {b}
           /\ t.buf[b].flags = s.buf[b].flags \cup {"BUSY"}
<1>1. /\ s \in Cache /\ Lists(s) /\ b \in Buf /\ b \notin B \cup N /\ b \notin InDriver(s)
      /\ ~ Is(s, b, "BUSY") /\ ~ Is(s, b, "ASYNC") /\ s.buf[b].size > 0 /\ Named(s, b)
  BY ListedFree DEF Sound
<1>2. /\ OnlyAt(s, t, b) /\ SameBut(t, s, b) /\ SameRest(t, s) /\ t.io = s.io
      /\ OnList(t) = OnList(s) \ {b} /\ t.buf[b].flags = s.buf[b].flags \cup {"BUSY"}
  BY <1>1, NotavailIs
<1>3. b \notin InDriver(t) /\ b \notin OnList(t)
  BY <1>1, <1>2 DEF InDriver
<1>4. Role(t, b, B \cup {b}, N)
  BY <1>1, <1>2, <1>3 DEF Role, Is, SameBut, Named
<1>5. Is(s, b, "STALE") => Is(t, b, "STALE")
  BY <1>2 DEF Is
<1>6. Sound(t, B \cup {b}, N)
  BY <1>1, <1>2, <1>4, <1>5, SoundSame DEF SameBut
<1>7. s.avail # <<>>
  <2> SUFFICES ASSUME s.avail = <<>> PROVE FALSE
    OBVIOUS
  <2> QED BY DEF OnList, ToSet
<1>8. Goes(s, t, B, B \cup {b}, B)
  <2>1. Served(s, t, b, B, B \cup {b})
    BY <1>1 DEF Served, Waited
  <2>2. MemoryServed(s, t)
    BY <1>7 DEF MemoryServed
  <2> QED BY <1>1, <1>2, <2>1, <2>2, GoesStep DEF SameRest
<1>9. Mem(t) = Mem(s)
  BY <1>2, MemSame DEF SameRest, SameBut, OnlyAt
<1> QED BY <1>1, <1>2, <1>6, <1>8, <1>9 DEF SameRest

\* brelse: a buffer that a process worked on, or that the driver is done with.
LEMMA Release ==
    ASSUME NEW s, NEW B, NEW N, Sound(s, B, N), NEW b \in Buf, b \in B, b \notin InDriver(s),
           NEW t, t = Brelse(s, b)
    PROVE  /\ Sound(t, B \ {b}, N) /\ OnlyAt(s, t, b) /\ SameBut(t, s, b)
           /\ Goes(s, t, B, B \ {b}, B \ {b}) /\ Mem(t) = Mem(s)
           /\ t.io = s.io /\ t.bufsize = s.bufsize
           /\ Is(s, b, "STALE") => Is(t, b, "STALE")
<1>1. /\ s \in Cache /\ Lists(s) /\ b \notin OnList(s) /\ b \notin N
      /\ s.buf[b].size > 0 /\ Named(s, b)
  BY HeldBusy DEF Sound
<1>2. /\ OnlyAt(s, t, b) /\ SameBut(t, s, b) /\ t.io = s.io
      /\ OnList(t) = OnList(s) \cup {b}
      /\ t.bufsize = s.bufsize /\ ~ t.wanted /\ t.woken = s.woken \cup BrelseWakes(s, b)
      /\ ~ Is(t, b, "BUSY") /\ ~ Is(t, b, "ASYNC")
      /\ Is(s, b, "STALE") => Is(t, b, "STALE")
      /\ Is(t, b, "DELWRI") => Is(s, b, "DELWRI")
  BY <1>1, BrelseIs
<1>3. b \notin InDriver(t) /\ b \in OnList(t)
  BY <1>2 DEF InDriver
<1>4. Role(t, b, B \ {b}, N)
  BY <1>1, <1>2, <1>3 DEF Role, SameBut, Named
<1>5. Sound(t, B \ {b}, N)
  BY <1>2, <1>4, SoundSame DEF SameBut
<1>6. Served(s, t, b, B, B \ {b})
  BY <1>2 DEF Served, Waited, BrelseWakes
<1>7. MemoryServed(s, t)
  BY <1>2 DEF MemoryServed, BrelseWakes
<1>8. Goes(s, t, B, B \ {b}, B \ {b})
  BY <1>2, <1>6, <1>7, GoesStep
<1>9. Mem(t) = Mem(s)
  BY <1>2, MemSame DEF SameBut, OnlyAt
<1> QED BY <1>2, <1>5, <1>8, <1>9

\* A step that changes one header only.
LEMMA OnlyBufAt ==
    ASSUME NEW s, s \in Cache, Lists(s), NEW b, NEW t, OnlyBuf(s, t, b)
    PROVE  /\ OnlyAt(s, t, b) /\ SameRest(t, s) /\ t.io = s.io /\ t.avail = s.avail
           /\ OnList(t) = OnList(s) /\ InDriver(t) = InDriver(s)
BY DEF OnlyBuf, OnlyAt, SameRest, OnList, InDriver, Lists

\* Two steps of one buffer.
LEMMA OnlyAtTwice ==
    ASSUME NEW s, NEW t, NEW u, NEW b, OnlyAt(s, t, b), OnlyAt(t, u, b)
    PROVE  OnlyAt(s, u, b)
BY DEF OnlyAt

\* The free list and the memory are as they were.
LEMMA MemoryStays ==
    ASSUME NEW s, s \in Cache, NEW t, SameRest(t, s), t.avail = s.avail
    PROVE  MemoryServed(s, t)
BY CacheFields DEF MemoryServed, SameRest

\* The flags of a buffer change while a process works on it.
LEMMA Reflag ==
    ASSUME NEW s, NEW B, NEW N, Sound(s, B, N), NEW b \in Buf, b \in B,
           NEW on \in SUBSET Flag, NEW off, NEW t, t = Flagged(s, b, on, off),
           "ASYNC" \notin on, "STALE" \notin on \cup off, "BUSY" \notin off,
           "WANTED" \notin off, "DONE" \notin off, "DONE" \in on => b \notin InDriver(s),
           "DELWRI" \in on => s.buf[b].blk # NoBlock
    PROVE  /\ Sound(t, B, N) /\ OnlyBuf(s, t, b) /\ SameBut(t, s, b)
           /\ Goes(s, t, B, B, B) /\ Mem(t) = Mem(s)
           /\ t.buf[b].flags = (s.buf[b].flags \ off) \cup on
<1>1. /\ s \in Cache /\ Lists(s) /\ b \notin OnList(s) /\ b \notin N
      /\ Is(s, b, "BUSY") /\ ~ Is(s, b, "ASYNC") /\ s.buf[b].size > 0 /\ Named(s, b)
      /\ b \in InDriver(s) => ~ Is(s, b, "DONE")
  BY HeldBusy DEF Sound
<1>2. /\ OnlyBuf(s, t, b) /\ SameBut(t, s, b)
      /\ t.buf[b].flags = (s.buf[b].flags \ off) \cup on
  BY <1>1, FlagsAre
<1>3. /\ OnlyAt(s, t, b) /\ SameRest(t, s) /\ t.avail = s.avail
      /\ OnList(t) = OnList(s) /\ InDriver(t) = InDriver(s)
  BY <1>1, <1>2, OnlyBufAt
<1>4. /\ Is(t, b, "BUSY") /\ ~ Is(t, b, "ASYNC") /\ (Is(t, b, "STALE") <=> Is(s, b, "STALE"))
      /\ Is(s, b, "WANTED") => Is(t, b, "WANTED")
      /\ Is(s, b, "DONE") => Is(t, b, "DONE")
      /\ b \in InDriver(t) => ~ Is(t, b, "DONE")
      /\ Named(t, b)
  BY <1>1, <1>2, <1>3 DEF Is, Named, SameBut
<1>5. Role(t, b, B, N)
  BY <1>1, <1>2, <1>3, <1>4 DEF Role, SameBut
<1>6. Sound(t, B, N)
  BY <1>2, <1>3, <1>4, <1>5, SoundSame DEF SameBut
<1>7. Kept(s, t, b)
  BY <1>2, <1>3, <1>4 DEF Kept, SameBut
<1>8. Served(s, t, b, B, B)
  BY <1>3, <1>4 DEF Served, Waited
<1>9. MemoryServed(s, t)
  BY <1>1, <1>3, MemoryStays
<1>10. Goes(s, t, B, B, B)
  BY <1>3, <1>7, <1>8, <1>9, GoesStep DEF SameRest
<1>11. Mem(t) = Mem(s)
  BY <1>2, <1>3, MemSame DEF SameRest, SameBut, OnlyAt
<1> QED BY <1>2, <1>6, <1>10, <1>11

\* A process marks a busy buffer wanted.
LEMMA MarkWanted ==
    ASSUME NEW s, NEW B, NEW N, Sound(s, B, N), NEW b \in Buf, Is(s, b, "BUSY"),
           b \in InDriver(s) \/ b \in B, NEW t, t = Flagged(s, b, {"WANTED"}, {})
    PROVE  /\ Sound(t, B, N) /\ OnlyBuf(s, t, b) /\ SameBut(t, s, b)
           /\ Goes(s, t, B, B, B) /\ Mem(t) = Mem(s)
           /\ Waited(t, b) /\ InDriver(t) = InDriver(s)
           /\ t.buf[b].flags = s.buf[b].flags \cup {"WANTED"}
<1>1. s \in Cache /\ Lists(s) /\ Role(s, b, B, N)
  BY DEF Sound
<1>2. {"WANTED"} \in SUBSET Flag
  BY DEF Flag
<1>3. /\ OnlyBuf(s, t, b) /\ SameBut(t, s, b)
      /\ t.buf[b].flags = s.buf[b].flags \cup {"WANTED"}
  BY <1>1, <1>2, FlagsAre
<1>4. /\ OnlyAt(s, t, b) /\ SameRest(t, s) /\ t.avail = s.avail
      /\ OnList(t) = OnList(s) /\ InDriver(t) = InDriver(s)
  BY <1>1, <1>3, OnlyBufAt
<1>5. /\ Is(t, b, "BUSY") /\ Is(t, b, "WANTED") /\ (Is(t, b, "ASYNC") <=> Is(s, b, "ASYNC"))
      /\ (Is(t, b, "STALE") <=> Is(s, b, "STALE")) /\ (Is(t, b, "DONE") <=> Is(s, b, "DONE"))
      /\ Is(t, b, "DELWRI") <=> Is(s, b, "DELWRI")
  BY <1>3 DEF Is
<1>6. Role(t, b, B, N)
  BY <1>1, <1>3, <1>4, <1>5 DEF Role, SameBut, Named
<1>7. Sound(t, B, N)
  BY <1>3, <1>4, <1>5, <1>6, SoundSame DEF SameBut
<1>8. Kept(s, t, b) /\ Served(s, t, b, B, B)
  BY <1>3, <1>4, <1>5 DEF Kept, SameBut, Served, Waited
<1>9. MemoryServed(s, t)
  BY <1>1, <1>4, MemoryStays
<1>10. Goes(s, t, B, B, B)
  BY <1>4, <1>8, <1>9, GoesStep DEF SameRest
<1>11. Mem(t) = Mem(s)
  BY <1>3, <1>4, MemSame DEF SameRest, SameBut, OnlyAt
<1> QED BY <1>3, <1>4, <1>5, <1>7, <1>10, <1>11 DEF Waited

\* The driver gets a buffer: b has a request now, and the same block and size
Submitted(s, t, b) ==
    /\ OnlyAt(s, t, b) /\ SameRest(t, s) /\ t.avail = s.avail
    /\ InDriver(t) = InDriver(s) \cup {b}
    /\ t.buf[b].blk = s.buf[b].blk /\ t.buf[b].size = s.buf[b].size
    /\ ~ Is(t, b, "DONE") /\ (Is(t, b, "STALE") <=> Is(s, b, "STALE"))
    /\ Is(s, b, "BUSY") => Is(t, b, "BUSY")
    /\ Is(s, b, "WANTED") => Is(t, b, "WANTED")

\* A process waits for the driver, or leaves the buffer to it.
LEMMA Submit ==
    ASSUME NEW s, NEW B, NEW N, Sound(s, B, N), NEW b \in Buf, b \in B, b \notin InDriver(s),
           s.buf[b].blk # NoBlock, NEW t, Submitted(s, t, b)
    PROVE  /\ Mem(t) = Mem(s)
           /\ ~ Is(t, b, "ASYNC") => Sound(t, B, N) /\ Goes(s, t, B, B, B \ {b})
           /\ Is(t, b, "ASYNC") => Sound(t, B \ {b}, N) /\ Goes(s, t, B, B \ {b}, B \ {b})
<1>1. /\ s \in Cache /\ b \notin OnList(s) /\ b \notin N
      /\ Is(s, b, "BUSY") /\ s.buf[b].size > 0
  BY HeldBusy DEF Sound
<1>2. /\ OnlyAt(s, t, b) /\ SameRest(t, s) /\ t.avail = s.avail /\ b \in InDriver(t)
      /\ t.buf[b].blk = s.buf[b].blk /\ t.buf[b].size = s.buf[b].size
      /\ ~ Is(t, b, "DONE") /\ Is(t, b, "BUSY")
      /\ Is(s, b, "STALE") => Is(t, b, "STALE")
      /\ Is(s, b, "WANTED") => Is(t, b, "WANTED")
  BY <1>1 DEF Submitted
<1>3. b \notin OnList(t)
  BY <1>1, <1>2 DEF OnList
<1>4. MemoryServed(s, t)
  BY <1>1, <1>2, MemoryStays
<1>5. Served(s, t, b, B, B) /\ Served(s, t, b, B, B \ {b})
  BY <1>2 DEF Served, Waited
<1>6. Mem(t) = Mem(s)
  BY <1>2, MemSame DEF OnlyAt, SameRest
<1>7. ASSUME ~ Is(t, b, "ASYNC") PROVE Sound(t, B, N) /\ Goes(s, t, B, B, B \ {b})
  <2>1. Role(t, b, B, N)
    BY <1>1, <1>2, <1>3, <1>7 DEF Role, Named
  <2>2. Sound(t, B, N)
    BY <1>2, <2>1, SoundSame
  <2>3. Goes(s, t, B, B, B \ {b})
    BY <1>2, <1>4, <1>5, GoesStep DEF SameRest
  <2> QED BY <2>2, <2>3
<1>8. ASSUME Is(t, b, "ASYNC") PROVE Sound(t, B \ {b}, N) /\ Goes(s, t, B, B \ {b}, B \ {b})
  <2>1. Role(t, b, B \ {b}, N)
    BY <1>1, <1>2, <1>3, <1>8 DEF Role, Named
  <2>2. Sound(t, B \ {b}, N)
    BY <1>2, <2>1, SoundSame
  <2>3. Goes(s, t, B, B \ {b}, B \ {b})
    BY <1>2, <1>4, <1>5, GoesStep DEF SameRest
  <2> QED BY <2>2, <2>3
<1> QED BY <1>6, <1>7, <1>8

\* The strategy routine after a change of flags.
LEMMA StrategySubmits ==
    ASSUME NEW s, s \in Cache, Lists(s), NEW b \in Buf, b \notin InDriver(s),
           NEW on, on \in SUBSET Flag, NEW off, NEW e, GoodRequest(e, b),
           "STALE" \notin on, "STALE" \notin off, "BUSY" \notin off, "WANTED" \notin off,
           "DONE" \notin on, "DONE" \in off \/ ~ Is(s, b, "DONE"),
           NEW t, t = Given(s, b, on, off, e)
    PROVE  Submitted(s, t, b) /\ Handed(s, t, b, on, off, e)
<1>1. Handed(s, t, b, on, off, e)
  BY StrategyIs
<1>2. /\ OnlyAt(s, t, b) /\ SameBut(t, s, b) /\ SameRest(t, s) /\ t.avail = s.avail
      /\ InDriver(t) = InDriver(s) \cup {b}
      /\ t.buf[b].flags = (s.buf[b].flags \ off) \cup on
  BY <1>1 DEF Handed
<1>3. /\ ~ Is(t, b, "DONE") /\ (Is(t, b, "STALE") <=> Is(s, b, "STALE"))
      /\ Is(s, b, "BUSY") => Is(t, b, "BUSY")
      /\ Is(s, b, "WANTED") => Is(t, b, "WANTED")
  BY <1>2 DEF Is
<1> QED BY <1>1, <1>2, <1>3 DEF Submitted, SameBut

\* A read is requested, after a change of flags
ReadAsked(s, t, b, how) == Submitted(s, t, b) /\ t.buf[b].flags = s.buf[b].flags \cup how

\* bread's request for a buffer that is not filled.
LEMMA ReadSubmits ==
    ASSUME NEW s, s \in Cache, Lists(s), NEW b \in Buf, b \notin InDriver(s), ~ Is(s, b, "DONE"),
           NEW how, how \in {{}, {"ASYNC"}}, NEW t, t = StartRead(s, b, how)
    PROVE  ReadAsked(s, t, b, how)
<1>1. how \in SUBSET Flag /\ "STALE" \notin how /\ "DONE" \notin how
  BY DEF Flag
<1> DEFINE e == [bp |-> b, read |-> TRUE]
<1>2. /\ t = Given(s, b, how, {}, e)
      /\ GoodRequest(e, b)
  BY DEF GoodRequest, StartRead, Strategy, Request, Given
<1> HIDE DEF e
<1>3. Submitted(s, t, b) /\ Handed(s, t, b, how, {}, e)
  BY <1>1, <1>2, StrategySubmits
<1> QED BY <1>3 DEF Handed, ReadAsked

\* A write is requested, after a change of flags
Written(s, t, b, how) ==
    /\ Submitted(s, t, b)
    /\ t.buf[b].flags = (s.buf[b].flags \cup how) \ {"DONE", "ERROR", "DELWRI"}
    /\ t.io = Append(s.io, [bp |-> b, read |-> FALSE]) /\ t.buf[b].data = s.buf[b].data

\* bwrite's request.
LEMMA WriteSubmits ==
    ASSUME NEW s, s \in Cache, Lists(s), NEW b \in Buf, b \notin InDriver(s),
           NEW how, how \in {{}, {"ASYNC"}, {"ASYNC", "AGE"}},
           NEW t, t = StartWrite(Flagged(s, b, how, {}), b)
    PROVE  Written(s, t, b, how)
<1> DEFINE u == Flagged(s, b, how, {})
           off == {"DONE", "ERROR", "DELWRI"}
           e == [bp |-> b, read |-> FALSE]
<1>1. how \in SUBSET Flag
  BY DEF Flag
<1>2. OnlyBuf(s, u, b) /\ SameBut(u, s, b) /\ u.buf[b].flags = (s.buf[b].flags \ {}) \cup how
  BY <1>1, FlagsAre
<1>3. /\ t = Given(u, b, {}, off, e)
      /\ GoodRequest(e, b)
  BY DEF GoodRequest, StartWrite, Strategy, Request, Given
<1> HIDE DEF u, e
<1>4. /\ OnlyAt(s, u, b) /\ SameRest(u, s) /\ u.io = s.io /\ u.avail = s.avail
      /\ InDriver(u) = InDriver(s)
  BY <1>2, OnlyBufAt
<1>5. u \in Cache /\ Lists(u) /\ b \notin InDriver(u)
  BY <1>4 DEF OnlyAt
<1>6. /\ {} \in SUBSET Flag /\ "STALE" \notin off /\ "BUSY" \notin off
      /\ "WANTED" \notin off /\ "DONE" \in off
  OBVIOUS
<1> HIDE DEF off
<1>7. Submitted(u, t, b) /\ Handed(u, t, b, {}, off, e)
  BY <1>3, <1>5, <1>6, StrategySubmits
<1>8. /\ Submitted(u, t, b) /\ t.buf[b].flags = (u.buf[b].flags \ off) \cup {}
      /\ t.io = Append(u.io, e) /\ t.buf[b].data = u.buf[b].data
  BY <1>7 DEF Handed, SameBut
<1>9. OnlyAt(s, t, b)
  BY <1>4, <1>8, OnlyAtTwice DEF Submitted
<1>10. /\ (Is(u, b, "STALE") <=> Is(s, b, "STALE"))
       /\ Is(s, b, "BUSY") => Is(u, b, "BUSY")
       /\ Is(s, b, "WANTED") => Is(u, b, "WANTED")
  BY <1>2 DEF Is
<1>11. Submitted(s, t, b)
  BY <1>2, <1>4, <1>8, <1>9, <1>10 DEF Submitted, SameRest, SameBut
<1> QED BY <1>2, <1>4, <1>8, <1>11 DEF off, e, SameBut, Written
-----------------------------------------------------------------------------
(* getfreeblk *)

\* A buffer, if there is one
One(b) == {b} \ {NoBuf}

\* What a search finds, it found before
Fewer(s, t) == \A b \in Buf : Findable(t, b) => Findable(s, b) /\ t.buf[b].blk = s.buf[b].blk

\* Only b has changed: it has its block or none.
LEMMA FewerStep ==
    ASSUME NEW s, NEW b \in Buf, NEW t, OnlyAt(s, t, b),
           Findable(t, b) => Findable(s, b) /\ t.buf[b].blk = s.buf[b].blk
    PROVE  Fewer(s, t)
BY DEF Fewer, OnlyAt, Findable, Is

\* s and t differ in the locals of getfreeblk.
SameCache(s, t) ==
    /\ t \in Cache /\ t.buf = s.buf /\ t.avail = s.avail /\ t.bufsize = s.bufsize
    /\ t.wanted = s.wanted /\ t.io = s.io /\ t.woken = s.woken

\* The locals of getfreeblk are not part of the cache.
LEMMA SameCacheIs ==
    ASSUME NEW s, NEW t, SameCache(s, t)
    PROVE  /\ OnList(t) = OnList(s) /\ InDriver(t) = InDriver(s) /\ Mem(t) = Mem(s) /\ Fewer(s, t)
           /\ \A B, N : Sound(s, B, N) => Sound(t, B, N)
           /\ \A B, K : Goes(s, t, B, B, K)
<1>1. OnList(t) = OnList(s) /\ InDriver(t) = InDriver(s)
  BY DEF SameCache, OnList, InDriver
<1>2. Mem(t) = Mem(s)
  BY MemSame DEF SameCache
<1>3. Fewer(s, t)
  BY DEF Fewer, SameCache, Findable, Is
<1>4. ASSUME NEW B, NEW N, Sound(s, B, N) PROVE Sound(t, B, N)
  <2>1. Lists(t) /\ Unique(t)
    BY <1>4 DEF Sound, Lists, Unique, SameCache, Findable, Is
  <2>2. ASSUME NEW b \in Buf PROVE Role(t, b, B, N)
    BY <1>1, <1>4 DEF Sound, Role, SameCache, Is, Named
  <2> QED BY <2>1, <2>2 DEF Sound, SameCache
<1>5. ASSUME NEW B, NEW K PROVE Goes(s, t, B, B, K)
  <2>1. ASSUME NEW b \in Buf PROVE Served(s, t, b, B, B) /\ Kept(s, t, b)
    BY <1>1 DEF Served, Kept, Waited, Is, SameCache
  <2>2. MemoryServed(s, t)
    <3>1. t.bufsize \in Nat
      BY CacheFields DEF SameCache
    <3> QED BY <3>1 DEF MemoryServed, SameCache
  <2> QED BY <2>1, <2>2 DEF Goes, SameCache
<1> QED BY <1>1, <1>2, <1>3, <1>4, <1>5

\* The header of a buffer, and the memory, get other values
Rewritten(s, b, h, n) == [s EXCEPT !.bufsize = n, !.buf[b] = h]

RewrittenIs(s, t, b, h, n) ==
    /\ OnlyAt(s, t, b) /\ t.buf[b] = h /\ t.bufsize = n
    /\ t.avail = s.avail /\ t.io = s.io /\ t.wanted = s.wanted /\ t.woken = s.woken

\* What has changed then.
LEMMA HeaderAndMemory ==
    ASSUME NEW s, s \in Cache, Lists(s), NEW b \in Buf, NEW h, h \in Header, NEW n, n \in Nat,
           NEW t, t = Rewritten(s, b, h, n)
    PROVE  RewrittenIs(s, t, b, h, n)
<1> DEFINE f == [s.buf EXCEPT ![b] = h]
<1>1. f \in [Buf -> Header] /\ f[b] = h /\ \A c \in Buf \ {b} : f[c] = s.buf[c]
  BY CacheFields
<1>2. t = [s EXCEPT !.bufsize = n, !.buf = f]
  BY DEF Rewritten
<1> HIDE DEF f
<1>3. /\ t \in Cache /\ t.buf = f /\ t.avail = s.avail /\ t.bufsize = n /\ t.wanted = s.wanted
      /\ t.io = s.io /\ t.woken = s.woken /\ t.saved = s.saved /\ t.stop = s.stop
  BY <1>1, <1>2 DEF Cache
<1> QED BY <1>1, <1>3 DEF RewrittenIs, OnlyAt, Lists, OnList, InDriver

\* bremhash, field by field.
LEMMA UnhashIs ==
    ASSUME NEW s, s \in Cache, NEW b \in Buf, NEW t, t = Unhash(s, b)
    PROVE  /\ OnlyBuf(s, t, b) /\ t.buf[b].blk = NoBlock
           /\ t.buf[b].size = s.buf[b].size /\ t.buf[b].flags = s.buf[b].flags
<1> DEFINE g == s.buf[b]
           d == Unused.data
           h == [[g EXCEPT !.blk = NoBlock] EXCEPT !.data = d]
<1>1. g \in Header /\ d \in Value
  BY HeaderFields DEF Unused
<1>3. h \in Header /\ h.blk = NoBlock /\ h.flags = g.flags /\ h.size = g.size
  <2> HIDE DEF g, d
  <2> QED BY <1>1 DEF Header
<1>4. t = [s EXCEPT !.buf = [@ EXCEPT ![b] = h]]
  <2> DEFINE f == s.buf
  <2>1. t = [s EXCEPT !.buf = [[f EXCEPT ![b] = [f[b] EXCEPT !.blk = NoBlock]]
                               EXCEPT ![b] = [[f EXCEPT ![b] = [f[b] EXCEPT !.blk = NoBlock]][b]
                                              EXCEPT !.data = d]]]
    <3> HIDE DEF d
    <3> QED BY DEF Unhash, Cache, d
  <2>2. f \in [Buf -> Header]
    BY CacheFields
  <2>3. [[f EXCEPT ![b] = [f[b] EXCEPT !.blk = NoBlock]]
          EXCEPT ![b] = [[f EXCEPT ![b] = [f[b] EXCEPT !.blk = NoBlock]][b] EXCEPT !.data = d]]
        = [f EXCEPT ![b] = h]
    <3> HIDE DEF f, d
    <3> QED BY <2>2 DEF f, g
  <2> HIDE DEF h, d
  <2> QED BY <2>1, <2>3
<1>5. h.blk = NoBlock /\ h.flags = s.buf[b].flags /\ h.size = s.buf[b].size
  BY <1>3
<1> HIDE DEF h
<1>6. OnlyBuf(s, t, b) /\ t.buf[b] = h
  BY <1>3, <1>4, OneHeader
<1> QED BY <1>5, <1>6

\* A turn of the loop: what has become of the first buffer of the free list
Reclaimed(s, t, b, B, N) ==
    /\ t \in Cache /\ Sound(t, B, N \cup One(t.saved)) /\ Goes(s, t, B, B, B)
    /\ Mem(t) = Mem(s) /\ Fewer(s, t) /\ OnList(t) = OnList(s) \ {b}
    /\ t.stop = s.stop /\ t.saved \in {NoBuf, b}

\* A delayed write is written, and the driver has the buffer.
LEMMA ReclaimWrites ==
    ASSUME NEW s, NEW B, NEW N, Sound(s, B, N), NEW b, b \in OnList(s), s.saved = NoBuf,
           s.buf[b].blk # NoBlock, NEW how, how \in {{"ASYNC"}, {"ASYNC", "AGE"}},
           NEW t, t = StartWrite(Flagged(Notavail(s, b), b, how, {}), b)
    PROVE  Reclaimed(s, t, b, B, N) /\ t.saved = NoBuf
<1> DEFINE u == Notavail(s, b)
           C == B \cup {b}
<1>1. s \in Cache /\ b \in Buf /\ b \notin B /\ b \notin InDriver(s)
  BY ListedFree DEF Sound
<1>2. /\ Sound(u, C, N) /\ OnlyAt(s, u, b) /\ SameBut(u, s, b) /\ Goes(s, u, B, C, B)
      /\ Mem(u) = Mem(s) /\ u.io = s.io /\ OnList(u) = OnList(s) \ {b}
      /\ u.buf[b].flags = s.buf[b].flags \cup {"BUSY"}
  BY Take
<1>3. t = StartWrite(Flagged(u, b, how, {}), b)
  OBVIOUS
<1>4. how \in {{}, {"ASYNC"}, {"ASYNC", "AGE"}} /\ "ASYNC" \in how
  OBVIOUS
<1> HIDE DEF u
<1>5. u \in Cache /\ Lists(u) /\ b \notin InDriver(u) /\ b \in C /\ u.buf[b].blk # NoBlock
  BY <1>1, <1>2 DEF Sound, InDriver, SameBut
<1>6. Written(u, t, b, how)
  BY <1>1, <1>3, <1>4, <1>5, WriteSubmits
<1>7. Submitted(u, t, b)
  BY <1>6 DEF Written
<1>8. Is(t, b, "ASYNC")
  BY <1>4, <1>6 DEF Written, Is
<1>9. C \ {b} = B
  BY <1>1
<1> HIDE DEF C
<1>10. Mem(t) = Mem(u) /\ Sound(t, B, N) /\ Goes(u, t, C, B, B)
  BY <1>1, <1>2, <1>5, <1>7, <1>8, <1>9, Submit
<1>11. OnlyAt(u, t, b) /\ OnList(t) = OnList(u) /\ t \in Cache
  BY <1>7 DEF Submitted, OnlyAt, OnList
<1>12. Goes(s, t, B, B, B)
  BY <1>1, <1>2, <1>5, <1>10, <1>11, GoesOn
<1>13. OnlyAt(s, t, b)
  BY <1>2, <1>11, OnlyAtTwice
<1>14. Findable(t, b) => Findable(s, b) /\ t.buf[b].blk = s.buf[b].blk
  BY <1>2, <1>7 DEF Findable, Submitted, SameBut, Is
<1>15. Fewer(s, t)
  BY <1>1, <1>13, <1>14, FewerStep
<1>16. t.saved = NoBuf /\ t.stop = s.stop /\ N \cup One(t.saved) = N
  BY <1>13 DEF OnlyAt, One
<1> QED BY <1>2, <1>10, <1>11, <1>12, <1>15, <1>16 DEF Reclaimed

\* A buffer of the size is kept.
LEMMA ReclaimKeeps ==
    ASSUME NEW s, NEW B, NEW N, Sound(s, B, N), NEW b, b \in OnList(s), s.saved = NoBuf,
           NEW t, t = [Unhash(Notavail(s, b), b) EXCEPT !.saved = b]
    PROVE  Reclaimed(s, t, b, B, N)
<1> DEFINE u == Notavail(s, b)
           v == Unhash(u, b)
<1>1. /\ s \in Cache /\ Lists(s) /\ b \in Buf /\ b \notin B /\ b \notin N /\ b \notin InDriver(s)
      /\ ~ Is(s, b, "BUSY") /\ ~ Is(s, b, "ASYNC") /\ s.buf[b].size > 0
  BY ListedFree DEF Sound
<1>2. /\ OnlyAt(s, u, b) /\ SameBut(u, s, b) /\ SameRest(u, s) /\ u.io = s.io
      /\ OnList(u) = OnList(s) \ {b} /\ u.buf[b].flags = s.buf[b].flags \cup {"BUSY"}
  BY <1>1, NotavailIs
<1>3. u \in Cache /\ Lists(u)
  BY <1>2 DEF OnlyAt
<1>4. t = [v EXCEPT !.saved = b]
  OBVIOUS
<1> HIDE DEF u
<1>5. /\ OnlyBuf(u, v, b) /\ v.buf[b].blk = NoBlock
      /\ v.buf[b].size = u.buf[b].size /\ v.buf[b].flags = u.buf[b].flags
  BY <1>1, <1>3, UnhashIs
<1> HIDE DEF v
<1>6. /\ OnlyAt(u, v, b) /\ SameRest(v, u) /\ v.io = u.io
      /\ OnList(v) = OnList(u) /\ InDriver(v) = InDriver(u)
  BY <1>3, <1>5, OnlyBufAt
<1>7. OnlyAt(s, v, b)
  BY <1>2, <1>6, OnlyAtTwice
<1>8. /\ OnList(v) = OnList(s) \ {b} /\ InDriver(v) = InDriver(s) /\ SameRest(v, s)
      /\ v.buf[b].size = s.buf[b].size /\ v.buf[b].flags = s.buf[b].flags \cup {"BUSY"}
  BY <1>2, <1>5, <1>6 DEF SameRest, SameBut, InDriver
<1>9. Role(v, b, B, N \cup {b})
  BY <1>1, <1>5, <1>8 DEF Role, Is
<1>10. Sound(v, B, N \cup {b})
  <2>1. Is(s, b, "STALE") => Is(v, b, "STALE")
    BY <1>8 DEF Is
  <2> QED BY <1>1, <1>5, <1>7, <1>9, <2>1, SoundSame
<1>11. Goes(s, v, B, B, B)
  <2>1. Served(s, v, b, B, B)
    BY <1>1 DEF Served, Waited
  <2>2. MemoryServed(s, v)
    BY DEF MemoryServed, OnList, ToSet
  <2> QED BY <1>1, <1>7, <1>8, <2>1, <2>2, GoesStep DEF SameRest
<1>12. Mem(v) = Mem(s)
  BY <1>7, <1>8, MemSame DEF SameRest, OnlyAt
<1>13. Fewer(s, v)
  BY <1>1, <1>5, <1>7, FewerStep DEF Findable
<1>14. SameCache(v, t) /\ t.saved = b /\ t.stop = s.stop
  <2>1. v \in Cache /\ v.stop = s.stop
    BY <1>7 DEF OnlyAt
  <2> QED BY <1>1, <1>4, <2>1 DEF SameCache, Cache
<1>15. /\ OnList(t) = OnList(v) /\ Mem(t) = Mem(v) /\ Fewer(v, t)
       /\ Sound(t, B, N \cup {b}) /\ Goes(v, t, B, B, B)
  BY <1>10, <1>14, SameCacheIs
<1>16. Goes(s, t, B, B, B)
  BY <1>1, <1>7, <1>11, <1>14, <1>15, GoesOn DEF OnlyAt, SameCache
<1>17. One(t.saved) = {b}
  BY <1>1, <1>14, NamesAssumption DEF One
<1>18. Fewer(s, t)
  BY <1>13, <1>15 DEF Fewer
<1> QED BY <1>8, <1>12, <1>14, <1>15, <1>16, <1>17, <1>18 DEF Reclaimed, SameCache

\* A header without memory.
LEMMA UnusedIs ==
    ASSUME NEW s, s \in Cache, NEW b \in Buf
    PROVE  /\ Unused \in Header /\ Unused.blk = NoBlock /\ Unused.flags = {} /\ Unused.size = 0
<1>1. s.buf[b].data \in Value
  BY HeaderFields
<1> QED BY <1>1 DEF Unused, Header

\* A buffer of another size gives its memory back.
LEMMA ReclaimFrees ==
    ASSUME NEW s, NEW B, NEW N, Sound(s, B, N), NEW b, b \in OnList(s), s.saved = NoBuf,
           NEW u, u = Notavail(s, b),
           NEW t, t = [u EXCEPT !.bufsize = @ + u.buf[b].size, !.buf[b] = Unused]
    PROVE  Reclaimed(s, t, b, B, N)
<1> DEFINE n == u.bufsize + u.buf[b].size
           h == Unused
<1>1. /\ s \in Cache /\ Lists(s) /\ b \in Buf /\ b \notin B /\ b \notin N /\ b \notin InDriver(s)
      /\ ~ Is(s, b, "BUSY") /\ ~ Is(s, b, "ASYNC") /\ s.buf[b].size > 0
  BY ListedFree DEF Sound
<1>2. /\ OnlyAt(s, u, b) /\ SameBut(u, s, b) /\ SameRest(u, s) /\ u.io = s.io
      /\ OnList(u) = OnList(s) \ {b}
  BY <1>1, NotavailIs
<1>3. u \in Cache /\ Lists(u)
  BY <1>2 DEF OnlyAt
<1>4. n \in Nat /\ n = s.bufsize + s.buf[b].size /\ s.bufsize \in Nat /\ s.buf[b].size \in Nat
  <2>1. u.bufsize \in Nat /\ u.buf[b].size \in Nat
    BY <1>1, <1>3, CacheFields, HeaderFields
  <2> QED BY <1>2, <2>1 DEF SameRest, SameBut
<1>5. h \in Header /\ h.blk = NoBlock /\ h.flags = {} /\ h.size = 0
  BY <1>1, UnusedIs
<1>6. t = Rewritten(u, b, h, n)
  BY DEF Rewritten
<1> HIDE DEF n, h
<1>7. /\ OnlyAt(u, t, b) /\ t.buf[b] = h /\ t.bufsize = n
      /\ t.avail = u.avail /\ t.io = u.io /\ t.wanted = u.wanted /\ t.woken = u.woken
  <2>1. RewrittenIs(u, t, b, h, n)
    BY <1>1, <1>3, <1>4, <1>5, <1>6, HeaderAndMemory
  <2> QED BY <2>1 DEF RewrittenIs
<1>8. OnlyAt(s, t, b) /\ t.saved = NoBuf /\ t.stop = s.stop
  <2>1. OnlyAt(s, t, b)
    BY <1>2, <1>7, OnlyAtTwice
  <2> QED BY <2>1 DEF OnlyAt
<1>9. OnList(t) = OnList(s) \ {b} /\ InDriver(t) = InDriver(s)
  BY <1>2, <1>7 DEF OnList, InDriver
<1>10. Role(t, b, B, N)
  BY <1>1, <1>7, <1>9 DEF Role, h
<1>11. t.buf[b].blk = NoBlock
  BY <1>5, <1>7
<1>12. Sound(t, B, N)
  BY <1>1, <1>8, <1>10, <1>11, SoundStep DEF Findable
<1>13. Goes(s, t, B, B, B)
  <2>1. Served(s, t, b, B, B)
    BY <1>1 DEF Served, Waited
  <2>2. MemoryServed(s, t)
    BY DEF MemoryServed, OnList, ToSet
  <2>3. s.woken \subseteq t.woken
    BY <1>2, <1>7 DEF SameRest
  <2> QED BY <1>1, <1>8, <2>1, <2>2, <2>3, GoesStep
<1>14. Mem(t) = Mem(s)
  <2>1. MemDiffers(s, t, b)
    BY <1>1, <1>8, MemChanges
  <2>2. t.buf[b].size = 0 /\ t.bufsize = s.bufsize + s.buf[b].size
    BY <1>4, <1>5, <1>7
  <2> DEFINE x == Mem(t)  y == Mem(s)  i == s.bufsize  m == s.buf[b].size
  <2>3. /\ x \in Nat /\ y \in Nat /\ i \in Nat /\ m \in Nat
        /\ (x + i) + m = (y + (i + m)) + 0
    BY <1>4, <2>1, <2>2 DEF MemDiffers
  <2> HIDE DEF x, y, i, m
  <2>4. x = y
    BY ONLY <2>3
  <2> QED BY <2>4 DEF x, y
<1>15. Fewer(s, t)
  BY <1>1, <1>8, <1>11, FewerStep DEF Findable
<1>16. N \cup One(t.saved) = N
  BY <1>8 DEF One
<1> QED BY <1>8, <1>9, <1>12, <1>13, <1>14, <1>15, <1>16 DEF Reclaimed, OnlyAt

\* A turn of getfreeblk's loop.
LEMMA ReclaimIs ==
    ASSUME NEW s, NEW B, NEW N, Sound(s, B, N), NEW b, b \in OnList(s), s.saved = NoBuf, NEW bsize,
           NEW t, t = Reclaim(s, b, bsize)
    PROVE  Reclaimed(s, t, b, B, N)
<1> DEFINE u == Notavail(s, b)
<1>1. CASE Is(u, b, "DELWRI")
  <2>1. t = StartWrite(Flagged(Notavail(s, b), b, {"ASYNC", "AGE"}, {}), b)
    BY <1>1 DEF Reclaim
  <2>2. Named(s, b) /\ Is(s, b, "DELWRI")
    <3>1. b \in Buf /\ b \notin InDriver(s) /\ Named(s, b) /\ s \in Cache /\ Lists(s)
      BY ListedFree DEF Sound
    <3>2. SameBut(u, s, b) /\ u.buf[b].flags = s.buf[b].flags \cup {"BUSY"}
      BY <3>1, NotavailIs
    <3> HIDE DEF u
    <3> QED BY <1>1, <3>1, <3>2 DEF Is
  <2> QED BY <2>1, <2>2, ReclaimWrites DEF Named
<1>2. CASE ~ Is(u, b, "DELWRI") /\ u.buf[b].size = bsize
  <2>1. t = [Unhash(Notavail(s, b), b) EXCEPT !.saved = b]
    BY <1>2 DEF Reclaim
  <2> QED BY <2>1, ReclaimKeeps
<1>3. CASE ~ Is(u, b, "DELWRI") /\ u.buf[b].size # bsize
  <2>1. t = [u EXCEPT !.bufsize = @ + u.buf[b].size, !.buf[b] = Unused]
    BY <1>3 DEF Reclaim
  <2> HIDE DEF u
  <2> QED BY <2>1, ReclaimFrees DEF u
<1> QED BY <1>1, <1>2, <1>3

\* notavail and the requests keep to the types, whatever the buffer.
LEMMA NotavailCache ==
    ASSUME NEW s, s \in Cache, NEW b, b \in Buf
    PROVE  Notavail(s, b) \in Cache
<1> DEFINE l == RemoveFirst(s.avail, b)
           u == [s EXCEPT !.avail = l]
<1>1. s.avail \in Seq(Buf)
  BY CacheFields
<1>2. l \in Seq(Buf)
  <2>1. CASE b \in ToSet(s.avail)
    <3>1. PICK k \in 1 .. Len(s.avail) : s.avail[k] = b /\ l = RemoveAt(s.avail, k)
      BY <1>1, <2>1, FirstAt
    <3> HIDE DEF l
    <3>2. RemoveAt(s.avail, k) \in Seq(Buf)
      BY <1>1, Removed
    <3> QED BY <3>1, <3>2
  <2>2. CASE b \notin ToSet(s.avail)
    <3>1. ~ \E i \in 1 .. Len(s.avail) : s.avail[i] = b
      BY <1>1, <2>2, Members
    <3> QED BY <1>1, <3>1 DEF RemoveFirst
  <2> QED BY <2>1, <2>2
<1> HIDE DEF l
<1>3. u \in Cache
  BY <1>2 DEF Cache
<1>4. {"BUSY"} \in SUBSET Flag
  BY DEF Flag
<1>5. Notavail(s, b) = Flagged(u, b, {"BUSY"}, {})
  BY DEF Notavail, l
<1> HIDE DEF u
<1>6. OnlyBuf(u, Flagged(u, b, {"BUSY"}, {}), b)
  BY <1>3, <1>4, FlaggedIs
<1> QED BY <1>5, <1>6 DEF OnlyBuf

\* bwrite.
LEMMA WriteCache ==
    ASSUME NEW s, s \in Cache, NEW b, b \in Buf, NEW how, how \in SUBSET Flag
    PROVE  StartWrite(Flagged(s, b, how, {}), b) \in Cache
<1> DEFINE u == Flagged(s, b, how, {})
           off == {"DONE", "ERROR", "DELWRI"}
           v == Flagged(u, b, {}, off)
           q == Append(v.io, [bp |-> b, read |-> FALSE])
<1>1. u \in Cache
  <2>1. OnlyBuf(s, u, b)
    BY FlaggedIs
  <2> QED BY <2>1 DEF OnlyBuf
<1>2. StartWrite(u, b) = [v EXCEPT !.io = q]
  BY DEF StartWrite, Strategy
<1> HIDE DEF u
<1>3. v \in Cache
  <2> HIDE DEF off
  <2>1. OnlyBuf(u, v, b)
    BY <1>1, FlaggedIs
  <2> QED BY <2>1 DEF OnlyBuf
<1> HIDE DEF v
<1>4. q \in Seq(Request)
  <2>1. v.io \in Seq(Request)
    BY <1>3, CacheFields
  <2> QED BY <2>1 DEF Request
<1> HIDE DEF q
<1>5. [v EXCEPT !.io = q] \in Cache
  BY <1>3, <1>4 DEF Cache
<1> QED BY <1>2, <1>5 DEF u

\* A turn of getfreeblk's loop
Turn(t, b, bsize) ==
    IF ~ t.stop /\ t.saved = NoBuf /\ (t.bufsize < bsize \/ Is(t, b, "AGE"))
    THEN Reclaim(t, b, bsize) ELSE [t EXCEPT !.stop = TRUE]

\* It keeps to the types.
LEMMA TurnCache ==
    ASSUME NEW s, s \in Cache, NEW b, b \in Buf, NEW bsize
    PROVE  Turn(s, b, bsize) \in Cache
<1> DEFINE t == Notavail(s, b)
           h == Unused
           n == t.bufsize + t.buf[b].size
           how == {"ASYNC", "AGE"}
<1>1. t \in Cache
  BY NotavailCache
<1>2. how \in SUBSET Flag
  BY DEF Flag
<1>3. \/ Turn(s, b, bsize) = [s EXCEPT !.stop = TRUE]
      \/ Turn(s, b, bsize) = StartWrite(Flagged(t, b, how, {}), b)
      \/ Turn(s, b, bsize) = [Unhash(t, b) EXCEPT !.saved = b]
      \/ Turn(s, b, bsize) = Rewritten(t, b, h, n)
  BY DEF Turn, Reclaim, Rewritten
<1> HIDE DEF how, t
<1>4. [s EXCEPT !.stop = TRUE] \in Cache
  BY DEF Cache
<1>5. StartWrite(Flagged(t, b, how, {}), b) \in Cache
  BY <1>1, <1>2, WriteCache
<1>6. [Unhash(t, b) EXCEPT !.saved = b] \in Cache
  <2> DEFINE u == Unhash(t, b)
  <2>1. OnlyBuf(t, u, b)
    BY <1>1, UnhashIs
  <2> HIDE DEF u
  <2>2. u \in Cache
    BY <2>1 DEF OnlyBuf
  <2>3. [u EXCEPT !.saved = b] \in Cache
    BY <2>2 DEF Cache
  <2> QED BY <2>3 DEF u
<1>7. Rewritten(t, b, h, n) \in Cache
  <2>1. h \in Header
    BY UnusedIs
  <2>2. n \in Nat
    BY <1>1, CacheFields, HeaderFields
  <2> HIDE DEF h, n
  <2> DEFINE f == [t.buf EXCEPT ![b] = h]
  <2>3. f \in [Buf -> Header]
    BY <1>1, <2>1, CacheFields
  <2>4. Rewritten(t, b, h, n) = [t EXCEPT !.bufsize = n, !.buf = f]
    BY DEF Rewritten
  <2> HIDE DEF f
  <2>5. [t EXCEPT !.bufsize = n, !.buf = f] \in Cache
    BY <1>1, <2>2, <2>3 DEF Cache
  <2> QED BY <2>4, <2>5
<1> HIDE DEF h, n
<1> QED BY <1>3, <1>4, <1>5, <1>6, <1>7

\* What the cache is after each turn
Turns(g, s, bsize, n) ==
    /\ g \in [0 .. n -> Cache] /\ g[0] = s /\ g[n] = Getfreeblk(s, bsize)
    /\ \A i \in 1 .. n : g[i] = Turn(g[i - 1], s.avail[i], bsize)

\* getfreeblk is a loop of such turns.
LEMMA GetfreeblkTurns ==
    ASSUME NEW s, s \in Cache, NEW bsize
    PROVE  \E g : Turns(g, s, bsize, Len(s.avail))
<1> DEFINE q == s.avail
           n == Len(q)
           V == Cache
           turn(v, i) == Turn(v, q[i], bsize)
           IsFold(g) == g = [a \in SUBSET DOMAIN q |->
                               IF a = {} THEN s ELSE turn(g[a \ {Max(a)}], Max(a))]
           it == CHOOSE g : IsFold(g)
           step == [p \in (1 .. n) \X V |-> turn(p[2], p[1])]
<1>1. Getfreeblk(s, bsize) = it[DOMAIN q]
  BY DEF Getfreeblk, FoldLeft, MapThenFoldSet, Turn
<1>2. q \in Seq(Buf)
  BY CacheFields
<1>3. n \in Nat /\ DOMAIN q = 1 .. n /\ \A i \in 1 .. n : q[i] \in Buf
  BY <1>2
<1> HIDE DEF q, n
<1>4. s \in V /\ \A v \in V, i \in 1 .. n : turn(v, i) \in V
  BY <1>3, TurnCache
<1> HIDE DEF turn, V
<1>5. \A i \in 1 .. n, v \in V : step[<<i, v>>] = turn(v, i)
  OBVIOUS
<1>6. \A i \in 1 .. n, v \in V : step[<<i, v>>] \in V
  <2> HIDE DEF step
  <2>1. ASSUME NEW i \in 1 .. n, NEW v \in V PROVE step[<<i, v>>] \in V
    BY <1>4, <1>5
  <2> QED BY <2>1
<1> HIDE DEF step
<1>7. IsFold(it)
  <2>1. PICK g : IsLeftRecursion(g, n, V, s, step)
    BY <1>3, <1>4, <1>6, LeftRecursion
  <2>2. \A a \in SUBSET (1 .. n) : a # {} => g[a] = turn(g[a \ {Max(a)}], Max(a))
    BY <1>3, <1>5, <2>1, MaxIn DEF IsLeftRecursion
  <2>3. IsFold(g)
    BY <1>3, <2>1, <2>2 DEF IsLeftRecursion
  <2> HIDE DEF IsFold
  <2> QED BY <2>3
<1> HIDE DEF it
<1>8. it[{}] = s
  BY <1>7
<1>9. ASSUME NEW a \in SUBSET (1 .. n), a # {} /\ it[a \ {Max(a)}] \in V
      PROVE  it[a] = step[<<Max(a), it[a \ {Max(a)}]>>]
  BY <1>3, <1>5, <1>7, <1>9, MaxIn
<1>10. IsFoldOf(it, n, V, s, step)
  BY <1>8, <1>9 DEF IsFoldOf
<1>11. PICK f : IsLoopOf(f, it, n, V, s, step)
  BY <1>3, <1>4, <1>6, <1>10, FoldTurns
<1>12. /\ f \in [0 .. n -> V] /\ f[0] = s /\ f[n] = it[1 .. n]
       /\ \A i \in 1 .. n : f[i] = step[<<i, f[i - 1]>>]
  BY <1>11 DEF IsLoopOf
<1>13. \A i \in 1 .. n : f[i] = turn(f[i - 1], i)
  <2>1. \A i \in 1 .. n : f[i - 1] \in V
    BY <1>3, <1>12
  <2> QED BY <1>5, <1>12, <2>1
<1>14. f[n] = Getfreeblk(s, bsize)
  BY <1>1, <1>3, <1>12
<1>15. Turns(f, s, bsize, n)
  BY <1>12, <1>13, <1>14 DEF Turns, turn, V, q
<1> QED BY <1>15 DEF n, q

\* After k turns: the rest of the free list is still there, and the loop ends only
\* with a buffer or memory enough
Loop(s, t, k, B, N, bsize) ==
    /\ t \in Cache /\ Sound(t, B, N \cup One(t.saved)) /\ Goes(s, t, B, B, B)
    /\ Mem(t) = Mem(s) /\ Fewer(s, t)
    /\ t.saved # NoBuf => t.saved \in Buf /\ t.saved \notin B \cup N
    /\ \A i \in (k + 1) .. Len(s.avail) : s.avail[i] \in OnList(t)
    /\ t.stop => t.saved # NoBuf \/ ~ (t.bufsize < bsize)
    /\ ~ t.stop /\ t.saved = NoBuf =>
         \A b \in OnList(t) : \E i \in (k + 1) .. Len(s.avail) : b = s.avail[i]

\* Two steps keep the finds few.
LEMMA FewerOn ==
    ASSUME NEW s, NEW t, NEW u, Fewer(s, t), Fewer(t, u)
    PROVE  Fewer(s, u)
BY DEF Fewer

\* Before the first turn.
LEMMA LoopBegins ==
    ASSUME NEW s, NEW B, NEW N, Sound(s, B, N), s.saved = NoBuf, ~ s.stop, NEW bsize
    PROVE  Loop(s, s, 0, B, N, bsize)
<1>1. s \in Cache /\ s.avail \in Seq(Buf)
  BY CacheFields DEF Sound
<1>2. Goes(s, s, B, B, B) /\ Fewer(s, s)
  BY <1>1, SameCacheIs DEF SameCache
<1>3. N \cup One(s.saved) = N
  BY DEF One
<1>4. 0 + 1 = 1
  OBVIOUS
<1>5. \A i \in 1 .. Len(s.avail) : s.avail[i] \in OnList(s)
  BY <1>1, Members DEF OnList
<1>6. \A b \in OnList(s) : \E i \in 1 .. Len(s.avail) : b = s.avail[i]
  BY <1>1, Members DEF OnList
<1> QED BY <1>1, <1>2, <1>3, <1>4, <1>5, <1>6 DEF Loop

\* A turn.
LEMMA LoopTurns ==
    ASSUME NEW s, NEW B, NEW N, Sound(s, B, N), NEW bsize, NEW t, NEW k \in Nat,
           k + 1 <= Len(s.avail), Loop(s, t, k, B, N, bsize),
           NEW u, u = Turn(t, s.avail[k + 1], bsize)
    PROVE  Loop(s, u, k + 1, B, N, bsize)
<1> DEFINE b == s.avail[k + 1]
           n == Len(s.avail)
<1>1. s \in Cache /\ s.avail \in Seq(Buf) /\ n \in Nat /\ Single(s.avail)
  BY CacheFields DEF Sound, Lists
<1>2. k + 1 \in (k + 1) .. n /\ \A i \in ((k + 1) + 1) .. n : i \in (k + 1) .. n /\ i # k + 1
  BY <1>1
<1>3. \A i \in ((k + 1) + 1) .. n : s.avail[i] # b
  <2>1. k + 1 \in 1 .. n /\ \A i \in ((k + 1) + 1) .. n : i \in 1 .. n
    BY <1>1
  <2> QED BY <1>1, <1>2, <2>1 DEF Single
<1>4. b \in OnList(t) /\ u = Turn(t, b, bsize)
  BY <1>2 DEF Loop
<1> HIDE DEF b
<1>5. /\ t \in Cache /\ Sound(t, B, N \cup One(t.saved)) /\ Goes(s, t, B, B, B)
      /\ Mem(t) = Mem(s) /\ Fewer(s, t)
  BY DEF Loop
<1>6. CASE ~ t.stop /\ t.saved = NoBuf /\ (t.bufsize < bsize \/ Is(t, b, "AGE"))
  <2>1. u = Reclaim(t, b, bsize)
    BY <1>4, <1>6 DEF Turn
  <2>2. Sound(t, B, N)
    <3>1. N \cup One(t.saved) = N
      BY <1>6 DEF One
    <3> QED BY <1>5, <3>1
  <2>3. Reclaimed(t, u, b, B, N)
    BY <1>4, <1>6, <2>1, <2>2, ReclaimIs
  <2>4. /\ u \in Cache /\ Sound(u, B, N \cup One(u.saved)) /\ Goes(t, u, B, B, B)
        /\ Mem(u) = Mem(t) /\ Fewer(t, u) /\ OnList(u) = OnList(t) \ {b}
        /\ ~ u.stop /\ u.saved \in {NoBuf, b}
    BY <1>6, <2>3 DEF Reclaimed
  <2>5. Goes(s, u, B, B, B)
    BY <1>1, <1>5, <2>4, GoesOn
  <2>6. Fewer(s, u)
    BY <1>5, <2>4, FewerOn
  <2>7. u.saved # NoBuf => u.saved \in Buf /\ u.saved \notin B \cup N
    BY <1>4, <2>2, <2>4, ListedFree
  <2>8. \A i \in ((k + 1) + 1) .. n : s.avail[i] \in OnList(u)
    BY <1>2, <1>3, <2>4 DEF Loop
  <2>9. \A x \in OnList(u) : \E i \in ((k + 1) + 1) .. n : x = s.avail[i]
    <3> SUFFICES ASSUME NEW x \in OnList(u) PROVE \E i \in ((k + 1) + 1) .. n : x = s.avail[i]
      OBVIOUS
    <3>1. x \in OnList(t) /\ x # b
      BY <2>4
    <3>2. PICK i \in (k + 1) .. n : x = s.avail[i]
      BY <1>6, <3>1 DEF Loop
    <3>3. i # k + 1
      BY <3>1, <3>2 DEF b
    <3>4. i \in ((k + 1) + 1) .. n
      BY <1>1, <3>3
    <3> QED BY <3>2, <3>4
  <2> QED BY <1>5, <2>4, <2>5, <2>6, <2>7, <2>8, <2>9 DEF Loop
<1>7. CASE ~ (~ t.stop /\ t.saved = NoBuf /\ (t.bufsize < bsize \/ Is(t, b, "AGE")))
  <2>1. u = [t EXCEPT !.stop = TRUE]
    BY <1>4, <1>7 DEF Turn
  <2>2. SameCache(t, u) /\ u.saved = t.saved /\ u.stop
    BY <1>5, <2>1 DEF SameCache, Cache
  <2>3. /\ OnList(u) = OnList(t) /\ Mem(u) = Mem(t) /\ Fewer(t, u)
        /\ Sound(u, B, N \cup One(t.saved)) /\ Goes(t, u, B, B, B)
    BY <1>5, <2>2, SameCacheIs
  <2>4. Goes(s, u, B, B, B)
    BY <1>1, <1>5, <2>2, <2>3, GoesOn DEF SameCache
  <2>5. Fewer(s, u)
    BY <1>5, <2>3, FewerOn
  <2>6. u.saved # NoBuf \/ ~ (u.bufsize < bsize)
    BY <1>7, <2>2 DEF Loop, SameCache
  <2>7. \A i \in ((k + 1) + 1) .. n : s.avail[i] \in OnList(u)
    BY <1>2, <2>3 DEF Loop
  <2>8. u.saved # NoBuf => u.saved \in Buf /\ u.saved \notin B \cup N
    BY <2>2 DEF Loop
  <2> QED BY <1>5, <2>2, <2>3, <2>4, <2>5, <2>6, <2>7, <2>8 DEF Loop, SameCache
<1> QED BY <1>6, <1>7

\* What getfreeblk leaves: a buffer of the size as its locals' savebp, or memory
\* enough, or an empty free list
Gotten(s, t, B, N, bsize) ==
    /\ t \in Cache /\ Sound(t, B, N \cup One(t.saved)) /\ Goes(s, t, B, B, B)
    /\ Mem(t) = Mem(s) /\ Fewer(s, t)
    /\ t.saved # NoBuf => t.saved \in Buf /\ t.saved \notin B \cup N
    /\ t.saved = NoBuf /\ t.bufsize < bsize => t.avail = <<>>

\* getfreeblk.
LEMMA GetfreeblkIs ==
    ASSUME NEW s, NEW B, NEW N, Sound(s, B, N), s.saved = NoBuf, ~ s.stop, NEW bsize,
           NEW t, t = Getfreeblk(s, bsize)
    PROVE  Gotten(s, t, B, N, bsize)
<1> DEFINE n == Len(s.avail)
<1>1. s \in Cache /\ n \in Nat
  BY CacheFields DEF Sound
<1>2. PICK g : Turns(g, s, bsize, n)
  BY <1>1, GetfreeblkTurns
<1>3. g[0] = s /\ g[n] = t /\ \A i \in 1 .. n : g[i] = Turn(g[i - 1], s.avail[i], bsize)
  BY <1>2 DEF Turns
<1> DEFINE T == {k \in Nat : k <= n => Loop(s, g[k], k, B, N, bsize)}
<1>4. 0 \in T
  BY <1>3, LoopBegins
<1>5. ASSUME NEW k \in Nat, k \in T PROVE k + 1 \in T
  <2> SUFFICES ASSUME k + 1 <= n PROVE Loop(s, g[k + 1], k + 1, B, N, bsize)
    OBVIOUS
  <2>1. k + 1 \in 1 .. n /\ (k + 1) - 1 = k /\ k <= n
    BY <1>1
  <2>2. g[k + 1] = Turn(g[k], s.avail[k + 1], bsize)
    BY <1>3, <2>1
  <2>3. Loop(s, g[k], k, B, N, bsize)
    BY <1>5, <2>1
  <2> QED BY <2>2, <2>3, LoopTurns
<1> HIDE DEF T
<1>6. n \in T
  BY <1>1, <1>4, <1>5, SetInduction
<1>7. Loop(s, t, n, B, N, bsize)
  BY <1>1, <1>3, <1>6 DEF T
<1>8. t.saved = NoBuf /\ t.bufsize < bsize => OnList(t) = {}
  <2>1. \A i : i \notin (n + 1) .. n
    BY <1>1
  <2> QED BY <1>7, <2>1 DEF Loop
<1>9. OnList(t) = {} => t.avail = <<>>
  <2>1. t.avail \in Seq(Buf)
    BY <1>7, CacheFields DEF Loop
  <2> DEFINE l == t.avail
  <2>2. l # <<>> => 1 \in 1 .. Len(l)
    <3>1. l \in Seq(Buf)
      BY <2>1
    <3> HIDE DEF l
    <3> QED BY <3>1
  <2>3. l # <<>> => l[1] \in ToSet(l)
    BY <2>1, <2>2, Members
  <2> QED BY <2>3 DEF OnList
<1> QED BY <1>7, <1>8, <1>9 DEF Loop, Gotten

-----------------------------------------------------------------------------
(* getblk: the buffer of a block *)

\* A buffer gets other flags and another block
Renamed(s, b, F, k) == [s EXCEPT !.buf[b].flags = F, !.buf[b].blk = k]

RenamedIs(s, t, b, F, k) ==
    /\ OnlyBuf(s, t, b) /\ t.buf[b].blk = k /\ t.buf[b].flags = F
    /\ t.buf[b].size = s.buf[b].size

\* What has changed then.
LEMMA Rename ==
    ASSUME NEW s, s \in Cache, NEW b, b \in Buf, NEW F, F \in SUBSET Flag,
           NEW k, k \in Block \cup {NoBlock}
    PROVE  RenamedIs(s, Renamed(s, b, F, k), b, F, k)
<1> DEFINE g == s.buf[b]
           h == [[g EXCEPT !.flags = F] EXCEPT !.blk = k]
           t == Renamed(s, b, F, k)
<1>1. g \in Header
  BY HeaderFields
<1>2. h \in Header /\ h.blk = k /\ h.flags = F /\ h.size = g.size
  <2> HIDE DEF g
  <2> QED BY <1>1 DEF Header
<1>3. t = [s EXCEPT !.buf = [@ EXCEPT ![b] = h]]
  <2> DEFINE f == s.buf
  <2>1. t = [s EXCEPT !.buf = [[f EXCEPT ![b] = [f[b] EXCEPT !.flags = F]]
                               EXCEPT ![b] = [[f EXCEPT ![b] = [f[b] EXCEPT !.flags = F]][b]
                                              EXCEPT !.blk = k]]]
    BY DEF Renamed, Cache
  <2>2. f \in [Buf -> Header]
    BY CacheFields
  <2>3. [[f EXCEPT ![b] = [f[b] EXCEPT !.flags = F]]
          EXCEPT ![b] = [[f EXCEPT ![b] = [f[b] EXCEPT !.flags = F]][b] EXCEPT !.blk = k]]
        = [f EXCEPT ![b] = h]
    <3> HIDE DEF f
    <3> QED BY <2>2 DEF f, g
  <2> HIDE DEF h, t
  <2> QED BY <2>1, <2>3
<1> HIDE DEF h, t
<1>4. OnlyBuf(s, t, b) /\ t.buf[b] = h
  BY <1>2, <1>3, OneHeader
<1>5. RenamedIs(s, t, b, F, k)
  BY <1>2, <1>4 DEF RenamedIs
<1> QED BY <1>5 DEF t

\* The process whose other buffers are B has b, the buffer of the block k
Ready(s, t, b, B, M, k) ==
    /\ b \in Buf /\ b \notin B /\ Sound(t, B \cup {b}, M) /\ Goes(s, t, B, B \cup {b}, B)
    /\ Mem(t) = Mem(s) /\ b \notin InDriver(t)
    /\ t.buf[b].blk = k /\ ~ Is(t, b, "STALE")

\* A new buffer becomes the block's, which nobody has.
LEMMA AssignIs ==
    ASSUME NEW s, NEW B, NEW N, Sound(s, B, N), NEW b, b \in Buf, b \in N,
           NEW c, c.want \in Block \cup {NoBlock}, Incore(s, c.want) = {},
           NEW t, t = Assign(s, b, c)
    PROVE  Ready(s, t, b, B, N \ {b}, c.want)
<1> DEFINE F == IF c.want = NoBlock THEN {"BUSY", "AGE"} ELSE {"BUSY"}
           k == c.want
<1>1. s \in Cache /\ Lists(s)
  BY DEF Sound
<1>2. /\ b \notin OnList(s) /\ b \notin B /\ b \notin InDriver(s) /\ s.buf[b].size > 0
  BY NewIs
<1>3. t = Renamed(s, b, F, k) /\ F \in SUBSET Flag /\ k \in Block \cup {NoBlock}
  BY DEF Assign, Renamed, Flag
<1>4. "BUSY" \in F /\ "ASYNC" \notin F /\ "STALE" \notin F /\ "DELWRI" \notin F
  OBVIOUS
<1>5. \A d \in Buf : ~ (Findable(s, d) /\ s.buf[d].blk = k)
  BY DEF Findable, Incore
<1> HIDE DEF F, k
<1>6. RenamedIs(s, t, b, F, k)
  BY <1>1, <1>3, Rename
<1>7. OnlyBuf(s, t, b) /\ t.buf[b].blk = k /\ t.buf[b].flags = F /\ t.buf[b].size = s.buf[b].size
  BY <1>6 DEF RenamedIs
<1>8. /\ OnlyAt(s, t, b) /\ SameRest(t, s) /\ t.avail = s.avail
      /\ OnList(t) = OnList(s) /\ InDriver(t) = InDriver(s)
  BY <1>1, <1>7, OnlyBufAt
<1>9. Role(t, b, B \cup {b}, N \ {b})
  BY <1>2, <1>4, <1>7, <1>8 DEF Role, Is, Named
<1>10. Sound(t, B \cup {b}, N \ {b})
  BY <1>5, <1>7, <1>8, <1>9, SoundStep
<1>11. Goes(s, t, B, B \cup {b}, B)
  <2>1. Served(s, t, b, B, B \cup {b})
    BY <1>2 DEF Served
  <2>2. MemoryServed(s, t)
    BY <1>1, <1>8, MemoryStays
  <2> QED BY <1>2, <1>8, <2>1, <2>2, GoesStep DEF SameRest
<1>12. Mem(t) = Mem(s)
  BY <1>7, <1>8, MemSame DEF SameRest, OnlyAt
<1> QED BY <1>2, <1>4, <1>7, <1>8, <1>10, <1>11, <1>12 DEF Ready, Is, k

\* The buffer taken in vain is released.
LEMMA GiveBackIs ==
    ASSUME NEW s, NEW B, NEW N, Sound(s, B, N), NEW b, (b \in N /\ b \in Buf) \/ b = NoBuf,
           NEW t, t = GiveBack(s, b)
    PROVE  Sound(t, B, N \ {b}) /\ Goes(s, t, B, B, B) /\ Mem(t) = Mem(s)
<1>1. s \in Cache /\ Lists(s)
  BY DEF Sound
<1>2. CASE b = NoBuf
  <2>1. t = s
    BY <1>2 DEF GiveBack
  <2>2. Sound(s, B, N \ {b})
    <3>1. \A d \in Buf : d # b
      BY <1>2, NamesAssumption
    <3>2. ASSUME NEW d \in Buf PROVE Role(s, d, B, N \ {b})
      <4>1. Role(s, d, B, N) /\ d # b
        BY <3>1 DEF Sound
      <4> QED BY <4>1 DEF Role
    <3> QED BY <3>2 DEF Sound
  <2>3. Goes(s, s, B, B, B)
    BY <1>1, SameCacheIs DEF SameCache
  <2> QED BY <2>1, <2>2, <2>3
<1>3. CASE b # NoBuf
  <2> DEFINE F == {"BUSY"}
             u == Renamed(s, b, F, NoBlock)
             C == B \cup {b}
  <2>1. b \in Buf /\ b \in N /\ t = Brelse(u, b)
    BY <1>3 DEF GiveBack, Renamed
  <2>2. /\ b \notin OnList(s) /\ b \notin B /\ b \notin InDriver(s) /\ s.buf[b].size > 0
    BY <2>1, NewIs
  <2>3. RenamedIs(s, u, b, F, NoBlock)
    <3>1. F \in SUBSET Flag
      BY DEF Flag
    <3> HIDE DEF F
    <3> QED BY <1>1, <2>1, <3>1, Rename
  <2> HIDE DEF u
  <2>4. /\ OnlyBuf(s, u, b) /\ u.buf[b].blk = NoBlock /\ u.buf[b].flags = F
        /\ u.buf[b].size = s.buf[b].size
    BY <2>3 DEF RenamedIs
  <2>5. /\ OnlyAt(s, u, b) /\ SameRest(u, s) /\ u.avail = s.avail
        /\ OnList(u) = OnList(s) /\ InDriver(u) = InDriver(s)
    BY <1>1, <2>4, OnlyBufAt
  <2>6. Role(u, b, C, N \ {b})
    BY <2>2, <2>4, <2>5 DEF Role, Is, Named
  <2>7. Sound(u, C, N \ {b})
    BY <2>1, <2>4, <2>5, <2>6, SoundStep DEF Findable
  <2>8. Goes(s, u, B, C, B)
    <3>1. Served(s, u, b, B, C)
      BY <2>2 DEF Served
    <3>2. MemoryServed(s, u)
      BY <1>1, <2>5, MemoryStays
    <3> QED BY <2>1, <2>2, <2>5, <3>1, <3>2, GoesStep DEF SameRest
  <2>9. Mem(u) = Mem(s)
    BY <2>4, <2>5, MemSame DEF SameRest, OnlyAt
  <2>10. b \in C /\ b \notin InDriver(u) /\ C \ {b} = B
    BY <2>2, <2>5
  <2> HIDE DEF C
  <2>11. /\ Sound(t, B, N \ {b}) /\ Goes(u, t, C, B, B) /\ Mem(t) = Mem(u)
    BY <2>1, <2>7, <2>10, Release
  <2>12. Goes(s, t, B, B, B)
    BY <1>1, <2>7, <2>8, <2>11, GoesOn DEF Sound
  <2> QED BY <2>9, <2>11, <2>12
<1> QED BY <1>2, <1>3

\* The buffer of the block is on the free list.
LEMMA FoundIs ==
    ASSUME NEW s, NEW B, NEW N, Sound(s, B, N), NEW k, NEW b, b \in Incore(s, k),
           ~ Is(s, b, "BUSY"),
           NEW n, (n \in N /\ n \in Buf) \/ n = NoBuf,
           NEW t, t = GiveBack(Flagged(Notavail(s, b), b, {}, {"AGE"}), n)
    PROVE  Ready(s, t, b, B, N \ {n}, k)
<1> DEFINE u == Notavail(s, b)
           v == Flagged(u, b, {}, {"AGE"})
           C == B \cup {b}
           off == {"AGE"}
<1>1. /\ b \in Buf /\ s.buf[b].blk = k /\ k # NoBlock /\ ~ Is(s, b, "STALE") /\ s \in Cache
  BY DEF Incore, Sound
<1>2. b \in OnList(s) /\ b \notin B \cup N /\ b \notin InDriver(s)
  <2>1. Role(s, b, B, N) /\ s.buf[b] # Unused
    <3>1. Unused.blk = NoBlock
      BY DEF Unused
    <3> QED BY <1>1, <3>1 DEF Sound
  <2> QED BY <1>1, <2>1 DEF Role
<1>3. /\ Sound(u, C, N) /\ SameBut(u, s, b) /\ Goes(s, u, B, C, B) /\ Mem(u) = Mem(s)
      /\ u.io = s.io /\ u.buf[b].flags = s.buf[b].flags \cup {"BUSY"}
  BY <1>2, Take
<1>4. ~ Is(u, b, "STALE") /\ b \notin InDriver(u) /\ u.buf[b].blk = k
  BY <1>1, <1>2, <1>3 DEF Is, InDriver, SameBut
<1> HIDE DEF u
<1>5. {} \in SUBSET Flag /\ b \in C /\ "AGE" \in off /\ "STALE" \notin {} \cup off
      /\ "BUSY" \notin off /\ "WANTED" \notin off /\ "DONE" \notin off
  OBVIOUS
<1>6. v = Flagged(u, b, {}, off)
  OBVIOUS
<1> HIDE DEF v, off, C
<1>7. /\ Sound(v, C, N) /\ OnlyBuf(u, v, b) /\ SameBut(v, u, b)
      /\ Goes(u, v, C, C, C) /\ Mem(v) = Mem(u)
  BY <1>1, <1>3, <1>5, <1>6, Reflag
<1>8. Kept(u, v, b)
  BY <1>1, <1>5, <1>7 DEF Goes
<1>9. t = GiveBack(v, n)
  BY DEF u, v
<1>10. Sound(t, C, N \ {n}) /\ Goes(v, t, C, C, C) /\ Mem(t) = Mem(v)
  BY <1>7, <1>9, GiveBackIs
<1>11. Kept(v, t, b)
  BY <1>1, <1>5, <1>10 DEF Goes
<1>12. ~ Is(t, b, "STALE") /\ b \notin InDriver(t) /\ t.buf[b].blk = k
  BY <1>4, <1>8, <1>11 DEF Kept
<1>13. Goes(s, t, B, C, B)
  <2>1. B \subseteq C
    BY DEF C
  <2>2. Goes(u, v, C, C, B) /\ Goes(v, t, C, C, B)
    BY <1>7, <1>10, <2>1, GoesLess
  <2>3. s \in Cache /\ u \in Cache /\ v \in Cache /\ t \in Cache
    BY <1>1, <1>3, <1>7, <1>10 DEF Sound
  <2>4. Goes(s, v, B, C, B)
    BY <1>3, <2>2, <2>3, GoesOn
  <2> QED BY <2>2, <2>3, <2>4, GoesOn
<1> QED BY <1>1, <1>2, <1>3, <1>7, <1>10, <1>12, <1>13 DEF Ready, C

\* What was not there before is not there.
LEMMA NoneThere ==
    ASSUME NEW s, NEW t, Fewer(s, t), NEW k, Incore(s, k) = {}
    PROVE  Incore(t, k) = {}
<1> SUFFICES ASSUME NEW b \in Incore(t, k) PROVE b \in Incore(s, k)
  OBVIOUS
<1>1. b \in Buf /\ Findable(t, b) /\ t.buf[b].blk = k /\ k # NoBlock
  BY DEF Incore, Findable
<1>2. Findable(s, b) /\ s.buf[b].blk = k
  BY <1>1 DEF Fewer
<1> QED BY <1>1, <1>2 DEF Incore, Findable

\* getfreeblk found a buffer: it becomes the block's.
LEMMA GottenIs ==
    ASSUME NEW s, s \in Cache, NEW B, NEW N, NEW bsize, NEW u, Gotten(s, u, B, N, bsize),
           u.saved # NoBuf,
           NEW c, c.want \in Block \cup {NoBlock}, Incore(s, c.want) = {},
           NEW t, t = Assign(u, u.saved, c)
    PROVE  Ready(s, t, u.saved, B, N, c.want)
<1> DEFINE b == u.saved
           M == N \cup {b}
           k == c.want
<1>1. /\ b \in Buf /\ b \notin B /\ b \notin N
      /\ Sound(u, B, M) /\ Goes(s, u, B, B, B) /\ Mem(u) = Mem(s)
  BY DEF Gotten, One
<1>2. Incore(u, k) = {}
  BY NoneThere DEF Gotten
<1>3. t = Assign(u, b, c) /\ c.want = k /\ b \in M /\ M \ {b} = N
  BY <1>1
<1> HIDE DEF b, M, k
<1>4. Ready(u, t, b, B, M \ {b}, k)
  BY <1>1, <1>2, <1>3, AssignIs
<1>5. Goes(s, t, B, B \cup {b}, B)
  BY <1>1, <1>4, GoesOn DEF Ready, Sound
<1>6. Ready(s, t, b, B, N, k)
  BY <1>1, <1>3, <1>4, <1>5 DEF Ready
<1> QED BY <1>6 DEF b, k

\* The caller releases the buffer.
LEMMA ReadyRelease ==
    ASSUME NEW s, s \in Cache, NEW t, NEW b, NEW B, NEW M, NEW k, Ready(s, t, b, B, M, k),
           NEW u, u = Brelse(t, b)
    PROVE  Sound(u, B, M) /\ Goes(s, u, B, B, B) /\ Mem(u) = Mem(s)
<1> DEFINE C == B \cup {b}
<1>1. /\ b \in Buf /\ b \notin B /\ Sound(t, C, M) /\ Goes(s, t, B, C, B)
      /\ Mem(t) = Mem(s) /\ b \notin InDriver(t) /\ b \in C /\ C \ {b} = B
  BY DEF Ready
<1> HIDE DEF C
<1>2. Sound(u, B, M) /\ Goes(t, u, C, B, B) /\ Mem(u) = Mem(t)
  BY <1>1, Release
<1> QED BY <1>1, <1>2, GoesOn DEF Sound

\* The caller has it read, and leaves it to the driver.
LEMMA ReadyAhead ==
    ASSUME NEW s, s \in Cache, NEW t, NEW b, NEW B, NEW M, NEW k, Ready(s, t, b, B, M, k),
           k # NoBlock, ~ Is(t, b, "DONE"), NEW u, u = StartRead(t, b, {"ASYNC"})
    PROVE  Sound(u, B, M) /\ Goes(s, u, B, B, B) /\ Mem(u) = Mem(s)
<1> DEFINE C == B \cup {b}
           how == {"ASYNC"}
<1>1. /\ b \in Buf /\ b \notin B /\ Sound(t, C, M) /\ Goes(s, t, B, C, B)
      /\ Mem(t) = Mem(s) /\ b \notin InDriver(t) /\ b \in C /\ C \ {b} = B
      /\ t.buf[b].blk # NoBlock
  BY DEF Ready
<1>2. t \in Cache /\ Lists(t) /\ how \in {{}, {"ASYNC"}} /\ u = StartRead(t, b, how)
  BY <1>1 DEF Sound
<1> HIDE DEF C, how
<1>3. ReadAsked(t, u, b, how)
  BY <1>1, <1>2, ReadSubmits
<1>4. Submitted(t, u, b) /\ Is(u, b, "ASYNC")
  BY <1>3 DEF ReadAsked, Is, how
<1>5. Sound(u, B, M) /\ Goes(t, u, C, B, B) /\ Mem(u) = Mem(t)
  BY <1>1, <1>4, Submit
<1> QED BY <1>1, <1>5, GoesOn DEF Sound

\* The caller has it read, and will wait for it.
LEMMA ReadyRead ==
    ASSUME NEW s, s \in Cache, NEW t, NEW b, NEW B, NEW M, NEW k, Ready(s, t, b, B, M, k),
           k # NoBlock, ~ Is(t, b, "DONE"), NEW u, u = StartRead(t, b, {})
    PROVE  /\ Sound(u, B \cup {b}, M) /\ Goes(s, u, B, B \cup {b}, B) /\ Mem(u) = Mem(s)
           /\ u.buf[b].blk = k /\ ~ Is(u, b, "STALE") /\ b \in InDriver(u)
<1> DEFINE C == B \cup {b}
           how == {}
<1>1. /\ b \in Buf /\ b \notin B /\ Sound(t, C, M) /\ Goes(s, t, B, C, B)
      /\ Mem(t) = Mem(s) /\ b \notin InDriver(t) /\ b \in C /\ C \ {b} = B
      /\ t.buf[b].blk = k /\ ~ Is(t, b, "STALE")
  BY DEF Ready
<1>2. t \in Cache /\ Lists(t) /\ how \in {{}, {"ASYNC"}} /\ u = StartRead(t, b, how)
  BY <1>1 DEF Sound
<1> HIDE DEF C, how
<1>3. ReadAsked(t, u, b, how)
  BY <1>1, <1>2, ReadSubmits
<1>4. ~ Is(t, b, "ASYNC")
  BY <1>1, HeldBusy
<1>5. Submitted(t, u, b) /\ ~ Is(u, b, "ASYNC")
  BY <1>3, <1>4 DEF ReadAsked, Is, how
<1>6. Sound(u, C, M) /\ Goes(t, u, C, C, B) /\ Mem(u) = Mem(t)
  BY <1>1, <1>5, Submit
<1>7. Goes(s, u, B, C, B)
  BY <1>1, <1>6, GoesOn DEF Sound
<1>8. u.buf[b].blk = k /\ ~ Is(u, b, "STALE") /\ b \in InDriver(u)
  BY <1>1, <1>5 DEF Submitted
<1> QED BY <1>1, <1>6, <1>7, <1>8 DEF C

-----------------------------------------------------------------------------
(* The invariant: the cache s, and where each process sleeps, where it is and *)
(* what it has                                                                *)

\* A process looks for the buffer of a block
Getting(c) ==
    \/ c.op = "bread" /\ c.blk # NoBlock /\ c.want = c.blk /\ c.bp = NoBuf
    \/ c.op = "getblk" /\ c.blk # NoBlock /\ c.want = c.blk /\ c.bp = NoBuf
    \/ c.op = "ngeteblk" /\ c.blk = NoBlock /\ c.want = NoBlock /\ c.bp = NoBuf
    \/ /\ c.op = "breada" /\ c.blk # NoBlock /\ c.want # NoBlock /\ c.ra # c.blk
       /\ (c.want = c.blk /\ c.bp = NoBuf) \/ c.want = c.ra

Flushing(c) == c.op = "blkflush" /\ c.bp = NoBuf /\ c.nbp = NoBuf /\ c.blk # NoBlock

\* What a process may have where it is
Place(w, c) ==
    /\ w = "user" => c = NoCall
    /\ w \in {"bufwait", "again"} => Getting(c) \/ Flushing(c)
    /\ w \in {"freewait", "alloc"} => Getting(c) /\ c.nbp = NoBuf
    /\ w = "ra" => c.op = "breada" /\ c.blk # NoBlock /\ c.ra # c.blk /\ c.nbp = NoBuf
    /\ w = "iowait" => c.op = "bread" /\ c.blk # NoBlock /\ c.bp # NoBuf /\ c.nbp = NoBuf
    /\ w = "wwait" => /\ c.op \in {"bread", "getblk", "blkflush"}
                      /\ c.blk # NoBlock /\ c.bp # NoBuf /\ c.nbp = NoBuf
    /\ w = "hold" => /\ c.op \in {"bread", "getblk", "ngeteblk"} /\ c.bp # NoBuf /\ c.nbp = NoBuf
                     /\ c.op = "ngeteblk" <=> c.blk = NoBlock

\* The buffer it has is its block's, and filled or on its way
Has(s, w, c) ==
    c.bp # NoBuf =>
      /\ s.buf[c.bp].blk = c.blk /\ ~ Is(s, c.bp, "STALE")
      /\ w = "hold" => /\ c.bp \notin InDriver(s)
                       /\ c.op = "bread" => Is(s, c.bp, "DONE")
      /\ w # "hold" => Is(s, c.bp, "DONE") \/ c.bp \in InDriver(s)

\* It sleeps for what somebody will release or finish, or for memory
Waits(s, B, ch, w, c) ==
    \/ ch = NoChan
    \/ \E b \in Buf : /\ ch = <<"buf", b>> /\ w \in {"bufwait", "iowait", "wwait"} /\ Waited(s, b)
                      /\ b \in InDriver(s) \/ (b \in B /\ b # c.bp)
    \/ ch = Free /\ w = "freewait" /\ s.wanted /\ s.avail = <<>> /\ s.bufsize < Bsize(c.want)

\* The buffers of all processes, and of all but p
Held(cl)       == {cl[q].bp : q \in Proc} \ {NoBuf}
News(cl)       == {cl[q].nbp : q \in Proc} \ {NoBuf}
HeldBut(cl, p) == {cl[q].bp : q \in Proc \ {p}} \ {NoBuf}
NewsBut(cl, p) == {cl[q].nbp : q \in Proc \ {p}} \ {NoBuf}

\* No two processes have one
Distinct(cl) ==
    \A p, q \in Proc : p # q =>
      /\ cl[p].bp = cl[q].bp => cl[p].bp = NoBuf
      /\ cl[p].nbp = cl[q].nbp => cl[p].nbp = NoBuf

\* The memory that is set aside for new buffers
SetAside(w, c) == IF w = "alloc" THEN Bsize(c.want) ELSE 0
Asides(w, cl)  == [p \in Proc |-> SetAside(w[p], cl[p])]

Tables(ch, w, cl) ==
    w \in [Proc -> Pcs] /\ cl \in [Proc -> Call] /\ ch \in [Proc -> Chan \cup {NoChan}]

\* The cache s and the processes, asleep on ch, at w and with the calls cl, are good
Good(s, ch, w, cl) ==
    /\ Tables(ch, w, cl) /\ Sound(s, Held(cl), News(cl)) /\ Distinct(cl)
    /\ \A p \in Proc : /\ Place(w[p], cl[p]) /\ Has(s, w[p], cl[p])
                       /\ Waits(s, Held(cl), ch[p], w[p], cl[p])
    /\ Mem(s) + SumFunction(Asides(w, cl)) = MEM

\* The fields of a call.
LEMMA CallFields ==
    ASSUME NEW c, c \in Call
    PROVE  /\ c.op \in Ops /\ c.blk \in Block \cup {NoBlock} /\ c.ra \in Block \cup {NoBlock}
           /\ c.want \in Block \cup {NoBlock} /\ c.bp \in Buf \cup {NoBuf}
           /\ c.nbp \in Buf \cup {NoBuf}
BY DEF Call

\* Sizes are natural numbers.
LEMMA SetAsideNat ==
    ASSUME NEW c, c \in Call, NEW w
    PROVE  SetAside(w, c) \in Nat
<1>1. c.want \in Block \cup {NoBlock}
  BY CallFields
<1> QED BY <1>1, SizesAssumption DEF SetAside, Bsize

\* Another process waits on.
LEMMA WaitsOn ==
    ASSUME NEW s, s \in Cache, NEW t, t \in Cache, NEW B, NEW C, NEW K, Goes(s, t, B, C, K),
           NEW c, c \in Call, NEW w, NEW ch, Waits(s, B, ch, w, c),
           NEW d, d = IF ch \in t.woken THEN NoChan ELSE ch
    PROVE  Waits(t, C, d, w, c)
<1>1. CASE d = NoChan
  BY <1>1 DEF Waits
<1>2. CASE ch # NoChan /\ ch \notin t.woken /\ ch = Free
  <2>1. \A b \in Buf : ch # <<"buf", b>>
    BY <1>2, ChannelsDiffer
  <2>2. w = "freewait" /\ s.wanted /\ s.avail = <<>> /\ s.bufsize < Bsize(c.want)
    BY <1>2, <2>1 DEF Waits
  <2>3. t.wanted /\ t.avail = <<>> /\ t.bufsize <= s.bufsize
    BY <1>2, <2>2 DEF Goes, MemoryServed
  <2>4. s.bufsize \in Nat /\ t.bufsize \in Nat
    BY CacheFields
  <2>5. Bsize(c.want) \in Nat
    BY SetAsideNat DEF SetAside
  <2>6. t.bufsize < Bsize(c.want)
    BY <2>2, <2>3, <2>4, <2>5
  <2> QED BY <1>2, <2>2, <2>3, <2>6 DEF Waits
<1>3. CASE ch # NoChan /\ ch \notin t.woken /\ ch # Free
  <2>1. PICK b \in Buf : /\ ch = <<"buf", b>> /\ w \in {"bufwait", "iowait", "wwait"}
                         /\ Waited(s, b) /\ (b \in InDriver(s) \/ (b \in B /\ b # c.bp))
    BY <1>3 DEF Waits
  <2>2. Served(s, t, b, B, C)
    BY DEF Goes
  <2>3. /\ Waited(t, b) /\ (b \in InDriver(t) \/ b \in C)
        /\ b \in InDriver(s) => b \in InDriver(t)
    BY <1>3, <2>1, <2>2 DEF Served
  <2> QED BY <1>3, <2>1, <2>3 DEF Waits
<1> QED BY <1>1, <1>2, <1>3

\* Another process has what it had.
LEMMA HasStill ==
    ASSUME NEW s, NEW t, NEW B, NEW C, NEW K, Goes(s, t, B, C, K),
           NEW c, c \in Call, c.bp # NoBuf => c.bp \in K, NEW w, Has(s, w, c)
    PROVE  Has(t, w, c)
<1> SUFFICES ASSUME c.bp # NoBuf PROVE Has(t, w, c)
  BY DEF Has
<1>1. c.bp \in Buf /\ c.bp \in K
  BY CallFields
<1>2. Kept(s, t, c.bp)
  BY <1>1 DEF Goes
<1> QED BY <1>2 DEF Has, Kept

\* The buffers of all are those of the others and its own.
LEMMA AllHeld ==
    ASSUME NEW cl, cl \in [Proc -> Call], NEW p \in Proc
    PROVE  /\ Held(cl) = HeldBut(cl, p) \cup One(cl[p].bp)
           /\ News(cl) = NewsBut(cl, p) \cup One(cl[p].nbp)
BY DEF Held, News, HeldBut, NewsBut, One

\* What p gets does not change what the others have.
LEMMA ButSame ==
    ASSUME NEW cl, cl \in [Proc -> Call], NEW p \in Proc, NEW c,
           NEW dl, dl = [cl EXCEPT ![p] = c]
    PROVE  /\ HeldBut(dl, p) = HeldBut(cl, p) /\ NewsBut(dl, p) = NewsBut(cl, p)
           /\ dl[p] = c /\ \A q \in Proc \ {p} : dl[q] = cl[q]
<1>1. dl[p] = c /\ \A q \in Proc \ {p} : dl[q] = cl[q]
  OBVIOUS
<1> QED BY <1>1 DEF HeldBut, NewsBut

\* Nobody else gets what p has.
LEMMA DistinctStill ==
    ASSUME NEW cl, cl \in [Proc -> Call], Distinct(cl), NEW p \in Proc, NEW c, c \in Call,
           c.bp \notin HeldBut(cl, p), c.nbp \notin NewsBut(cl, p),
           NEW dl, dl = [cl EXCEPT ![p] = c]
    PROVE  Distinct(dl)
<1>1. dl[p] = c /\ \A q \in Proc \ {p} : dl[q] = cl[q]
  BY ButSame
<1>2. \A q \in Proc \ {p} : /\ cl[q].bp = c.bp => c.bp = NoBuf
                            /\ cl[q].nbp = c.nbp => c.nbp = NoBuf
  BY DEF HeldBut, NewsBut
<1> QED BY <1>1, <1>2 DEF Distinct

\* p's own are not the others'.
LEMMA OwnIsOwn ==
    ASSUME NEW cl, cl \in [Proc -> Call], Distinct(cl), NEW p \in Proc
    PROVE  /\ cl[p].bp \notin HeldBut(cl, p) /\ cl[p].nbp \notin NewsBut(cl, p)
           /\ \A q \in Proc \ {p} : cl[q].bp # NoBuf => cl[q].bp \in HeldBut(cl, p)
BY DEF Distinct, HeldBut, NewsBut

\* Only p has moved, and got other arguments
Moved(w, cl, x, dl, p) ==
    /\ cl \in [Proc -> Call] /\ dl \in [Proc -> Call]
    /\ \A q \in Proc \ {p} : x[q] = w[q] /\ dl[q] = cl[q]

Balanced(m, w, cl) == m + SumFunction(Asides(w, cl)) = MEM

\* Memory goes from the cache to what is set aside, or back.
LEMMA AsidesChange ==
    ASSUME NEW w, NEW cl, NEW x, NEW dl, NEW p \in Proc, Moved(w, cl, x, dl, p),
           NEW m \in Nat, NEW n \in Nat, Balanced(m, w, cl),
           n + SetAside(x[p], dl[p]) = m + SetAside(w[p], cl[p])
    PROVE  Balanced(n, x, dl)
<1> DEFINE f == Asides(w, cl)  h == Asides(x, dl)
<1>1. /\ DOMAIN f = Proc /\ DOMAIN h = Proc
      /\ \A q \in Proc : f[q] = SetAside(w[q], cl[q]) /\ h[q] = SetAside(x[q], dl[q])
  BY DEF Asides
<1>2. \A q \in Proc \ {p} : h[q] = f[q]
  BY <1>1 DEF Moved
<1>3. m + SumFunction(f) = MEM
  BY DEF Balanced
<1> HIDE DEF f, h
<1>4. \A q \in Proc : f[q] \in Nat /\ h[q] \in Nat
  <2> SUFFICES ASSUME NEW q \in Proc PROVE f[q] \in Nat /\ h[q] \in Nat
    OBVIOUS
  <2> DEFINE a == cl[q]  b == dl[q]  y == w[q]  z == x[q]
  <2>1. a \in Call /\ b \in Call
    BY DEF Moved
  <2>2. f[q] = SetAside(y, a) /\ h[q] = SetAside(z, b)
    BY <1>1
  <2> HIDE DEF a, b, y, z
  <2>3. SetAside(y, a) \in Nat /\ SetAside(z, b) \in Nat
    BY <2>1, SetAsideNat
  <2> QED BY <2>2, <2>3
<1>5. /\ SumFunction(f) \in Nat /\ SumFunction(h) \in Nat
      /\ SumFunction(h) + f[p] = SumFunction(f) + h[p]
  BY <1>1, <1>2, <1>4, PoolsAssumption, SumChanges
<1> DEFINE i == SumFunction(f)  j == SumFunction(h)  k == f[p]  l == h[p]
<1>6. /\ i \in Nat /\ j \in Nat /\ k \in Nat /\ l \in Nat /\ j + k = i + l
      /\ m + i = MEM /\ n + l = m + k
  BY <1>1, <1>3, <1>4, <1>5
<1> HIDE DEF i, j, k, l
<1>7. n + j = MEM
  BY ONLY <1>6, m \in Nat, n \in Nat
<1> QED BY <1>7 DEF j, h, Balanced

\* Where processes sleep after those of t.woken are woken and p sleeps on d
Slept(ch, t, p, d) ==
    [q \in Proc |-> IF q = p THEN d ELSE IF ch[q] \in t.woken THEN NoChan ELSE ch[q]]

\* What a step of p must do: the cache becomes t, and p goes to v with the call c
Proper(s, t, ch, w, cl, p, v, c, d) ==
    /\ v \in Pcs /\ c \in Call /\ d \in Chan \cup {NoChan}
    /\ c.bp \notin HeldBut(cl, p) /\ c.nbp \notin NewsBut(cl, p)
    /\ Sound(t, HeldBut(cl, p) \cup One(c.bp), NewsBut(cl, p) \cup One(c.nbp))
    /\ Goes(s, t, Held(cl), HeldBut(cl, p) \cup One(c.bp), HeldBut(cl, p))
    /\ Place(v, c) /\ Has(t, v, c) /\ Waits(t, HeldBut(cl, p) \cup One(c.bp), d, v, c)
    /\ Mem(t) + SetAside(v, c) = Mem(s) + SetAside(w[p], cl[p])

\* Then everything is good.
LEMMA MoveKeeps ==
    ASSUME NEW s, NEW ch, NEW w, NEW cl, Good(s, ch, w, cl), NEW p \in Proc, NEW t, NEW v, NEW c,
           NEW d, Proper(s, t, ch, w, cl, p, v, c, d)
    PROVE  Good(t, Slept(ch, t, p, d), [w EXCEPT ![p] = v], [cl EXCEPT ![p] = c])
<1> DEFINE dl == [cl EXCEPT ![p] = c]
           x == [w EXCEPT ![p] = v]
           dh == Slept(ch, t, p, d)
           C == HeldBut(cl, p) \cup One(c.bp)
           M == NewsBut(cl, p) \cup One(c.nbp)
<1>1. Tables(ch, w, cl) /\ Sound(s, Held(cl), News(cl)) /\ Distinct(cl)
  BY DEF Good
<1>2. cl \in [Proc -> Call] /\ w \in [Proc -> Pcs] /\ ch \in [Proc -> Chan \cup {NoChan}]
  BY <1>1 DEF Tables
<1>3. /\ v \in Pcs /\ c \in Call /\ d \in Chan \cup {NoChan}
      /\ c.bp \notin HeldBut(cl, p) /\ c.nbp \notin NewsBut(cl, p)
      /\ Sound(t, C, M) /\ Goes(s, t, Held(cl), C, HeldBut(cl, p))
      /\ Place(v, c) /\ Has(t, v, c) /\ Waits(t, C, d, v, c)
      /\ Mem(t) + SetAside(v, c) = Mem(s) + SetAside(w[p], cl[p])
  BY DEF Proper
<1> HIDE DEF C, M
<1>4. /\ HeldBut(dl, p) = HeldBut(cl, p) /\ NewsBut(dl, p) = NewsBut(cl, p)
      /\ dl[p] = c /\ \A q \in Proc \ {p} : dl[q] = cl[q]
  BY <1>2, ButSame
<1>5. dl \in [Proc -> Call] /\ x \in [Proc -> Pcs]
  BY <1>2, <1>3
<1>6. x[p] = v /\ \A q \in Proc \ {p} : x[q] = w[q]
  BY <1>2
<1>7. /\ dh \in [Proc -> Chan \cup {NoChan}] /\ dh[p] = d
      /\ \A q \in Proc \ {p} : dh[q] = IF ch[q] \in t.woken THEN NoChan ELSE ch[q]
  BY <1>2, <1>3 DEF Slept
<1>8. Distinct(dl)
  BY <1>1, <1>2, <1>3, DistinctStill
<1> HIDE DEF dl, x, dh
<1>9. Held(dl) = C /\ News(dl) = M
  BY <1>4, <1>5, AllHeld DEF C, M
<1>10. ASSUME NEW q \in Proc
       PROVE  Place(x[q], dl[q]) /\ Has(t, x[q], dl[q]) /\ Waits(t, C, dh[q], x[q], dl[q])
  <2>1. CASE q = p
    BY <1>3, <1>4, <1>6, <1>7, <2>1
  <2>2. CASE q # p
    <3>1. /\ dl[q] = cl[q] /\ x[q] = w[q] /\ cl[q] \in Call
          /\ dh[q] = IF ch[q] \in t.woken THEN NoChan ELSE ch[q]
      BY <1>2, <1>4, <1>6, <1>7, <2>2
    <3>2. /\ Place(w[q], cl[q]) /\ Has(s, w[q], cl[q])
          /\ Waits(s, Held(cl), ch[q], w[q], cl[q])
      BY DEF Good
    <3>3. cl[q].bp # NoBuf => cl[q].bp \in HeldBut(cl, p)
      BY <2>2 DEF HeldBut
    <3> DEFINE e == cl[q]  y == w[q]  a == ch[q]  b == dh[q]
    <3> HIDE DEF e, y, a, b
    <3>4. Has(t, y, e)
      <4>1. e \in Call /\ (e.bp # NoBuf => e.bp \in HeldBut(cl, p)) /\ Has(s, y, e)
        BY <3>1, <3>2, <3>3 DEF e, y
      <4> QED BY <1>3, <4>1, HasStill
    <3>5. Waits(t, C, b, y, e)
      <4>1. e \in Call /\ Waits(s, Held(cl), a, y, e) /\ b = IF a \in t.woken THEN NoChan ELSE a
        BY <3>1, <3>2 DEF e, y, a, b
      <4>2. s \in Cache /\ t \in Cache
        BY <1>1, <1>3 DEF Sound
      <4> QED BY <1>3, <4>1, <4>2, WaitsOn
    <3> QED BY <3>1, <3>2, <3>4, <3>5 DEF e, y, b
  <2> QED BY <2>1, <2>2
<1>11. Mem(t) + SumFunction(Asides(x, dl)) = MEM
  <2>1. Mem(s) + SumFunction(Asides(w, cl)) = MEM
    BY DEF Good
  <2>2. Mem(s) \in Nat /\ Mem(t) \in Nat
    BY <1>1, <1>3, MemNat DEF Sound
  <2>3. Moved(w, cl, x, dl, p)
    BY <1>2, <1>4, <1>5, <1>6 DEF Moved
  <2>4. Mem(t) + SetAside(x[p], dl[p]) = Mem(s) + SetAside(w[p], cl[p])
    BY <1>3, <1>4, <1>6
  <2> DEFINE m == Mem(s)  n == Mem(t)
  <2>5. /\ m \in Nat /\ n \in Nat /\ Balanced(m, w, cl)
        /\ n + SetAside(x[p], dl[p]) = m + SetAside(w[p], cl[p])
    BY <2>1, <2>2, <2>4 DEF Balanced
  <2> HIDE DEF m, n
  <2>6. Balanced(n, x, dl)
    BY <2>3, <2>5, AsidesChange
  <2> QED BY <2>6 DEF Balanced, n
<1> QED BY <1>3, <1>5, <1>7, <1>8, <1>9, <1>10, <1>11 DEF Good, Tables, dl, x, dh
\* Where processes sleep after those of t.woken are woken
Roused(ch, t) == [q \in Proc |-> IF ch[q] \in t.woken THEN NoChan ELSE ch[q]]

\* What a step that moves no process must do
Allowed(s, t, w, cl) ==
    /\ Sound(t, Held(cl), News(cl)) /\ Goes(s, t, Held(cl), Held(cl), {})
    /\ \A p \in Proc : Has(t, w[p], cl[p])
    /\ Mem(t) = Mem(s)

\* Then everything is good.
LEMMA SystemKeeps ==
    ASSUME NEW s, NEW ch, NEW w, NEW cl, Good(s, ch, w, cl), NEW t, Allowed(s, t, w, cl)
    PROVE  Good(t, Roused(ch, t), w, cl)
<1> DEFINE dh == Roused(ch, t)  B == Held(cl)
<1>1. Tables(ch, w, cl) /\ Sound(s, B, News(cl)) /\ Distinct(cl)
  BY DEF Good
<1>2. cl \in [Proc -> Call] /\ w \in [Proc -> Pcs] /\ ch \in [Proc -> Chan \cup {NoChan}]
  BY <1>1 DEF Tables
<1>3. Sound(t, B, News(cl)) /\ Goes(s, t, B, B, {}) /\ Mem(t) = Mem(s)
  BY DEF Allowed
<1>4. /\ dh \in [Proc -> Chan \cup {NoChan}]
      /\ \A q \in Proc : dh[q] = IF ch[q] \in t.woken THEN NoChan ELSE ch[q]
  BY <1>2 DEF Roused
<1>5. s \in Cache /\ t \in Cache
  BY <1>1, <1>3 DEF Sound
<1> HIDE DEF dh, B
<1>6. ASSUME NEW q \in Proc PROVE Waits(t, B, dh[q], w[q], cl[q])
  <2> DEFINE e == cl[q]  y == w[q]  a == ch[q]  b == dh[q]
  <2>1. e \in Call /\ Waits(s, B, a, y, e) /\ b = IF a \in t.woken THEN NoChan ELSE a
    BY <1>2, <1>4 DEF Good, B
  <2> HIDE DEF e, y, a, b
  <2>2. Waits(t, B, b, y, e)
    BY <1>3, <1>5, <2>1, WaitsOn
  <2> QED BY <2>2 DEF e, y, b
<1>7. \A q \in Proc : Place(w[q], cl[q])
  BY DEF Good
<1>8. \A q \in Proc : Has(t, w[q], cl[q])
  BY DEF Allowed
<1>9. Mem(t) + SumFunction(Asides(w, cl)) = MEM
  BY <1>3 DEF Good
<1>10. Tables(dh, w, cl)
  BY <1>2, <1>4 DEF Tables
<1> QED BY <1>1, <1>3, <1>6, <1>7, <1>8, <1>9, <1>10 DEF Good, B, dh

\* The same buffers, lists, memory and requests
SamePools(u, t) ==
    /\ u \in Cache /\ u.buf = t.buf /\ u.avail = t.avail /\ u.bufsize = t.bufsize
    /\ u.wanted = t.wanted /\ u.io = t.io

\* What was woken, and the locals of getfreeblk, are no part of what is good.
LEMMA Settle ==
    ASSUME NEW t, NEW u, SamePools(u, t), NEW ch, NEW w, NEW cl, Good(t, ch, w, cl)
    PROVE  Good(u, ch, w, cl)
<1>1. \A b, f : Is(u, b, f) <=> Is(t, b, f)
  BY DEF Is, SamePools
<1>2. /\ OnList(u) = OnList(t) /\ InDriver(u) = InDriver(t) /\ Mem(u) = Mem(t)
      /\ \A b \in Buf : Findable(u, b) <=> Findable(t, b)
  BY <1>1 DEF SamePools, OnList, InDriver, Mem, Sizes, Findable
<1>3. u.buf = t.buf /\ u.avail = t.avail /\ u.bufsize = t.bufsize /\ u.wanted = t.wanted
  BY DEF SamePools
<1>4. Sound(u, Held(cl), News(cl))
  <2>1. Sound(t, Held(cl), News(cl))
    BY DEF Good
  <2>2. Lists(u) /\ u \in Cache
    BY <2>1 DEF Sound, Lists, SamePools
  <2>3. Unique(u)
    BY <1>2, <1>3, <2>1 DEF Sound, Unique
  <2>4. ASSUME NEW b \in Buf PROVE Role(u, b, Held(cl), News(cl))
    <3>1. Role(t, b, Held(cl), News(cl))
      BY <2>1 DEF Sound
    <3> QED BY <1>1, <1>2, <1>3, <3>1 DEF Role, Named
  <2> QED BY <2>2, <2>3, <2>4 DEF Sound
<1>5. ASSUME NEW p \in Proc
      PROVE  Has(u, w[p], cl[p]) /\ Waits(u, Held(cl), ch[p], w[p], cl[p])
  <2>1. Has(t, w[p], cl[p]) /\ Waits(t, Held(cl), ch[p], w[p], cl[p])
    BY DEF Good
  <2>2. Has(u, w[p], cl[p])
    BY <1>1, <1>2, <1>3, <2>1 DEF Has
  <2>3. Waits(u, Held(cl), ch[p], w[p], cl[p])
    BY <1>1, <1>2, <1>3, <2>1 DEF Waits, Waited
  <2> QED BY <2>2, <2>3
<1> QED BY <1>2, <1>4, <1>5 DEF Good

-----------------------------------------------------------------------------
(* The steps of the processes *)

\* The variables are good
GoodNow == Good(Now, wchan, pc, call)

\* The cache as a value has what the variables have.
LEMMA NowIs ==
    /\ Now.buf = buf /\ Now.avail = avail /\ Now.bufsize = bufsize /\ Now.wanted = wanted
    /\ Now.io = io /\ Now.woken = {} /\ Now.saved = NoBuf /\ ~ Now.stop
BY DEF Now

\* The cache after a step is the one that the step makes.
LEMMA NextCache ==
    ASSUME NEW t, t \in Cache, Becomes(t)
    PROVE  SamePools(Now', t)
<1>1. Now' = [buf |-> buf', avail |-> avail', bufsize |-> bufsize', wanted |-> wanted',
              io |-> io', woken |-> {}, saved |-> NoBuf, stop |-> FALSE]
  BY DEF Now
<1>2. /\ buf' = t.buf /\ avail' = t.avail /\ bufsize' = t.bufsize /\ wanted' = t.wanted
      /\ io' = t.io
  BY DEF Becomes
<1>3. /\ t.buf \in [Buf -> Header] /\ t.avail \in Seq(Buf) /\ t.bufsize \in Nat
      /\ t.wanted \in BOOLEAN /\ t.io \in Seq(Request)
  BY CacheFields
<1>4. Now' \in Cache
  BY <1>1, <1>2, <1>3 DEF Cache
<1> QED BY <1>1, <1>2, <1>4 DEF SamePools

\* A step of p that is proper keeps everything good.
LEMMA ProcessStep ==
    ASSUME GoodNow, NEW p \in Proc, NEW t, NEW v, NEW c, NEW d,
           Proper(Now, t, wchan, pc, call, p, v, c, d), Becomes(t),
           wchan' = Slept(wchan, t, p, d), Goto(p, v, c)
    PROVE  GoodNow'
<1>1. Good(t, Slept(wchan, t, p, d), [pc EXCEPT ![p] = v], [call EXCEPT ![p] = c])
  BY MoveKeeps DEF GoodNow
<1>2. Good(t, wchan', pc', call')
  BY <1>1 DEF Goto
<1>3. t \in Cache
  BY DEF Proper, Sound
<1>4. SamePools(Now', t)
  BY <1>3, NextCache
<1>5. Good(Now', wchan', pc', call')
  BY <1>2, <1>4, Settle
<1> QED BY <1>5 DEF GoodNow

\* A step that moves no process.
LEMMA SystemStep ==
    ASSUME GoodNow, NEW t, Allowed(Now, t, pc, call), BecomesWaking(t), UNCHANGED <<pc, call>>
    PROVE  GoodNow'
<1>1. Good(t, Roused(wchan, t), pc, call)
  BY SystemKeeps DEF GoodNow
<1>2. Good(t, wchan', pc', call') /\ Becomes(t)
  BY <1>1 DEF BecomesWaking, Wakeprocs, Roused
<1>3. t \in Cache
  BY DEF Allowed, Sound
<1>4. SamePools(Now', t)
  BY <1>2, <1>3, NextCache
<1>5. Good(Now', wchan', pc', call')
  BY <1>2, <1>4, Settle
<1> QED BY <1>5 DEF GoodNow

\* What p has when it goes to v with the call c, in the cache t, if it sets no memory
\* aside
Arrives(t, p, v, c) ==
    /\ pc[p] # "alloc" /\ v \in Pcs \ {"alloc"} /\ c \in Call
    /\ c.bp \notin HeldBut(call, p) /\ c.nbp \notin NewsBut(call, p)
    /\ Sound(t, HeldBut(call, p) \cup One(c.bp), NewsBut(call, p) \cup One(c.nbp))
    /\ Goes(Now, t, Held(call), HeldBut(call, p) \cup One(c.bp), HeldBut(call, p))
    /\ Place(v, c) /\ Has(t, v, c) /\ Mem(t) = Mem(Now)

\* It arrives awake.
LEMMA AwakeStep ==
    ASSUME GoodNow, NEW p \in Proc, wchan[p] = NoChan, NEW t, NEW v, NEW c, Arrives(t, p, v, c),
           BecomesWaking(t), Goto(p, v, c)
    PROVE  GoodNow'
<1>1. wchan' = Slept(wchan, t, p, NoChan) /\ Becomes(t)
  BY DEF BecomesWaking, Wakeprocs, Slept
<1>2. Waits(t, HeldBut(call, p) \cup One(c.bp), NoChan, v, c)
  BY DEF Waits
<1>3. SetAside(v, c) = 0 /\ SetAside(pc[p], call[p]) = 0
  BY DEF Arrives, SetAside
<1>4. Proper(Now, t, wchan, pc, call, p, v, c, NoChan)
  BY <1>2, <1>3 DEF Proper, Arrives
<1> QED BY <1>1, <1>4, ProcessStep

\* It falls asleep there.
LEMMA AsleepStep ==
    ASSUME GoodNow, NEW p \in Proc, NEW t, NEW v, NEW c, Arrives(t, p, v, c),
           NEW d, d \in Chan, Waits(t, HeldBut(call, p) \cup One(c.bp), d, v, c),
           BecomesAsleep(p, d, t), Goto(p, v, c)
    PROVE  GoodNow'
<1>1. wchan' = Slept(wchan, t, p, d) /\ Becomes(t)
  BY DEF BecomesAsleep, Slept
<1>2. SetAside(v, c) = 0 /\ SetAside(pc[p], call[p]) = 0
  BY DEF Arrives, SetAside
<1>3. Proper(Now, t, wchan, pc, call, p, v, c, d)
  BY <1>2 DEF Proper, Arrives
<1> QED BY <1>1, <1>3, ProcessStep

\* p asks for the buffer of the block c.want
Asking(p, c) ==
    /\ c \in Call /\ Getting(c) /\ c.bp = call[p].bp /\ Has(Now, "again", c)
    /\ wchan[p] = NoChan /\ pc[p] # "alloc"

\* What is good, in parts.
LEMMA GoodIs ==
    ASSUME GoodNow, NEW p \in Proc
    PROVE  /\ Now \in Cache /\ call \in [Proc -> Call] /\ call[p] \in Call /\ Distinct(call)
           /\ Sound(Now, Held(call), News(call))
           /\ Held(call) = HeldBut(call, p) \cup One(call[p].bp)
           /\ News(call) = NewsBut(call, p) \cup One(call[p].nbp)
           /\ call[p].bp \notin HeldBut(call, p) /\ call[p].nbp \notin NewsBut(call, p)
           /\ Place(pc[p], call[p]) /\ Has(Now, pc[p], call[p])
           /\ Waits(Now, Held(call), wchan[p], pc[p], call[p])
<1>1. call \in [Proc -> Call] /\ Distinct(call) /\ Sound(Now, Held(call), News(call))
  BY DEF GoodNow, Good, Tables
<1>2. Place(pc[p], call[p]) /\ Has(Now, pc[p], call[p])
      /\ Waits(Now, Held(call), wchan[p], pc[p], call[p])
  BY DEF GoodNow, Good
<1>3. /\ Held(call) = HeldBut(call, p) \cup One(call[p].bp)
      /\ News(call) = NewsBut(call, p) \cup One(call[p].nbp)
  BY <1>1, AllHeld
<1>4. call[p].bp \notin HeldBut(call, p) /\ call[p].nbp \notin NewsBut(call, p)
  BY <1>1, OwnIsOwn
<1> QED BY <1>1, <1>2, <1>3, <1>4 DEF Sound

\* The call of a process that got its buffer, and of one that had it read ahead
WithBuffer(e, c, b) ==
    /\ e \in Call /\ e.op = c.op /\ e.blk = c.blk /\ e.ra = c.ra /\ e.want = c.want
    /\ e.bp = b /\ e.nbp = NoBuf

ReadAhead(e, c) ==
    /\ e \in Call /\ e.op = c.op /\ e.blk = c.blk /\ e.ra = NoBlock /\ e.want = c.want
    /\ e.bp = c.bp /\ e.nbp = NoBuf

Nexting(e, c, b) ==
    /\ e \in Call /\ e.op = c.op /\ e.blk = c.blk /\ e.ra = c.ra /\ e.want = c.want
    /\ e.bp = c.bp /\ e.nbp = b

\* Their fields.
LEMMA CallsChange ==
    ASSUME NEW c, c \in Call, NEW b, b \in Buf
    PROVE  /\ WithBuffer([c EXCEPT !.bp = b, !.nbp = NoBuf], c, b)
           /\ ReadAhead([c EXCEPT !.ra = NoBlock, !.nbp = NoBuf], c)
<1>1. WithBuffer([c EXCEPT !.bp = b, !.nbp = NoBuf], c, b)
  BY DEF Call, WithBuffer
<1>2. ReadAhead([c EXCEPT !.ra = NoBlock, !.nbp = NoBuf], c)
  BY DEF Call, ReadAhead
<1> QED BY <1>1, <1>2

\* The caller of getblk has the buffer of the block, and goes on.
LEMMA GotStep ==
    ASSUME GoodNow, NEW p \in Proc, NEW c, Asking(p, c),
           NEW b, NEW t, Ready(Now, t, b, Held(call), NewsBut(call, p), c.want), Got(p, c, b, t)
    PROVE  GoodNow'
<1> DEFINE B == Held(call)  M == NewsBut(call, p)  O == HeldBut(call, p)
           e == [c EXCEPT !.bp = b, !.nbp = NoBuf]
           r == [c EXCEPT !.ra = NoBlock, !.nbp = NoBuf]
<1>1. /\ Now \in Cache /\ call[p] \in Call /\ Sound(Now, B, News(call))
      /\ B = O \cup One(call[p].bp) /\ call[p].bp \notin O
  BY GoodIs
<1>2. /\ c \in Call /\ Getting(c) /\ c.bp = call[p].bp /\ Has(Now, "again", c)
      /\ wchan[p] = NoChan /\ pc[p] # "alloc"
  BY DEF Asking
<1>3. /\ b \in Buf /\ b \notin B /\ Sound(t, B \cup {b}, M) /\ Goes(Now, t, B, B \cup {b}, B)
      /\ Mem(t) = Mem(Now) /\ b \notin InDriver(t) /\ t.buf[b].blk = c.want /\ ~ Is(t, b, "STALE")
  BY DEF Ready
<1>4. /\ e \in Call /\ e.op = c.op /\ e.blk = c.blk /\ e.ra = c.ra /\ e.want = c.want
      /\ e.bp = b /\ e.nbp = NoBuf
  <2>1. WithBuffer(e, c, b)
    BY <1>2, <1>3, CallsChange
  <2> QED BY <2>1 DEF WithBuffer
<1>5. /\ r \in Call /\ r.op = c.op /\ r.blk = c.blk /\ r.ra = NoBlock
      /\ r.want = c.want /\ r.bp = c.bp /\ r.nbp = NoBuf
  <2>1. ReadAhead(r, c)
    BY <1>2, <1>3, CallsChange
  <2> QED BY <2>1 DEF ReadAhead
<1>6. One(b) = {b} /\ One(NoBuf) = {} /\ b # NoBuf /\ NoBuf \notin M /\ NoBuf \notin O
  BY <1>3, NamesAssumption DEF One, NewsBut, HeldBut
<1>7. O \subseteq B
  BY <1>1
<1>8. ASSUME c.op = "breada", c.want = c.ra, BecomesWaking(IF Is(t, b, "DONE") THEN Brelse(t, b)
                                                    ELSE StartRead(t, b, {"ASYNC"})),
             Goto(p, "ra", r)
      PROVE  GoodNow'
  <2> DEFINE u == IF Is(t, b, "DONE") THEN Brelse(t, b) ELSE StartRead(t, b, {"ASYNC"})
  <2>1. Sound(u, B, M) /\ Goes(Now, u, B, B, B) /\ Mem(u) = Mem(Now)
    <3>1. Ready(Now, t, b, B, M, c.want) /\ c.want # NoBlock
      BY <1>2, <1>8 DEF Getting
    <3> HIDE DEF B, M
    <3>2. CASE Is(t, b, "DONE")
      BY <1>1, <3>1, <3>2, ReadyRelease
    <3>3. CASE ~ Is(t, b, "DONE")
      BY <1>1, <3>1, <3>3, ReadyAhead
    <3> QED BY <3>2, <3>3
  <2> HIDE DEF u, B, M, O, r
  <2>2. Goes(Now, u, B, B, O)
    BY <1>7, <2>1, GoesLess
  <2>3. B = O \cup One(r.bp) /\ r.bp \notin O
    BY <1>1, <1>2, <1>5
  <2>4. Place("ra", r)
    BY <1>2, <1>5, <1>8 DEF Place, Getting
  <2>5. Has(u, "ra", r)
    <3>1. c.bp # NoBuf => c.bp \in B
      BY <1>1, <1>2 DEF One
    <3>2. Has(u, "again", c)
      BY <1>2, <2>1, <3>1, HasStill
    <3> QED BY <1>5, <3>2 DEF Has
  <2>6. Arrives(u, p, "ra", r)
    <3>1. r.nbp \notin M /\ M \cup One(r.nbp) = M
      BY <1>5, <1>6
    <3> QED BY <1>2, <1>5, <2>1, <2>2, <2>3, <2>4, <2>5, <3>1 DEF Arrives, Pcs, O, M, B
  <2> QED BY <1>2, <1>8, <2>6, AwakeStep DEF u
<1>9. ASSUME c.bp = NoBuf, NEW u, Sound(u, B \cup {b}, M), Goes(Now, u, B, B \cup {b}, B),
             Mem(u) = Mem(Now), BecomesWaking(u), NEW v \in Pcs \ {"alloc"}, Goto(p, v, e),
             Place(v, e), Has(u, v, e)
      PROVE  GoodNow'
  <2>1. B = O /\ O \cup One(e.bp) = B \cup {b} /\ M \cup One(e.nbp) = M
    BY <1>1, <1>2, <1>4, <1>6, <1>9
  <2>2. e.bp \notin O /\ e.nbp \notin M
    BY <1>3, <1>4, <1>6, <2>1
  <2> HIDE DEF B, M, O, e
  <2>3. Arrives(u, p, v, e)
    BY <1>2, <1>4, <1>9, <2>1, <2>2 DEF Arrives, O, M, B
  <2> QED BY <1>2, <1>9, <2>3, AwakeStep
<1>10. ASSUME ~ Is(t, b, "DONE"), c.bp = NoBuf, NEW v \in {"ra", "iowait"},
              BecomesWaking(StartRead(t, b, {})), Goto(p, v, e), Place(v, e), c.want = c.blk
       PROVE  GoodNow'
  <2> DEFINE u == StartRead(t, b, {})
  <2>1. /\ Sound(u, B \cup {b}, M) /\ Goes(Now, u, B, B \cup {b}, B) /\ Mem(u) = Mem(Now)
        /\ u.buf[b].blk = c.want /\ ~ Is(u, b, "STALE") /\ b \in InDriver(u)
    <3> DEFINE k == c.want  s == Now
    <3>1. Ready(s, t, b, B, M, k) /\ s \in Cache /\ ~ Is(t, b, "DONE") /\ u = StartRead(t, b, {})
      BY <1>1, <1>10
    <3>3. k # NoBlock
      <4> HIDE DEF e
      <4> QED BY <1>4, <1>10 DEF Place
    <3> HIDE DEF B, M, k, s, u
    <3>2. /\ Sound(u, B \cup {b}, M) /\ Goes(s, u, B, B \cup {b}, B) /\ Mem(u) = Mem(s)
          /\ u.buf[b].blk = k /\ ~ Is(u, b, "STALE") /\ b \in InDriver(u)
      BY <3>1, <3>3, ReadyRead
    <3> QED BY <3>2 DEF k, s
  <2> HIDE DEF u, B, M, O, e
  <2>2. Has(u, v, e)
    BY <1>4, <1>10, <2>1 DEF Has
  <2>3. BecomesWaking(u)
    BY <1>10 DEF u
  <2>4. v \in Pcs \ {"alloc"}
    BY <1>10 DEF Pcs
  <2> QED BY <1>9, <1>10, <2>1, <2>2, <2>3, <2>4
<1>11. ASSUME c.bp = NoBuf, NEW v \in {"ra", "hold"}, BecomesWaking(t), Goto(p, v, e), Place(v, e),
              c.want = c.blk, (v = "hold" /\ c.op # "bread") \/ Is(t, b, "DONE")
       PROVE  GoodNow'
  <2> HIDE DEF B, M, O, e
  <2>1. Has(t, v, e)
    BY <1>3, <1>4, <1>11 DEF Has
  <2>2. v \in Pcs \ {"alloc"}
    BY <1>11 DEF Pcs
  <2> QED BY <1>3, <1>9, <1>11, <2>1, <2>2
<1>12. CASE c.op = "breada" /\ c.want = c.ra
  BY <1>8, <1>12 DEF Got
<1>13. CASE c.op = "breada" /\ c.want # c.ra
  <2>1. c.bp = NoBuf /\ c.want = c.blk /\ c.blk # NoBlock /\ c.ra # c.blk
    BY <1>2, <1>13 DEF Getting
  <2>2. /\ BecomesWaking(IF Is(t, b, "DONE") THEN t ELSE StartRead(t, b, {}))
        /\ Goto(p, "ra", e)
    BY <1>13 DEF Got
  <2> HIDE DEF B, M, O, e
  <2>3. Place("ra", e)
    BY <1>4, <1>13, <2>1 DEF Place
  <2> QED BY <1>10, <1>11, <2>1, <2>2, <2>3
<1>14. CASE c.op = "bread" /\ ~ Is(t, b, "DONE")
  <2>1. c.bp = NoBuf /\ c.want = c.blk /\ c.blk # NoBlock
    BY <1>2, <1>14 DEF Getting
  <2>2. BecomesWaking(StartRead(t, b, {})) /\ Goto(p, "iowait", e)
    BY <1>14 DEF Got
  <2> HIDE DEF B, M, O, e
  <2>3. Place("iowait", e)
    BY <1>4, <1>6, <1>14, <2>1 DEF Place
  <2> QED BY <1>10, <1>14, <2>1, <2>2, <2>3
<1>15. CASE c.op # "breada" /\ ~ (c.op = "bread" /\ ~ Is(t, b, "DONE"))
  <2>1. /\ c.bp = NoBuf /\ c.want = c.blk /\ c.op \in {"bread", "getblk", "ngeteblk"}
        /\ c.op = "ngeteblk" <=> c.blk = NoBlock
    BY <1>2, <1>15 DEF Getting
  <2>2. BecomesWaking(t) /\ Goto(p, "hold", e)
    BY <1>15 DEF Got
  <2> HIDE DEF B, M, O, e
  <2>3. Place("hold", e)
    BY <1>4, <1>6, <1>15, <2>1 DEF Place
  <2>4. c.op # "bread" \/ Is(t, b, "DONE")
    BY <1>15
  <2> QED BY <1>11, <2>1, <2>2, <2>3, <2>4
<1> QED BY <1>12, <1>13, <1>14, <1>15

\* p finds a buffer busy, marks it wanted and sleeps.
LEMMA BusyStep ==
    ASSUME GoodNow, NEW p \in Proc, pc[p] # "alloc", NEW c, c \in Call, c.bp = call[p].bp,
           c.nbp = call[p].nbp, Getting(c) \/ Flushing(c), Has(Now, "again", c),
           NEW b, b \in Buf, Findable(Now, b), Is(Now, b, "BUSY"), b # c.bp,
           BecomesAsleep(p, <<"buf", b>>, Flagged(Now, b, {"WANTED"}, {})), Goto(p, "bufwait", c)
    PROVE  GoodNow'
<1> DEFINE s == Now  B == Held(call)  N == News(call)  t == Flagged(s, b, {"WANTED"}, {})
           O == HeldBut(call, p)  M == NewsBut(call, p)
<1>1. /\ s \in Cache /\ call[p] \in Call /\ Sound(s, B, N)
      /\ B = O \cup One(c.bp) /\ c.bp \notin O /\ N = M \cup One(c.nbp) /\ c.nbp \notin M
  BY GoodIs
<1>2. b \in InDriver(s) \/ b \in B
  <2> HIDE DEF s, B, N
  <2>1. Role(s, b, B, N)
    BY <1>1 DEF Sound
  <2>2. Findable(s, b) /\ Is(s, b, "BUSY")
    BY DEF s
  <2>3. Unused.blk = NoBlock
    BY DEF Unused
  <2> QED BY <2>1, <2>2, <2>3 DEF Role, Findable
<1>3. /\ Sound(t, B, N) /\ Goes(s, t, B, B, B) /\ Mem(t) = Mem(s)
      /\ Waited(t, b) /\ InDriver(t) = InDriver(s)
  <2> HIDE DEF s, B, N
  <2>1. Is(s, b, "BUSY")
    BY DEF s
  <2> QED BY <1>1, <1>2, <2>1, MarkWanted
<1> HIDE DEF s, t, B, N, O, M
<1>4. Has(t, "bufwait", c)
  <2>1. Has(s, "again", c) /\ (c.bp # NoBuf => c.bp \in B)
    BY <1>1 DEF s, One
  <2>2. Has(t, "again", c)
    BY <1>3, <2>1, HasStill
  <2> QED BY <2>2 DEF Has
<1>5. Waits(t, B, <<"buf", b>>, "bufwait", c)
  BY <1>2, <1>3 DEF Waits
<1>6. Place("bufwait", c)
  BY DEF Place
<1>7. Goes(s, t, B, B, O)
  <2>1. O \subseteq B
    BY <1>1
  <2> QED BY <1>3, <2>1, GoesLess
<1>8. Arrives(t, p, "bufwait", c)
  BY <1>1, <1>3, <1>4, <1>6, <1>7 DEF Arrives, Pcs, s, B, N, O, M
<1>9. Waits(t, O \cup One(c.bp), <<"buf", b>>, "bufwait", c)
  BY <1>1, <1>5
<1>10. <<"buf", b>> \in Chan
  BY DEF Chan
<1> QED BY <1>8, <1>9, <1>10, AsleepStep DEF s, t, O

\* What a search finds.
LEMMA IncoreIs ==
    ASSUME NEW s, NEW k, NEW b, b \in Incore(s, k)
    PROVE  b \in Buf /\ k # NoBlock /\ s.buf[b].blk = k /\ ~ Is(s, b, "STALE") /\ Findable(s, b)
BY DEF Incore, Findable

\* A buffer of the block that p asks for is not the one it has.
LEMMA AskedOther ==
    ASSUME NEW p, NEW c, Asking(p, c), NEW b, b \in Incore(Now, c.want)
    PROVE  b # c.bp
<1>1. c.bp # NoBuf => c.want = c.ra /\ c.ra # c.blk
  BY DEF Asking, Getting
<1>2. c.bp # NoBuf => Now.buf[c.bp].blk = c.blk
  BY DEF Asking, Has
<1>3. Now.buf[b].blk = c.want /\ b \in Buf
  BY IncoreIs
<1>4. NoBuf \notin Buf
  BY NamesAssumption
<1> QED BY <1>1, <1>2, <1>3, <1>4

\* What p asks for, of the buffers of all.
LEMMA AskedIs ==
    ASSUME GoodNow, NEW p \in Proc, NEW c, Asking(p, c), c.nbp = call[p].nbp
    PROVE  /\ Sound(Now, Held(call), News(call)) /\ c.want \in Block \cup {NoBlock}
           /\ (c.nbp \in News(call) /\ c.nbp \in Buf) \/ c.nbp = NoBuf
           /\ NewsBut(call, p) = News(call) \ {c.nbp}
<1>1. /\ Sound(Now, Held(call), News(call)) /\ News(call) = NewsBut(call, p) \cup One(c.nbp)
      /\ c.nbp \notin NewsBut(call, p)
  BY GoodIs
<1>2. c.want \in Block \cup {NoBlock} /\ c.nbp \in Buf \cup {NoBuf}
  BY CallFields DEF Asking
<1>3. NoBuf \notin NewsBut(call, p)
  BY DEF NewsBut
<1> QED BY <1>1, <1>2, <1>3 DEF One

\* There is less memory, or somebody waits for memory
LessMemory(s, t) ==
    /\ s \in Cache /\ t \in Cache /\ t.buf = s.buf /\ t.avail = s.avail /\ t.io = s.io
    /\ t.woken = s.woken /\ t.bufsize <= s.bufsize /\ (s.wanted => t.wanted)

\* Nothing else is different then.
LEMMA LessMemoryIs ==
    ASSUME NEW s, NEW t, LessMemory(s, t), NEW B, NEW N, Sound(s, B, N)
    PROVE  /\ Sound(t, B, N) /\ Goes(s, t, B, B, B)
           /\ Mem(t) + s.bufsize = Mem(s) + t.bufsize
<1>1. /\ s \in Cache /\ t \in Cache /\ t.buf = s.buf /\ t.avail = s.avail /\ t.io = s.io
      /\ t.woken = s.woken /\ t.bufsize <= s.bufsize /\ (s.wanted => t.wanted)
  BY DEF LessMemory
<1>2. \A b, f : Is(t, b, f) <=> Is(s, b, f)
  BY <1>1 DEF Is
<1>3. /\ OnList(t) = OnList(s) /\ InDriver(t) = InDriver(s)
      /\ \A b \in Buf : Findable(t, b) <=> Findable(s, b)
  BY <1>1, <1>2 DEF OnList, InDriver, Findable
<1>4. Sound(t, B, N)
  <2>1. Lists(t)
    BY <1>1 DEF Sound, Lists
  <2>2. Unique(t)
    BY <1>1, <1>3 DEF Sound, Unique
  <2>3. ASSUME NEW b \in Buf PROVE Role(t, b, B, N)
    <3>1. Role(s, b, B, N)
      BY DEF Sound
    <3> QED BY <1>1, <1>2, <1>3, <3>1 DEF Role, Named
  <2> QED BY <1>1, <2>1, <2>2, <2>3 DEF Sound
<1>5. Goes(s, t, B, B, B)
  <2>1. MemoryServed(s, t)
    BY <1>1 DEF MemoryServed
  <2>2. \A b \in Buf : Served(s, t, b, B, B)
    BY <1>2, <1>3 DEF Served, Waited
  <2>3. \A b \in Buf : b \in B => Kept(s, t, b)
    BY <1>1, <1>2, <1>3 DEF Kept
  <2> QED BY <1>1, <2>1, <2>2, <2>3 DEF Goes
<1>6. Mem(t) + s.bufsize = Mem(s) + t.bufsize
  <2>1. Sizes(t) = Sizes(s)
    BY <1>1 DEF Sizes
  <2>2. SumFunction(Sizes(s)) \in Nat /\ s.bufsize \in Nat /\ t.bufsize \in Nat
    BY <1>1, MemNat, CacheFields
  <2> DEFINE i == SumFunction(Sizes(s))  j == s.bufsize  k == t.bufsize
  <2>3. Mem(s) = j + i /\ Mem(t) = k + i /\ i \in Nat /\ j \in Nat /\ k \in Nat
    BY <2>1, <2>2 DEF Mem
  <2> HIDE DEF i, j, k
  <2>4. Mem(t) + j = Mem(s) + k
    BY ONLY <2>3
  <2> QED BY <2>4 DEF j, k
<1> QED BY <1>4, <1>5, <1>6

\* getblk: what it finds of the block, it waits for, takes, or makes.
LEMMA GetblkStep ==
    ASSUME GoodNow, NEW p \in Proc, NEW c, Asking(p, c), c.nbp = call[p].nbp, Getblk(p, c)
    PROVE  GoodNow'
<1> DEFINE s == Now  B == Held(call)  N == News(call)  M == NewsBut(call, p)  k == c.want  n == c.nbp
<1>1. /\ Sound(s, B, N) /\ k \in Block \cup {NoBlock} /\ ((n \in N /\ n \in Buf) \/ n = NoBuf)
      /\ M = N \ {n}
  BY AskedIs
<1>2. c \in Call /\ Getting(c) /\ pc[p] # "alloc" /\ c.bp = call[p].bp /\ Has(Now, "again", c)
  BY DEF Asking
<1>3. s \in Cache /\ s.saved = NoBuf /\ ~ s.stop /\ s.io = io
  BY <1>1, NowIs DEF Sound
<1> HIDE DEF s, B, N, M, k, n
<1>4. CASE GetblkBusy(p, c)
  <2>1. PICK b \in Incore(Now, c.want) :
          /\ Is(Now, b, "BUSY")
          /\ BecomesAsleep(p, <<"buf", b>>, Flagged(Now, b, {"WANTED"}, {}))
          /\ Goto(p, "bufwait", c)
    BY <1>4 DEF GetblkBusy
  <2>2. b \in Buf /\ Findable(Now, b)
    BY IncoreIs
  <2>3. b # c.bp
    BY AskedOther
  <2> QED BY <1>2, <2>1, <2>2, <2>3, BusyStep
<1>5. CASE GetblkFound(p, c)
  <2>1. PICK b \in Incore(Now, c.want) :
          /\ ~ Is(Now, b, "BUSY")
          /\ Got(p, c, b, GiveBack(Flagged(Notavail(Now, b), b, {}, {"AGE"}), c.nbp))
    BY <1>5 DEF GetblkFound
  <2> DEFINE t == GiveBack(Flagged(Notavail(s, b), b, {}, {"AGE"}), n)
  <2>2. b \in Incore(s, k) /\ ~ Is(s, b, "BUSY")
    BY <2>1 DEF s, k
  <2>3. t = GiveBack(Flagged(Notavail(s, b), b, {}, {"AGE"}), n)
    OBVIOUS
  <2> HIDE DEF t
  <2>4. Ready(s, t, b, B, M, k)
    BY <1>1, <2>2, <2>3, FoundIs
  <2>5. Got(p, c, b, t)
    BY <2>1 DEF t, s, n
  <2> QED BY <2>4, <2>5, GotStep DEF s, B, M, k
<1>6. CASE GetblkNew(p, c)
  <2>1. Incore(s, k) = {} /\ n # NoBuf /\ Got(p, c, n, Assign(s, n, c))
    BY <1>6 DEF GetblkNew, s, n, k
  <2> DEFINE t == Assign(s, n, c)
  <2>2. c.want \in Block \cup {NoBlock} /\ Incore(s, c.want) = {} /\ n \in N /\ n \in Buf
    BY <1>1, <2>1 DEF k
  <2>3. t = Assign(s, n, c)
    OBVIOUS
  <2> HIDE DEF t
  <2>4. Ready(s, t, n, B, N \ {n}, c.want)
    BY <1>1, <2>2, <2>3, AssignIs
  <2>5. Got(p, c, n, t)
    BY <2>1 DEF t
  <2> QED BY <1>1, <2>4, <2>5, GotStep DEF s, B, M
<1>7. CASE GetblkFree(p, c)
  <2> DEFINE z == Bsize(k)  u == Getfreeblk(s, z)  e == [c EXCEPT !.nbp = u.saved]
  <2>1. Incore(s, k) = {} /\ n = NoBuf
    BY <1>7 DEF GetblkFree, s, n, k
  <2>2. \/ u.saved # NoBuf /\ u.io = io /\ Got(p, e, u.saved, Assign(u, u.saved, e))
        \/ u.saved # NoBuf /\ u.io # io /\ BecomesWaking(u) /\ Goto(p, "again", e)
        \/ /\ u.saved = NoBuf /\ u.bufsize < z
           /\ BecomesAsleep(p, Free, [u EXCEPT !.wanted = TRUE]) /\ Goto(p, "freewait", c)
        \/ /\ u.saved = NoBuf /\ u.bufsize >= z
           /\ BecomesWaking([u EXCEPT !.bufsize = @ - z]) /\ Goto(p, "alloc", c)
    BY <1>7 DEF GetblkFree, s, k
  <2>3. Gotten(s, u, B, N, z)
    <3>1. u = Getfreeblk(s, z)
      OBVIOUS
    <3> HIDE DEF u, z
    <3> QED BY <1>1, <1>3, <3>1, GetfreeblkIs
  <2> HIDE DEF u, z
  <2>4. /\ u \in Cache /\ Sound(u, B, N \cup One(u.saved)) /\ Goes(s, u, B, B, B)
        /\ Mem(u) = Mem(s) /\ (u.saved # NoBuf => u.saved \in Buf /\ u.saved \notin B \cup N)
        /\ (u.saved = NoBuf /\ u.bufsize < z => u.avail = <<>>)
    BY <2>3 DEF Gotten
  <2>5. Nexting(e, c, u.saved)
    BY <1>2, <2>4, CacheFields DEF Nexting, Call
  <2> HIDE DEF e
  <2>6. /\ e \in Call /\ e.op = c.op /\ e.blk = c.blk /\ e.ra = c.ra /\ e.want = c.want
        /\ e.bp = c.bp /\ e.nbp = u.saved
    BY <2>5 DEF Nexting
  <2>7. Asking(p, e)
    BY <2>6 DEF Asking, Getting, Has
  <2>8. /\ wchan[p] = NoChan /\ B = HeldBut(call, p) \cup One(c.bp) /\ c.bp \notin HeldBut(call, p)
        /\ M = N /\ NoBuf \notin N
    <3>1. B = HeldBut(call, p) \cup One(c.bp) /\ c.bp \notin HeldBut(call, p)
      BY <1>2, GoodIs DEF B
    <3>2. NoBuf \notin N
      BY DEF N, News
    <3> QED BY <1>1, <2>1, <3>1, <3>2 DEF Asking
  <2>9. Goes(s, u, B, B, HeldBut(call, p))
    BY <2>4, <2>8, GoesLess
  <2>10. Has(u, "again", c)
    <3>1. c.bp # NoBuf => c.bp \in B
      BY <2>8 DEF One
    <3> QED BY <1>2, <2>4, <3>1, HasStill DEF s
  <2>11. ASSUME NEW t, LessMemory(u, t), u.saved = NoBuf
         PROVE  /\ Sound(t, B, N) /\ Goes(s, t, B, B, HeldBut(call, p)) /\ Has(t, "again", c)
                /\ Mem(t) + u.bufsize = Mem(s) + t.bufsize
    <3>1. Sound(u, B, N)
      BY <2>4, <2>11 DEF One
    <3>2. Sound(t, B, N) /\ Goes(u, t, B, B, B) /\ Mem(t) + u.bufsize = Mem(u) + t.bufsize
      BY <2>11, <3>1, LessMemoryIs
    <3>3. t \in Cache
      BY <2>11 DEF LessMemory
    <3>4. Goes(s, t, B, B, B)
      BY <1>3, <2>4, <3>2, <3>3, GoesOn
    <3>5. Goes(s, t, B, B, HeldBut(call, p))
      BY <2>8, <3>4, GoesLess
    <3>6. Has(t, "again", c)
      <4>1. c.bp # NoBuf => c.bp \in B
        BY <2>8 DEF One
      <4> QED BY <1>2, <3>4, <4>1, HasStill DEF s
    <3> QED BY <2>4, <3>2, <3>5, <3>6
  <2>12. ASSUME u.saved # NoBuf, Got(p, e, u.saved, Assign(u, u.saved, e)) PROVE GoodNow'
    <3> DEFINE t == Assign(u, u.saved, e)  b == u.saved
    <3>1. e.want \in Block \cup {NoBlock} /\ Incore(s, e.want) = {} /\ t = Assign(u, u.saved, e)
      BY <1>1, <2>1, <2>6 DEF k
    <3> HIDE DEF t
    <3>2. Ready(s, t, u.saved, B, N, e.want)
      BY <1>3, <2>3, <2>12, <3>1, GottenIs
    <3>3. Got(p, e, b, t) /\ Ready(s, t, b, B, N, e.want)
      BY <2>12, <3>2 DEF t
    <3> HIDE DEF b
    <3> QED BY <2>7, <2>8, <3>3, GotStep DEF s, B, M
  <2>13. ASSUME u.saved # NoBuf, BecomesWaking(u), Goto(p, "again", e) PROVE GoodNow'
    <3>1. Place("again", e) /\ Has(u, "again", e)
      BY <1>2, <2>6, <2>7, <2>10 DEF Place, Has, Asking
    <3>2. Arrives(u, p, "again", e)
      BY <1>2, <2>4, <2>6, <2>8, <2>9, <2>13, <3>1 DEF Arrives, Pcs, s, B, M
    <3> QED BY <2>8, <2>13, <3>2, AwakeStep
  <2>14. ASSUME u.saved = NoBuf, u.bufsize < z,
                BecomesAsleep(p, Free, [u EXCEPT !.wanted = TRUE]), Goto(p, "freewait", c)
         PROVE  GoodNow'
    <3> DEFINE t == [u EXCEPT !.wanted = TRUE]
    <3>1. LessMemory(u, t) /\ t.bufsize = u.bufsize /\ t.wanted /\ t.avail = u.avail
      <4>1. t \in Cache
        BY <2>4 DEF Cache
      <4>2. t.wanted = TRUE
        BY <2>4 DEF Cache
      <4>3. /\ t.buf = u.buf /\ t.avail = u.avail /\ t.io = u.io /\ t.woken = u.woken
            /\ t.bufsize = u.bufsize
        BY <2>4 DEF Cache
      <4>4. u.bufsize \in Nat
        BY <2>4, CacheFields
      <4> HIDE DEF t
      <4> QED BY <2>4, <4>1, <4>2, <4>3, <4>4 DEF LessMemory
    <3> HIDE DEF t
    <3>2. /\ Sound(t, B, N) /\ Goes(s, t, B, B, HeldBut(call, p)) /\ Has(t, "again", c)
          /\ Mem(t) + u.bufsize = Mem(s) + t.bufsize
      BY <2>11, <2>14, <3>1
    <3>3. Mem(t) = Mem(s)
      <4>1. t \in Cache /\ s \in Cache
        BY <1>3, <3>2 DEF Sound
      <4>2. Mem(t) \in Nat /\ Mem(s) \in Nat /\ u.bufsize \in Nat
        BY <2>4, <4>1, MemNat, CacheFields
      <4> QED BY <3>1, <3>2, <4>2
    <3>4. Place("freewait", c) /\ Has(t, "freewait", c)
      BY <1>2, <2>1, <3>2 DEF Place, Has, n
    <3>5. c.nbp = NoBuf /\ c.nbp \notin M /\ M \cup One(c.nbp) = N
      BY <2>1, <2>8 DEF n, One
    <3>6. Arrives(t, p, "freewait", c)
      BY <1>2, <2>8, <3>2, <3>3, <3>4, <3>5 DEF Arrives, Pcs, s, B, M
    <3>7. Waits(t, HeldBut(call, p) \cup One(c.bp), Free, "freewait", c)
      BY <2>4, <2>14, <3>1 DEF Waits, z, k
    <3>8. Free \in Chan
      BY DEF Chan
    <3>9. BecomesAsleep(p, Free, t)
      BY <2>14 DEF t
    <3> QED BY <2>14, <3>6, <3>7, <3>8, <3>9, AsleepStep
  <2>15. ASSUME u.saved = NoBuf, u.bufsize >= z,
                BecomesWaking([u EXCEPT !.bufsize = @ - z]), Goto(p, "alloc", c)
         PROVE  GoodNow'
    <3> DEFINE t == [u EXCEPT !.bufsize = @ - z]
    <3>1. z \in Nat
      BY <1>1, SizesAssumption DEF z, Bsize
    <3>2. LessMemory(u, t) /\ t.bufsize = u.bufsize - z
      BY <2>4, <2>15, <3>1 DEF LessMemory, Cache
    <3> HIDE DEF t
    <3>3. /\ Sound(t, B, N) /\ Goes(s, t, B, B, HeldBut(call, p)) /\ Has(t, "again", c)
          /\ Mem(t) + u.bufsize = Mem(s) + t.bufsize
      BY <2>11, <2>15, <3>2
    <3>4. Mem(t) + SetAside("alloc", c) = Mem(s) + SetAside(pc[p], call[p])
      <4>1. t \in Cache /\ s \in Cache
        BY <1>3, <3>3 DEF Sound
      <4>2. Mem(t) \in Nat /\ Mem(s) \in Nat /\ u.bufsize \in Nat
        BY <2>4, <4>1, MemNat, CacheFields
      <4>3. SetAside("alloc", c) = z /\ SetAside(pc[p], call[p]) = 0
        BY <1>2 DEF SetAside, z, k
      <4>4. Mem(t) + z = Mem(s)
        BY <3>1, <3>2, <3>3, <4>2
      <4> QED BY <4>2, <4>3, <4>4
    <3>5. Place("alloc", c) /\ Has(t, "alloc", c)
      BY <1>2, <2>1, <3>3 DEF Place, Has, n
    <3>6. c.nbp = NoBuf /\ c.nbp \notin M /\ M \cup One(c.nbp) = N
      BY <2>1, <2>8 DEF n, One
    <3>7. Waits(t, B, NoChan, "alloc", c)
      BY DEF Waits
    <3>8. Proper(s, t, wchan, pc, call, p, "alloc", c, NoChan)
      BY <1>2, <2>8, <3>3, <3>4, <3>5, <3>6, <3>7 DEF Proper, Pcs, B, M
    <3>9. BecomesWaking(t)
      BY <2>15 DEF t
    <3>10. wchan' = Slept(wchan, t, p, NoChan) /\ Becomes(t)
      BY <2>8, <3>9 DEF BecomesWaking, Wakeprocs, Slept
    <3> QED BY <2>15, <3>8, <3>10, ProcessStep DEF s
  <2> QED BY <2>2, <2>12, <2>13, <2>14, <2>15
<1> QED BY <1>4, <1>5, <1>6, <1>7 DEF Getblk

\* Nothing happens to the cache.
LEMMA StillGoes ==
    ASSUME NEW s, s \in Cache, NEW B, NEW K
    PROVE  Goes(s, s, B, B, K)
<1>1. SameCache(s, s)
  BY DEF SameCache
<1> QED BY <1>1, SameCacheIs

\* A process that is somewhere else than in a sleep is awake.
LEMMA AwakeIs ==
    ASSUME GoodNow, NEW p \in Proc, pc[p] \notin {"bufwait", "iowait", "wwait", "freewait"}
    PROVE  wchan[p] = NoChan
<1>1. Waits(Now, Held(call), wchan[p], pc[p], call[p])
  BY GoodIs
<1> QED BY <1>1 DEF Waits

\* A process that is in no routine has nothing.
LEMMA UserIs ==
    ASSUME GoodNow, NEW p \in Proc, pc[p] = "user"
    PROVE  call[p] = NoCall /\ wchan[p] = NoChan /\ call[p].bp = NoBuf /\ call[p].nbp = NoBuf
<1>1. call[p] = NoCall
  BY GoodIs DEF Place
<1> QED BY <1>1, AwakeIs DEF NoCall

\* p goes on without a change of the cache.
LEMMA StayStep ==
    ASSUME GoodNow, NEW p \in Proc, wchan[p] = NoChan, pc[p] # "alloc",
           NEW v, v \in Pcs \ {"alloc"}, NEW c, c \in Call, c.bp = call[p].bp, c.nbp = call[p].nbp,
           Place(v, c), Has(Now, v, c), Goto(p, v, c), UNCHANGED <<cacheVars, wchan>>
    PROVE  GoodNow'
<1>1. /\ Now \in Cache /\ Sound(Now, Held(call), News(call))
      /\ Held(call) = HeldBut(call, p) \cup One(c.bp) /\ c.bp \notin HeldBut(call, p)
      /\ News(call) = NewsBut(call, p) \cup One(c.nbp) /\ c.nbp \notin NewsBut(call, p)
  BY GoodIs
<1>2. Goes(Now, Now, Held(call), Held(call), HeldBut(call, p))
  BY <1>1, StillGoes
<1>3. Arrives(Now, p, v, c)
  BY <1>1, <1>2 DEF Arrives
<1>4. Becomes(Now)
  BY NowIs DEF Becomes, cacheVars
<1>5. Wakeprocs(Now.woken)
  <2>1. wchan \in [Proc -> Chan \cup {NoChan}]
    BY DEF GoodNow, Good, Tables
  <2>2. wchan' = wchan /\ Now.woken = {}
    BY NowIs
  <2> QED BY <2>1, <2>2 DEF Wakeprocs
<1> QED BY <1>3, <1>4, <1>5, AwakeStep DEF BecomesWaking

\* A call of an entry point that has nothing yet.
LEMMA CallIs ==
    /\ NoCall \in Call /\ NoCall.op = "none" /\ NoCall.blk = NoBlock /\ NoCall.ra = NoBlock
    /\ NoCall.want = NoBlock /\ NoCall.bp = NoBuf /\ NoCall.nbp = NoBuf
BY DEF NoCall, Call, Ops

\* A process enters with a call that asks for a buffer.
LEMMA EnterAsks ==
    ASSUME GoodNow, NEW p \in Proc, pc[p] = "user",
           NEW c, c \in Call, Getting(c), c.bp = NoBuf, c.nbp = NoBuf, Getblk(p, c)
    PROVE  GoodNow'
<1>1. wchan[p] = NoChan /\ call[p].bp = NoBuf /\ call[p].nbp = NoBuf
  BY UserIs
<1>2. Asking(p, c)
  BY <1>1 DEF Asking, Has
<1> QED BY <1>1, <1>2, GetblkStep

\* A process enters bread.
LEMMA BreadGood ==
    ASSUME GoodNow, NEW p \in Proc, NEW blk \in Block, Bread(p, blk) PROVE GoodNow'
<1> DEFINE c == [NoCall EXCEPT !.op = "bread", !.blk = blk, !.want = blk]
<1>1. pc[p] = "user" /\ Getblk(p, c)
  BY DEF Bread, Enters
<1>2. /\ c \in Call /\ c.op = "bread" /\ c.blk = blk /\ c.want = blk
      /\ c.bp = NoBuf /\ c.nbp = NoBuf
  BY DEF NoCall, Call, Ops
<1> HIDE DEF c
<1>3. Getting(c)
  BY <1>2, NamesAssumption DEF Getting
<1> QED BY <1>1, <1>2, <1>3, EnterAsks

\* It enters getblk.
LEMMA GetblkCallGood ==
    ASSUME GoodNow, NEW p \in Proc, NEW blk \in Block, GetblkCall(p, blk) PROVE GoodNow'
<1> DEFINE c == [NoCall EXCEPT !.op = "getblk", !.blk = blk, !.want = blk]
<1>1. pc[p] = "user" /\ Getblk(p, c)
  BY DEF GetblkCall, Enters
<1>2. /\ c \in Call /\ c.op = "getblk" /\ c.blk = blk /\ c.want = blk
      /\ c.bp = NoBuf /\ c.nbp = NoBuf
  BY DEF NoCall, Call, Ops
<1> HIDE DEF c
<1>3. Getting(c)
  BY <1>2, NamesAssumption DEF Getting
<1> QED BY <1>1, <1>2, <1>3, EnterAsks

\* It enters ngeteblk.
LEMMA NgeteblkGood ==
    ASSUME GoodNow, NEW p \in Proc, Ngeteblk(p) PROVE GoodNow'
<1> DEFINE c == [NoCall EXCEPT !.op = "ngeteblk"]
<1>1. pc[p] = "user" /\ Getblk(p, c)
  BY DEF Ngeteblk, Enters
<1>2. /\ c \in Call /\ c.op = "ngeteblk" /\ c.blk = NoBlock /\ c.want = NoBlock
      /\ c.bp = NoBuf /\ c.nbp = NoBuf
  BY DEF NoCall, Call, Ops
<1> HIDE DEF c
<1>3. Getting(c)
  BY <1>2 DEF Getting
<1> QED BY <1>1, <1>2, <1>3, EnterAsks

\* breada asks for the block first, unless it is there.
LEMMA BreadaGood ==
    ASSUME GoodNow, NEW p \in Proc, NEW blk \in Block, NEW ra \in Block, Breada(p, blk, ra)
    PROVE  GoodNow'
<1> DEFINE c == [NoCall EXCEPT !.op = "breada", !.blk = blk, !.ra = ra, !.want = blk]
<1>1. /\ pc[p] = "user" /\ blk # ra
      /\ Getblk(p, c) \/ (Goto(p, "ra", c) /\ UNCHANGED <<cacheVars, wchan>>)
  BY DEF Breada, Enters
<1>2. /\ c \in Call /\ c.op = "breada" /\ c.blk = blk /\ c.want = blk /\ c.ra = ra
      /\ c.bp = NoBuf /\ c.nbp = NoBuf
  BY DEF NoCall, Call, Ops
<1> HIDE DEF c
<1>3. blk # NoBlock
  BY NamesAssumption
<1>4. CASE Getblk(p, c)
  <2>1. Getting(c)
    BY <1>1, <1>2, <1>3 DEF Getting
  <2> QED BY <1>1, <1>2, <1>4, <2>1, EnterAsks
<1>5. CASE Goto(p, "ra", c) /\ UNCHANGED <<cacheVars, wchan>>
  <2>1. wchan[p] = NoChan /\ call[p].bp = NoBuf /\ call[p].nbp = NoBuf
    BY <1>1, UserIs
  <2>2. Place("ra", c) /\ Has(Now, "ra", c)
    BY <1>1, <1>2, <1>3 DEF Place, Has
  <2>3. "ra" \in Pcs \ {"alloc"} /\ pc[p] # "alloc"
    BY <1>1 DEF Pcs
  <2> QED BY <1>2, <1>5, <2>1, <2>2, <2>3, StayStep
<1> QED BY <1>1, <1>4, <1>5

\* getblk looks again.
LEMMA GetblkAgainGood ==
    ASSUME GoodNow, NEW p \in Proc, GetblkAgain(p) PROVE GoodNow'
<1>1. /\ pc[p] \in {"bufwait", "freewait", "again"} /\ wchan[p] = NoChan
      /\ call[p].op # "blkflush" /\ Getblk(p, call[p])
  BY DEF GetblkAgain, Asleep
<1>2. call[p] \in Call /\ Place(pc[p], call[p]) /\ Has(Now, pc[p], call[p])
  BY GoodIs
<1>3. Getting(call[p])
  BY <1>1, <1>2 DEF Place, Flushing
<1>4. Has(Now, "again", call[p])
  BY <1>1, <1>2 DEF Has
<1>5. Asking(p, call[p])
  BY <1>1, <1>2, <1>3, <1>4 DEF Asking
<1> QED BY <1>1, <1>5, GetblkStep

\* While memory is set aside there is a header without memory.
LEMMA HeadersLeft ==
    ASSUME GoodNow, NEW p \in Proc, pc[p] = "alloc"
    PROVE  Bhdr \in Buf /\ buf[Bhdr].size = 0
<1> DEFINE f == Sizes(Now)  h == Asides(pc, call)
<1>1. /\ Now \in Cache /\ call[p] \in Call /\ Mem(Now) + SumFunction(h) = MEM
  BY GoodIs DEF GoodNow, Good
<1>2. DOMAIN f = Buf /\ \A b \in Buf : f[b] = buf[b].size
  BY NowIs DEF Sizes
<1>3. \A b \in Buf : f[b] \in Nat
  BY <1>1, <1>2, HeaderFields, NowIs
<1>4. DOMAIN h = Proc /\ \A q \in Proc : h[q] = SetAside(pc[q], call[q])
  BY DEF Asides
<1>5. \A q \in Proc : h[q] \in Nat
  <2> SUFFICES ASSUME NEW q \in Proc PROVE h[q] \in Nat
    OBVIOUS
  <2> DEFINE a == call[q]  y == pc[q]
  <2>1. a \in Call /\ h[q] = SetAside(y, a)
    BY <1>4, GoodIs
  <2> HIDE DEF a, y, h
  <2> QED BY <2>1, SetAsideNat
<1>6. h[p] > 0
  <2>1. h[p] = Bsize(call[p].want)
    BY <1>4 DEF SetAside
  <2>2. call[p].want \in Block \cup {NoBlock}
    BY <1>1, CallFields
  <2> HIDE DEF h
  <2> QED BY <2>1, <2>2, SizesAssumption DEF Bsize
<1>7. Mem(Now) = bufsize + SumFunction(f) /\ bufsize \in Nat
  BY <1>1, CacheFields, NowIs DEF Mem
<1> HIDE DEF f, h
<1>8. /\ SumFunction(f) \in Nat
      /\ (\A b \in Buf : f[b] > 0) => Cardinality(Buf) <= SumFunction(f)
  BY <1>2, <1>3, PoolsAssumption, SumAtLeast
<1>9. SumFunction(h) \in Nat /\ h[p] <= SumFunction(h)
  BY <1>4, <1>5, PoolsAssumption, SumAtLeast
<1>10. SumFunction(f) < MEM
  <2> DEFINE i == SumFunction(f)  j == SumFunction(h)  k == h[p]  m == bufsize
  <2>1. /\ (m + i) + j = MEM /\ i \in Nat /\ j \in Nat /\ k \in Nat /\ m \in Nat /\ k <= j /\ k > 0
    BY <1>1, <1>5, <1>6, <1>7, <1>8, <1>9
  <2> HIDE DEF i, j, k, m
  <2>2. i < MEM
    BY <2>1
  <2> QED BY <2>2 DEF i
<1>11. MEM \in Nat /\ Cardinality(Buf) \in Nat /\ MEM <= Cardinality(Buf)
  BY SizesAssumption, PoolsAssumption, FS_CardinalityType
<1>12. ~ \A b \in Buf : f[b] > 0
  BY <1>8, <1>10, <1>11
<1>13. PICK b \in Buf : ~ (f[b] > 0)
  BY <1>12
<1>14. buf[b].size = 0
  BY <1>2, <1>3, <1>13
<1> QED BY <1>14 DEF Bhdr

\* A buffer without memory is nobody's.
LEMMA UnusedNobody ==
    ASSUME NEW s, NEW B, NEW N, Sound(s, B, N), NEW b \in Buf, s.buf[b].size = 0
    PROVE  b \notin OnList(s) /\ b \notin B \cup N /\ b \notin InDriver(s) /\ s.buf[b] = Unused
<1>1. Role(s, b, B, N)
  BY DEF Sound
<1> QED BY <1>1 DEF Role

\* A header gets memory
Grown(s, b, z) == [s EXCEPT !.buf = [@ EXCEPT ![b].size = z]]

\* It is a new buffer then.
LEMMA GrownIs ==
    ASSUME NEW s, NEW B, NEW N, Sound(s, B, N), NEW b, b \in Buf, s.buf[b].size = 0,
           NEW z, z \in Nat \ {0}, NEW t, t = Grown(s, b, z)
    PROVE  Sound(t, B, N \cup {b}) /\ Goes(s, t, B, B, B) /\ Mem(t) = Mem(s) + z
<1> DEFINE h == [s.buf[b] EXCEPT !.size = z]
<1>1. s \in Cache /\ Lists(s)
  BY DEF Sound
<1>2. /\ b \notin OnList(s) /\ b \notin B \cup N /\ b \notin InDriver(s) /\ s.buf[b] = Unused
  BY UnusedNobody
<1>3. Unused \in Header /\ Unused.blk = NoBlock /\ Unused.flags = {} /\ Unused.size = 0
  BY <1>1, UnusedIs
<1>4. h \in Header /\ h.blk = NoBlock /\ h.flags = {} /\ h.size = z
  BY <1>2, <1>3 DEF Header
<1>5. t = [s EXCEPT !.buf = [@ EXCEPT ![b] = h]]
  BY DEF Grown
<1> HIDE DEF h
<1>6. OnlyBuf(s, t, b) /\ t.buf[b] = h
  BY <1>1, <1>4, <1>5, OneHeader
<1>7. /\ OnlyAt(s, t, b) /\ SameRest(t, s) /\ t.io = s.io /\ t.avail = s.avail
      /\ OnList(t) = OnList(s) /\ InDriver(t) = InDriver(s)
  BY <1>1, <1>6, OnlyBufAt
<1>8. Role(t, b, B, N \cup {b})
  BY <1>2, <1>4, <1>6, <1>7 DEF Role, Is
<1>9. Sound(t, B, N \cup {b})
  <2>1. ~ Findable(t, b)
    BY <1>4, <1>6 DEF Findable
  <2> QED BY <1>7, <1>8, <2>1, SoundStep
<1>10. Goes(s, t, B, B, B)
  <2>1. Served(s, t, b, B, B)
    BY <1>2 DEF Served
  <2>2. MemoryServed(s, t)
    BY <1>1, <1>7, MemoryStays
  <2>3. s.woken \subseteq t.woken
    BY <1>7 DEF SameRest
  <2> QED BY <1>2, <1>7, <2>1, <2>2, <2>3, GoesStep
<1>11. Mem(t) = Mem(s) + z
  <2>1. MemDiffers(s, t, b)
    BY <1>1, <1>7, MemChanges
  <2>2. t.bufsize = s.bufsize /\ s.bufsize \in Nat /\ t.buf[b].size = z /\ s.buf[b].size = 0
    BY <1>1, <1>4, <1>6, <1>7, CacheFields DEF SameRest
  <2> DEFINE m == Mem(s)  n == Mem(t)  i == s.bufsize
  <2>3. m \in Nat /\ n \in Nat /\ i \in Nat /\ (n + i) + 0 = (m + i) + z
    BY <2>1, <2>2 DEF MemDiffers
  <2> HIDE DEF m, n, i
  <2>4. n = m + z
    BY <2>3
  <2> QED BY <2>4 DEF m, n
<1> QED BY <1>9, <1>10, <1>11

\* kmem_zalloc has returned.
LEMMA GetblkAllocGood ==
    ASSUME GoodNow, NEW p \in Proc, GetblkAlloc(p) PROVE GoodNow'
<1> DEFINE s == Now  b == Bhdr  c == call[p]  z == Bsize(c.want)  t == Grown(s, b, z)
           e == [c EXCEPT !.nbp = b]  B == Held(call)  N == News(call)
           O == HeldBut(call, p)  M == NewsBut(call, p)
<1>1. /\ pc[p] = "alloc" /\ buf' = [buf EXCEPT ![b].size = z]
      /\ Goto(p, "again", e) /\ UNCHANGED <<avail, bufsize, wanted, io, wchan>>
  BY DEF GetblkAlloc
<1>2. /\ s \in Cache /\ c \in Call /\ Sound(s, B, N) /\ B = O \cup One(c.bp) /\ c.bp \notin O
      /\ N = M \cup One(c.nbp) /\ Getting(c) /\ c.nbp = NoBuf /\ Has(s, "again", c)
  <2>1. Place(pc[p], c) /\ Has(s, pc[p], c)
    BY GoodIs
  <2> QED BY <1>1, <2>1, GoodIs DEF Place, Has
<1>3. b \in Buf /\ s.buf[b].size = 0
  BY <1>1, HeadersLeft, NowIs
<1>4. z \in Nat \ {0}
  BY <1>2, CallFields, SizesAssumption DEF Bsize
<1>5. Nexting(e, c, b)
  BY <1>2, <1>3 DEF Nexting, Call
<1>6. Becomes(t) /\ t.woken = {}
  BY <1>1 DEF Becomes, Grown, Now
<1> HIDE DEF s, b, c, z, B, N, O, M, e
<1>7. Sound(t, B, N \cup {b}) /\ Goes(s, t, B, B, B) /\ Mem(t) = Mem(s) + z
  <2>1. t = Grown(s, b, z)
    OBVIOUS
  <2> HIDE DEF t
  <2> QED BY <1>2, <1>3, <1>4, <2>1, GrownIs
<1>8. b \notin N
  BY <1>2, <1>3, UnusedNobody
<1> HIDE DEF t
<1>9. /\ e \in Call /\ e.op = c.op /\ e.blk = c.blk /\ e.ra = c.ra /\ e.want = c.want
      /\ e.bp = c.bp /\ e.nbp = b
  BY <1>5 DEF Nexting
<1>10. M \cup One(e.nbp) = N \cup {b} /\ e.nbp \notin M /\ B = O \cup One(e.bp) /\ e.bp \notin O
  <2>1. b # NoBuf
    BY <1>3, NamesAssumption
  <2> QED BY <1>2, <1>8, <1>9, <2>1 DEF One
<1>11. Goes(s, t, B, B, O)
  BY <1>2, <1>7, GoesLess
<1>12. Place("again", e)
  BY <1>2, <1>9 DEF Place, Getting
<1>13. Has(t, "again", e)
  <2>1. c.bp # NoBuf => c.bp \in B
    BY <1>2 DEF One
  <2>2. Has(t, "again", c)
    BY <1>2, <1>7, <2>1, HasStill
  <2> QED BY <1>9, <2>2 DEF Has
<1>14. Mem(t) + SetAside("again", e) = Mem(s) + SetAside(pc[p], c)
  <2>1. SetAside("again", e) = 0 /\ SetAside(pc[p], c) = z
    BY <1>1 DEF SetAside, z
  <2>2. t \in Cache
    BY <1>7 DEF Sound
  <2>3. Mem(t) \in Nat /\ Mem(s) \in Nat
    BY <1>2, <2>2, MemNat
  <2> QED BY <1>4, <1>7, <2>1, <2>3
<1>15. Waits(t, B, NoChan, "again", e)
  BY DEF Waits
<1>16. Proper(s, t, wchan, pc, call, p, "again", e, NoChan)
  BY <1>7, <1>9, <1>10, <1>11, <1>12, <1>13, <1>14, <1>15 DEF Proper, Pcs, B, O, M, c
<1>17. wchan' = Slept(wchan, t, p, NoChan)
  <2>1. wchan[p] = NoChan
    BY <1>1, AwakeIs
  <2>2. wchan \in [Proc -> Chan \cup {NoChan}]
    BY DEF GoodNow, Good, Tables
  <2>3. wchan' = wchan
    BY <1>1
  <2> QED BY <1>6, <2>1, <2>2, <2>3 DEF Slept
<1> QED BY <1>1, <1>6, <1>16, <1>17, ProcessStep DEF s

\* breada goes on to the block to read ahead, or to the first.
LEMMA BreadaAheadGood ==
    ASSUME GoodNow, NEW p \in Proc, BreadaAhead(p) PROVE GoodNow'
<1> DEFINE c == call[p]  a == [c EXCEPT !.want = c.ra]  f == AsBread(c)
<1>1. /\ pc[p] = "ra"
      /\ \/ c.ra # NoBlock /\ Getblk(p, a)
         \/ c.bp = NoBuf /\ Getblk(p, f)
         \/ c.bp # NoBuf /\ Goto(p, "iowait", f) /\ UNCHANGED <<cacheVars, wchan>>
  BY DEF BreadaAhead
<1>2. /\ c \in Call /\ c.op = "breada" /\ c.blk # NoBlock /\ c.ra # c.blk /\ c.nbp = NoBuf
      /\ Has(Now, "ra", c)
  BY <1>1, GoodIs DEF Place
<1>3. /\ a \in Call /\ a.op = "breada" /\ a.blk = c.blk /\ a.ra = c.ra /\ a.want = c.ra
      /\ a.bp = c.bp /\ a.nbp = c.nbp
  BY <1>2 DEF Call
<1>4. /\ f \in Call /\ f.op = "bread" /\ f.blk = c.blk /\ f.want = c.blk
      /\ f.bp = c.bp /\ f.nbp = c.nbp
  BY <1>2 DEF Call, AsBread, Ops
<1>5. wchan[p] = NoChan /\ pc[p] # "alloc"
  BY <1>1, AwakeIs
<1> HIDE DEF c, a, f
<1>6. CASE c.ra # NoBlock /\ Getblk(p, a)
  <2>1. Getting(a) /\ Has(Now, "again", a)
    BY <1>2, <1>3, <1>6 DEF Getting, Has
  <2>2. Asking(p, a) /\ a.nbp = call[p].nbp
    BY <1>3, <1>5, <2>1 DEF Asking, c
  <2> QED BY <1>6, <2>2, GetblkStep
<1>7. CASE c.bp = NoBuf /\ Getblk(p, f)
  <2>1. Getting(f) /\ Has(Now, "again", f)
    BY <1>2, <1>4, <1>7 DEF Getting, Has
  <2>2. Asking(p, f) /\ f.nbp = call[p].nbp
    BY <1>4, <1>5, <2>1 DEF Asking, c
  <2> QED BY <1>7, <2>2, GetblkStep
<1>8. CASE c.bp # NoBuf /\ Goto(p, "iowait", f) /\ UNCHANGED <<cacheVars, wchan>>
  <2>1. Place("iowait", f) /\ Has(Now, "iowait", f)
    BY <1>2, <1>4, <1>8 DEF Place, Has
  <2>2. "iowait" \in Pcs \ {"alloc"} /\ f.bp = call[p].bp /\ f.nbp = call[p].nbp
    BY <1>4 DEF Pcs, c
  <2> QED BY <1>4, <1>5, <1>8, <2>1, <2>2, StayStep
<1> QED BY <1>1, <1>6, <1>7, <1>8

\* p takes a free buffer b of the block k, in the cache t
TakenFor(t, p, b, k) ==
    /\ b \in Buf /\ b \notin Held(call) /\ Sound(t, Held(call) \cup {b}, News(call))
    /\ Goes(Now, t, Held(call), Held(call) \cup {b}, Held(call)) /\ Mem(t) = Mem(Now)
    /\ b \notin InDriver(t) /\ t.buf[b].blk = k /\ ~ Is(t, b, "STALE") /\ ~ Is(t, b, "ASYNC")

\* notavail, for a buffer that a search found.
LEMMA TakeFound ==
    ASSUME GoodNow, NEW p \in Proc, NEW k, NEW b, b \in Incore(Now, k), ~ Is(Now, b, "BUSY"),
           NEW t, t = Notavail(Now, b)
    PROVE  TakenFor(t, p, b, k) /\ (Is(Now, b, "DONE") => Is(t, b, "DONE"))
<1> DEFINE s == Now  B == Held(call)  N == News(call)
<1>1. Sound(s, B, N) /\ ~ Is(s, b, "BUSY") /\ t = Notavail(s, b)
  BY GoodIs
<1>2. b \in Buf /\ k # NoBlock /\ s.buf[b].blk = k /\ ~ Is(s, b, "STALE")
  BY IncoreIs
<1> HIDE DEF s, B, N
<1>3. b \in OnList(s)
  <2>1. Role(s, b, B, N)
    BY <1>1, <1>2 DEF Sound
  <2>2. Unused.blk = NoBlock
    BY DEF Unused
  <2> QED BY <1>1, <1>2, <2>1, <2>2 DEF Role
<1>4. b \notin B \cup N /\ b \notin InDriver(s) /\ ~ Is(s, b, "ASYNC")
  BY <1>1, <1>3, ListedFree
<1>5. /\ Sound(t, B \cup {b}, N) /\ SameBut(t, s, b) /\ Goes(s, t, B, B \cup {b}, B)
      /\ Mem(t) = Mem(s) /\ t.io = s.io /\ t.buf[b].flags = s.buf[b].flags \cup {"BUSY"}
  BY <1>1, <1>3, Take
<1> QED BY <1>2, <1>4, <1>5 DEF TakenFor, SameBut, InDriver, Is, s, B, N

\* blookup.
LEMMA BlookupGood ==
    ASSUME GoodNow, NEW p \in Proc, NEW blk \in Block, Blookup(p, blk) PROVE GoodNow'
<1>1. PICK b \in Incore(Now, blk) :
        /\ ~ Is(Now, b, "BUSY") /\ Is(Now, b, "DONE")
        /\ BecomesWaking(Flagged(Notavail(Now, b), b, {}, {"AGE"}))
        /\ Goto(p, "hold", [NoCall EXCEPT !.op = "bread", !.blk = blk, !.want = blk, !.bp = b])
  BY DEF Blookup
<1> DEFINE s == Now  B == Held(call)  N == News(call)  u == Notavail(s, b)
           t == Flagged(u, b, {}, {"AGE"})
           c == [NoCall EXCEPT !.op = "bread", !.blk = blk, !.want = blk, !.bp = b]
<1>2. pc[p] = "user" /\ wchan[p] = NoChan /\ call[p].bp = NoBuf /\ call[p].nbp = NoBuf
  BY UserIs DEF Blookup, Enters
<1>3. s \in Cache /\ B = HeldBut(call, p) /\ N = NewsBut(call, p)
  BY <1>2, GoodIs DEF One
<1>4. TakenFor(u, p, b, blk) /\ Is(u, b, "DONE")
  BY <1>1, TakeFound
<1>5. BecomesWaking(t) /\ Goto(p, "hold", c)
  BY <1>1
<1>6. b \in Buf /\ b # NoBuf
  BY <1>4, NamesAssumption DEF TakenFor
<1>7. /\ c \in Call /\ c.op = "bread" /\ c.blk = blk /\ c.bp = b /\ c.nbp = NoBuf
  BY <1>6 DEF NoCall, Call, Ops
<1>8. t = Flagged(u, b, {}, {"AGE"})
  OBVIOUS
<1> HIDE DEF s, B, N, u, t, c
<1>9. /\ b \notin B /\ Sound(u, B \cup {b}, N) /\ Goes(s, u, B, B \cup {b}, B)
      /\ Mem(u) = Mem(s) /\ b \notin InDriver(u) /\ u.buf[b].blk = blk /\ ~ Is(u, b, "STALE")
  BY <1>4 DEF TakenFor, s, B, N
<1> DEFINE C == B \cup {b}
<1>10. /\ Sound(t, C, N) /\ OnlyBuf(u, t, b) /\ SameBut(t, u, b) /\ Goes(u, t, C, C, C)
       /\ Mem(t) = Mem(u) /\ t.buf[b].flags = (u.buf[b].flags \ {"AGE"}) \cup {}
  <2>1. Sound(u, C, N) /\ b \in C
    BY <1>9
  <2> HIDE DEF C
  <2>2. {} \in SUBSET Flag /\ "DELWRI" \notin {}
    OBVIOUS
  <2> QED BY <1>6, <1>8, <2>1, <2>2, Reflag
<1>11. Goes(s, t, B, C, B)
  <2>1. Goes(u, t, C, C, B)
    BY <1>10, GoesLess
  <2>2. u \in Cache /\ t \in Cache
    BY <1>9, <1>10 DEF Sound
  <2> QED BY <1>3, <1>9, <2>1, <2>2, GoesOn
<1>12. Place("hold", c)
  BY <1>6, <1>7, NamesAssumption DEF Place
<1>13. Has(t, "hold", c)
  <2>1. b \notin InDriver(t)
    BY <1>9, <1>10 DEF InDriver, OnlyBuf
  <2> QED BY <1>4, <1>7, <1>9, <1>10, <2>1 DEF Has, SameBut, Is
<1>14. B \cup One(c.bp) = C /\ N \cup One(c.nbp) = N /\ c.bp \notin B /\ c.nbp \notin N
  BY <1>3, <1>6, <1>7, <1>9 DEF One, NewsBut
<1>15. Arrives(t, p, "hold", c)
  <2>1. Mem(t) = Mem(s)
    BY <1>9, <1>10
  <2> QED BY <1>2, <1>3, <1>7, <1>10, <1>11, <1>12, <1>13, <1>14, <2>1 DEF Arrives, Pcs, s, B, N
<1> QED BY <1>2, <1>5, <1>15, AwakeStep

\* A process that waits for its buffer, or has it.
LEMMA OwnBuffer ==
    ASSUME GoodNow, NEW p \in Proc, pc[p] \in {"iowait", "wwait", "hold"}
    PROVE  /\ call[p].bp \in Buf /\ call[p].bp # NoBuf /\ call[p].nbp = NoBuf
           /\ call[p].bp \in Held(call) /\ Is(Now, call[p].bp, "BUSY")
           /\ Held(call) \ {call[p].bp} = HeldBut(call, p) /\ News(call) = NewsBut(call, p)
           /\ NoBuf \notin HeldBut(call, p) /\ NoBuf \notin NewsBut(call, p)
           /\ call[p].bp \in InDriver(Now) => ~ Is(Now, call[p].bp, "DONE")
<1> DEFINE s == Now  B == Held(call)  N == News(call)  O == HeldBut(call, p)  c == call[p]
<1>1. /\ s \in Cache /\ c \in Call /\ Sound(s, B, N) /\ B = O \cup One(c.bp) /\ c.bp \notin O
      /\ N = NewsBut(call, p) \cup One(c.nbp) /\ Place(pc[p], c)
  BY GoodIs
<1>2. c.bp # NoBuf /\ c.nbp = NoBuf
  BY <1>1 DEF Place
<1>3. c.bp \in Buf /\ c.bp \in B /\ B \ {c.bp} = O /\ N = NewsBut(call, p)
  BY <1>1, <1>2, CallFields DEF One
<1>4. NoBuf \notin HeldBut(call, p) /\ NoBuf \notin NewsBut(call, p)
  BY DEF HeldBut, NewsBut
<1> DEFINE b == c.bp
<1>5. Is(s, b, "BUSY") /\ (b \in InDriver(s) => ~ Is(s, b, "DONE"))
  <2>1. b \in Buf /\ b \in B
    BY <1>3
  <2> HIDE DEF s, B, N, b
  <2> QED BY <1>1, <2>1, HeldBusy
<1> QED BY <1>2, <1>3, <1>4, <1>5

\* biowait: the request is not done.
LEMMA BiowaitSleepGood ==
    ASSUME GoodNow, NEW p \in Proc, BiowaitSleep(p) PROVE GoodNow'
<1> DEFINE s == Now  B == Held(call)  N == News(call)  O == HeldBut(call, p)  M == NewsBut(call, p)
           c == call[p]  b == c.bp  t == Flagged(s, b, {"WANTED"}, {})
<1>1. /\ pc[p] \in {"iowait", "wwait"} /\ ~ Is(s, b, "DONE")
      /\ BecomesAsleep(p, <<"buf", b>>, t) /\ UNCHANGED <<pc, call>>
  BY DEF BiowaitSleep
<1>2. /\ s \in Cache /\ c \in Call /\ Sound(s, B, N) /\ B = O \cup One(c.bp) /\ c.bp \notin O
      /\ N = M \cup One(c.nbp) /\ c.nbp \notin M /\ Place(pc[p], c) /\ Has(s, pc[p], c)
  BY GoodIs
<1>3. b \in Buf /\ b # NoBuf /\ b \in B /\ Is(s, b, "BUSY")
  BY <1>1, OwnBuffer
<1>4. b \in InDriver(s)
  BY <1>1, <1>2, <1>3 DEF Has
<1> HIDE DEF s, B, N, O, M, b
<1>5. /\ Sound(t, B, N) /\ Goes(s, t, B, B, B) /\ Mem(t) = Mem(s)
      /\ Waited(t, b) /\ InDriver(t) = InDriver(s)
  BY <1>2, <1>3, <1>4, MarkWanted
<1> HIDE DEF t, c
<1>6. Has(t, pc[p], c)
  <2>1. c.bp # NoBuf => c.bp \in B
    BY <1>3 DEF b
  <2> QED BY <1>2, <1>5, <2>1, HasStill
<1>7. Goes(s, t, B, B, O)
  BY <1>2, <1>5, GoesLess
<1>8. Waits(t, B, <<"buf", b>>, pc[p], c)
  BY <1>1, <1>3, <1>4, <1>5 DEF Waits
<1>9. Arrives(t, p, pc[p], c)
  <2>1. pc[p] \in Pcs \ {"alloc"} /\ pc[p] # "alloc"
    BY <1>1 DEF Pcs
  <2> QED BY <1>2, <1>5, <1>6, <1>7, <2>1 DEF Arrives, s, B, N, O, M
<1>10. Goto(p, pc[p], c)
  <2>1. DOMAIN pc = Proc /\ DOMAIN call = Proc /\ pc = [pc EXCEPT ![p] = pc[p]]
        /\ call = [call EXCEPT ![p] = call[p]]
    BY DEF GoodNow, Good, Tables
  <2> QED BY <1>1, <2>1 DEF Goto, c
<1>11. <<"buf", b>> \in Chan
  BY <1>3 DEF Chan
<1>12. Waits(t, HeldBut(call, p) \cup One(c.bp), <<"buf", b>>, pc[p], c)
  BY <1>2, <1>8 DEF O
<1> QED BY <1>1, <1>9, <1>10, <1>11, <1>12, AsleepStep

\* biowait: a read is done.
LEMMA BiowaitReadGood ==
    ASSUME GoodNow, NEW p \in Proc, BiowaitRead(p) PROVE GoodNow'
<1> DEFINE c == call[p]
<1>1. /\ pc[p] = "iowait" /\ wchan[p] = NoChan /\ Is(Now, c.bp, "DONE") /\ Goto(p, "hold", c)
      /\ UNCHANGED <<cacheVars, wchan>>
  BY DEF BiowaitRead, Asleep
<1>2. c \in Call /\ Place(pc[p], c) /\ Has(Now, pc[p], c)
  BY GoodIs
<1>3. c.bp \notin InDriver(Now)
  BY <1>1, OwnBuffer
<1> HIDE DEF c
<1>4. Place("hold", c) /\ Has(Now, "hold", c)
  BY <1>1, <1>2, <1>3 DEF Place, Has
<1>5. "hold" \in Pcs \ {"alloc"} /\ pc[p] # "alloc" /\ c.bp = call[p].bp /\ c.nbp = call[p].nbp
  BY <1>1 DEF Pcs, c
<1> QED BY <1>1, <1>2, <1>4, <1>5, StayStep

\* A process leaves its buffer to others, or to the driver.
LEMMA LeaveStep ==
    ASSUME GoodNow, NEW p \in Proc, pc[p] \in {"wwait", "hold"}, wchan[p] = NoChan,
           NEW t, Sound(t, Held(call) \ {call[p].bp}, News(call)), Mem(t) = Mem(Now),
           Goes(Now, t, Held(call), Held(call) \ {call[p].bp}, Held(call) \ {call[p].bp}),
           BecomesWaking(t), NEW v \in Pcs \ {"alloc"}, NEW c \in Call, Goto(p, v, c),
           Place(v, c), c.bp = NoBuf, c.nbp = NoBuf
    PROVE  GoodNow'
<1>1. /\ Held(call) \ {call[p].bp} = HeldBut(call, p) /\ News(call) = NewsBut(call, p)
      /\ NoBuf \notin HeldBut(call, p) /\ NoBuf \notin NewsBut(call, p)
  BY OwnBuffer
<1> DEFINE O == HeldBut(call, p)  M == NewsBut(call, p)
<1>2. /\ Sound(t, O, M) /\ Goes(Now, t, Held(call), O, O)
      /\ O \cup One(c.bp) = O /\ M \cup One(c.nbp) = M /\ c.bp \notin O /\ c.nbp \notin M
  BY <1>1 DEF One
<1>3. Has(t, v, c)
  BY DEF Has
<1> HIDE DEF O, M
<1>4. Arrives(t, p, v, c)
  BY <1>2, <1>3 DEF Arrives, O, M
<1> QED BY <1>4, AwakeStep

\* It goes back to the caller.
LEMMA ReturnStep ==
    ASSUME GoodNow, NEW p \in Proc, pc[p] \in {"wwait", "hold"}, wchan[p] = NoChan,
           NEW t, Sound(t, Held(call) \ {call[p].bp}, News(call)), Mem(t) = Mem(Now),
           Goes(Now, t, Held(call), Held(call) \ {call[p].bp}, Held(call) \ {call[p].bp}),
           BecomesWaking(t), Return(p)
    PROVE  GoodNow'
<1> DEFINE c == NoCall
<1>1. Goto(p, "user", c) /\ c \in Call /\ c.bp = NoBuf /\ c.nbp = NoBuf
  BY CallIs DEF Return
<1>2. Place("user", c)
  BY DEF Place
<1>3. "user" \in Pcs \ {"alloc"}
  BY DEF Pcs
<1> HIDE DEF c
<1> QED BY <1>1, <1>2, <1>3, LeaveStep

\* biowait: a write is done, and bwrite releases the buffer.
LEMMA BiowaitWriteGood ==
    ASSUME GoodNow, NEW p \in Proc, BiowaitWrite(p) PROVE GoodNow'
<1> DEFINE s == Now  B == Held(call)  N == News(call)  c == call[p]  b == c.bp  t == Brelse(s, b)
           e == [c EXCEPT !.bp = NoBuf]
<1>1. /\ pc[p] = "wwait" /\ wchan[p] = NoChan /\ Is(s, b, "DONE") /\ BecomesWaking(t)
      /\ IF c.op = "blkflush" THEN Goto(p, "again", e) ELSE Return(p)
  BY DEF BiowaitWrite, Asleep
<1>2. c \in Call /\ Sound(s, B, N) /\ Place(pc[p], c)
  BY GoodIs
<1>3. b \in Buf /\ b \in B /\ b \notin InDriver(s)
  BY <1>1, OwnBuffer
<1>4. /\ e \in Call /\ e.op = c.op /\ e.blk = c.blk /\ e.bp = NoBuf /\ e.nbp = c.nbp
  BY <1>2 DEF Call
<1> HIDE DEF s, B, N, b
<1>5. Sound(t, B \ {b}, N) /\ Goes(s, t, B, B \ {b}, B \ {b}) /\ Mem(t) = Mem(s)
  BY <1>2, <1>3, Release
<1> HIDE DEF t, c, e
<1>6. CASE c.op = "blkflush"
  <2>1. Place("again", e) /\ e.nbp = NoBuf
    BY <1>1, <1>2, <1>4, <1>6 DEF Place, Flushing
  <2>2. "again" \in Pcs \ {"alloc"}
    BY DEF Pcs
  <2> QED BY <1>1, <1>4, <1>5, <1>6, <2>1, <2>2, LeaveStep DEF s, B, N, b, c
<1>7. CASE c.op # "blkflush"
  BY <1>1, <1>5, <1>7, ReturnStep DEF s, B, N, b, c
<1> QED BY <1>6, <1>7

\* A process that has its buffer holds it for good.
LEMMA HoldIs ==
    ASSUME GoodNow, NEW p \in Proc, pc[p] = "hold"
    PROVE  /\ wchan[p] = NoChan /\ call[p].bp \in Buf /\ call[p].bp \in Held(call)
           /\ call[p].bp \notin InDriver(Now) /\ Sound(Now, Held(call), News(call))
           /\ Now.buf[call[p].bp].blk = call[p].blk /\ ~ Is(Now, call[p].bp, "STALE")
<1>1. wchan[p] = NoChan
  BY AwakeIs
<1>2. call[p].bp \in Buf /\ call[p].bp \in Held(call) /\ call[p].bp # NoBuf
  BY OwnBuffer
<1>3. Sound(Now, Held(call), News(call)) /\ Has(Now, pc[p], call[p])
  BY GoodIs
<1> QED BY <1>1, <1>2, <1>3 DEF Has

\* brelse.
LEMMA BrelseCallGood ==
    ASSUME GoodNow, NEW p \in Proc, BrelseCall(p) PROVE GoodNow'
<1> DEFINE s == Now  B == Held(call)  N == News(call)  b == call[p].bp  t == Brelse(s, b)
<1>1. pc[p] = "hold" /\ BecomesWaking(t) /\ Return(p)
  BY DEF BrelseCall
<1>2. wchan[p] = NoChan /\ b \in Buf /\ b \in B /\ b \notin InDriver(s) /\ Sound(s, B, N)
  BY <1>1, HoldIs
<1> HIDE DEF s, B, N, b
<1>3. Sound(t, B \ {b}, N) /\ Goes(s, t, B, B \ {b}, B \ {b}) /\ Mem(t) = Mem(s)
  BY <1>2, Release
<1> HIDE DEF t
<1> QED BY <1>1, <1>2, <1>3, ReturnStep DEF s, B, N, b

\* The contents of a buffer change
Refilled(s, b, v) == [s EXCEPT !.buf[b].data = v]

RefilledIs(s, t, b) ==
    /\ OnlyBuf(s, t, b) /\ t.buf[b].flags = s.buf[b].flags
    /\ t.buf[b].blk = s.buf[b].blk /\ t.buf[b].size = s.buf[b].size

\* Nothing else changes then.
LEMMA RefillIs ==
    ASSUME NEW s, s \in Cache, NEW b, b \in Buf, NEW v, v \in Value,
           NEW t, t = Refilled(s, b, v)
    PROVE  RefilledIs(s, t, b)
<1> DEFINE h == [s.buf[b] EXCEPT !.data = v]
<1>1. s.buf[b] \in Header
  BY HeaderFields
<1>2. /\ h \in Header /\ h.blk = s.buf[b].blk /\ h.flags = s.buf[b].flags
      /\ h.size = s.buf[b].size
  BY <1>1 DEF Header
<1>3. t = [s EXCEPT !.buf = [@ EXCEPT ![b] = h]]
  BY DEF Refilled
<1> HIDE DEF h
<1>4. OnlyBuf(s, t, b) /\ t.buf[b] = h
  BY <1>2, <1>3, OneHeader
<1> QED BY <1>2, <1>4 DEF RefilledIs

\* A process fills its buffer.
LEMMA Refill ==
    ASSUME NEW s, NEW B, NEW N, Sound(s, B, N), NEW b, b \in Buf, b \in B, b \notin InDriver(s),
           NEW v, v \in Value, NEW t, t = Refilled(s, b, v)
    PROVE  /\ Sound(t, B, N) /\ Goes(s, t, B, B, B) /\ Mem(t) = Mem(s) /\ b \notin InDriver(t)
           /\ t.buf[b].flags = s.buf[b].flags /\ t.buf[b].blk = s.buf[b].blk
<1>1. s \in Cache /\ Lists(s)
  BY DEF Sound
<1>2. /\ OnlyBuf(s, t, b) /\ t.buf[b].flags = s.buf[b].flags
      /\ t.buf[b].blk = s.buf[b].blk /\ t.buf[b].size = s.buf[b].size
  BY <1>1, RefillIs DEF RefilledIs
<1>3. /\ OnlyAt(s, t, b) /\ SameRest(t, s) /\ t.io = s.io /\ t.avail = s.avail
      /\ OnList(t) = OnList(s) /\ InDriver(t) = InDriver(s)
  BY <1>1, <1>2, OnlyBufAt
<1>4. \A f : Is(t, b, f) <=> Is(s, b, f)
  BY <1>2 DEF Is
<1>5. Role(t, b, B, N)
  <2>1. /\ b \notin OnList(s) /\ b \notin N
        /\ Is(s, b, "BUSY") /\ ~ Is(s, b, "ASYNC") /\ s.buf[b].size > 0 /\ Named(s, b)
    BY HeldBusy
  <2> QED BY <1>2, <1>3, <1>4, <2>1 DEF Role, Named
<1>6. Sound(t, B, N)
  <2>1. t.buf[b].blk \in {s.buf[b].blk, NoBlock} /\ (Is(s, b, "STALE") => Is(t, b, "STALE"))
    BY <1>2, <1>4
  <2> QED BY <1>3, <1>5, <2>1, SoundSame
<1>7. Goes(s, t, B, B, B)
  <2>1. Served(s, t, b, B, B) /\ Kept(s, t, b)
    BY <1>2, <1>3, <1>4 DEF Served, Waited, Kept
  <2>2. MemoryServed(s, t)
    BY <1>1, <1>3, MemoryStays
  <2>3. s.woken \subseteq t.woken
    BY <1>3 DEF SameRest
  <2> QED BY <1>3, <2>1, <2>2, <2>3, GoesStep
<1>8. Mem(t) = Mem(s)
  <2>1. \A c \in Buf : t.buf[c].size = s.buf[c].size
    BY <1>2, <1>3 DEF OnlyAt
  <2>2. t.bufsize = s.bufsize
    BY <1>3 DEF SameRest
  <2> QED BY <2>1, <2>2, MemSame
<1> QED BY <1>2, <1>3, <1>6, <1>7, <1>8

\* A process that writes has filled its buffer b: the cache u
Filling(u, p, b) ==
    /\ b = call[p].bp /\ b \in Buf /\ b \in Held(call) /\ Sound(u, Held(call), News(call))
    /\ Goes(Now, u, Held(call), Held(call), Held(call)) /\ Mem(u) = Mem(Now)
    /\ b \notin InDriver(u) /\ u.buf[b].blk = call[p].blk /\ ~ Is(u, b, "STALE")
    /\ ~ Is(u, b, "ASYNC")

\* The caller writes into its buffer.
LEMMA FillsBuffer ==
    ASSUME GoodNow, NEW p \in Proc, MayWrite(p), NEW v, v \in Value
    PROVE  /\ Filling(Filled(call[p].bp, v), p, call[p].bp) /\ wchan[p] = NoChan
           /\ pc[p] = "hold" /\ call[p].blk # NoBlock /\ Now \in Cache
<1> DEFINE s == Now  B == Held(call)  N == News(call)  b == call[p].bp  u == Filled(b, v)
<1>1. pc[p] = "hold" /\ call[p].blk # NoBlock
  BY DEF MayWrite
<1>2. /\ wchan[p] = NoChan /\ b \in Buf /\ b \in B /\ b \notin InDriver(s) /\ Sound(s, B, N)
      /\ s.buf[b].blk = call[p].blk /\ ~ Is(s, b, "STALE")
  BY <1>1, HoldIs
<1>3. u = Refilled(s, b, v)
  BY DEF Filled, Refilled
<1> HIDE DEF s, B, N, b, u
<1>4. /\ Sound(u, B, N) /\ Goes(s, u, B, B, B) /\ Mem(u) = Mem(s) /\ b \notin InDriver(u)
      /\ u.buf[b].flags = s.buf[b].flags /\ u.buf[b].blk = s.buf[b].blk
  BY <1>2, <1>3, Refill
<1>5. ~ Is(u, b, "STALE") /\ ~ Is(u, b, "ASYNC")
  BY <1>2, <1>4, HeldBusy DEF Is
<1>6. s \in Cache
  BY <1>2 DEF Sound
<1> QED BY <1>1, <1>2, <1>4, <1>5, <1>6 DEF Filling, s, B, N, b, u

\* bdwrite: the buffer is written later.
LEMMA BdwriteGood ==
    ASSUME GoodNow, NEW p \in Proc, NEW v \in Value, Bdwrite(p, v) PROVE GoodNow'
<1> DEFINE s == Now  B == Held(call)  N == News(call)  b == call[p].bp  u == Filled(b, v)
           y == Flagged(u, b, {"DELWRI", "DONE"}, {})  t == Brelse(y, b)
<1>1. MayWrite(p) /\ BecomesWaking(t) /\ Return(p)
  BY DEF Bdwrite
<1>2. /\ Filling(u, p, b) /\ wchan[p] = NoChan /\ pc[p] = "hold" /\ s \in Cache
      /\ call[p].blk # NoBlock
  BY <1>1, FillsBuffer
<1>3. /\ b \in Buf /\ b \in B /\ Sound(u, B, N) /\ Goes(s, u, B, B, B) /\ Mem(u) = Mem(s)
      /\ b \notin InDriver(u) /\ u.buf[b].blk # NoBlock
  BY <1>2 DEF Filling
<1>4. y = Flagged(u, b, {"DELWRI", "DONE"}, {}) /\ t = Brelse(y, b)
  OBVIOUS
<1> HIDE DEF s, B, N, b, u, y, t
<1>5. /\ Sound(y, B, N) /\ OnlyBuf(u, y, b) /\ SameBut(y, u, b) /\ Goes(u, y, B, B, B)
      /\ Mem(y) = Mem(u)
  <2>1. {"DELWRI", "DONE"} \in SUBSET Flag
    BY DEF Flag
  <2> QED BY <1>3, <1>4, <2>1, Reflag
<1>6. b \notin InDriver(y)
  BY <1>3, <1>5 DEF OnlyBuf, InDriver
<1>7. Sound(t, B \ {b}, N) /\ Goes(y, t, B, B \ {b}, B \ {b}) /\ Mem(t) = Mem(y)
  BY <1>3, <1>4, <1>5, <1>6, Release
<1>8. u \in Cache /\ y \in Cache /\ t \in Cache
  BY <1>3, <1>5, <1>7 DEF Sound
<1>9. Goes(s, y, B, B, B \ {b})
  <2>1. Goes(s, y, B, B, B)
    BY <1>2, <1>3, <1>5, <1>8, GoesOn
  <2> QED BY <2>1, GoesLess
<1>10. Goes(s, t, B, B \ {b}, B \ {b})
  BY <1>2, <1>7, <1>8, <1>9, GoesOn
<1>11. Mem(t) = Mem(s)
  BY <1>3, <1>5, <1>7
<1> QED BY <1>1, <1>2, <1>7, <1>10, <1>11, ReturnStep DEF s, B, N, b

\* bwrite's request, for a buffer as it is.
LEMMA StartSubmits ==
    ASSUME NEW s, s \in Cache, Lists(s), NEW b \in Buf, b \notin InDriver(s),
           NEW t, t = StartWrite(s, b)
    PROVE  Written(s, t, b, {})
<1> DEFINE off == {"DONE", "ERROR", "DELWRI"}
           e == [bp |-> b, read |-> FALSE]
<1>1. t = Given(s, b, {}, off, e) /\ GoodRequest(e, b)
  BY DEF GoodRequest, StartWrite, Strategy, Request, Given
<1>2. /\ {} \in SUBSET Flag /\ "STALE" \notin off /\ "BUSY" \notin off
      /\ "WANTED" \notin off /\ "DONE" \in off
  OBVIOUS
<1> HIDE DEF off, e
<1>3. Submitted(s, t, b) /\ Handed(s, t, b, {}, off, e)
  BY <1>1, <1>2, StrategySubmits
<1>4. /\ t.buf[b].flags = (s.buf[b].flags \ off) \cup {}
      /\ t.io = Append(s.io, e) /\ t.buf[b].data = s.buf[b].data
  BY <1>3 DEF Handed, SameBut
<1>5. t.buf[b].flags = (s.buf[b].flags \cup {}) \ off
  BY <1>4
<1> QED BY <1>3, <1>4, <1>5 DEF off, e, Written

\* bwrite: a buffer that a process has goes to the driver, and the process waits.
LEMMA WriteWaits ==
    ASSUME NEW s, NEW B, NEW N, Sound(s, B, N), NEW b \in Buf, b \in B, b \notin InDriver(s),
           s.buf[b].blk # NoBlock, NEW t, t = StartWrite(s, b)
    PROVE  /\ Sound(t, B, N) /\ Goes(s, t, B, B, B \ {b}) /\ Mem(t) = Mem(s)
           /\ t.buf[b].blk = s.buf[b].blk /\ (Is(t, b, "STALE") <=> Is(s, b, "STALE"))
           /\ b \in InDriver(t)
<1>1. s \in Cache /\ Lists(s)
  BY DEF Sound
<1>2. Written(s, t, b, {})
  BY <1>1, StartSubmits
<1>3. Submitted(s, t, b) /\ t.buf[b].flags = (s.buf[b].flags \cup {}) \ {"DONE", "ERROR", "DELWRI"}
  BY <1>2 DEF Written
<1>4. ~ Is(s, b, "ASYNC")
  BY HeldBusy
<1>5. ~ Is(t, b, "ASYNC")
  BY <1>3, <1>4 DEF Is
<1>6. Sound(t, B, N) /\ Goes(s, t, B, B, B \ {b}) /\ Mem(t) = Mem(s)
  BY <1>3, <1>5, Submit
<1> QED BY <1>3, <1>6 DEF Submitted

\* bawrite: the driver will release the buffer.
LEMMA WriteLeaves ==
    ASSUME NEW s, NEW B, NEW N, Sound(s, B, N), NEW b \in Buf, b \in B, b \notin InDriver(s),
           s.buf[b].blk # NoBlock, NEW t, t = StartWrite(Flagged(s, b, {"ASYNC"}, {}), b)
    PROVE  Sound(t, B \ {b}, N) /\ Goes(s, t, B, B \ {b}, B \ {b}) /\ Mem(t) = Mem(s)
<1> DEFINE how == {"ASYNC"}
<1>1. s \in Cache /\ Lists(s)
  BY DEF Sound
<1>2. Written(s, t, b, how)
  <2>1. how \in {{}, {"ASYNC"}, {"ASYNC", "AGE"}} /\ t = StartWrite(Flagged(s, b, how, {}), b)
    OBVIOUS
  <2> HIDE DEF how
  <2> QED BY <1>1, <2>1, WriteSubmits
<1>3. Submitted(s, t, b) /\ t.buf[b].flags = (s.buf[b].flags \cup how) \ {"DONE", "ERROR", "DELWRI"}
  BY <1>2 DEF Written
<1>4. Is(t, b, "ASYNC")
  BY <1>3 DEF Is
<1> QED BY <1>3, <1>4, Submit

\* It writes the buffer and waits for that (bwrite).
LEMMA BwriteGood ==
    ASSUME GoodNow, NEW p \in Proc, NEW v \in Value, Bwrite(p, v) PROVE GoodNow'
<1> DEFINE s == Now  B == Held(call)  N == News(call)  c == call[p]  b == c.bp  u == Filled(b, v)
           t == StartWrite(u, b)  O == HeldBut(call, p)  M == NewsBut(call, p)
<1>1. MayWrite(p) /\ BecomesWaking(t) /\ Goto(p, "wwait", c)
  BY DEF Bwrite
<1>2. Filling(u, p, b) /\ wchan[p] = NoChan /\ pc[p] = "hold" /\ s \in Cache /\ c.blk # NoBlock
  BY <1>1, FillsBuffer
<1>3. /\ b \in Buf /\ b \in B /\ Sound(u, B, N) /\ Goes(s, u, B, B, B) /\ Mem(u) = Mem(s)
      /\ b \notin InDriver(u) /\ u.buf[b].blk = c.blk /\ ~ Is(u, b, "STALE")
  BY <1>2 DEF Filling
<1>4. /\ c \in Call /\ Place("hold", c) /\ B = O \cup One(c.bp) /\ c.bp \notin O
      /\ N = M \cup One(c.nbp) /\ c.nbp \notin M
  BY <1>2, GoodIs
<1>5. B \ {b} = O
  BY <1>2, OwnBuffer
<1> HIDE DEF s, B, N, b, u, O, M, t
<1>6. /\ Sound(t, B, N) /\ Goes(u, t, B, B, B \ {b}) /\ Mem(t) = Mem(u)
      /\ t.buf[b].blk = u.buf[b].blk /\ (Is(t, b, "STALE") <=> Is(u, b, "STALE"))
      /\ b \in InDriver(t)
  <2>1. u.buf[b].blk # NoBlock
    BY <1>2, <1>3
  <2> HIDE DEF c
  <2> QED BY <1>3, <2>1, WriteWaits DEF t
<1> HIDE DEF t, c
<1>7. Goes(s, t, B, B, O)
  <2>1. Goes(s, u, B, B, B \ {b})
    BY <1>3, GoesLess
  <2>2. u \in Cache /\ t \in Cache
    BY <1>3, <1>6 DEF Sound
  <2> QED BY <1>2, <1>5, <1>6, <2>1, <2>2, GoesOn
<1>8. Place("wwait", c)
  BY <1>2, <1>4 DEF Place
<1>9. Has(t, "wwait", c)
  BY <1>3, <1>6 DEF Has, b
<1>10. Arrives(t, p, "wwait", c)
  <2>1. Mem(t) = Mem(s)
    BY <1>3, <1>6
  <2> QED BY <1>2, <1>4, <1>6, <1>7, <1>8, <1>9, <2>1 DEF Arrives, Pcs, s, B, N, O, M
<1> QED BY <1>1, <1>2, <1>10, AwakeStep

\* It writes the buffer and does not wait (bawrite).
LEMMA BawriteGood ==
    ASSUME GoodNow, NEW p \in Proc, NEW v \in Value, Bawrite(p, v) PROVE GoodNow'
<1> DEFINE s == Now  B == Held(call)  N == News(call)  b == call[p].bp  u == Filled(b, v)
           t == StartWrite(Flagged(u, b, {"ASYNC"}, {}), b)
<1>1. MayWrite(p) /\ BecomesWaking(t) /\ Return(p)
  BY DEF Bawrite
<1>2. /\ Filling(u, p, b) /\ wchan[p] = NoChan /\ pc[p] = "hold" /\ s \in Cache
      /\ call[p].blk # NoBlock
  BY <1>1, FillsBuffer
<1>3. /\ b \in Buf /\ b \in B /\ Sound(u, B, N) /\ Goes(s, u, B, B, B) /\ Mem(u) = Mem(s)
      /\ b \notin InDriver(u) /\ u.buf[b].blk # NoBlock
  BY <1>2 DEF Filling
<1>4. t = StartWrite(Flagged(u, b, {"ASYNC"}, {}), b)
  OBVIOUS
<1> HIDE DEF s, B, N, b, u, t
<1>5. Sound(t, B \ {b}, N) /\ Goes(u, t, B, B \ {b}, B \ {b}) /\ Mem(t) = Mem(u)
  BY <1>3, <1>4, WriteLeaves
<1>6. Goes(s, t, B, B \ {b}, B \ {b})
  <2>1. Goes(s, u, B, B, B \ {b})
    BY <1>3, GoesLess
  <2>2. u \in Cache /\ t \in Cache
    BY <1>3, <1>5 DEF Sound
  <2> QED BY <1>2, <1>5, <2>1, <2>2, GoesOn
<1>7. Mem(t) = Mem(s)
  BY <1>3, <1>5
<1> QED BY <1>1, <1>2, <1>5, <1>6, <1>7, ReturnStep DEF s, B, N, b

\* One turn of blkflush's loop.
LEMMA BlkflushTurnGood ==
    ASSUME GoodNow, NEW p \in Proc, pc[p] \in {"user", "bufwait", "again"}, wchan[p] = NoChan,
           NEW c, c \in Call, Flushing(c), call[p].bp = NoBuf, call[p].nbp = NoBuf,
           BlkflushTurn(p, c)
    PROVE  GoodNow'
<1> DEFINE s == Now  B == Held(call)  N == News(call)
<1>1. c.bp = NoBuf /\ c.nbp = NoBuf /\ c.op = "blkflush" /\ c.blk # NoBlock /\ Has(s, "again", c)
  BY DEF Flushing, Has
<1>2. /\ s \in Cache /\ Sound(s, B, N) /\ B = HeldBut(call, p) /\ N = NewsBut(call, p)
      /\ NoBuf \notin B /\ NoBuf \notin N
  BY GoodIs DEF One, HeldBut, NewsBut
<1>3. pc[p] # "alloc"
  OBVIOUS
<1>4. ASSUME NEW b \in Incore(Now, c.blk), Is(Now, b, "BUSY"),
             BecomesAsleep(p, <<"buf", b>>, Flagged(Now, b, {"WANTED"}, {})), Goto(p, "bufwait", c)
      PROVE  GoodNow'
  <2>1. b \in Buf /\ Findable(Now, b)
    BY IncoreIs
  <2>2. b # c.bp
    BY <1>1, <2>1, NamesAssumption
  <2> QED BY <1>1, <1>3, <1>4, <2>1, <2>2, BusyStep
<1>5. ASSUME NEW b \in Incore(Now, c.blk), ~ Is(Now, b, "BUSY"),
             BecomesWaking(StartWrite(Notavail(Now, b), b)),
             Goto(p, "wwait", [c EXCEPT !.bp = b])
      PROVE  GoodNow'
  <2> DEFINE u == Notavail(s, b)  t == StartWrite(u, b)  C == B \cup {b}  e == [c EXCEPT !.bp = b]
  <2>1. TakenFor(u, p, b, c.blk)
    BY <1>5, TakeFound
  <2>2. b \in Buf /\ b # NoBuf
    BY <2>1, NamesAssumption DEF TakenFor
  <2>3. /\ e \in Call /\ e.op = c.op /\ e.blk = c.blk /\ e.bp = b /\ e.nbp = c.nbp
    BY <2>2 DEF Call
  <2>4. t = StartWrite(u, b) /\ BecomesWaking(t) /\ Goto(p, "wwait", e)
    BY <1>5
  <2> HIDE DEF s, B, N, u, t, e
  <2>5. /\ b \notin B /\ Sound(u, C, N) /\ Goes(s, u, B, C, B) /\ Mem(u) = Mem(s)
        /\ b \notin InDriver(u) /\ u.buf[b].blk = c.blk /\ ~ Is(u, b, "STALE")
    BY <2>1 DEF TakenFor, s, B, N
  <2>6. b \in C /\ C \ {b} = B /\ b \in Buf /\ u.buf[b].blk # NoBlock
    BY <1>1, <2>2, <2>5
  <2> HIDE DEF C
  <2>7. /\ Sound(t, C, N) /\ Goes(u, t, C, C, C \ {b}) /\ Mem(t) = Mem(u)
        /\ t.buf[b].blk = u.buf[b].blk /\ (Is(t, b, "STALE") <=> Is(u, b, "STALE"))
        /\ b \in InDriver(t)
    BY <2>4, <2>5, <2>6, WriteWaits
  <2>8. Goes(s, t, B, C, B)
    <3>1. u \in Cache /\ t \in Cache
      BY <2>5, <2>7 DEF Sound
    <3> QED BY <1>2, <2>5, <2>6, <2>7, <3>1, GoesOn
  <2>9. Place("wwait", e) /\ Has(t, "wwait", e)
    BY <1>1, <2>2, <2>3, <2>5, <2>7 DEF Place, Has
  <2>10. B \cup One(e.bp) = C /\ N \cup One(e.nbp) = N /\ e.bp \notin B /\ e.nbp \notin N
    BY <1>1, <1>2, <2>2, <2>3, <2>5 DEF One, C
  <2>11. Arrives(t, p, "wwait", e)
    <3>1. Mem(t) = Mem(s)
      BY <2>5, <2>7
    <3> QED BY <1>2, <1>3, <2>3, <2>7, <2>8, <2>9, <2>10, <3>1 DEF Arrives, Pcs, s, B, N
  <2> QED BY <2>4, <2>11, AwakeStep
<1>6. ASSUME Return(p), UNCHANGED <<cacheVars, wchan>>
      PROVE  GoodNow'
  <2> DEFINE e == NoCall
  <2>1. Goto(p, "user", e) /\ e \in Call /\ e.bp = call[p].bp /\ e.nbp = call[p].nbp
    BY <1>6, CallIs DEF Return
  <2>2. Place("user", e) /\ Has(Now, "user", e)
    BY CallIs DEF Place, Has
  <2>3. "user" \in Pcs \ {"alloc"}
    BY DEF Pcs
  <2> HIDE DEF e
  <2> QED BY <1>3, <1>6, <2>1, <2>2, <2>3, StayStep
<1> QED BY <1>4, <1>5, <1>6 DEF BlkflushTurn

\* It enters blkflush.
LEMMA BlkflushGood ==
    ASSUME GoodNow, NEW p \in Proc, NEW blk \in Block, Blkflush(p, blk) PROVE GoodNow'
<1> DEFINE c == [NoCall EXCEPT !.op = "blkflush", !.blk = blk]
<1>1. pc[p] = "user" /\ BlkflushTurn(p, c)
  BY DEF Blkflush, Enters
<1>2. /\ c \in Call /\ c.op = "blkflush" /\ c.blk = blk /\ c.bp = NoBuf /\ c.nbp = NoBuf
  BY DEF NoCall, Call, Ops
<1> HIDE DEF c
<1>3. Flushing(c)
  BY <1>2, NamesAssumption DEF Flushing
<1>4. wchan[p] = NoChan /\ call[p].bp = NoBuf /\ call[p].nbp = NoBuf
  BY <1>1, UserIs
<1> QED BY <1>1, <1>2, <1>3, <1>4, BlkflushTurnGood

\* It goes on in blkflush, after its sleep or its write.
LEMMA BlkflushAgainGood ==
    ASSUME GoodNow, NEW p \in Proc, BlkflushAgain(p) PROVE GoodNow'
<1>1. /\ pc[p] \in {"bufwait", "again"} /\ wchan[p] = NoChan /\ call[p].op = "blkflush"
      /\ BlkflushTurn(p, call[p])
  BY DEF BlkflushAgain, Asleep
<1>2. call[p] \in Call /\ Place(pc[p], call[p])
  BY GoodIs
<1>3. Flushing(call[p])
  BY <1>1, <1>2 DEF Place, Getting
<1>4. call[p].bp = NoBuf /\ call[p].nbp = NoBuf
  BY <1>3 DEF Flushing
<1> QED BY <1>1, <1>2, <1>3, <1>4, BlkflushTurnGood

-----------------------------------------------------------------------------
(* The steps that move no process *)

\* Setting ASYNC and taking the buffer off the free list, in either order.
LEMMA AsyncFirst ==
    ASSUME NEW s, s \in Cache, NEW b, b \in Buf
    PROVE  Notavail(Flagged(s, b, {"ASYNC"}, {}), b) = Flagged(Notavail(s, b), b, {"ASYNC"}, {})
<1> DEFINE l == RemoveFirst(s.avail, b)
           F == s.buf[b].flags
           h == [s.buf[b] EXCEPT !.flags = F \cup {"ASYNC", "BUSY"}]
           f == [s.buf EXCEPT ![b] = h]
           it == [s EXCEPT !.avail = l, !.buf = f]
<1>1. s.buf \in [Buf -> Header] /\ s.buf[b] \in Header
  BY CacheFields
<1> DEFINE A == {"ASYNC"}  Y == {"BUSY"}  c == s.buf  g == s.buf[b]
<1>2. (((F \ {}) \cup A) \ {}) \cup Y = F \cup {"ASYNC", "BUSY"}
  OBVIOUS
<1>3. (((F \ {}) \cup Y) \ {}) \cup A = F \cup {"ASYNC", "BUSY"}
  OBVIOUS
<1>4. Notavail(Flagged(s, b, A, {}), b) = it
  <2> DEFINE u == Flagged(s, b, A, {})
             k == [g EXCEPT !.flags = (F \ {}) \cup A]
  <2>1. u.avail = s.avail /\ u.buf = [c EXCEPT ![b] = k] /\ u = [s EXCEPT !.buf = [c EXCEPT ![b] = k]]
    BY <1>1 DEF Flagged, Cache
  <2> QED BY <1>1, <1>2, <2>1 DEF Notavail, Flagged, Cache, Header
<1>5. Flagged(Notavail(s, b), b, A, {}) = it
  BY <1>1, <1>3 DEF Notavail, Flagged, Cache, Header
<1> QED BY <1>4, <1>5

\* The buffer b of the free list is the driver's now
Flushed(s, t, b, B, N) ==
    /\ t \in Cache /\ Sound(t, B, N) /\ Goes(s, t, B, B, B) /\ Mem(t) = Mem(s)
    /\ OnList(t) = OnList(s) \ {b} /\ t.saved = NoBuf

\* fsflush and bflush write a buffer of the free list, which stays the driver's.
LEMMA FlushOneIs ==
    ASSUME NEW s, NEW B, NEW N, Sound(s, B, N), NEW b, b \in OnList(s), Is(s, b, "DELWRI"),
           s.saved = NoBuf, NEW t, t = FlushOne(s, b)
    PROVE  Flushed(s, t, b, B, N)
<1>1. b \in Buf /\ s \in Cache /\ s.buf[b].blk # NoBlock
  BY ListedFree DEF Named, Sound
<1> DEFINE how == {"ASYNC"}
<1>2. t = StartWrite(Flagged(Notavail(s, b), b, how, {}), b)
  BY <1>1, AsyncFirst DEF FlushOne
<1>3. how \in {{"ASYNC"}, {"ASYNC", "AGE"}}
  OBVIOUS
<1> HIDE DEF how
<1>4. Reclaimed(s, t, b, B, N) /\ t.saved = NoBuf
  BY <1>1, <1>2, <1>3, ReclaimWrites
<1>5. N \cup One(t.saved) = N
  BY <1>4 DEF One
<1> QED BY <1>4, <1>5 DEF Reclaimed, Flushed

\* The free list in another order
Resorted(s, t) ==
    /\ s \in Cache /\ t \in Cache /\ Single(t.avail) /\ OnList(t) = OnList(s)
    /\ t.buf = s.buf /\ t.io = s.io /\ t.bufsize = s.bufsize /\ t.wanted = s.wanted
    /\ t.woken = s.woken /\ t.saved = s.saved

\* Nothing else is different then.
LEMMA ResortedIs ==
    ASSUME NEW s, NEW t, Resorted(s, t), NEW B, NEW N, Sound(s, B, N)
    PROVE  Sound(t, B, N) /\ Goes(s, t, B, B, B) /\ Mem(t) = Mem(s)
<1>1. /\ s \in Cache /\ t \in Cache /\ Single(t.avail) /\ OnList(t) = OnList(s)
      /\ t.buf = s.buf /\ t.io = s.io /\ t.bufsize = s.bufsize /\ t.wanted = s.wanted
      /\ t.woken = s.woken
  BY DEF Resorted
<1>2. \A b, f : Is(t, b, f) <=> Is(s, b, f)
  BY <1>1 DEF Is
<1>3. /\ InDriver(t) = InDriver(s)
      /\ \A b \in Buf : Findable(t, b) <=> Findable(s, b)
  BY <1>1, <1>2 DEF InDriver, Findable
<1>4. Sound(t, B, N)
  <2>1. Lists(t)
    BY <1>1 DEF Sound, Lists
  <2>2. Unique(t)
    BY <1>1, <1>3 DEF Sound, Unique
  <2>3. ASSUME NEW b \in Buf PROVE Role(t, b, B, N)
    <3>1. Role(s, b, B, N)
      BY DEF Sound
    <3> QED BY <1>1, <1>2, <1>3, <3>1 DEF Role, Named
  <2> QED BY <1>1, <2>1, <2>2, <2>3 DEF Sound
<1>5. Goes(s, t, B, B, B)
  <2>1. s.avail = <<>> => t.avail = <<>>
    <3>1. s.avail = <<>> => OnList(t) = {}
      <4>1. ASSUME s.avail = <<>>, NEW c \in OnList(s) PROVE FALSE
        BY <4>1 DEF OnList, ToSet
      <4> QED BY <1>1, <4>1
    <3>2. t.avail \in Seq(Buf) /\ (OnList(t) = {} => t.avail = <<>>)
      <4>1. t.avail \in Seq(Buf)
        BY <1>1, CacheFields
      <4>2. t.avail # <<>> => t.avail[1] \in OnList(t)
        BY <4>1 DEF OnList, ToSet
      <4> QED BY <4>1, <4>2
    <3> QED BY <3>1, <3>2
  <2>2. MemoryServed(s, t)
    BY <1>1, <2>1, CacheFields DEF MemoryServed
  <2>3. \A b \in Buf : Served(s, t, b, B, B)
    BY <1>2, <1>3 DEF Served, Waited
  <2>4. \A b \in Buf : b \in B => Kept(s, t, b)
    BY <1>1, <1>2, <1>3 DEF Kept
  <2> QED BY <1>1, <2>2, <2>3, <2>4 DEF Goes
<1>6. Mem(t) = Mem(s)
  BY <1>1, MemSame
<1> QED BY <1>4, <1>5, <1>6

\* A turn of fsflush's sort: a buffer that is old goes to the head
MoveUp(list, b, old) == IF b \in old THEN <<b>> \o RemoveFirst(list, b) ELSE list

\* The list as the sort leaves it.
SortedBy(l, old) ==
    LET move(list, b) == IF b \in old THEN <<b>> \o RemoveFirst(list, b) ELSE list
    IN  FoldLeft(move, l, l)

\* The lists with the members of l
SameMembers(l) == {m \in Seq(Buf) : Single(m) /\ ToSet(m) = ToSet(l)}

\* A turn keeps the members.
LEMMA MoveUpIs ==
    ASSUME NEW l, l \in Seq(Buf), NEW m, m \in SameMembers(l), NEW b, b \in ToSet(l), NEW old
    PROVE  MoveUp(m, b, old) \in SameMembers(l)
<1>1. m \in Seq(Buf) /\ Single(m) /\ ToSet(m) = ToSet(l) /\ b \in Buf
  <2>1. b \in Buf
    <3>1. PICK i \in 1 .. Len(l) : b = l[i]
      BY Members
    <3> QED BY <3>1
  <2> QED BY <2>1 DEF SameMembers
<1>2. CASE b \notin old
  BY <1>2 DEF MoveUp
<1>3. CASE b \in old
  <2> DEFINE r == RemoveFirst(m, b)
  <2>1. r \in Seq(Buf) /\ Single(r) /\ ToSet(r) = ToSet(m) \ {b}
    BY <1>1, TakenOff
  <2>2. MoveUp(m, b, old) = <<b>> \o r
    BY <1>3 DEF MoveUp
  <2> HIDE DEF r
  <2>3. <<b>> \o r \in Seq(Buf) /\ ToSet(<<b>> \o r) = ToSet(r) \cup {b} /\ Single(<<b>> \o r)
    BY <1>1, <2>1, PutFirst
  <2>4. ToSet(<<b>> \o r) = ToSet(l)
    BY <1>1, <2>1, <2>3
  <2> QED BY <2>2, <2>3, <2>4 DEF SameMembers
<1> QED BY <1>2, <1>3

\* What the list is after each turn
Sorts(f, q, old, n) ==
    /\ f \in [0 .. n -> SameMembers(q)] /\ f[0] = q /\ f[n] = SortedBy(q, old)
    /\ \A i \in 1 .. n : f[i] = MoveUp(f[i - 1], q[i], old)

\* The sort is a loop of such turns.
LEMMA SortTurns ==
    ASSUME NEW q, q \in Seq(Buf), Single(q), NEW old
    PROVE  \E f : Sorts(f, q, old, Len(q))
<1> DEFINE n == Len(q)
           V == SameMembers(q)
           turn(v, i) == MoveUp(v, q[i], old)
           IsFold(g) == g = [a \in SUBSET DOMAIN q |->
                               IF a = {} THEN q ELSE turn(g[a \ {Max(a)}], Max(a))]
           it == CHOOSE g : IsFold(g)
           step == [p \in (1 .. n) \X V |-> turn(p[2], p[1])]
<1>1. SortedBy(q, old) = it[DOMAIN q]
  BY DEF SortedBy, FoldLeft, MapThenFoldSet, MoveUp
<1>2. n \in Nat /\ DOMAIN q = 1 .. n /\ \A i \in 1 .. n : q[i] \in ToSet(q)
  BY DEF ToSet
<1>3. q \in V
  BY DEF SameMembers
<1>4. \A v \in V, i \in 1 .. n : turn(v, i) \in V
  <2> HIDE DEF n
  <2> QED BY <1>2, MoveUpIs
<1> HIDE DEF turn, V, n
<1>5. \A i \in 1 .. n, v \in V : step[<<i, v>>] = turn(v, i)
  OBVIOUS
<1>6. \A i \in 1 .. n, v \in V : step[<<i, v>>] \in V
  <2> HIDE DEF step
  <2>1. ASSUME NEW i \in 1 .. n, NEW v \in V PROVE step[<<i, v>>] \in V
    BY <1>4, <1>5
  <2> QED BY <2>1
<1> HIDE DEF step
<1>7. IsFold(it)
  <2>1. PICK g : IsLeftRecursion(g, n, V, q, step)
    BY <1>2, <1>3, <1>6, LeftRecursion
  <2>2. \A a \in SUBSET (1 .. n) : a # {} => g[a] = turn(g[a \ {Max(a)}], Max(a))
    BY <1>2, <1>5, <2>1, MaxIn DEF IsLeftRecursion
  <2>3. IsFold(g)
    BY <1>2, <2>1, <2>2 DEF IsLeftRecursion
  <2> HIDE DEF IsFold
  <2> QED BY <2>3
<1> HIDE DEF it
<1>8. it[{}] = q
  BY <1>7
<1>9. ASSUME NEW a \in SUBSET (1 .. n), a # {} /\ it[a \ {Max(a)}] \in V
      PROVE  it[a] = step[<<Max(a), it[a \ {Max(a)}]>>]
  BY <1>2, <1>5, <1>7, <1>9, MaxIn
<1>10. IsFoldOf(it, n, V, q, step)
  BY <1>8, <1>9 DEF IsFoldOf
<1>11. PICK f : IsLoopOf(f, it, n, V, q, step)
  BY <1>2, <1>3, <1>6, <1>10, FoldTurns
<1>12. /\ f \in [0 .. n -> V] /\ f[0] = q /\ f[n] = it[1 .. n]
       /\ \A i \in 1 .. n : f[i] = step[<<i, f[i - 1]>>]
  BY <1>11 DEF IsLoopOf
<1>13. \A i \in 1 .. n : f[i] = turn(f[i - 1], i)
  <2>1. \A i \in 1 .. n : f[i - 1] \in V
    BY <1>2, <1>12
  <2> QED BY <1>5, <1>12, <2>1
<1>14. Sorts(f, q, old, n)
  BY <1>1, <1>2, <1>12, <1>13 DEF Sorts, turn, V
<1> QED BY <1>14 DEF n

\* The sort keeps the members, and what is first is old if anything is.
LEMMA SortIs ==
    ASSUME NEW q, q \in Seq(Buf), Single(q), NEW old, NEW m, m = SortedBy(q, old)
    PROVE  /\ m \in Seq(Buf) /\ Single(m) /\ ToSet(m) = ToSet(q)
           /\ (\E b \in ToSet(q) : b \in old) => m # <<>> /\ Head(m) \in old
<1> DEFINE n == Len(q)
<1>1. PICK f : Sorts(f, q, old, n)
  BY SortTurns
<1>2. /\ f \in [0 .. n -> SameMembers(q)] /\ f[n] = m
      /\ \A i \in 1 .. n : f[i] = MoveUp(f[i - 1], q[i], old)
  BY <1>1 DEF Sorts
<1>3. n \in Nat /\ \A i \in 1 .. n : q[i] \in Buf
  OBVIOUS
<1>4. \A b \in ToSet(q) : \E i \in 1 .. n : q[i] = b
  BY Members
<1> HIDE DEF n
<1> DEFINE T == {k \in Nat : k <= n /\ (\E i \in 1 .. k : q[i] \in old) =>
                   f[k] # <<>> /\ Head(f[k]) \in old}
<1>5. 0 \in T
  OBVIOUS
<1>6. ASSUME NEW k \in Nat, k \in T PROVE k + 1 \in T
  <2> SUFFICES ASSUME k + 1 <= n, \E i \in 1 .. (k + 1) : q[i] \in old
               PROVE  f[k + 1] # <<>> /\ Head(f[k + 1]) \in old
    OBVIOUS
  <2>1. k + 1 \in 1 .. n /\ (k + 1) - 1 = k /\ k \in 0 .. n
    BY <1>3
  <2>2. f[k + 1] = MoveUp(f[k], q[k + 1], old) /\ f[k] \in Seq(Buf)
    BY <1>2, <2>1 DEF SameMembers
  <2>3. CASE q[k + 1] \in old
    <3> DEFINE b == q[k + 1]  r == RemoveFirst(f[k], b)
    <3>1. f[k + 1] = <<b>> \o r /\ b \in Buf
      BY <1>3, <2>1, <2>2, <2>3 DEF MoveUp
    <3>2. r \in Seq(Buf)
      <4>1. f[k] \in Seq(Buf) /\ Single(f[k])
        BY <1>2, <2>1 DEF SameMembers
      <4>2. b \in ToSet(f[k])
        BY <1>2, <1>3, <1>4, <2>1, Members DEF SameMembers, n
      <4> QED BY <4>1, <4>2, TakenOff
    <3> HIDE DEF b, r
    <3>3. ToSet(<<b>> \o r) = ToSet(r) \cup {b} /\ Head(<<b>> \o r) = b
      BY <3>1, <3>2, PutFirst
    <3>4. <<b>> \o r # <<>>
      BY <3>1, <3>2
    <3> QED BY <2>3, <3>1, <3>3, <3>4 DEF b
  <2>4. CASE q[k + 1] \notin old
    <3>1. f[k + 1] = f[k]
      BY <2>2, <2>4 DEF MoveUp
    <3>2. \E i \in 1 .. k : q[i] \in old
      BY <2>4
    <3> QED BY <1>6, <2>1, <3>1, <3>2
  <2> QED BY <2>3, <2>4
<1> HIDE DEF T
<1>7. n \in T
  BY <1>3, <1>5, <1>6, SetInduction
<1>8. m \in SameMembers(q)
  BY <1>2, <1>3
<1>9. ASSUME NEW b \in ToSet(q), b \in old PROVE m # <<>> /\ Head(m) \in old
  <2>1. \E i \in 1 .. n : q[i] \in old
    BY <1>4, <1>9
  <2> QED BY <1>2, <1>3, <1>7, <2>1 DEF T
<1> QED BY <1>8, <1>9 DEF SameMembers

\* A step that leaves the processes' buffers as they are.
LEMMA QuietStep ==
    ASSUME GoodNow, NEW t, Sound(t, Held(call), News(call)), Mem(t) = Mem(Now),
           Goes(Now, t, Held(call), Held(call), Held(call)), BecomesWaking(t),
           UNCHANGED <<pc, call>>
    PROVE  GoodNow'
<1> DEFINE s == Now  B == Held(call)  N == News(call)
<1>1. Goes(s, t, B, B, {})
  BY GoesLess
<1>2. ASSUME NEW p \in Proc PROVE Has(t, pc[p], call[p])
  <2> DEFINE c == call[p]
  <2>1. c \in Call /\ Has(s, pc[p], c) /\ B = HeldBut(call, p) \cup One(c.bp)
    BY GoodIs
  <2>2. c.bp # NoBuf => c.bp \in B
    BY <2>1 DEF One
  <2> HIDE DEF s, B, c
  <2>3. Goes(s, t, B, B, B)
    BY DEF s, B
  <2> QED BY <2>1, <2>2, <2>3, HasStill DEF c
<1>3. Allowed(s, t, pc, call)
  BY <1>1, <1>2 DEF Allowed
<1> QED BY <1>3, SystemStep

\* The daemon writes one delayed buffer, after it has sorted the free list.
LEMMA FsflushGood ==
    ASSUME GoodNow, Fsflush PROVE GoodNow'
<1> DEFINE s == Now  B == Held(call)  N == News(call)
<1>1. PICK old \in (SUBSET Delayed(Now)) \ {{}} :
        LET move(list, b) == IF b \in old THEN <<b>> \o RemoveFirst(list, b) ELSE list
            sorted == [Now EXCEPT !.avail = FoldLeft(move, avail, avail)]
        IN  BecomesWaking(FlushOne(sorted, Head(sorted.avail)))
  BY DEF Fsflush
<1> DEFINE m == SortedBy(avail, old)
           u == [s EXCEPT !.avail = m]
           b == Head(u.avail)
           t == FlushOne(u, b)
<1>2. BecomesWaking(t) /\ UNCHANGED <<pc, call>>
  BY <1>1 DEF SortedBy, Fsflush
<1>3. s \in Cache /\ Sound(s, B, N) /\ s.avail = avail /\ s.saved = NoBuf
  BY NowIs DEF GoodNow, Good, Sound
<1>4. avail \in Seq(Buf) /\ Single(avail)
  BY <1>3, CacheFields DEF Sound, Lists
<1>5. \E d \in ToSet(avail) : d \in old
  <2>1. PICK d : d \in old
    BY <1>1
  <2>2. old \subseteq ToSet(s.avail)
    BY <1>1 DEF Delayed
  <2> HIDE DEF s
  <2> QED BY <1>3, <2>1, <2>2
<1>6. m \in Seq(Buf) /\ Single(m) /\ ToSet(m) = ToSet(avail) /\ m # <<>> /\ Head(m) \in old
  BY <1>4, <1>5, SortIs
<1> HIDE DEF m
<1>7. /\ u \in Cache /\ u.avail = m /\ u.buf = s.buf /\ u.io = s.io /\ u.bufsize = s.bufsize
      /\ u.wanted = s.wanted /\ u.woken = s.woken /\ u.saved = s.saved
  BY <1>3, <1>6 DEF Cache
<1>8. Resorted(s, u)
  BY <1>3, <1>6, <1>7 DEF Resorted, OnList
<1>9. Is(u, b, "DELWRI") /\ b \in OnList(u)
  <2>1. b \in old /\ b \in ToSet(avail) /\ Is(s, b, "DELWRI")
    BY <1>1, <1>3, <1>6, <1>7 DEF Delayed
  <2> QED BY <1>6, <1>7, <2>1 DEF Is, OnList
<1> HIDE DEF s, u, b, t, B, N
<1>10. Sound(u, B, N) /\ Goes(s, u, B, B, B) /\ Mem(u) = Mem(s)
  BY <1>3, <1>8, ResortedIs
<1>11. Flushed(u, t, b, B, N)
  <2>1. t = FlushOne(u, b) /\ u.saved = NoBuf
    BY <1>3, <1>7 DEF t
  <2> QED BY <1>9, <1>10, <2>1, FlushOneIs
<1>12. Sound(t, B, N) /\ Mem(t) = Mem(s) /\ Goes(s, t, B, B, B)
  <2>1. Goes(s, t, B, B, B)
    BY <1>3, <1>7, <1>10, <1>11, GoesOn DEF Flushed
  <2> QED BY <1>10, <1>11, <2>1 DEF Flushed
<1> QED BY <1>2, <1>12, QuietStep DEF s, B, N

\* A turn of bflush, and all of them
BflushTurn(t, b) == IF Is(t, b, "DELWRI") THEN FlushOne(t, b) ELSE t

Bflush(s, q) == FoldLeft(LAMBDA t, b : IF Is(t, b, "DELWRI") THEN FlushOne(t, b) ELSE t, s, q)

\* A turn keeps to the types.
LEMMA BflushTurnCache ==
    ASSUME NEW s, s \in Cache, NEW b, b \in Buf
    PROVE  BflushTurn(s, b) \in Cache
<1> DEFINE u == Notavail(s, b)  how == {"ASYNC"}
<1>1. u \in Cache
  BY NotavailCache
<1>2. FlushOne(s, b) = StartWrite(Flagged(u, b, how, {}), b)
  BY AsyncFirst DEF FlushOne
<1>3. how \in SUBSET Flag
  BY DEF Flag
<1> HIDE DEF u, how
<1>4. StartWrite(Flagged(u, b, how, {}), b) \in Cache
  BY <1>1, <1>3, WriteCache
<1> QED BY <1>2, <1>4 DEF BflushTurn

\* What the cache is after each turn
Bflushes(g, s, q, n) ==
    /\ g \in [0 .. n -> Cache] /\ g[0] = s /\ g[n] = Bflush(s, q)
    /\ \A i \in 1 .. n : g[i] = BflushTurn(g[i - 1], q[i])

\* bflush is a loop of such turns.
LEMMA BflushTurns ==
    ASSUME NEW s, s \in Cache, NEW q, q \in Seq(Buf)
    PROVE  \E g : Bflushes(g, s, q, Len(q))
<1> DEFINE n == Len(q)
           V == Cache
           turn(v, i) == BflushTurn(v, q[i])
           IsFold(g) == g = [a \in SUBSET DOMAIN q |->
                               IF a = {} THEN s ELSE turn(g[a \ {Max(a)}], Max(a))]
           it == CHOOSE g : IsFold(g)
           step == [p \in (1 .. n) \X V |-> turn(p[2], p[1])]
<1>1. Bflush(s, q) = it[DOMAIN q]
  BY DEF Bflush, FoldLeft, MapThenFoldSet, BflushTurn
<1>2. n \in Nat /\ DOMAIN q = 1 .. n /\ \A i \in 1 .. n : q[i] \in Buf
  OBVIOUS
<1> HIDE DEF n
<1>3. s \in V /\ \A v \in V, i \in 1 .. n : turn(v, i) \in V
  BY <1>2, BflushTurnCache
<1> HIDE DEF turn, V
<1>4. \A i \in 1 .. n, v \in V : step[<<i, v>>] = turn(v, i)
  OBVIOUS
<1>5. \A i \in 1 .. n, v \in V : step[<<i, v>>] \in V
  <2> HIDE DEF step
  <2>1. ASSUME NEW i \in 1 .. n, NEW v \in V PROVE step[<<i, v>>] \in V
    BY <1>3, <1>4
  <2> QED BY <2>1
<1> HIDE DEF step
<1>6. IsFold(it)
  <2>1. PICK g : IsLeftRecursion(g, n, V, s, step)
    BY <1>2, <1>3, <1>5, LeftRecursion
  <2>2. \A a \in SUBSET (1 .. n) : a # {} => g[a] = turn(g[a \ {Max(a)}], Max(a))
    BY <1>2, <1>4, <2>1, MaxIn DEF IsLeftRecursion
  <2>3. IsFold(g)
    BY <1>2, <2>1, <2>2 DEF IsLeftRecursion
  <2> HIDE DEF IsFold
  <2> QED BY <2>3
<1> HIDE DEF it
<1>7. it[{}] = s
  BY <1>6
<1>8. ASSUME NEW a \in SUBSET (1 .. n), a # {} /\ it[a \ {Max(a)}] \in V
      PROVE  it[a] = step[<<Max(a), it[a \ {Max(a)}]>>]
  BY <1>2, <1>4, <1>6, <1>8, MaxIn
<1>9. IsFoldOf(it, n, V, s, step)
  BY <1>7, <1>8 DEF IsFoldOf
<1>10. PICK f : IsLoopOf(f, it, n, V, s, step)
  BY <1>2, <1>3, <1>5, <1>9, FoldTurns
<1>11. /\ f \in [0 .. n -> V] /\ f[0] = s /\ f[n] = it[1 .. n]
       /\ \A i \in 1 .. n : f[i] = step[<<i, f[i - 1]>>]
  BY <1>10 DEF IsLoopOf
<1>12. \A i \in 1 .. n : f[i] = turn(f[i - 1], i)
  <2>1. \A i \in 1 .. n : f[i - 1] \in V
    BY <1>2, <1>11
  <2> QED BY <1>4, <1>11, <2>1
<1>13. Bflushes(f, s, q, n)
  BY <1>1, <1>2, <1>11, <1>12 DEF Bflushes, turn, V
<1> QED BY <1>13 DEF n

\* After k turns the rest of the free list is still there
FlushLoop(s, t, k, B, N) ==
    /\ t \in Cache /\ Sound(t, B, N) /\ Goes(s, t, B, B, B) /\ Mem(t) = Mem(s)
    /\ t.saved = NoBuf /\ \A i \in (k + 1) .. Len(s.avail) : s.avail[i] \in OnList(t)

\* A turn.
LEMMA FlushLoopTurns ==
    ASSUME NEW s, NEW B, NEW N, Sound(s, B, N), NEW k \in Nat, k + 1 <= Len(s.avail),
           NEW t, FlushLoop(s, t, k, B, N), NEW u, u = BflushTurn(t, s.avail[k + 1])
    PROVE  FlushLoop(s, u, k + 1, B, N)
<1> DEFINE q == s.avail  b == q[k + 1]  n == Len(q)
<1>1. s \in Cache /\ q \in Seq(Buf) /\ Single(q)
  BY CacheFields DEF Sound, Lists
<1>2. /\ t \in Cache /\ Sound(t, B, N) /\ Goes(s, t, B, B, B) /\ Mem(t) = Mem(s)
      /\ t.saved = NoBuf /\ \A i \in (k + 1) .. n : q[i] \in OnList(t)
  BY DEF FlushLoop
<1>3. n \in Nat /\ k + 1 \in (k + 1) .. n /\ \A i \in (k + 2) .. n : i \in (k + 1) .. n /\ i # k + 1
  BY <1>1
<1>4. b \in OnList(t) /\ \A i \in (k + 2) .. n : q[i] # b
  <2>1. \A i \in (k + 2) .. n : i \in 1 .. n /\ k + 1 \in 1 .. n
    BY <1>3
  <2> QED BY <1>1, <1>2, <1>3, <2>1 DEF Single
<1>5. CASE Is(t, b, "DELWRI")
  <2>1. u = FlushOne(t, b)
    BY <1>5 DEF BflushTurn
  <2> HIDE DEF q, b, n
  <2>2. Flushed(t, u, b, B, N)
    BY <1>2, <1>4, <1>5, <2>1, FlushOneIs
  <2>3. Goes(s, u, B, B, B)
    BY <1>1, <1>2, <2>2, GoesOn DEF Flushed
  <2>4. \A i \in (k + 2) .. n : q[i] \in OnList(u)
    BY <1>2, <1>3, <1>4, <2>2 DEF Flushed
  <2> QED BY <1>2, <2>2, <2>3, <2>4 DEF Flushed, FlushLoop, q, n
<1>6. CASE ~ Is(t, b, "DELWRI")
  <2>1. u = t
    BY <1>6 DEF BflushTurn
  <2> QED BY <1>2, <1>3, <2>1 DEF FlushLoop
<1> QED BY <1>5, <1>6

\* bflush.
LEMMA BflushIs ==
    ASSUME NEW s, NEW B, NEW N, Sound(s, B, N), s.saved = NoBuf, NEW t, t = Bflush(s, s.avail)
    PROVE  Sound(t, B, N) /\ Goes(s, t, B, B, B) /\ Mem(t) = Mem(s)
<1> DEFINE q == s.avail  n == Len(q)
<1>1. s \in Cache /\ q \in Seq(Buf) /\ n \in Nat
  BY CacheFields DEF Sound
<1>2. PICK g : Bflushes(g, s, q, n)
  BY <1>1, BflushTurns
<1>3. /\ g[0] = s /\ g[n] = t /\ \A i \in 1 .. n : g[i] = BflushTurn(g[i - 1], q[i])
  BY <1>2 DEF Bflushes
<1> DEFINE T == {k \in Nat : k <= n => FlushLoop(s, g[k], k, B, N)}
<1>4. 0 \in T
  <2>1. Goes(s, s, B, B, B)
    BY <1>1, StillGoes
  <2>2. \A i \in (0 + 1) .. n : q[i] \in OnList(s)
    BY <1>1 DEF OnList, ToSet
  <2> QED BY <1>1, <1>3, <2>1, <2>2 DEF FlushLoop
<1>5. ASSUME NEW k \in Nat, k \in T PROVE k + 1 \in T
  <2> SUFFICES ASSUME k + 1 <= n PROVE FlushLoop(s, g[k + 1], k + 1, B, N)
    OBVIOUS
  <2>1. FlushLoop(s, g[k], k, B, N) /\ k + 1 \in 1 .. n /\ (k + 1) - 1 = k
    BY <1>1, <1>5
  <2>2. g[k + 1] = BflushTurn(g[k], q[k + 1])
    BY <1>3, <2>1
  <2> QED BY <2>1, <2>2, FlushLoopTurns
<1> HIDE DEF T, n
<1>6. n \in T
  BY <1>1, <1>4, <1>5, SetInduction
<1> QED BY <1>1, <1>3, <1>6 DEF T, FlushLoop

\* binval: no buffer of the device can be found
Invalid(s) ==
    [s EXCEPT !.buf = [b \in Buf |->
       IF s.buf[b].blk # NoBlock
       THEN [s.buf[b] EXCEPT !.flags = @ \cup {"STALE", "AGE"}] ELSE s.buf[b]]]

\* The same cache with buffers that are stale
Invalidated(s, t) ==
    /\ t \in Cache /\ t.avail = s.avail /\ t.io = s.io /\ t.bufsize = s.bufsize
    /\ t.wanted = s.wanted /\ t.woken = s.woken
    /\ \A b \in Buf : /\ ~ Findable(t, b) /\ SameBut(t, s, b)
                      /\ \A f : f \notin {"STALE", "AGE"} => (Is(t, b, f) <=> Is(s, b, f))
                      /\ s.buf[b].blk = NoBlock => t.buf[b] = s.buf[b]

\* What binval does.
LEMMA InvalidIs ==
    ASSUME NEW s, s \in Cache, NEW t, t = Invalid(s)
    PROVE  Invalidated(s, t)
<1> DEFINE h(b) == IF s.buf[b].blk # NoBlock
                   THEN [s.buf[b] EXCEPT !.flags = @ \cup {"STALE", "AGE"}] ELSE s.buf[b]
           f == [b \in Buf |-> h(b)]
<1>1. ASSUME NEW b \in Buf
      PROVE  /\ h(b) \in Header /\ h(b).blk = s.buf[b].blk /\ h(b).size = s.buf[b].size
             /\ h(b).data = s.buf[b].data
             /\ s.buf[b].blk = NoBlock => h(b) = s.buf[b]
             /\ s.buf[b].blk # NoBlock => h(b).flags = s.buf[b].flags \cup {"STALE", "AGE"}
  <2>1. s.buf[b] \in Header
    BY HeaderFields
  <2> QED BY <2>1 DEF Header, Flag
<1>2. t = [s EXCEPT !.buf = f]
  BY DEF Invalid
<1> HIDE DEF h
<1>3. f \in [Buf -> Header] /\ \A b \in Buf : f[b] = h(b)
  BY <1>1
<1> HIDE DEF f
<1>4. /\ t \in Cache /\ t.buf = f /\ t.avail = s.avail /\ t.io = s.io /\ t.bufsize = s.bufsize
      /\ t.wanted = s.wanted /\ t.woken = s.woken
  BY <1>2, <1>3 DEF Cache
<1>5. ASSUME NEW b \in Buf
      PROVE  /\ ~ Findable(t, b) /\ SameBut(t, s, b)
             /\ \A g : g \notin {"STALE", "AGE"} => (Is(t, b, g) <=> Is(s, b, g))
             /\ s.buf[b].blk = NoBlock => t.buf[b] = s.buf[b]
  <2>1. t.buf[b] = h(b)
    BY <1>3, <1>4
  <2> QED BY <1>1, <2>1 DEF Findable, SameBut, Is
<1> QED BY <1>4, <1>5 DEF Invalidated

\* The buffers stay where they are.
LEMMA InvalidatedSound ==
    ASSUME NEW s, NEW B, NEW N, Sound(s, B, N), NEW t, Invalidated(s, t)
    PROVE  Sound(t, B, N) /\ Goes(s, t, B, B, {}) /\ Mem(t) = Mem(s)
<1>1. /\ t \in Cache /\ t.avail = s.avail /\ t.io = s.io /\ t.bufsize = s.bufsize
      /\ t.wanted = s.wanted /\ t.woken = s.woken /\ s \in Cache
  BY DEF Invalidated, Sound
<1>2. ASSUME NEW b \in Buf
      PROVE  /\ ~ Findable(t, b) /\ SameBut(t, s, b)
             /\ Is(t, b, "BUSY") <=> Is(s, b, "BUSY")
             /\ Is(t, b, "ASYNC") <=> Is(s, b, "ASYNC")
             /\ Is(t, b, "DONE") <=> Is(s, b, "DONE")
             /\ Is(t, b, "WANTED") <=> Is(s, b, "WANTED")
             /\ Is(t, b, "DELWRI") <=> Is(s, b, "DELWRI")
             /\ s.buf[b].blk = NoBlock => t.buf[b] = s.buf[b]
  BY DEF Invalidated
<1>3. OnList(t) = OnList(s) /\ InDriver(t) = InDriver(s)
  BY <1>1 DEF OnList, InDriver
<1>4. Sound(t, B, N)
  <2>1. Lists(t)
    BY <1>1 DEF Sound, Lists
  <2>2. Unique(t)
    BY <1>2 DEF Unique
  <2>3. ASSUME NEW b \in Buf PROVE Role(t, b, B, N)
    <3>1. Role(s, b, B, N)
      BY DEF Sound
    <3>2. Named(t, b) <=> Named(s, b)
      BY <1>2, <1>3 DEF Named, SameBut
    <3>3. s.buf[b] = Unused => t.buf[b] = Unused
      BY <1>2 DEF Unused
    <3> QED BY <1>2, <1>3, <3>1, <3>2, <3>3 DEF Role, SameBut
  <2> QED BY <1>1, <2>1, <2>2, <2>3 DEF Sound
<1>5. Goes(s, t, B, B, {})
  <2>1. MemoryServed(s, t)
    BY <1>1, CacheFields DEF MemoryServed
  <2>2. \A b \in Buf : Served(s, t, b, B, B)
    BY <1>2, <1>3 DEF Served, Waited
  <2> QED BY <1>1, <2>1, <2>2 DEF Goes
<1>6. Mem(t) = Mem(s)
  <2>1. \A b \in Buf : t.buf[b].size = s.buf[b].size
    BY <1>2 DEF SameBut
  <2> QED BY <1>1, <2>1, MemSame
<1> QED BY <1>4, <1>5, <1>6

\* The last close: bflush, then binval.
LEMMA DeviceCloseGood ==
    ASSUME GoodNow, DeviceClose PROVE GoodNow'
<1> DEFINE s == Now  B == Held(call)  N == News(call)
           u == Bflush(s, s.avail)
           t == Invalid(u)
<1>1. /\ \A p \in Proc : pc[p] = "user"
      /\ BecomesWaking(t) /\ UNCHANGED <<pc, call>>
  BY NowIs DEF DeviceClose, Bflush, Invalid
<1>2. s \in Cache /\ Sound(s, B, N) /\ s.saved = NoBuf
  BY NowIs DEF GoodNow, Good, Sound
<1> HIDE DEF s, B, N
<1>3. Sound(u, B, N) /\ Goes(s, u, B, B, B) /\ Mem(u) = Mem(s)
  BY <1>2, BflushIs
<1> HIDE DEF u
<1>4. Invalidated(u, t)
  BY <1>3, InvalidIs DEF Sound
<1> HIDE DEF t
<1>5. Sound(t, B, N) /\ Goes(u, t, B, B, {}) /\ Mem(t) = Mem(u)
  BY <1>3, <1>4, InvalidatedSound
<1>6. Goes(s, t, B, B, {})
  <2>1. Goes(s, u, B, B, {})
    BY <1>3, GoesLess
  <2>2. u \in Cache /\ t \in Cache
    BY <1>3, <1>5 DEF Sound
  <2> QED BY <1>2, <1>5, <2>1, <2>2, GoesOn
<1>7. \A p \in Proc : Has(t, pc[p], call[p])
  BY <1>1, UserIs DEF Has
<1>8. Allowed(s, t, pc, call)
  <2>1. Mem(t) = Mem(s)
    BY <1>3, <1>5
  <2> QED BY <1>5, <1>6, <1>7, <2>1 DEF Allowed, B, N
<1> QED BY <1>1, <1>8, SystemStep DEF s

\* The driver has finished with b, which it has filled or not
Ended(s, t, b, on) ==
    /\ OnlyAt(s, t, b) /\ SameRest(t, s) /\ t.avail = s.avail
    /\ InDriver(t) = InDriver(s) \ {b}
    /\ t.buf[b].blk = s.buf[b].blk /\ t.buf[b].size = s.buf[b].size
    /\ t.buf[b].flags = s.buf[b].flags \cup on

\* A request leaves the driver's queue, and flags of its buffer are set.
LEMMA RequestDone ==
    ASSUME NEW s, s \in Cache, Lists(s), NEW r, r \in ToSet(s.io), NEW b, b \in Buf, b = r.bp,
           NEW on, on \in SUBSET Flag,
           NEW t, t = [Flagged(s, b, on, {}) EXCEPT !.io = RemoveFirst(s.io, r)]
    PROVE  Ended(s, t, b, on)
<1> DEFINE u == Flagged(s, b, on, {})  m == RemoveFirst(s.io, r)
<1>1. s.io \in Seq(Request) /\ Apart(s.io)
  BY CacheFields DEF Lists
<1>2. m \in Seq(Request) /\ Apart(m) /\ Bps(m) = Bps(s.io) \ {b}
  BY <1>1, RequestEnds
<1>3. /\ OnlyBuf(s, u, b) /\ SameBut(u, s, b)
      /\ u.buf[b].flags = (s.buf[b].flags \ {}) \cup on
  BY FlagsAre
<1>4. t = [u EXCEPT !.io = m]
  OBVIOUS
<1> HIDE DEF u, m
<1>5. u \in Cache
  BY <1>3 DEF OnlyBuf
<1>6. /\ t \in Cache /\ t.buf = u.buf /\ t.avail = u.avail /\ t.bufsize = u.bufsize
      /\ t.wanted = u.wanted /\ t.io = m /\ t.woken = u.woken /\ t.saved = u.saved
      /\ t.stop = u.stop
  BY <1>2, <1>4, <1>5 DEF Cache
<1>7. InDriver(t) = InDriver(s) \ {b} /\ OnList(t) = OnList(s)
  BY <1>2, <1>3, <1>6 DEF InDriver, OnList, OnlyBuf
<1>8. Lists(t)
  BY <1>2, <1>3, <1>6 DEF Lists, OnlyBuf
<1>9. OnlyAt(s, t, b)
  BY <1>3, <1>6, <1>7, <1>8 DEF OnlyAt, OnlyBuf
<1>10. SameRest(t, s) /\ t.avail = s.avail
  BY <1>3, <1>6 DEF SameRest, OnlyBuf
<1> QED BY <1>3, <1>6, <1>7, <1>9, <1>10 DEF Ended, SameBut

\* A read that went well has filled the buffer.
LEMMA ReadDone ==
    ASSUME NEW s, NEW u, NEW b, b \in Buf, NEW on, Ended(s, u, b, on), NEW v, v \in Value,
           NEW t, t = Refilled(u, b, v)
    PROVE  Ended(s, t, b, on)
<1>1. OnlyAt(s, u, b) /\ u \in Cache /\ Lists(u)
  BY DEF Ended, OnlyAt
<1>2. /\ OnlyBuf(u, t, b) /\ t.buf[b].flags = u.buf[b].flags
      /\ t.buf[b].blk = u.buf[b].blk /\ t.buf[b].size = u.buf[b].size
  BY <1>1, RefillIs DEF RefilledIs
<1>3. /\ OnlyAt(u, t, b) /\ SameRest(t, u) /\ t.avail = u.avail /\ InDriver(t) = InDriver(u)
  BY <1>1, <1>2, OnlyBufAt
<1>4. OnlyAt(s, t, b)
  BY <1>1, <1>3, OnlyAtTwice
<1> QED BY <1>2, <1>3, <1>4 DEF Ended, SameRest

\* A buffer that the driver has is one that a process waits for, or is the driver's.
LEMMA DriversIs ==
    ASSUME NEW s, NEW B, NEW N, Sound(s, B, N), NEW b \in Buf, b \in InDriver(s)
    PROVE  /\ b \notin OnList(s) /\ b \notin N /\ Is(s, b, "BUSY") /\ ~ Is(s, b, "DONE")
           /\ s.buf[b].size > 0 /\ s.buf[b].blk # NoBlock /\ (Is(s, b, "ASYNC") <=> b \notin B)
<1>1. Role(s, b, B, N)
  BY DEF Sound
<1> QED BY <1>1 DEF Role, Named

\* A step that leaves the processes' buffers B and N as they are
Quiet(s, t, B, N) == Sound(t, B, N) /\ Goes(s, t, B, B, B) /\ Mem(t) = Mem(s)

\* biodone releases a buffer that nobody waits for.
LEMMA FinishReleases ==
    ASSUME NEW s, NEW B, NEW N, Sound(s, B, N), NEW b, b \in Buf, b \in InDriver(s), b \notin B,
           NEW on, on \subseteq {"DONE", "ERROR"}, NEW u, Ended(s, u, b, on),
           NEW t, t = Brelse(u, b)
    PROVE  Quiet(s, t, B, N)
<1>1. /\ s \in Cache /\ b \notin OnList(s) /\ b \notin N /\ s.buf[b].size > 0
      /\ s.buf[b].blk # NoBlock
  BY DriversIs DEF Sound
<1>2. /\ OnlyAt(s, u, b) /\ SameRest(u, s) /\ u.avail = s.avail
      /\ InDriver(u) = InDriver(s) \ {b}
      /\ u.buf[b].blk = s.buf[b].blk /\ u.buf[b].size = s.buf[b].size
      /\ u.buf[b].flags = s.buf[b].flags \cup on
  BY DEF Ended
<1>3. u \in Cache /\ Lists(u) /\ b \notin OnList(u)
  BY <1>1, <1>2 DEF OnlyAt, OnList
<1>4. /\ OnlyAt(u, t, b) /\ SameBut(t, u, b) /\ t.io = u.io
      /\ OnList(t) = OnList(u) \cup {b}
      /\ t.bufsize = u.bufsize /\ ~ t.wanted /\ t.woken = u.woken \cup BrelseWakes(u, b)
      /\ ~ Is(t, b, "BUSY") /\ ~ Is(t, b, "ASYNC")
      /\ Is(u, b, "STALE") => Is(t, b, "STALE")
  BY <1>3, BrelseIs
<1>5. OnlyAt(s, t, b)
  BY <1>2, <1>4, OnlyAtTwice
<1>6. b \notin InDriver(t) /\ b \in OnList(t)
  BY <1>2, <1>4 DEF InDriver
<1>7. Role(t, b, B, N)
  BY <1>1, <1>2, <1>4, <1>6 DEF Role, SameBut, Named
<1>8. Is(s, b, "STALE") => Is(t, b, "STALE")
  BY <1>2, <1>4 DEF Is
<1>9. Sound(t, B, N)
  BY <1>2, <1>4, <1>5, <1>7, <1>8, SoundSame DEF SameBut
<1>10. Served(s, t, b, B, B)
  <2>1. Is(s, b, "WANTED") => Is(u, b, "WANTED")
    BY <1>2 DEF Is
  <2> QED BY <1>4, <2>1 DEF Served, Waited, BrelseWakes
<1>11. MemoryServed(s, t)
  BY <1>2, <1>4 DEF MemoryServed, BrelseWakes, SameRest
<1>12. Goes(s, t, B, B, B)
  BY <1>2, <1>4, <1>5, <1>10, <1>11, GoesStep DEF SameRest
<1>13. Mem(t) = Mem(s)
  <2>1. \A c \in Buf : t.buf[c].size = s.buf[c].size
    BY <1>2, <1>4, <1>5 DEF SameBut, OnlyAt
  <2>2. t.bufsize = s.bufsize
    BY <1>2, <1>4 DEF SameRest
  <2> QED BY <2>1, <2>2, MemSame
<1> QED BY <1>9, <1>12, <1>13 DEF Quiet

\* Flags of b are cleared, and nothing else
Cleared(s, t, b, off) ==
    OnlyBuf(s, t, b) /\ SameBut(t, s, b) /\ t.buf[b].flags = s.buf[b].flags \ off

\* Flags are cleared.
LEMMA ClearedIs ==
    ASSUME NEW s, s \in Cache, NEW b, b \in Buf, NEW off, NEW t, t = Flagged(s, b, {}, off)
    PROVE  Cleared(s, t, b, off)
<1> DEFINE on == {}
<1>1. on \in SUBSET Flag /\ t = Flagged(s, b, on, off)
  OBVIOUS
<1> HIDE DEF on
<1>2. /\ OnlyBuf(s, t, b) /\ SameBut(t, s, b)
      /\ t.buf[b].flags = (s.buf[b].flags \ off) \cup on
  BY <1>1, FlagsAre
<1>3. t.buf[b].flags = s.buf[b].flags \ off
  BY <1>2 DEF on
<1> QED BY <1>2, <1>3 DEF Cleared

\* The driver has finished with a buffer that a process waits for
FinishedFor(s, t, b, B, N) ==
    /\ Sound(t, B, N) /\ Goes(s, t, B, B, B \ {b}) /\ Mem(t) = Mem(s)
    /\ t.buf[b].blk = s.buf[b].blk /\ (Is(t, b, "STALE") <=> Is(s, b, "STALE"))
    /\ Is(t, b, "DONE") /\ b \notin InDriver(t)

\* The cache u, after it has woken those who sleep on b
Awoken(u, b) == [Flagged(u, b, {}, {"WANTED"}) EXCEPT !.woken = @ \cup {<<"buf", b>>}]

\* biodone wakes those who wait for the request, and for the buffer.
LEMMA FinishWakes ==
    ASSUME NEW s, NEW B, NEW N, Sound(s, B, N), NEW b, b \in Buf, b \in InDriver(s), b \in B,
           NEW on, on \subseteq {"DONE", "ERROR"}, "DONE" \in on, NEW u, Ended(s, u, b, on),
           NEW t, t = Awoken(u, b)
    PROVE  FinishedFor(s, t, b, B, N)
<1>1. /\ s \in Cache /\ b \notin OnList(s) /\ b \notin N /\ s.buf[b].size > 0
      /\ s.buf[b].blk # NoBlock /\ Is(s, b, "BUSY") /\ ~ Is(s, b, "ASYNC")
  BY DriversIs DEF Sound
<1>2. /\ OnlyAt(s, u, b) /\ SameRest(u, s) /\ u.avail = s.avail
      /\ InDriver(u) = InDriver(s) \ {b}
      /\ u.buf[b].blk = s.buf[b].blk /\ u.buf[b].size = s.buf[b].size
      /\ u.buf[b].flags = s.buf[b].flags \cup on
  BY DEF Ended
<1>3. u \in Cache /\ Lists(u)
  BY <1>2 DEF OnlyAt
<1> DEFINE v == Flagged(u, b, {}, {"WANTED"})
<1>4. /\ OnlyBuf(u, v, b) /\ SameBut(v, u, b)
      /\ v.buf[b].flags = u.buf[b].flags \ {"WANTED"}
  <2>1. v = Flagged(u, b, {}, {"WANTED"})
    OBVIOUS
  <2> HIDE DEF v
  <2>2. Cleared(u, v, b, {"WANTED"})
    BY <1>3, <2>1, ClearedIs
  <2> QED BY <2>2 DEF Cleared
<1>5. t = [v EXCEPT !.woken = @ \cup {<<"buf", b>>}]
  BY DEF Awoken
<1> HIDE DEF v
<1>6. <<"buf", b>> \in Chan
  BY DEF Chan
<1>7. /\ t \in Cache /\ t.buf = v.buf /\ t.avail = v.avail /\ t.bufsize = v.bufsize
      /\ t.wanted = v.wanted /\ t.io = v.io /\ t.saved = v.saved /\ t.stop = v.stop
      /\ t.woken = v.woken \cup {<<"buf", b>>}
  <2>1. v \in Cache
    BY <1>4 DEF OnlyBuf
  <2> QED BY <1>5, <1>6, <2>1 DEF Cache
<1>8. /\ OnlyAt(u, t, b) /\ t.avail = u.avail /\ InDriver(t) = InDriver(u)
      /\ t.bufsize = u.bufsize /\ t.wanted = u.wanted
      /\ t.woken = u.woken \cup {<<"buf", b>>}
  BY <1>3, <1>4, <1>7 DEF OnlyAt, OnlyBuf, Lists, OnList, InDriver
<1>9. /\ t.buf[b].blk = s.buf[b].blk /\ t.buf[b].size = s.buf[b].size
      /\ t.buf[b].flags = (s.buf[b].flags \cup on) \ {"WANTED"}
  BY <1>2, <1>4, <1>7 DEF SameBut
<1>10. OnlyAt(s, t, b)
  BY <1>2, <1>8, OnlyAtTwice
<1>11. b \notin InDriver(t) /\ b \notin OnList(t)
  BY <1>1, <1>2, <1>8 DEF OnList
<1>12. /\ Is(t, b, "BUSY") /\ ~ Is(t, b, "ASYNC") /\ Is(t, b, "DONE")
       /\ Is(t, b, "STALE") <=> Is(s, b, "STALE")
  BY <1>1, <1>9 DEF Is
<1>13. Sound(t, B, N)
  <2>1. Role(t, b, B, N)
    BY <1>1, <1>9, <1>11, <1>12 DEF Role, Named
  <2> QED BY <1>9, <1>10, <1>12, <2>1, SoundSame
<1>14. Goes(s, t, B, B, B \ {b})
  <2>1. Served(s, t, b, B, B)
    BY <1>8 DEF Served
  <2>2. MemoryServed(s, t)
    <3>1. t.avail = s.avail /\ t.bufsize = s.bufsize /\ t.wanted = s.wanted
      BY <1>2, <1>8 DEF SameRest
    <3>2. s.bufsize \in Nat
      BY <1>1, CacheFields
    <3> QED BY <3>1, <3>2 DEF MemoryServed
  <2>3. s.woken \subseteq t.woken
    BY <1>2, <1>8 DEF SameRest
  <2> QED BY <1>10, <2>1, <2>2, <2>3, GoesStep
<1>15. Mem(t) = Mem(s)
  <2>1. \A c \in Buf : t.buf[c].size = s.buf[c].size
    BY <1>9, <1>10 DEF OnlyAt
  <2>2. t.bufsize = s.bufsize
    BY <1>2, <1>8 DEF SameRest
  <2> QED BY <2>1, <2>2, MemSame
<1> QED BY <1>9, <1>11, <1>12, <1>13, <1>14, <1>15 DEF FinishedFor

\* That is a step of the system.
LEMMA WakingStep ==
    ASSUME GoodNow, NEW b, b \in Buf, NEW t, FinishedFor(Now, t, b, Held(call), News(call)),
           BecomesWaking(t), b \in InDriver(Now), UNCHANGED <<pc, call>>
    PROVE  GoodNow'
<1> DEFINE s == Now  B == Held(call)  N == News(call)
<1>1. /\ Sound(t, B, N) /\ Goes(s, t, B, B, B \ {b}) /\ Mem(t) = Mem(s)
      /\ t.buf[b].blk = s.buf[b].blk /\ (Is(t, b, "STALE") <=> Is(s, b, "STALE"))
      /\ Is(t, b, "DONE") /\ b \notin InDriver(t)
  BY DEF FinishedFor
<1>2. Goes(s, t, B, B, {})
  BY <1>1, GoesLess
<1>3. ASSUME NEW p \in Proc PROVE Has(t, pc[p], call[p])
  <2> DEFINE c == call[p]  w == pc[p]
  <2>1. c \in Call /\ Has(s, w, c) /\ B = HeldBut(call, p) \cup One(c.bp)
    BY GoodIs
  <2>2. c.bp # NoBuf => c.bp \in B
    BY <2>1 DEF One
  <2>3. b \in InDriver(s)
    OBVIOUS
  <2> HIDE DEF s, B, c, w
  <2>4. CASE c.bp = b
    BY <1>1, <2>1, <2>3, <2>4 DEF Has, c, w
  <2>5. CASE c.bp # b
    <3>1. c.bp # NoBuf => c.bp \in B \ {b}
      BY <2>2, <2>5
    <3> QED BY <1>1, <2>1, <3>1, HasStill DEF c, w
  <2> QED BY <2>4, <2>5
<1>4. Allowed(s, t, pc, call)
  BY <1>1, <1>2, <1>3 DEF Allowed
<1> QED BY <1>4, SystemStep

\* What is done after B_DONE is set, for a buffer that the driver had.
LEMMA FinishGood ==
    ASSUME GoodNow, NEW b, b \in Buf, b \in InDriver(Now),
           NEW on, on \subseteq {"DONE", "ERROR"}, "DONE" \in on, NEW u, Ended(Now, u, b, on),
           NEW t, t = Finished(u, b), BecomesWaking(t), UNCHANGED <<pc, call>>
    PROVE  GoodNow'
<1> DEFINE s == Now  B == Held(call)  N == News(call)
<1>1. Sound(s, B, N)
  BY DEF GoodNow, Good
<1>2. b \in InDriver(s) /\ Ended(s, u, b, on)
  OBVIOUS
<1>3. Is(u, b, "ASYNC") <=> b \notin B
  <2> HIDE DEF s, B, N
  <2>1. Is(s, b, "ASYNC") <=> b \notin B
    BY <1>1, <1>2, DriversIs
  <2>2. u.buf[b].flags = s.buf[b].flags \cup on
    BY <1>2 DEF Ended
  <2> QED BY <2>1, <2>2 DEF Is
<1>4. CASE b \notin B
  <2>1. t = Brelse(u, b)
    BY <1>3, <1>4 DEF Finished
  <2> HIDE DEF s, B, N
  <2>2. Quiet(s, t, B, N)
    BY <1>1, <1>2, <1>4, <2>1, FinishReleases
  <2> QED BY <2>2, QuietStep DEF Quiet, s, B, N
<1>5. CASE b \in B
  <2>1. t = Awoken(u, b)
    BY <1>3, <1>5 DEF Finished, Awoken
  <2> HIDE DEF s, B, N
  <2>2. FinishedFor(s, t, b, B, N)
    BY <1>1, <1>2, <1>5, <2>1, FinishWakes
  <2> QED BY <2>2, WakingStep DEF s, B, N
<1> QED BY <1>4, <1>5

\* What the disk contains
DiskType == disk \in [Block -> Value]

\* The end of a request, well or with an error.
LEMMA BiodoneGood ==
    ASSUME GoodNow, DiskType, NEW r, r \in ToSet(io), NEW error, Biodone(r, error)
    PROVE  GoodNow' /\ DiskType'
<1> DEFINE s == Now  b == r.bp  k == buf[b].blk
           on == {"DONE"} \cup (IF error THEN {"ERROR"} ELSE {})
           u == [Flagged(s, b, on, {}) EXCEPT !.io = RemoveFirst(io, r)]
           full == r.read /\ ~ error
           v == IF full THEN [u EXCEPT !.buf[b].data = disk[k]] ELSE u
           t == Finished(v, b)
<1>1. /\ BecomesWaking(t) /\ UNCHANGED <<pc, call>>
      /\ disk' = IF r.read \/ error THEN disk ELSE [disk EXCEPT ![k] = buf[b].data]
  BY DEF Biodone
<1>2. s \in Cache /\ Lists(s) /\ Sound(s, Held(call), News(call)) /\ s.io = io /\ s.buf = buf
  BY NowIs DEF GoodNow, Good, Sound
<1>3. r \in Request /\ b \in Buf /\ b \in InDriver(s)
  <2>1. s.io \in Seq(Request) /\ r \in ToSet(s.io)
    BY <1>2, CacheFields
  <2> HIDE DEF s
  <2>2. r \in Request
    BY <2>1, Members
  <2>3. r.bp \in Buf
    BY <2>2 DEF Request
  <2>4. r.bp \in InDriver(s)
    BY <2>1 DEF InDriver, Bps
  <2> QED BY <2>2, <2>3, <2>4
<1>4. on \in SUBSET Flag /\ on \subseteq {"DONE", "ERROR"} /\ "DONE" \in on
  BY DEF Flag
<1>5. s.buf[b].blk \in Block /\ s.buf[b].data \in Value
  <2> HIDE DEF s, b
  <2>1. s.buf[b].blk # NoBlock
    BY <1>2, <1>3, DriversIs
  <2>2. s.buf[b].blk \in Block \cup {NoBlock} /\ s.buf[b].data \in Value
    BY <1>2, <1>3, HeaderFields
  <2> QED BY <2>1, <2>2
<1>6. Ended(s, u, b, on)
  <2>1. u = [Flagged(s, b, on, {}) EXCEPT !.io = RemoveFirst(s.io, r)] /\ r \in ToSet(s.io)
    BY <1>2
  <2>2. b = r.bp
    OBVIOUS
  <2> HIDE DEF s, b, on, u
  <2> QED BY <1>2, <1>3, <1>4, <2>1, <2>2, RequestDone
<1>7. disk[k] \in Value
  <2>1. k \in Block
    BY <1>2, <1>5
  <2> HIDE DEF k
  <2> QED BY <2>1 DEF DiskType
<1>8. Ended(s, v, b, on)
  <2>1. CASE full
    <3>1. v = Refilled(u, b, disk[k])
      BY <2>1 DEF Refilled
    <3> DEFINE d == disk[k]
    <3>2. d \in Value /\ v = Refilled(u, b, d)
      BY <1>7, <3>1
    <3> HIDE DEF s, b, on, u, v, d
    <3> QED BY <1>3, <1>6, <3>2, ReadDone
  <2>2. CASE ~ full
    <3>1. v = u
      BY <2>2
    <3> HIDE DEF v, u
    <3> QED BY <1>6, <3>1
  <2> QED BY <2>1, <2>2
<1>9. GoodNow'
  <2>1. t = Finished(v, b)
    OBVIOUS
  <2> HIDE DEF b, on, v, t
  <2> QED BY <1>1, <1>3, <1>4, <1>8, <2>1, FinishGood
<1>10. DiskType'
  <2>1. k \in Block /\ buf[b].data \in Value
    BY <1>2, <1>5
  <2> DEFINE d == buf[b].data
  <2>2. d \in Value
    BY <2>1
  <2>3. disk' = disk \/ disk' = [disk EXCEPT ![k] = d]
    BY <1>1
  <2> HIDE DEF k, d
  <2> QED BY <2>1, <2>2, <2>3 DEF DiskType
<1> QED BY <1>9, <1>10

-----------------------------------------------------------------------------
(* The invariant *)

\* The cache is sound, each process has what it may have where it is, who sleeps
\* will be woken, no memory is lost, and the disk contains values
IInv == GoodNow /\ DiskType

\* At first nobody has a buffer and no buffer has memory.
LEMMA InitGood == ASSUME Init PROVE IInv
<1> DEFINE s == Now  B == Held(call)  N == News(call)
<1>1. /\ buf = [b \in Buf |-> Unused] /\ avail = <<>> /\ bufsize = MEM /\ wanted = FALSE
      /\ io = <<>> /\ wchan = [p \in Proc |-> NoChan] /\ pc = [p \in Proc |-> "user"]
      /\ call = [p \in Proc |-> NoCall] /\ disk \in [Block -> Value]
  BY DEF Init
<1>2. /\ Unused \in Header /\ Unused.blk = NoBlock /\ Unused.flags = {} /\ Unused.size = 0
  BY ContentsAssumption DEF Unused, Header
<1>3. \A p \in Proc : pc[p] = "user" /\ call[p] = NoCall /\ wchan[p] = NoChan
  BY <1>1
<1>4. B = {} /\ N = {}
  BY <1>3, CallIs DEF Held, News
<1>5. s \in Cache /\ s.avail = <<>> /\ s.io = <<>> /\ \A b \in Buf : s.buf[b] = Unused
  <2>1. buf \in [Buf -> Header] /\ \A b \in Buf : buf[b] = Unused
    BY <1>1, <1>2
  <2>2. MEM \in Nat /\ avail \in Seq(Buf) /\ io \in Seq(Request)
    BY <1>1, SizesAssumption
  <2> QED BY <1>1, <2>1, <2>2 DEF Now, Cache
<1>6. OnList(s) = {} /\ InDriver(s) = {} /\ Lists(s)
  <2> HIDE DEF s
  <2> QED BY <1>5 DEF OnList, InDriver, Bps, Lists, Single, Apart, ToSet
<1>7. \A b \in Buf : Role(s, b, B, N)
  <2> HIDE DEF s, B, N
  <2> QED BY <1>4, <1>5, <1>6 DEF Role
<1>8. Unique(s)
  <2> HIDE DEF s
  <2> QED BY <1>2, <1>5 DEF Unique, Findable
<1>9. Sound(s, B, N)
  BY <1>5, <1>6, <1>7, <1>8 DEF Sound
<1>10. Tables(wchan, pc, call)
  <2>1. NoCall \in Call /\ "user" \in Pcs
    BY CallIs DEF Pcs
  <2> QED BY <1>1, <2>1 DEF Tables
<1>11. Distinct(call)
  BY <1>3, CallIs DEF Distinct
<1>12. \A p \in Proc : Place(pc[p], call[p])
  BY <1>3 DEF Place
<1>13. \A p \in Proc : Has(s, pc[p], call[p]) /\ Waits(s, B, wchan[p], pc[p], call[p])
  BY <1>3, CallIs DEF Has, Waits
<1>14. Mem(s) + SumFunction(Asides(pc, call)) = MEM
  <2> DEFINE f == Sizes(s)  g == Asides(pc, call)
  <2>1. DOMAIN f = Buf /\ \A b \in Buf : f[b] = 0
    BY <1>2, <1>5 DEF Sizes
  <2>2. DOMAIN g = Proc /\ \A p \in Proc : g[p] = 0
    BY <1>3 DEF Asides, SetAside
  <2>3. s.bufsize = MEM
    BY <1>1, NowIs
  <2> HIDE DEF s, f, g
  <2>4. SumFunction(f) = 0 /\ SumFunction(g) = 0
    BY <2>1, <2>2, PoolsAssumption, SumOfZeros
  <2> QED BY <2>3, <2>4, SizesAssumption DEF Mem, f, g
<1> QED BY <1>1, <1>9, <1>10, <1>11, <1>12, <1>13, <1>14 DEF IInv, DiskType, GoodNow, Good, s, B, N

\* Only the driver writes to the disk.
LEMMA ProcessesLeaveDisk ==
    ASSUME NEW p \in Proc, Starts(p) \/ Continue(p) \/ Releases(p) PROVE UNCHANGED disk
<1>1. CASE Starts(p)
  BY <1>1 DEF Starts, Bread, GetblkCall, Blookup, Blkflush, BlkflushTurn, Breada, Ngeteblk, Getblk
<1>2. CASE Continue(p)
  BY <1>2 DEF Continue, GetblkAgain, GetblkAlloc, BreadaAhead, BlkflushAgain, BlkflushTurn,
              BiowaitSleep, BiowaitRead, BiowaitWrite, Getblk
<1>3. CASE Releases(p)
  BY <1>3 DEF Releases, BrelseCall, Bdwrite, Bwrite, Bawrite
<1> QED BY <1>1, <1>2, <1>3

\* Every step of a process keeps the cache good.
LEMMA ProcessGood ==
    ASSUME GoodNow, NEW p \in Proc, Starts(p) \/ Continue(p) \/ Releases(p) PROVE GoodNow'
<1>1. ASSUME NEW blk \in Block, Bread(p, blk) PROVE GoodNow'
  BY <1>1, BreadGood
<1>2. ASSUME NEW blk \in Block, GetblkCall(p, blk) PROVE GoodNow'
  BY <1>2, GetblkCallGood
<1>3. ASSUME NEW blk \in Block, Blookup(p, blk) PROVE GoodNow'
  BY <1>3, BlookupGood
<1>4. ASSUME NEW blk \in Block, Blkflush(p, blk) PROVE GoodNow'
  BY <1>4, BlkflushGood
<1>5. ASSUME NEW blk \in Block, NEW ra \in Block, Breada(p, blk, ra) PROVE GoodNow'
  BY <1>5, BreadaGood
<1>6. CASE Ngeteblk(p)
  BY <1>6, NgeteblkGood
<1>7. CASE GetblkAgain(p)
  BY <1>7, GetblkAgainGood
<1>8. CASE GetblkAlloc(p)
  BY <1>8, GetblkAllocGood
<1>9. CASE BreadaAhead(p)
  BY <1>9, BreadaAheadGood
<1>10. CASE BlkflushAgain(p)
  BY <1>10, BlkflushAgainGood
<1>11. CASE BiowaitSleep(p)
  BY <1>11, BiowaitSleepGood
<1>12. CASE BiowaitRead(p)
  BY <1>12, BiowaitReadGood
<1>13. CASE BiowaitWrite(p)
  BY <1>13, BiowaitWriteGood
<1>14. CASE BrelseCall(p)
  BY <1>14, BrelseCallGood
<1>15. ASSUME NEW v \in Value, Bdwrite(p, v) PROVE GoodNow'
  BY <1>15, BdwriteGood
<1>16. ASSUME NEW v \in Value, Bwrite(p, v) PROVE GoodNow'
  BY <1>16, BwriteGood
<1>17. ASSUME NEW v \in Value, Bawrite(p, v) PROVE GoodNow'
  BY <1>17, BawriteGood
<1> QED BY <1>1, <1>2, <1>3, <1>4, <1>5, <1>6, <1>7, <1>8, <1>9, <1>10, <1>11, <1>12, <1>13,
           <1>14, <1>15, <1>16, <1>17 DEF Starts, Continue, Releases

\* Every step does.
LEMMA NextGood == ASSUME IInv, [Next]_vars PROVE IInv'
<1>1. GoodNow /\ DiskType
  BY DEF IInv
<1>2. ASSUME NEW p \in Proc, Starts(p) \/ Continue(p) \/ Releases(p) PROVE IInv'
  <2>1. GoodNow'
    BY <1>1, <1>2, ProcessGood
  <2>2. disk' = disk
    BY <1>2, ProcessesLeaveDisk
  <2> QED BY <1>1, <2>1, <2>2 DEF IInv, DiskType
<1>3. CASE Fsflush
  <2>1. GoodNow'
    BY <1>1, <1>3, FsflushGood
  <2>2. disk' = disk
    BY <1>3 DEF Fsflush
  <2> QED BY <1>1, <2>1, <2>2 DEF IInv, DiskType
<1>4. CASE DeviceClose
  <2>1. GoodNow'
    BY <1>1, <1>4, DeviceCloseGood
  <2>2. disk' = disk
    BY <1>4 DEF DeviceClose
  <2> QED BY <1>1, <2>1, <2>2 DEF IInv, DiskType
<1>5. CASE Interrupt
  <2>1. PICK r \in ToSet(io), error \in BOOLEAN : Biodone(r, error)
    BY <1>5 DEF Interrupt
  <2>2. GoodNow' /\ DiskType'
    BY <1>1, <2>1, BiodoneGood
  <2> QED BY <2>2 DEF IInv
<1>6. CASE UNCHANGED vars
  <2>1. /\ buf' = buf /\ avail' = avail /\ bufsize' = bufsize /\ wanted' = wanted /\ io' = io
        /\ disk' = disk /\ wchan' = wchan /\ pc' = pc /\ call' = call
    BY <1>6 DEF vars, cacheVars
  <2>2. Now' = Now
    BY <2>1 DEF Now
  <2> QED BY <1>1, <2>1, <2>2 DEF IInv, GoodNow, DiskType
<1> QED BY <1>2, <1>3, <1>4, <1>5, <1>6 DEF Next

\* The invariant holds.
THEOREM CacheSound == Spec => []IInv
<1>1. Init => IInv
  BY InitGood
<1>2. IInv /\ [Next]_vars => IInv'
  BY NextGood
<1> QED BY <1>1, <1>2, PTL DEF Spec

-----------------------------------------------------------------------------
(* What it says of blocks, buffers and processes that wait *)

\* A search for a block finds one buffer at most.
LEMMA FoundOnce ==
    ASSUME NEW s, Unique(s), NEW k
    PROVE  \A b, c \in Incore(s, k) : b = c
BY IncoreIs DEF Unique

\* A block is in one buffer at most, and who has it has that one.
THEOREM BlocksInOneBuffer == Spec => []OneBuffer
<1> SUFFICES ASSUME IInv PROVE OneBuffer
  BY CacheSound, PTL
<1> DEFINE s == Now
<1>1. Unique(s)
  BY DEF IInv, GoodNow, Good, Sound
<1>2. ASSUME NEW blk \in Block PROVE Cardinality(Incore(s, blk)) <= 1
  <2> DEFINE S == Incore(s, blk)
  <2>1. \A b, c \in S : b = c
    BY <1>1, FoundOnce
  <2> SUFFICES Cardinality(S) <= 1
    OBVIOUS
  <2> HIDE DEF S
  <2>2. CASE S = {}
    BY <2>2, FS_EmptySet
  <2>3. CASE S # {}
    <3>1. PICK b : b \in S
      BY <2>3
    <3>2. S = {b}
      BY <2>1, <3>1
    <3> QED BY <3>2, FS_Singleton
  <2> QED BY <2>2, <2>3
<1>3. ASSUME NEW p \in Proc, pc[p] = "hold", call[p].blk # NoBlock
      PROVE  /\ Incore(s, call[p].blk) = {call[p].bp}
             /\ call[p].op # "getblk" => Is(s, call[p].bp, "DONE")
  <2> DEFINE c == call[p]  w == pc[p]
  <2>1. c \in Call /\ Place(w, c) /\ Has(s, w, c) /\ w = "hold" /\ c.blk # NoBlock
    BY <1>3, GoodIs DEF IInv
  <2> HIDE DEF s, c, w
  <2>2. c.bp # NoBuf /\ c.op \in {"bread", "getblk"}
    BY <2>1 DEF Place
  <2>3. c.bp \in Buf
    BY <2>1, <2>2, CallFields
  <2>4. c.bp \in Incore(s, c.blk)
    BY <2>1, <2>2, <2>3 DEF Has, Incore
  <2>5. Incore(s, c.blk) = {c.bp}
    BY <1>1, <2>4, FoundOnce
  <2>6. c.op # "getblk" => Is(s, c.bp, "DONE")
    BY <2>1, <2>2 DEF Has
  <2> QED BY <2>5, <2>6 DEF c
<1> QED BY <1>2, <1>3 DEF OneBuffer

\* How often a buffer is on a list without repetition.
LEMMA TimesOnList ==
    ASSUME NEW S, NEW l, l \in Seq(S), Single(l), NEW b
    PROVE  Cardinality({i \in DOMAIN l : l[i] = b}) = IF b \in ToSet(l) THEN 1 ELSE 0
<1> DEFINE I == {i \in DOMAIN l : l[i] = b}
<1>1. DOMAIN l = 1 .. Len(l)
  OBVIOUS
<1>2. b \in ToSet(l) <=> \E i \in 1 .. Len(l) : b = l[i]
  BY Members
<1>3. CASE b \in ToSet(l)
  <2>1. PICK i \in 1 .. Len(l) : b = l[i]
    BY <1>2, <1>3
  <2>2. I = {i}
    BY <1>1, <2>1 DEF Single
  <2>3. Cardinality(I) = 1
    BY <2>2, FS_Singleton
  <2> QED BY <1>3, <2>3
<1>4. CASE b \notin ToSet(l)
  <2>1. I = {}
    BY <1>1, <1>2, <1>4
  <2>2. Cardinality(I) = 0
    BY <2>1, FS_EmptySet
  <2> QED BY <1>4, <2>2
<1> QED BY <1>3, <1>4

\* Types, and the memory that is accounted for.
LEMMA TypesHold == ASSUME IInv PROVE TypeOK
<1> DEFINE s == Now  i == s.bufsize
<1>1. s \in Cache /\ Tables(wchan, pc, call) /\ DiskType
  BY DEF IInv, GoodNow, Good, Sound
<1>2. /\ buf \in [Buf -> Header] /\ avail \in Seq(Buf) /\ io \in Seq(Request)
      /\ bufsize \in Nat /\ wanted \in BOOLEAN
  BY <1>1, NowIs, CacheFields
<1>3. bufsize <= MEM
  <2> DEFINE x == SumFunction(Sizes(s))  f == Asides(pc, call)  y == SumFunction(f)
  <2>1. x \in Nat /\ Mem(s) \in Nat
    BY <1>1, MemNat
  <2>2. y \in Nat
    <3>1. DOMAIN f = Proc /\ \A p \in Proc : f[p] = SetAside(pc[p], call[p])
      BY DEF Asides
    <3>2. ASSUME NEW p \in Proc PROVE SetAside(pc[p], call[p]) \in Nat
      <4>1. call[p] \in Call
        BY <1>1 DEF Tables
      <4> QED BY <4>1, SetAsideNat
    <3> HIDE DEF f
    <3> QED BY <3>1, <3>2, PoolsAssumption, SumAtLeast
  <2>3. Mem(s) + y = MEM /\ Mem(s) = bufsize + x
    BY NowIs DEF IInv, GoodNow, Good, Mem
  <2> HIDE DEF s, x, y
  <2>4. (bufsize + x) + y = MEM
    BY <2>3
  <2> QED BY ONLY <1>2, <2>1, <2>2, <2>4, SizesAssumption
<1>4. bufsize \in 0 .. MEM
  BY <1>2, <1>3, SizesAssumption
<1> QED BY <1>1, <1>2, <1>4 DEF TypeOK, Tables, DiskType

\* Who uses the buffer b: nobody, or one process.
LEMMA UsersAre ==
    ASSUME NEW cl, cl = call, cl \in [Proc -> Call], Distinct(cl), NEW b, b \in Buf,
           ~ (b \in Held(cl) /\ b \in News(cl))
    PROVE  /\ b \notin Held(cl) \cup News(cl) => Users(b) = {}
           /\ b \in Held(cl) => \E p \in Proc : Users(b) = {p}
           /\ b \in News(cl) => \E p \in Proc : Users(b) = {p} /\ cl[p].bp # b
<1>1. b # NoBuf
  BY NamesAssumption
<1>2. \A p \in Proc : p \in Users(b) <=> b = cl[p].bp \/ b = cl[p].nbp
  BY DEF Users
<1>3. Users(b) \subseteq Proc
  BY DEF Users
<1>4. \A p \in Proc : (b = cl[p].bp => b \in Held(cl)) /\ (b = cl[p].nbp => b \in News(cl))
  BY <1>1 DEF Held, News
<1>5. ASSUME b \in Held(cl) PROVE \E p \in Proc : Users(b) = {p}
  <2>1. PICK p \in Proc : b = cl[p].bp
    BY <1>5 DEF Held
  <2>2. \A q \in Proc : q \in Users(b) => q = p
    BY <1>1, <1>2, <1>4, <1>5, <2>1 DEF Distinct
  <2> QED BY <1>2, <1>3, <2>1, <2>2
<1>6. ASSUME b \in News(cl) PROVE \E p \in Proc : Users(b) = {p} /\ cl[p].bp # b
  <2>1. PICK p \in Proc : b = cl[p].nbp
    BY <1>6 DEF News
  <2>2. \A q \in Proc : q \in Users(b) => q = p
    BY <1>1, <1>2, <1>4, <1>6, <2>1 DEF Distinct
  <2>3. cl[p].bp # b
    BY <1>4, <1>6
  <2> QED BY <1>2, <1>3, <2>1, <2>2, <2>3
<1>7. b \notin Held(cl) \cup News(cl) => Users(b) = {}
  BY <1>2, <1>3, <1>4
<1> QED BY <1>5, <1>6, <1>7

\* Every buffer is in one place, and no memory is lost.
THEOREM NoBufferLost == Spec => []BuffersConserved
<1> SUFFICES ASSUME IInv PROVE BuffersConserved
  BY CacheSound, PTL
<1> DEFINE s == Now  B == Held(call)  N == News(call)
<1>1. /\ s \in Cache /\ Sound(s, B, N) /\ Lists(s) /\ call \in [Proc -> Call] /\ Distinct(call)
      /\ s.avail = avail /\ s.io = io /\ s.buf = buf
  BY NowIs DEF IInv, GoodNow, Good, Sound, Tables
<1>2. InDriver(s) = InIo /\ OnList(s) = ToSet(avail)
  BY <1>1 DEF InDriver, Bps, InIo, OnList
<1>3. avail \in Seq(Buf) /\ Single(avail)
  BY <1>1, CacheFields DEF Lists
<1>4. ASSUME NEW b \in Buf
      PROVE  LET free == Cardinality({i \in DOMAIN avail : avail[i] = b})
                 busy == Is(Now, b, "BUSY")
             IN  \/ free = 1 /\ ~ busy /\ Users(b) = {} /\ b \notin InIo
                 \/ /\ free = 0 /\ ~ Is(Now, b, "ASYNC")
                    /\ \E p \in Proc : Users(b) = {p} /\ (call[p].bp = b => busy)
                 \/ free = 0 /\ busy /\ Users(b) = {} /\ b \in InIo /\ Is(Now, b, "ASYNC")
                 \/ free = 0 /\ Users(b) = {} /\ buf[b] = Unused
  <2> DEFINE free == Cardinality({i \in DOMAIN avail : avail[i] = b})
  <2>1. free = IF b \in OnList(s) THEN 1 ELSE 0
    BY <1>2, <1>3, TimesOnList
  <2>2. Role(s, b, B, N)
    BY <1>1 DEF Sound
  <2>3. ~ (b \in B /\ b \in N)
    BY <2>2 DEF Role
  <2>4. /\ b \notin B \cup N => Users(b) = {}
        /\ b \in B => \E p \in Proc : Users(b) = {p}
        /\ b \in N => \E p \in Proc : Users(b) = {p} /\ call[p].bp # b
    BY <1>1, <2>3, UsersAre
  <2> HIDE DEF s, B, N, free
  <2>5. \/ /\ b \in OnList(s) /\ b \notin B \cup N /\ b \notin InDriver(s)
           /\ ~ Is(s, b, "BUSY")
        \/ /\ b \notin OnList(s) /\ ~ Is(s, b, "ASYNC")
           /\ (b \in B /\ Is(s, b, "BUSY")) \/ b \in N
        \/ /\ b \notin OnList(s) /\ b \notin B \cup N /\ b \in InDriver(s)
           /\ Is(s, b, "BUSY") /\ Is(s, b, "ASYNC")
        \/ /\ b \notin OnList(s) /\ b \notin B \cup N
           /\ s.buf[b] = Unused
    BY <2>2 DEF Role
  <2>6. \/ free = 1 /\ ~ Is(s, b, "BUSY") /\ Users(b) = {} /\ b \notin InIo
        \/ /\ free = 0 /\ ~ Is(s, b, "ASYNC")
           /\ \E p \in Proc : Users(b) = {p} /\ (call[p].bp = b => Is(s, b, "BUSY"))
        \/ free = 0 /\ Is(s, b, "BUSY") /\ Users(b) = {} /\ b \in InIo /\ Is(s, b, "ASYNC")
        \/ free = 0 /\ Users(b) = {} /\ buf[b] = Unused
    BY <1>1, <1>2, <2>1, <2>4, <2>5
  <2> QED BY <2>6 DEF s, free
<1>5. MEM = bufsize + SumFunction([b \in Buf |-> buf[b].size])
            + SumFunction([p \in Proc |-> IF pc[p] = "alloc" THEN Bsize(call[p].want) ELSE 0])
  <2>1. Sizes(s) = [b \in Buf |-> buf[b].size]
    BY <1>1 DEF Sizes
  <2>2. Asides(pc, call) =
          [p \in Proc |-> IF pc[p] = "alloc" THEN Bsize(call[p].want) ELSE 0]
    BY DEF Asides, SetAside
  <2>3. Mem(s) + SumFunction(Asides(pc, call)) = MEM /\ Mem(s) = bufsize + SumFunction(Sizes(s))
    BY NowIs DEF IInv, GoodNow, Good, Mem
  <2> HIDE DEF s
  <2> QED BY <2>1, <2>2, <2>3
<1>6. TypeOK
  BY TypesHold
<1> QED BY <1>4, <1>5, <1>6 DEF BuffersConserved

\* Who sleeps for a buffer or for memory will be woken.
THEOREM NobodyForgotten == Spec => []WaitersWoken
<1> SUFFICES ASSUME IInv PROVE WaitersWoken
  BY CacheSound, PTL
<1> SUFFICES ASSUME NEW p \in Proc
             PROVE  /\ \A b \in Buf : wchan[p] = <<"buf", b>> =>
                         /\ Is(Now, b, "BUSY") /\ Is(Now, b, "WANTED")
                         /\ b \in InIo \/ Users(b) \ {p} # {}
                    /\ wchan[p] = Free =>
                         wanted /\ avail = <<>> /\ bufsize < Bsize(call[p].want)
  BY DEF WaitersWoken
<1> DEFINE s == Now  B == Held(call)  c == call[p]  w == pc[p]  ch == wchan[p]
<1>1. Waits(s, B, ch, w, c) /\ InDriver(s) = InIo
  BY GoodIs, NowIs DEF IInv, InDriver, Bps, InIo
<1>2. /\ s.wanted = wanted /\ s.avail = avail /\ s.bufsize = bufsize
  BY NowIs
<1> HIDE DEF s
<1>3. ASSUME NEW b \in Buf, ch = <<"buf", b>>
      PROVE  Waited(s, b) /\ (b \in InIo \/ Users(b) \ {p} # {})
  <2>1. ch # NoChan /\ ch # Free
    BY <1>3, NamesAssumption, ChannelsDiffer DEF Chan
  <2>2. Waited(s, b) /\ (b \in InDriver(s) \/ (b \in B /\ b # c.bp))
    BY <1>1, <1>3, <2>1 DEF Waits
  <2>3. b \in B /\ b # c.bp => Users(b) \ {p} # {}
    BY DEF Held, Users
  <2> QED BY <1>1, <2>2, <2>3
<1>4. ASSUME ch = Free PROVE s.wanted /\ s.avail = <<>> /\ s.bufsize < Bsize(c.want)
  <2>1. Free # NoChan /\ \A b \in Buf : Free # <<"buf", b>>
    BY NamesAssumption, ChannelsDiffer DEF Chan
  <2> QED BY <1>1, <1>4, <2>1 DEF Waits
<1> QED BY <1>2, <1>3, <1>4 DEF Waited, s


-----------------------------------------------------------------------------
(* The contents of the blocks, in the cache s and on the disk d *)

\* The block of a request, and whether a buffer is filled
For(s, i)   == s.buf[s.io[i].bp].blk
Valid(s, b) == Is(s, b, "DONE") /\ ~ Is(s, b, "ERROR")

\* Of the requests for a block only the last is for a buffer that can be found
InTurn(s) ==
    \A i, j \in 1 .. Len(s.io) :
      i < j /\ For(s, i) = For(s, j) => Is(s, s.io[i].bp, "STALE")

\* What is still to be written can be found, and is there
Delays(s) == \A b \in Buf : Is(s, b, "DELWRI") => Findable(s, b) /\ Valid(s, b)

\* What a search finds is on the disk, unless it is still to be written, and no request
\* for the block is under way that would change either
Clean(s, d) ==
    \A b \in Buf : Findable(s, b) /\ Valid(s, b) /\ ~ Is(s, b, "DELWRI") =>
      /\ s.buf[b].data = d[s.buf[b].blk]
      /\ \A i \in 1 .. Len(s.io) : For(s, i) # s.buf[b].blk

Coherent(s, d) == InTurn(s) /\ Delays(s) /\ Clean(s, d)

\* A read of the block k would give v: from its buffer, from the last write on its
\* way, or from the disk
Serves(s, b, k)    == Findable(s, b) /\ Valid(s, b) /\ s.buf[b].blk = k
Writes(s, i, k)    == i \in 1 .. Len(s.io) /\ For(s, i) = k /\ ~ s.io[i].read
LastWrite(s, i, k) == Writes(s, i, k) /\ \A j \in 1 .. Len(s.io) : Writes(s, j, k) => j <= i

Gives(s, d, k, v) ==
    \/ \E b \in Buf : Serves(s, b, k) /\ v = s.buf[b].data
    \/ /\ \A b \in Buf : ~ Serves(s, b, k)
       /\ \E i \in 1 .. Len(s.io) : LastWrite(s, i, k) /\ v = s.buf[s.io[i].bp].data
    \/ /\ \A b \in Buf : ~ Serves(s, b, k)
       /\ \A i \in 1 .. Len(s.io) : ~ Writes(s, i, k)
       /\ v = d[k]

\* The contents stay what they are, but for the blocks X
Leads(s, d, t, e, X) ==
    /\ Coherent(t, e)
    /\ \A k \in Block \ X : \A v : Gives(s, d, k, v) => Gives(t, e, k, v)

\* Two steps.
LEMMA LeadsOn ==
    ASSUME NEW s, NEW d, NEW t, NEW e, NEW u, NEW f, NEW X,
           Leads(s, d, t, e, X), Leads(t, e, u, f, X)
    PROVE  Leads(s, d, u, f, X)
BY DEF Leads

\* The buffer a request is for.
LEMMA BufferOf ==
    ASSUME NEW s, s \in Cache, NEW i \in 1 .. Len(s.io)
    PROVE  /\ s.io[i] \in Request /\ s.io[i].bp \in Buf /\ s.io[i].bp \in InDriver(s)
           /\ s.io[i].read \in BOOLEAN
<1> DEFINE q == s.io
<1>1. q \in Seq(Request) /\ i \in 1 .. Len(q)
  BY CacheFields
<1> HIDE DEF q
<1>2. q[i] \in Request /\ q[i] \in ToSet(q)
  BY <1>1, Members
<1>3. q[i].bp \in Buf /\ q[i].read \in BOOLEAN
  BY <1>2 DEF Request
<1>4. q[i].bp \in Bps(q)
  BY <1>2 DEF Bps
<1> QED BY <1>2, <1>3, <1>4 DEF q, InDriver

\* What a buffer contains, and whether it can be found, is the same
Like(s, t, b) ==
    /\ t.buf[b].blk = s.buf[b].blk /\ t.buf[b].data = s.buf[b].data
    /\ Is(t, b, "DONE") <=> Is(s, b, "DONE")
    /\ Is(t, b, "ERROR") <=> Is(s, b, "ERROR")
    /\ Is(t, b, "STALE") <=> Is(s, b, "STALE")
    /\ Is(t, b, "DELWRI") <=> Is(s, b, "DELWRI")

\* A buffer like another serves like it.
LEMMA LikeServes ==
    ASSUME NEW s, NEW t, NEW b, Like(s, t, b)
    PROVE  /\ Findable(t, b) <=> Findable(s, b)
           /\ Valid(t, b) <=> Valid(s, b)
           /\ \A k : Serves(t, b, k) <=> Serves(s, b, k)
BY DEF Like, Findable, Valid, Serves

\* The buffers and the requests are the same
Alike(s, t) == t.io = s.io /\ \A b \in Buf : Like(s, t, b)

\* Nothing has happened to the contents then.
LEMMA AlikeLeads ==
    ASSUME NEW s, s \in Cache, NEW t, Alike(s, t), NEW d, Coherent(s, d), NEW X
    PROVE  Leads(s, d, t, d, X)
<1>1. t.io = s.io /\ \A b \in Buf : Like(s, t, b)
  BY DEF Alike
<1>2. ASSUME NEW b \in Buf
      PROVE  /\ t.buf[b].blk = s.buf[b].blk /\ t.buf[b].data = s.buf[b].data
             /\ Findable(t, b) <=> Findable(s, b)
             /\ Valid(t, b) <=> Valid(s, b)
             /\ \A k : Serves(t, b, k) <=> Serves(s, b, k)
             /\ Is(t, b, "DELWRI") <=> Is(s, b, "DELWRI")
             /\ Is(t, b, "STALE") <=> Is(s, b, "STALE")
  BY <1>1, LikeServes DEF Like
<1>3. \A i \in 1 .. Len(s.io) : s.io[i].bp \in Buf /\ For(t, i) = For(s, i)
  BY <1>1, <1>2, BufferOf DEF For
<1>4. InTurn(t)
  BY <1>1, <1>2, <1>3 DEF Coherent, InTurn
<1>5. Delays(t)
  BY <1>2 DEF Coherent, Delays
<1>6. Clean(t, d)
  BY <1>1, <1>2, <1>3 DEF Coherent, Clean
<1>7. ASSUME NEW k, NEW v, Gives(s, d, k, v) PROVE Gives(t, d, k, v)
  <2>1. \A i : Writes(t, i, k) <=> Writes(s, i, k)
    BY <1>1, <1>3 DEF Writes
  <2>2. \A i : LastWrite(t, i, k) <=> LastWrite(s, i, k)
    BY <1>1, <2>1 DEF LastWrite
  <2>3. \A b \in Buf : Serves(t, b, k) <=> Serves(s, b, k)
    BY <1>2
  <2>4. \A i \in 1 .. Len(s.io) : t.buf[t.io[i].bp].data = s.buf[s.io[i].bp].data
    BY <1>1, <1>2, <1>3
  <2>5. CASE \E b \in Buf : Serves(s, b, k) /\ v = s.buf[b].data
    BY <1>2, <2>3, <2>5 DEF Gives
  <2>6. CASE /\ \A b \in Buf : ~ Serves(s, b, k)
             /\ \E i \in 1 .. Len(s.io) : LastWrite(s, i, k) /\ v = s.buf[s.io[i].bp].data
    BY <1>1, <2>2, <2>3, <2>4, <2>6 DEF Gives
  <2>7. CASE /\ \A b \in Buf : ~ Serves(s, b, k)
             /\ \A i \in 1 .. Len(s.io) : ~ Writes(s, i, k)
             /\ v = d[k]
    BY <1>1, <2>1, <2>3, <2>7 DEF Gives
  <2> QED BY <1>7, <2>5, <2>6, <2>7 DEF Gives
<1> QED BY <1>4, <1>5, <1>6, <1>7 DEF Leads, Coherent

\* b is no longer to be found
Vanishes(s, t, b) ==
    /\ b \in Buf /\ b \notin InDriver(s) /\ ~ Is(s, b, "DELWRI")
    /\ ~ Findable(t, b) /\ ~ Is(t, b, "DELWRI")
    /\ t.io = s.io /\ \A c \in Buf \ {b} : Like(s, t, c)

\* What it contains is on the disk.
LEMMA VanishLeads ==
    ASSUME NEW s, s \in Cache, Unique(s), NEW b, NEW t, Vanishes(s, t, b),
           NEW d, Coherent(s, d), NEW X
    PROVE  Leads(s, d, t, d, X)
<1>1. /\ b \in Buf /\ b \notin InDriver(s) /\ ~ Is(s, b, "DELWRI")
      /\ ~ Findable(t, b) /\ ~ Is(t, b, "DELWRI") /\ t.io = s.io
  BY DEF Vanishes
<1>2. ASSUME NEW c \in Buf, c # b
      PROVE  /\ t.buf[c].blk = s.buf[c].blk /\ t.buf[c].data = s.buf[c].data
             /\ Findable(t, c) <=> Findable(s, c)
             /\ Valid(t, c) <=> Valid(s, c)
             /\ \A k : Serves(t, c, k) <=> Serves(s, c, k)
             /\ Is(t, c, "DELWRI") <=> Is(s, c, "DELWRI")
             /\ Is(t, c, "STALE") <=> Is(s, c, "STALE")
  BY <1>2, LikeServes DEF Like, Vanishes
<1>3. \A i \in 1 .. Len(s.io) : /\ s.io[i].bp \in Buf /\ s.io[i].bp # b /\ For(t, i) = For(s, i)
  BY <1>1, <1>2, BufferOf DEF For
<1>4. InTurn(t)
  BY <1>1, <1>2, <1>3 DEF Coherent, InTurn
<1>5. Delays(t)
  BY <1>1, <1>2 DEF Coherent, Delays
<1>6. Clean(t, d)
  BY <1>1, <1>2, <1>3 DEF Coherent, Clean
<1>7. ASSUME NEW k, NEW v, Gives(s, d, k, v) PROVE Gives(t, d, k, v)
  <2>1. \A i : Writes(t, i, k) <=> Writes(s, i, k)
    BY <1>1, <1>3 DEF Writes
  <2>2. \A i : LastWrite(t, i, k) <=> LastWrite(s, i, k)
    BY <1>1, <2>1 DEF LastWrite
  <2>3. ~ Serves(t, b, k) /\ \A c \in Buf \ {b} : Serves(t, c, k) <=> Serves(s, c, k)
    BY <1>1, <1>2 DEF Serves
  <2>4. \A i \in 1 .. Len(s.io) : t.buf[t.io[i].bp].data = s.buf[s.io[i].bp].data
    BY <1>1, <1>2, <1>3
  <2>5. CASE \E c \in Buf \ {b} : Serves(s, c, k) /\ v = s.buf[c].data
    BY <1>2, <2>3, <2>5 DEF Gives
  <2>6. CASE Serves(s, b, k) /\ v = s.buf[b].data
    <3>1. v = d[k] /\ \A i \in 1 .. Len(s.io) : For(s, i) # k
      BY <1>1, <2>6 DEF Serves, Coherent, Clean
    <3>2. \A c \in Buf : ~ Serves(t, c, k)
      BY <1>1, <2>3, <2>6 DEF Serves, Unique
    <3>3. \A i \in 1 .. Len(t.io) : ~ Writes(t, i, k)
      BY <2>1, <3>1 DEF Writes
    <3> QED BY <3>1, <3>2, <3>3 DEF Gives
  <2>7. CASE /\ \A c \in Buf : ~ Serves(s, c, k)
             /\ \E i \in 1 .. Len(s.io) : LastWrite(s, i, k) /\ v = s.buf[s.io[i].bp].data
    BY <1>1, <2>2, <2>3, <2>4, <2>7 DEF Gives
  <2>8. CASE /\ \A c \in Buf : ~ Serves(s, c, k)
             /\ \A i \in 1 .. Len(s.io) : ~ Writes(s, i, k)
             /\ v = d[k]
    BY <1>1, <2>1, <2>3, <2>8 DEF Gives
  <2> QED BY <1>7, <2>5, <2>6, <2>7, <2>8 DEF Gives
<1> QED BY <1>4, <1>5, <1>6, <1>7 DEF Leads, Coherent

\* b is a buffer that is not filled yet, and was none before
Appears(s, t, b) ==
    /\ b \in Buf /\ b \notin InDriver(s) /\ ~ Findable(s, b)
    /\ ~ Is(t, b, "DONE") /\ ~ Is(t, b, "DELWRI")
    /\ t.io = s.io /\ \A c \in Buf \ {b} : Like(s, t, c)

\* The contents are as they were.
LEMMA AppearLeads ==
    ASSUME NEW s, s \in Cache, NEW b, NEW t, Appears(s, t, b), NEW d, Coherent(s, d), NEW X
    PROVE  Leads(s, d, t, d, X)
<1>1. /\ b \in Buf /\ b \notin InDriver(s) /\ ~ Findable(s, b)
      /\ ~ Valid(t, b) /\ ~ Is(t, b, "DELWRI") /\ t.io = s.io
  BY DEF Appears, Valid
<1>2. ASSUME NEW c \in Buf, c # b
      PROVE  /\ t.buf[c].blk = s.buf[c].blk /\ t.buf[c].data = s.buf[c].data
             /\ Findable(t, c) <=> Findable(s, c)
             /\ Valid(t, c) <=> Valid(s, c)
             /\ \A k : Serves(t, c, k) <=> Serves(s, c, k)
             /\ Is(t, c, "DELWRI") <=> Is(s, c, "DELWRI")
             /\ Is(t, c, "STALE") <=> Is(s, c, "STALE")
  BY <1>2, LikeServes DEF Like, Appears
<1>3. \A i \in 1 .. Len(s.io) : /\ s.io[i].bp \in Buf /\ s.io[i].bp # b /\ For(t, i) = For(s, i)
  BY <1>1, <1>2, BufferOf DEF For
<1>4. InTurn(t)
  BY <1>1, <1>2, <1>3 DEF Coherent, InTurn
<1>5. Delays(t)
  BY <1>1, <1>2 DEF Coherent, Delays
<1>6. Clean(t, d)
  BY <1>1, <1>2, <1>3 DEF Coherent, Clean
<1>7. ASSUME NEW k, NEW v, Gives(s, d, k, v) PROVE Gives(t, d, k, v)
  <2>1. \A i : Writes(t, i, k) <=> Writes(s, i, k)
    BY <1>1, <1>3 DEF Writes
  <2>2. \A i : LastWrite(t, i, k) <=> LastWrite(s, i, k)
    BY <1>1, <2>1 DEF LastWrite
  <2>3. \A c \in Buf : Serves(t, c, k) <=> Serves(s, c, k)
    BY <1>1, <1>2 DEF Serves
  <2>4. \A i \in 1 .. Len(s.io) : t.buf[t.io[i].bp].data = s.buf[s.io[i].bp].data
    BY <1>1, <1>2, <1>3
  <2>5. CASE \E c \in Buf : Serves(s, c, k) /\ v = s.buf[c].data
    <3>1. PICK c \in Buf : Serves(s, c, k) /\ v = s.buf[c].data
      BY <2>5
    <3>2. c # b
      BY <1>1, <3>1 DEF Serves
    <3> QED BY <1>2, <2>3, <3>1, <3>2 DEF Gives
  <2>6. CASE /\ \A c \in Buf : ~ Serves(s, c, k)
             /\ \E i \in 1 .. Len(s.io) : LastWrite(s, i, k) /\ v = s.buf[s.io[i].bp].data
    BY <1>1, <2>2, <2>3, <2>4, <2>6 DEF Gives
  <2>7. CASE /\ \A c \in Buf : ~ Serves(s, c, k)
             /\ \A i \in 1 .. Len(s.io) : ~ Writes(s, i, k)
             /\ v = d[k]
    BY <1>1, <2>1, <2>3, <2>7 DEF Gives
  <2> QED BY <1>7, <2>5, <2>6, <2>7 DEF Gives
<1> QED BY <1>4, <1>5, <1>6, <1>7 DEF Leads, Coherent

\* The driver is given the request e for b, which is not filled or to be written any more
Sends(s, t, b, e) ==
    /\ b \in Buf /\ b \notin InDriver(s) /\ Findable(s, b)
    /\ GoodRequest(e, b) /\ t.io = Append(s.io, e)
    /\ t.buf[b].blk = s.buf[b].blk /\ (Is(t, b, "STALE") <=> Is(s, b, "STALE"))
    /\ ~ Is(t, b, "DONE") /\ ~ Is(t, b, "DELWRI")
    /\ \A c \in Buf \ {b} : Like(s, t, c)

\* The driver's queue then.
LEMMA SentIs ==
    ASSUME NEW s, s \in Cache, NEW b, NEW e, NEW t, Sends(s, t, b, e)
    PROVE  /\ Len(s.io) \in Nat /\ Len(t.io) = Len(s.io) + 1
           /\ \A i \in 1 .. Len(s.io) :
                /\ t.io[i] = s.io[i] /\ s.io[i].bp \in Buf /\ s.io[i].bp # b
                /\ For(t, i) = For(s, i)
           /\ t.io[Len(s.io) + 1] = e /\ e.bp = b
           /\ For(t, Len(s.io) + 1) = s.buf[b].blk
           /\ \A i \in 1 .. Len(t.io) : i \in 1 .. Len(s.io) \/ i = Len(s.io) + 1
<1> DEFINE q == s.io
<1>1. q \in Seq(Request) /\ t.io = Append(q, e) /\ e \in Request /\ e.bp = b
  BY CacheFields DEF Sends, GoodRequest
<1>2. /\ Len(q) \in Nat /\ Len(t.io) = Len(q) + 1 /\ t.io[Len(q) + 1] = e
      /\ \A i \in 1 .. Len(q) : t.io[i] = q[i]
  <2> HIDE DEF q
  <2> QED BY <1>1
<1>3. \A i \in 1 .. Len(q) : q[i].bp \in Buf /\ q[i].bp # b
  BY BufferOf DEF Sends
<1>4. \A i \in 1 .. Len(q) : For(t, i) = For(s, i)
  BY <1>2, <1>3 DEF For, Sends, Like
<1>5. For(t, Len(q) + 1) = s.buf[b].blk
  BY <1>1, <1>2 DEF For, Sends
<1>6. \A i \in 1 .. Len(t.io) : i \in 1 .. Len(q) \/ i = Len(q) + 1
  BY <1>2
<1> QED BY <1>1, <1>2, <1>3, <1>4, <1>5, <1>6

\* It is the last request for its block, and the only one that can be found.
LEMMA SendCoherent ==
    ASSUME NEW s, s \in Cache, Unique(s), NEW b, NEW e, NEW t, Sends(s, t, b, e), NEW d, Coherent(s, d)
    PROVE  Coherent(t, d)
<1> DEFINE n == Len(s.io)
<1>1. /\ n \in Nat /\ Len(t.io) = n + 1
      /\ \A i \in 1 .. n : /\ t.io[i] = s.io[i] /\ s.io[i].bp \in Buf /\ s.io[i].bp # b
                           /\ For(t, i) = For(s, i)
      /\ t.io[n + 1] = e /\ e.bp = b /\ For(t, n + 1) = s.buf[b].blk
      /\ \A i \in 1 .. Len(t.io) : i \in 1 .. n \/ i = n + 1
  BY SentIs
<1>2. /\ b \in Buf /\ b \notin InDriver(s) /\ Findable(s, b)
      /\ t.buf[b].blk = s.buf[b].blk /\ (Is(t, b, "STALE") <=> Is(s, b, "STALE"))
      /\ ~ Valid(t, b) /\ ~ Is(t, b, "DELWRI")
  BY DEF Sends, Valid
<1>3. ASSUME NEW c \in Buf, c # b
      PROVE  /\ t.buf[c].blk = s.buf[c].blk /\ t.buf[c].data = s.buf[c].data
             /\ Findable(t, c) <=> Findable(s, c)
             /\ Valid(t, c) <=> Valid(s, c)
             /\ Is(t, c, "DELWRI") <=> Is(s, c, "DELWRI")
             /\ Is(t, c, "STALE") <=> Is(s, c, "STALE")
  BY <1>3, LikeServes DEF Like, Sends
<1>4. InTurn(t)
  <2> SUFFICES ASSUME NEW i \in 1 .. Len(t.io), NEW j \in 1 .. Len(t.io),
                      i < j, For(t, i) = For(t, j)
               PROVE  Is(t, t.io[i].bp, "STALE")
    BY DEF InTurn
  <2>1. i \in 1 .. n /\ (j \in 1 .. n \/ j = n + 1)
    BY <1>1
  <2> DEFINE c == s.io[i].bp
  <2>2. c \in Buf /\ c # b /\ t.io[i].bp = c /\ For(s, i) = For(t, j) /\ For(s, i) = s.buf[c].blk
    BY <1>1, <2>1 DEF For
  <2>3. CASE j \in 1 .. n
    <3>1. For(s, i) = For(s, j)
      BY <1>1, <2>2, <2>3
    <3>2. Is(s, c, "STALE")
      BY <2>1, <2>3, <3>1 DEF Coherent, InTurn
    <3> QED BY <1>3, <2>2, <3>2
  <2>4. CASE j = n + 1
    <3>1. s.buf[c].blk = s.buf[b].blk
      BY <1>1, <2>2, <2>4
    <3>2. ~ Findable(s, c)
      BY <1>2, <2>2, <3>1 DEF Unique
    <3>3. Is(s, c, "STALE")
      BY <1>2, <3>1, <3>2 DEF Findable
    <3> QED BY <1>3, <2>2, <3>3
  <2> QED BY <2>1, <2>3, <2>4
<1>5. Delays(t)
  BY <1>2, <1>3 DEF Coherent, Delays
<1>6. Clean(t, d)
  <2> SUFFICES ASSUME NEW c \in Buf, Findable(t, c), Valid(t, c), ~ Is(t, c, "DELWRI")
               PROVE  /\ t.buf[c].data = d[t.buf[c].blk]
                      /\ \A i \in 1 .. Len(t.io) : For(t, i) # t.buf[c].blk
    BY DEF Clean
  <2>1. c # b
    BY <1>2
  <2>2. Findable(s, c) /\ Valid(s, c) /\ ~ Is(s, c, "DELWRI")
    BY <1>3, <2>1
  <2>3. s.buf[c].data = d[s.buf[c].blk] /\ \A i \in 1 .. n : For(s, i) # s.buf[c].blk
    BY <2>2 DEF Coherent, Clean
  <2>4. s.buf[b].blk # s.buf[c].blk
    BY <1>2, <2>1, <2>2 DEF Unique
  <2> QED BY <1>1, <1>3, <2>1, <2>3, <2>4
<1> QED BY <1>4, <1>5, <1>6 DEF Coherent

\* A read does not change what a read would give.
LEMMA ReadLeads ==
    ASSUME NEW s, s \in Cache, Unique(s), NEW b, NEW e, e.read, NEW t, Sends(s, t, b, e),
           ~ Is(s, b, "DONE"), NEW d, Coherent(s, d), NEW X
    PROVE  Leads(s, d, t, d, X)
<1> DEFINE n == Len(s.io)
<1>1. /\ n \in Nat /\ Len(t.io) = n + 1
      /\ \A i \in 1 .. n : /\ t.io[i] = s.io[i] /\ s.io[i].bp \in Buf /\ s.io[i].bp # b
                           /\ For(t, i) = For(s, i)
      /\ t.io[n + 1] = e /\ \A i \in 1 .. Len(t.io) : i \in 1 .. n \/ i = n + 1
  BY SentIs
<1>2. b \in Buf /\ ~ Valid(s, b) /\ ~ Valid(t, b)
  BY DEF Sends, Valid
<1>3. ASSUME NEW c \in Buf, c # b
      PROVE  t.buf[c].data = s.buf[c].data /\ \A k : Serves(t, c, k) <=> Serves(s, c, k)
  BY <1>3, LikeServes DEF Like, Sends
<1>4. ASSUME NEW k, NEW v, Gives(s, d, k, v) PROVE Gives(t, d, k, v)
  <2>1. \A i : Writes(t, i, k) <=> Writes(s, i, k)
    BY <1>1 DEF Writes
  <2>2. \A i : LastWrite(t, i, k) <=> LastWrite(s, i, k)
    BY <1>1, <2>1 DEF LastWrite, Writes
  <2>3. \A c \in Buf : Serves(t, c, k) <=> Serves(s, c, k)
    BY <1>2, <1>3 DEF Serves
  <2>4. \A i \in 1 .. n : i \in 1 .. Len(t.io) /\ t.buf[t.io[i].bp].data = s.buf[s.io[i].bp].data
    BY <1>1, <1>3
  <2>5. CASE \E c \in Buf : Serves(s, c, k) /\ v = s.buf[c].data
    <3>1. PICK c \in Buf : Serves(s, c, k) /\ v = s.buf[c].data
      BY <2>5
    <3>2. c # b
      BY <1>2, <3>1 DEF Serves
    <3> QED BY <1>3, <2>3, <3>1, <3>2 DEF Gives
  <2>6. CASE /\ \A c \in Buf : ~ Serves(s, c, k)
             /\ \E i \in 1 .. Len(s.io) : LastWrite(s, i, k) /\ v = s.buf[s.io[i].bp].data
    BY <2>2, <2>3, <2>4, <2>6 DEF Gives
  <2>7. CASE /\ \A c \in Buf : ~ Serves(s, c, k)
             /\ \A i \in 1 .. Len(s.io) : ~ Writes(s, i, k)
             /\ v = d[k]
    <3>1. \A i \in 1 .. Len(t.io) : ~ Writes(t, i, k)
      BY <2>1, <2>7 DEF Writes
    <3> QED BY <2>3, <2>7, <3>1 DEF Gives
  <2> QED BY <1>4, <2>5, <2>6, <2>7 DEF Gives
<1>5. Coherent(t, d)
  BY SendCoherent
<1> QED BY <1>4, <1>5 DEF Leads

\* Nor does a write of what was there, though it may for the block it writes.
LEMMA WriteLeads ==
    ASSUME NEW s, s \in Cache, Unique(s), NEW b, NEW e, ~ e.read, NEW t, Sends(s, t, b, e),
           NEW X, s.buf[b].blk \in X \/ (Valid(s, b) /\ t.buf[b].data = s.buf[b].data),
           NEW d, Coherent(s, d)
    PROVE  Leads(s, d, t, d, X)
<1> DEFINE n == Len(s.io)
<1>1. /\ n \in Nat /\ Len(t.io) = n + 1
      /\ \A i \in 1 .. n : /\ t.io[i] = s.io[i] /\ s.io[i].bp \in Buf /\ s.io[i].bp # b
                           /\ For(t, i) = For(s, i)
      /\ t.io[n + 1] = e /\ e.bp = b /\ For(t, n + 1) = s.buf[b].blk
      /\ \A i \in 1 .. Len(t.io) : i \in 1 .. n \/ i = n + 1
  BY SentIs
<1>2. b \in Buf /\ Findable(s, b) /\ ~ Valid(t, b)
  BY DEF Sends, Valid
<1>3. ASSUME NEW c \in Buf, c # b
      PROVE  t.buf[c].data = s.buf[c].data /\ \A k : Serves(t, c, k) <=> Serves(s, c, k)
  BY <1>3, LikeServes DEF Like, Sends
<1>4. ASSUME NEW k, NEW v, Gives(s, d, k, v), k # s.buf[b].blk PROVE Gives(t, d, k, v)
  <2>1. \A i : Writes(t, i, k) <=> Writes(s, i, k)
    BY <1>1, <1>4 DEF Writes
  <2>2. \A i : LastWrite(t, i, k) <=> LastWrite(s, i, k)
    BY <1>1, <2>1 DEF LastWrite, Writes
  <2>3. \A c \in Buf : Serves(t, c, k) <=> Serves(s, c, k)
    BY <1>2, <1>3, <1>4 DEF Serves, Sends
  <2>4. \A i \in 1 .. n : i \in 1 .. Len(t.io) /\ t.buf[t.io[i].bp].data = s.buf[s.io[i].bp].data
    BY <1>1, <1>3
  <2>5. CASE \E c \in Buf : Serves(s, c, k) /\ v = s.buf[c].data
    <3>1. PICK c \in Buf : Serves(s, c, k) /\ v = s.buf[c].data
      BY <2>5
    <3>2. c # b
      BY <1>4, <3>1 DEF Serves
    <3> QED BY <1>3, <2>3, <3>1, <3>2 DEF Gives
  <2>6. CASE /\ \A c \in Buf : ~ Serves(s, c, k)
             /\ \E i \in 1 .. Len(s.io) : LastWrite(s, i, k) /\ v = s.buf[s.io[i].bp].data
    BY <2>2, <2>3, <2>4, <2>6 DEF Gives
  <2>7. CASE /\ \A c \in Buf : ~ Serves(s, c, k)
             /\ \A i \in 1 .. Len(s.io) : ~ Writes(s, i, k)
             /\ v = d[k]
    <3>1. \A i \in 1 .. Len(t.io) : ~ Writes(t, i, k)
      BY <2>1, <2>7 DEF Writes
    <3> QED BY <2>3, <2>7, <3>1 DEF Gives
  <2> QED BY <1>4, <2>5, <2>6, <2>7 DEF Gives
<1>5. ASSUME NEW k, NEW v, Gives(s, d, k, v), k = s.buf[b].blk, Valid(s, b),
             t.buf[b].data = s.buf[b].data
      PROVE  Gives(t, d, k, v)
  <2>1. Serves(s, b, k) /\ \A c \in Buf : Serves(s, c, k) => c = b
    BY <1>2, <1>5 DEF Serves, Unique
  <2>2. v = s.buf[b].data
    BY <1>2, <1>5, <2>1 DEF Gives
  <2>3. \A c \in Buf : ~ Serves(t, c, k)
    <3>1. ~ Serves(t, b, k)
      BY <1>2 DEF Serves
    <3> QED BY <1>3, <2>1, <3>1
  <2>4. n + 1 \in 1 .. Len(t.io) /\ \A j \in 1 .. Len(t.io) : j <= n + 1
    BY <1>1
  <2>5. LastWrite(t, n + 1, k)
    BY <1>1, <1>5, <2>4 DEF LastWrite, Writes
  <2>6. v = t.buf[t.io[n + 1].bp].data
    BY <1>1, <1>5, <2>2
  <2> QED BY <2>3, <2>4, <2>5, <2>6 DEF Gives
<1>6. Coherent(t, d)
  BY SendCoherent
<1>7. ASSUME NEW k \in Block \ X, NEW v, Gives(s, d, k, v) PROVE Gives(t, d, k, v)
  BY <1>4, <1>5, <1>7
<1> QED BY <1>6, <1>7 DEF Leads

\* A process writes into b, which is to be written later
Rewrites(s, t, b) ==
    /\ b \in Buf /\ b \notin InDriver(s) /\ Findable(s, b) /\ Findable(t, b) /\ Valid(t, b)
    /\ Is(t, b, "DELWRI") /\ t.buf[b].blk = s.buf[b].blk
    /\ t.io = s.io /\ \A c \in Buf \ {b} : Like(s, t, c)

\* Only its block is another then.
LEMMA RewriteLeads ==
    ASSUME NEW s, s \in Cache, Unique(s), NEW b, NEW t, Rewrites(s, t, b),
           NEW X, s.buf[b].blk \in X, NEW d, Coherent(s, d)
    PROVE  Leads(s, d, t, d, X)
<1>1. /\ b \in Buf /\ b \notin InDriver(s) /\ Findable(s, b) /\ Findable(t, b) /\ Valid(t, b)
      /\ Is(t, b, "DELWRI") /\ t.buf[b].blk = s.buf[b].blk /\ t.io = s.io
  BY DEF Rewrites
<1>2. ASSUME NEW c \in Buf, c # b
      PROVE  /\ t.buf[c].blk = s.buf[c].blk /\ t.buf[c].data = s.buf[c].data
             /\ Findable(t, c) <=> Findable(s, c)
             /\ Valid(t, c) <=> Valid(s, c)
             /\ \A k : Serves(t, c, k) <=> Serves(s, c, k)
             /\ Is(t, c, "DELWRI") <=> Is(s, c, "DELWRI")
             /\ Is(t, c, "STALE") <=> Is(s, c, "STALE")
  BY <1>2, LikeServes DEF Like, Rewrites
<1>3. \A i \in 1 .. Len(s.io) : /\ s.io[i].bp \in Buf /\ s.io[i].bp # b /\ For(t, i) = For(s, i)
  BY <1>1, <1>2, BufferOf DEF For
<1>4. InTurn(t)
  BY <1>1, <1>2, <1>3 DEF Coherent, InTurn
<1>5. Delays(t)
  BY <1>1, <1>2 DEF Coherent, Delays
<1>6. Clean(t, d)
  BY <1>1, <1>2, <1>3 DEF Coherent, Clean
<1>7. ASSUME NEW k \in Block \ X, NEW v, Gives(s, d, k, v) PROVE Gives(t, d, k, v)
  <2>1. \A i : Writes(t, i, k) <=> Writes(s, i, k)
    BY <1>1, <1>3 DEF Writes
  <2>2. \A i : LastWrite(t, i, k) <=> LastWrite(s, i, k)
    BY <1>1, <2>1 DEF LastWrite
  <2>3. \A c \in Buf : Serves(t, c, k) <=> Serves(s, c, k)
    BY <1>1, <1>2 DEF Serves
  <2>4. \A i \in 1 .. Len(s.io) : t.buf[t.io[i].bp].data = s.buf[s.io[i].bp].data
    BY <1>1, <1>2, <1>3
  <2>5. CASE \E c \in Buf : Serves(s, c, k) /\ v = s.buf[c].data
    <3>1. PICK c \in Buf : Serves(s, c, k) /\ v = s.buf[c].data
      BY <2>5
    <3>2. c # b
      BY <3>1 DEF Serves
    <3> QED BY <1>2, <2>3, <3>1, <3>2 DEF Gives
  <2>6. CASE /\ \A c \in Buf : ~ Serves(s, c, k)
             /\ \E i \in 1 .. Len(s.io) : LastWrite(s, i, k) /\ v = s.buf[s.io[i].bp].data
    BY <1>1, <2>2, <2>3, <2>4, <2>6 DEF Gives
  <2>7. CASE /\ \A c \in Buf : ~ Serves(s, c, k)
             /\ \A i \in 1 .. Len(s.io) : ~ Writes(s, i, k)
             /\ v = d[k]
    BY <1>1, <2>1, <2>3, <2>7 DEF Gives
  <2> QED BY <1>7, <2>5, <2>6, <2>7 DEF Gives
<1> QED BY <1>4, <1>5, <1>6, <1>7 DEF Leads, Coherent

\* A place in the driver's queue before the request n was removed from it
Before(n, i) == IF i < n THEN i ELSE i + 1

\* The request n of s, the first for its block, has ended, and it was for b
RequestEnded(s, t, n, b) ==
    /\ n \in 1 .. Len(s.io) /\ b = s.io[n].bp /\ t.io = RemoveAt(s.io, n)
    /\ \A j \in 1 .. Len(s.io) : j < n => For(s, j) # For(s, n)
    /\ t.buf[b].blk = s.buf[b].blk /\ (Is(t, b, "STALE") <=> Is(s, b, "STALE"))
    /\ ~ Is(s, b, "DONE") /\ ~ Is(t, b, "DELWRI")
    /\ \A c \in Buf \ {b} : Like(s, t, c)

\* The driver's queue then.
LEMMA EndedIs ==
    ASSUME NEW s, s \in Cache, Apart(s.io), NEW n, NEW b, NEW t, RequestEnded(s, t, n, b)
    PROVE  /\ n \in 1 .. Len(s.io) /\ Len(s.io) \in Nat /\ Len(t.io) = Len(s.io) - 1
           /\ b \in Buf /\ For(s, n) = s.buf[b].blk
           /\ \A i \in 1 .. Len(t.io) :
                /\ Before(n, i) \in 1 .. Len(s.io) /\ Before(n, i) # n
                /\ t.io[i] = s.io[Before(n, i)]
                /\ t.io[i].bp \in Buf /\ t.io[i].bp # b
                /\ For(t, i) = For(s, Before(n, i))
           /\ \A i, j \in 1 .. Len(t.io) : /\ i < j => Before(n, i) < Before(n, j)
                                           /\ Before(n, i) <= Before(n, j) => i <= j
           /\ \A j \in 1 .. Len(s.io) :
                j # n => \E i \in 1 .. Len(t.io) : j = Before(n, i)
<1> DEFINE q == s.io
<1>1. q \in Seq(Request) /\ n \in 1 .. Len(q) /\ t.io = RemoveAt(q, n) /\ b = q[n].bp
  BY CacheFields DEF RequestEnded
<1>2. Len(q) \in Nat
  BY <1>1
<1>3. /\ Len(t.io) = Len(q) - 1
      /\ \A i \in 1 .. Len(q) - 1 : t.io[i] = q[Before(n, i)]
  <2>1. /\ RemoveAt(q, n) \in Seq(Request) /\ Len(RemoveAt(q, n)) = Len(q) - 1
        /\ \A i \in 1 .. Len(q) - 1 : RemoveAt(q, n)[i] = q[IF i < n THEN i ELSE i + 1]
    BY <1>1, Removed
  <2> QED BY <1>1, <2>1 DEF Before
<1>4. \A i \in 1 .. Len(t.io) : Before(n, i) \in 1 .. Len(q) /\ Before(n, i) # n
  BY <1>1, <1>2, <1>3 DEF Before
<1>5. \A i \in 1 .. Len(t.io) : t.io[i] = q[Before(n, i)] /\ q[Before(n, i)].bp \in Buf
  BY <1>3, <1>4, BufferOf
<1>6. \A i \in 1 .. Len(t.io) : q[Before(n, i)].bp # b
  BY <1>1, <1>4 DEF Apart
<1>7. \A i \in 1 .. Len(t.io) : For(t, i) = For(s, Before(n, i))
  BY <1>5, <1>6 DEF For, RequestEnded, Like
<1>8. \A i, j \in 1 .. Len(t.io) : /\ i < j => Before(n, i) < Before(n, j)
                                   /\ Before(n, i) <= Before(n, j) => i <= j
  BY <1>1, <1>2, <1>3 DEF Before
<1>9. ASSUME NEW j \in 1 .. Len(q), j # n PROVE \E i \in 1 .. Len(t.io) : j = Before(n, i)
  <2>1. CASE j < n
    BY <1>1, <1>2, <1>3, <2>1 DEF Before
  <2>2. CASE j > n
    <3>1. j - 1 \in 1 .. Len(t.io) /\ Before(n, j - 1) = j
      BY <1>1, <1>2, <1>3, <2>2 DEF Before
    <3> QED BY <3>1
  <2> QED BY <1>1, <1>9, <2>1, <2>2
<1>10. b \in Buf /\ For(s, n) = s.buf[b].blk
  BY <1>1, BufferOf DEF For
<1> QED BY <1>1, <1>2, <1>3, <1>4, <1>5, <1>6, <1>7, <1>8, <1>9, <1>10

\* The request was a read, or a write, that went well, or it failed
ReadWell(s, d, t, e, n, b) ==
    s.io[n].read /\ e = d /\ t.buf[b].data = d[s.buf[b].blk]
WroteWell(s, d, t, e, n, b) ==
    /\ ~ s.io[n].read /\ t.buf[b].data = s.buf[b].data
    /\ e[s.buf[b].blk] = s.buf[b].data /\ \A k : k # s.buf[b].blk => e[k] = d[k]
Failed(s, d, t, e, n, b, X) ==
    e = d /\ Is(t, b, "ERROR") /\ (s.io[n].read \/ s.buf[b].blk \in X)

\* A request that ends does not change what a read would give, unless it is a write
\* that failed.
LEMMA EndLeads ==
    ASSUME NEW s, s \in Cache, Apart(s.io), Unique(s), NEW n, NEW b, NEW t,
           RequestEnded(s, t, n, b), NEW d, Coherent(s, d), NEW e, NEW X,
           ReadWell(s, d, t, e, n, b) \/ WroteWell(s, d, t, e, n, b)
             \/ Failed(s, d, t, e, n, b, X)
    PROVE  Leads(s, d, t, e, X)
<1> DEFINE k == s.buf[b].blk  m == Len(s.io)
<1>1. /\ n \in 1 .. m /\ m \in Nat /\ b \in Buf /\ For(s, n) = k
      /\ \A i \in 1 .. Len(t.io) :
                /\ Before(n, i) \in 1 .. m /\ Before(n, i) # n
                /\ t.io[i] = s.io[Before(n, i)]
                /\ t.io[i].bp \in Buf /\ t.io[i].bp # b
                /\ For(t, i) = For(s, Before(n, i))
      /\ \A i, j \in 1 .. Len(t.io) : /\ i < j => Before(n, i) < Before(n, j)
                                      /\ Before(n, i) <= Before(n, j) => i <= j
      /\ \A j \in 1 .. m : j # n => \E i \in 1 .. Len(t.io) : j = Before(n, i)
  BY EndedIs
<1>2. /\ b = s.io[n].bp /\ \A j \in 1 .. m : j < n => For(s, j) # k
      /\ t.buf[b].blk = k /\ (Is(t, b, "STALE") <=> Is(s, b, "STALE"))
      /\ ~ Valid(s, b) /\ ~ Is(t, b, "DELWRI") /\ (Findable(t, b) <=> Findable(s, b))
  BY <1>1 DEF RequestEnded, Valid, Findable
<1>3. ASSUME NEW c \in Buf, c # b
      PROVE  /\ t.buf[c].blk = s.buf[c].blk /\ t.buf[c].data = s.buf[c].data
             /\ Findable(t, c) <=> Findable(s, c)
             /\ Valid(t, c) <=> Valid(s, c)
             /\ \A kk : Serves(t, c, kk) <=> Serves(s, c, kk)
             /\ Is(t, c, "DELWRI") <=> Is(s, c, "DELWRI")
             /\ Is(t, c, "STALE") <=> Is(s, c, "STALE")
  BY <1>3, LikeServes DEF Like, RequestEnded
<1>4. Findable(s, b) => \A j \in 1 .. m : j # n => For(s, j) # k
  <2> SUFFICES ASSUME Findable(s, b), NEW j \in 1 .. m, j # n, For(s, j) = k PROVE FALSE
    OBVIOUS
  <2>1. n < j
    BY <1>1, <1>2
  <2>2. Is(s, b, "STALE")
    BY <1>1, <1>2, <2>1 DEF Coherent, InTurn
  <2> QED BY <2>2 DEF Findable
<1>5. \A kk : kk # k => e[kk] = d[kk]
  BY DEF ReadWell, WroteWell, Failed
<1>6. InTurn(t)
  <2> SUFFICES ASSUME NEW i \in 1 .. Len(t.io), NEW j \in 1 .. Len(t.io),
                      i < j, For(t, i) = For(t, j)
               PROVE  Is(t, t.io[i].bp, "STALE")
    BY DEF InTurn
  <2>1. /\ Before(n, i) \in 1 .. m /\ Before(n, j) \in 1 .. m /\ Before(n, i) < Before(n, j)
        /\ For(s, Before(n, i)) = For(s, Before(n, j))
    BY <1>1
  <2>2. Is(s, s.io[Before(n, i)].bp, "STALE")
    BY <2>1 DEF Coherent, InTurn
  <2> QED BY <1>1, <1>3, <2>2
<1>7. Delays(t)
  BY <1>2, <1>3 DEF Coherent, Delays
<1>8. Clean(t, e)
  <2> SUFFICES ASSUME NEW c \in Buf, Findable(t, c), Valid(t, c), ~ Is(t, c, "DELWRI")
               PROVE  /\ t.buf[c].data = e[t.buf[c].blk]
                      /\ \A i \in 1 .. Len(t.io) : For(t, i) # t.buf[c].blk
    BY DEF Clean
  <2>1. CASE c = b
    <3>1. t.buf[b].data = e[k]
      <4>1. ~ Failed(s, d, t, e, n, b, X)
        BY <2>1 DEF Failed, Valid
      <4> QED BY <4>1 DEF ReadWell, WroteWell
    <3>2. \A i \in 1 .. Len(t.io) : For(t, i) # k
      BY <1>1, <1>2, <1>4, <2>1
    <3> QED BY <1>2, <2>1, <3>1, <3>2
  <2>2. CASE c # b
    <3>1. s.buf[c].data = d[s.buf[c].blk] /\ \A i \in 1 .. m : For(s, i) # s.buf[c].blk
      BY <1>3, <2>2 DEF Coherent, Clean
    <3>2. s.buf[c].blk # k
      BY <1>1, <3>1
    <3> QED BY <1>1, <1>3, <1>5, <2>2, <3>1, <3>2
  <2> QED BY <2>1, <2>2
<1>9. ASSUME NEW kk, NEW i \in 1 .. Len(t.io)
      PROVE  Writes(t, i, kk) <=> Writes(s, Before(n, i), kk)
  BY <1>1 DEF Writes
<1>10. ASSUME NEW kk, NEW j, j # n, LastWrite(s, j, kk)
       PROVE  \E i \in 1 .. Len(t.io) :
                LastWrite(t, i, kk) /\ t.buf[t.io[i].bp].data = s.buf[s.io[j].bp].data
  <2>1. j \in 1 .. m
    BY <1>10 DEF LastWrite, Writes
  <2>2. PICK i \in 1 .. Len(t.io) : j = Before(n, i)
    BY <1>1, <1>10, <2>1
  <2>3. Writes(t, i, kk)
    BY <1>9, <1>10, <2>2 DEF LastWrite
  <2>4. \A h \in 1 .. Len(t.io) : Writes(t, h, kk) => h <= i
    <3> SUFFICES ASSUME NEW h \in 1 .. Len(t.io), Writes(t, h, kk) PROVE h <= i
      OBVIOUS
    <3>1. Before(n, h) \in 1 .. m /\ Writes(s, Before(n, h), kk)
      BY <1>1, <1>9
    <3>2. Before(n, h) <= Before(n, i)
      BY <1>10, <2>2, <3>1 DEF LastWrite
    <3> QED BY <1>1, <3>2
  <2>5. t.buf[t.io[i].bp].data = s.buf[s.io[j].bp].data
    BY <1>1, <1>3, <2>2
  <2> QED BY <2>3, <2>4, <2>5 DEF LastWrite
<1>11. ASSUME NEW kk, \A i \in 1 .. m : Writes(s, i, kk) => i = n
       PROVE  \A i \in 1 .. Len(t.io) : ~ Writes(t, i, kk)
  BY <1>1, <1>9, <1>11
<1>12. ASSUME NEW kk, kk # k, NEW v, Gives(s, d, kk, v) PROVE Gives(t, e, kk, v)
  <2>1. ~ Serves(s, b, kk) /\ ~ Serves(t, b, kk) /\ ~ Writes(s, n, kk)
    BY <1>1, <1>2, <1>12 DEF Serves, Writes
  <2>2. \A c \in Buf : Serves(t, c, kk) <=> Serves(s, c, kk)
    BY <1>3, <2>1
  <2>3. CASE \E c \in Buf : Serves(s, c, kk) /\ v = s.buf[c].data
    <3>1. PICK c \in Buf : Serves(s, c, kk) /\ v = s.buf[c].data
      BY <2>3
    <3>2. c # b
      BY <2>1, <3>1
    <3> QED BY <1>3, <2>2, <3>1, <3>2 DEF Gives
  <2>4. CASE /\ \A c \in Buf : ~ Serves(s, c, kk)
             /\ \E i \in 1 .. m : LastWrite(s, i, kk) /\ v = s.buf[s.io[i].bp].data
    <3>1. PICK j \in 1 .. m : LastWrite(s, j, kk) /\ v = s.buf[s.io[j].bp].data
      BY <2>4
    <3>2. j # n
      BY <2>1, <3>1 DEF LastWrite
    <3>3. \E i \in 1 .. Len(t.io) : LastWrite(t, i, kk) /\ t.buf[t.io[i].bp].data = v
      BY <1>10, <3>1, <3>2
    <3> QED BY <2>2, <2>4, <3>3 DEF Gives
  <2>5. CASE /\ \A c \in Buf : ~ Serves(s, c, kk)
             /\ \A i \in 1 .. m : ~ Writes(s, i, kk)
             /\ v = d[kk]
    <3>1. \A i \in 1 .. Len(t.io) : ~ Writes(t, i, kk)
      BY <1>11, <2>5
    <3>2. v = e[kk]
      BY <1>5, <1>12, <2>5
    <3> QED BY <2>2, <2>5, <3>1, <3>2 DEF Gives
  <2> QED BY <1>12, <2>3, <2>4, <2>5 DEF Gives
<1>13. ASSUME k \notin X, NEW v, Gives(s, d, k, v) PROVE Gives(t, e, k, v)
  <2>1. s.io[n].read => e = d
    BY DEF ReadWell, WroteWell, Failed
  <2>2. ~ s.io[n].read => WroteWell(s, d, t, e, n, b)
    BY <1>13 DEF ReadWell, WroteWell, Failed
  <2>3. ~ Serves(s, b, k)
    BY <1>2 DEF Serves
  <2>4. CASE Findable(s, b)
    <3>1. \A c \in Buf : c # b => ~ Serves(s, c, k) /\ ~ Serves(t, c, k)
      BY <1>1, <1>3, <2>4 DEF Serves, Unique
    <3>2. \A i \in 1 .. m : Writes(s, i, k) => i = n
      BY <1>4, <2>4 DEF Writes
    <3>3. \A i \in 1 .. Len(t.io) : ~ Writes(t, i, k)
      BY <1>11, <3>2
    <3>4. v = e[k]
      <4>1. CASE s.io[n].read
        <5>1. \A i \in 1 .. m : ~ Writes(s, i, k)
          BY <3>2, <4>1 DEF Writes
        <5>2. v = d[k]
          BY <1>13, <2>3, <3>1, <5>1 DEF Gives, LastWrite
        <5> QED BY <2>1, <4>1, <5>2
      <4>2. CASE ~ s.io[n].read
        <5>1. Writes(s, n, k)
          BY <1>1, <4>2 DEF Writes
        <5>2. \A i \in 1 .. m : LastWrite(s, i, k) => i = n
          BY <3>2 DEF LastWrite
        <5>3. v = s.buf[b].data
          BY <1>1, <1>2, <1>13, <2>3, <3>1, <5>1, <5>2 DEF Gives
        <5> QED BY <2>2, <4>2, <5>3 DEF WroteWell
      <4> QED BY <4>1, <4>2
    <3>5. CASE Serves(t, b, k)
      <4>1. t.buf[b].data = e[k]
        <5>1. ~ Failed(s, d, t, e, n, b, X)
          BY <3>5 DEF Failed, Valid, Serves
        <5> QED BY <5>1 DEF ReadWell, WroteWell
      <4> QED BY <1>1, <3>4, <3>5, <4>1 DEF Gives
    <3>6. CASE ~ Serves(t, b, k)
      <4>1. \A c \in Buf : ~ Serves(t, c, k)
        BY <3>1, <3>6
      <4> QED BY <3>3, <3>4, <4>1 DEF Gives
    <3> QED BY <3>5, <3>6
  <2>5. CASE ~ Findable(s, b)
    <3>1. ~ Serves(t, b, k)
      BY <1>2, <2>5 DEF Serves
    <3>2. \A c \in Buf : Serves(t, c, k) <=> Serves(s, c, k)
      BY <1>3, <2>3, <3>1
    <3>3. CASE \E c \in Buf : Serves(s, c, k) /\ v = s.buf[c].data
      <4>1. PICK c \in Buf : Serves(s, c, k) /\ v = s.buf[c].data
        BY <3>3
      <4>2. c # b
        BY <2>3, <4>1
      <4> QED BY <1>3, <3>2, <4>1, <4>2 DEF Gives
    <3>4. CASE /\ \A c \in Buf : ~ Serves(s, c, k)
               /\ \E i \in 1 .. m : LastWrite(s, i, k) /\ v = s.buf[s.io[i].bp].data
      <4>1. PICK j \in 1 .. m : LastWrite(s, j, k) /\ v = s.buf[s.io[j].bp].data
        BY <3>4
      <4>2. CASE j # n
        <5>1. \E i \in 1 .. Len(t.io) : LastWrite(t, i, k) /\ t.buf[t.io[i].bp].data = v
          BY <1>10, <4>1, <4>2
        <5> QED BY <3>2, <3>4, <5>1 DEF Gives
      <4>3. CASE j = n
        <5>1. \A i \in 1 .. m : Writes(s, i, k) => i = n
          <6> SUFFICES ASSUME NEW i \in 1 .. m, Writes(s, i, k) PROVE i = n
            OBVIOUS
          <6>1. i <= n /\ For(s, i) = k
            BY <4>1, <4>3 DEF LastWrite, Writes
          <6> QED BY <1>1, <1>2, <6>1
        <5>2. \A i \in 1 .. Len(t.io) : ~ Writes(t, i, k)
          BY <1>11, <5>1
        <5>3. ~ s.io[n].read
          BY <4>1, <4>3 DEF LastWrite, Writes
        <5>4. v = e[k]
          BY <1>2, <2>2, <4>1, <4>3, <5>3 DEF WroteWell
        <5> QED BY <3>2, <3>4, <5>2, <5>4 DEF Gives
      <4> QED BY <4>2, <4>3
    <3>5. CASE /\ \A c \in Buf : ~ Serves(s, c, k)
               /\ \A i \in 1 .. m : ~ Writes(s, i, k)
               /\ v = d[k]
      <4>1. \A i \in 1 .. Len(t.io) : ~ Writes(t, i, k)
        BY <1>11, <3>5
      <4>2. s.io[n].read
        BY <1>1, <3>5 DEF Writes
      <4> QED BY <2>1, <3>2, <3>5, <4>1, <4>2 DEF Gives
    <3> QED BY <1>13, <3>3, <3>4, <3>5 DEF Gives
  <2> QED BY <2>4, <2>5
<1>14. ASSUME NEW kk \in Block \ X, NEW v, Gives(s, d, kk, v) PROVE Gives(t, e, kk, v)
  BY <1>12, <1>13, <1>14
<1> QED BY <1>6, <1>7, <1>8, <1>14 DEF Leads, Coherent

\* binval, after everything was written: what could be found is on the disk, or on its
\* way there.
LEMMA InvalidLeads ==
    ASSUME NEW s, s \in Cache, Unique(s), \A b \in InDriver(s) : s.buf[b].blk # NoBlock,
           \A b \in Buf : ~ Is(s, b, "DELWRI"),
           NEW t, Invalidated(s, t), NEW d, Coherent(s, d), NEW X
    PROVE  Leads(s, d, t, d, X)
<1>1. /\ t.io = s.io
      /\ \A b \in Buf : /\ t.buf[b].blk = s.buf[b].blk /\ t.buf[b].data = s.buf[b].data
                        /\ ~ Findable(t, b) /\ ~ Is(t, b, "DELWRI")
  BY DEF Invalidated, SameBut
<1>2. \A i \in 1 .. Len(s.io) : /\ s.io[i].bp \in Buf /\ For(t, i) = For(s, i)
                                /\ Is(t, s.io[i].bp, "STALE")
  BY <1>1, BufferOf DEF For, Findable
<1>3. InTurn(t) /\ Delays(t) /\ Clean(t, d)
  BY <1>1, <1>2 DEF InTurn, Delays, Clean
<1>4. ASSUME NEW k, NEW v, Gives(s, d, k, v) PROVE Gives(t, d, k, v)
  <2>1. \A i : Writes(t, i, k) <=> Writes(s, i, k)
    BY <1>1, <1>2 DEF Writes
  <2>2. \A i : LastWrite(t, i, k) <=> LastWrite(s, i, k)
    BY <1>1, <2>1 DEF LastWrite
  <2>3. \A b \in Buf : ~ Serves(t, b, k)
    BY <1>1 DEF Serves
  <2>4. \A i \in 1 .. Len(s.io) : t.buf[t.io[i].bp].data = s.buf[s.io[i].bp].data
    BY <1>1, <1>2
  <2>5. CASE \E b \in Buf : Serves(s, b, k) /\ v = s.buf[b].data
    <3>1. PICK b \in Buf : Serves(s, b, k) /\ v = s.buf[b].data
      BY <2>5
    <3>2. v = d[k] /\ \A i \in 1 .. Len(s.io) : For(s, i) # k
      BY <3>1 DEF Coherent, Clean, Serves
    <3>3. \A i \in 1 .. Len(t.io) : ~ Writes(t, i, k)
      BY <2>1, <3>2 DEF Writes
    <3> QED BY <2>3, <3>2, <3>3 DEF Gives
  <2>6. CASE /\ \A b \in Buf : ~ Serves(s, b, k)
             /\ \E i \in 1 .. Len(s.io) : LastWrite(s, i, k) /\ v = s.buf[s.io[i].bp].data
    BY <1>1, <2>2, <2>3, <2>4, <2>6 DEF Gives
  <2>7. CASE /\ \A b \in Buf : ~ Serves(s, b, k)
             /\ \A i \in 1 .. Len(s.io) : ~ Writes(s, i, k)
             /\ v = d[k]
    BY <1>1, <2>1, <2>3, <2>7 DEF Gives
  <2> QED BY <1>4, <2>5, <2>6, <2>7 DEF Gives
<1> QED BY <1>3, <1>4 DEF Leads, Coherent

\* What Current says, of any cache and disk
FilledIn(s, k) == {b \in Incore(s, k) : Is(s, b, "DONE") /\ ~ Is(s, b, "ERROR")}
Writing(s, k) == {i \in 1 .. Len(s.io) : For(s, i) = k /\ ~ s.io[i].read}
Content(s, d, k) ==
    IF FilledIn(s, k) # {} THEN s.buf[CHOOSE b \in FilledIn(s, k) : TRUE].data
    ELSE IF Writing(s, k) # {} THEN s.buf[s.io[Max(Writing(s, k))].bp].data
    ELSE d[k]

\* The greatest place of some.
LEMMA LastPlace ==
    ASSUME NEW n \in Nat, NEW S \in SUBSET (1 .. n), S # {}
    PROVE  Max(S) \in S /\ \A j \in S : j <= Max(S)
<1>1. \E m \in S : \A k \in S : m >= k
  <2>1. S \in SUBSET Int /\ \A k \in S : k <= n
    OBVIOUS
  <2>2. n \in Int
    OBVIOUS
  <2>3. PICK m \in S : \A k \in S : k <= m
    BY <2>1, <2>2, IntGreatest, Zenon
  <2> QED BY <2>1, <2>3
<1>2. Max(S) \in S /\ \A k \in S : Max(S) >= k
  BY <1>1 DEF Max
<1> QED BY <1>2

\* A read gives what Content says, and nothing else.
LEMMA ContentIs ==
    ASSUME NEW s, s \in Cache, Unique(s), NEW d, NEW k \in Block
    PROVE  /\ Gives(s, d, k, Content(s, d, k))
           /\ \A v : Gives(s, d, k, v) => v = Content(s, d, k)
<1> DEFINE F == FilledIn(s, k)  W == Writing(s, k)  n == Len(s.io)
           C == Content(s, d, k)
<1>1. n \in Nat
  BY CacheFields
<1>2. k # NoBlock
  BY NamesAssumption
<1>3. \A b : b \in F <=> b \in Buf /\ Serves(s, b, k)
  BY <1>2 DEF FilledIn, Incore, Serves, Valid, Findable
<1>4. \A b, c \in F : b = c
  BY <1>3 DEF Unique, Serves
<1>5. \A i : i \in W <=> Writes(s, i, k)
  BY DEF Writing, Writes
<1>6. W \subseteq 1 .. n /\ W \in SUBSET (1 .. n)
  BY DEF Writing
<1>7. C = IF F # {} THEN s.buf[CHOOSE b \in F : TRUE].data
          ELSE IF W # {} THEN s.buf[s.io[Max(W)].bp].data ELSE d[k]
  BY DEF Content
<1> HIDE DEF F, W, C
<1>8. CASE F # {}
  <2> DEFINE a == CHOOSE b \in F : TRUE
  <2>1. a \in F /\ C = s.buf[a].data
    BY <1>7, <1>8
  <2> HIDE DEF a
  <2>2. Gives(s, d, k, C)
    BY <1>3, <2>1 DEF Gives
  <2>3. ASSUME NEW v, Gives(s, d, k, v) PROVE v = C
    BY <1>3, <1>4, <2>1, <2>3 DEF Gives
  <2> QED BY <2>2, <2>3 DEF C
<1>9. CASE F = {} /\ W # {}
  <2> DEFINE m == Max(W)
  <2>1. m \in W /\ \A j \in W : j <= m
    BY <1>1, <1>6, <1>9, LastPlace
  <2>2. C = s.buf[s.io[m].bp].data
    BY <1>7, <1>9
  <2> HIDE DEF m
  <2>3. m \in 1 .. n /\ LastWrite(s, m, k)
    BY <1>5, <1>6, <2>1 DEF LastWrite
  <2>4. \A i \in 1 .. n : LastWrite(s, i, k) => i = m
    BY <1>1, <2>3 DEF LastWrite
  <2>5. Gives(s, d, k, C)
    BY <1>3, <1>9, <2>2, <2>3 DEF Gives
  <2>6. ASSUME NEW v, Gives(s, d, k, v) PROVE v = C
    <3>1. ~ \A i \in 1 .. n : ~ Writes(s, i, k)
      BY <2>3 DEF LastWrite
    <3>2. \A b \in Buf : ~ Serves(s, b, k)
      BY <1>3, <1>9
    <3>3. PICK i \in 1 .. n : LastWrite(s, i, k) /\ v = s.buf[s.io[i].bp].data
      BY <2>6, <3>1, <3>2 DEF Gives
    <3> QED BY <2>2, <2>4, <3>3
  <2> QED BY <2>5, <2>6 DEF C
<1>10. CASE F = {} /\ W = {}
  <2>1. C = d[k] /\ (\A b \in Buf : ~ Serves(s, b, k)) /\ \A i \in 1 .. n : ~ Writes(s, i, k)
    BY <1>3, <1>5, <1>7, <1>10
  <2>2. Gives(s, d, k, C)
    BY <2>1 DEF Gives
  <2>3. ASSUME NEW v, Gives(s, d, k, v) PROVE v = C
    BY <2>1, <2>3 DEF Gives, LastWrite
  <2> QED BY <2>2, <2>3 DEF C
<1> QED BY <1>8, <1>9, <1>10

\* The same, as Current says it of the buffers f, the requests q and the disk d
CurrentOf(f, q, d, F, k) ==
    LET writing == SelectLastInSeq(q, LAMBDA r : f[r.bp].blk = k /\ ~ r.read)
    IN  IF F # {} THEN f[CHOOSE b \in F : TRUE].data
        ELSE IF writing # 0 THEN f[q[writing].bp].data ELSE d[k]

\* It says what Content says.
LEMMA CurrentOfIs ==
    ASSUME NEW s, s \in Cache, NEW d, NEW k
    PROVE  CurrentOf(s.buf, s.io, d, FilledIn(s, k), k) = Content(s, d, k)
<1> DEFINE W == Writing(s, k)  n == Len(s.io)  w == IF W # {} THEN Max(W) ELSE 0
<1>1. CurrentOf(s.buf, s.io, d, FilledIn(s, k), k) =
        IF FilledIn(s, k) # {} THEN s.buf[CHOOSE b \in FilledIn(s, k) : TRUE].data
        ELSE IF w # 0 THEN s.buf[s.io[w].bp].data ELSE d[k]
  BY DEF CurrentOf, SelectLastInSeq, Writing, For
<1>2. n \in Nat /\ W \in SUBSET (1 .. n)
  BY CacheFields DEF Writing
<1>3. W # {} => Max(W) \in 1 .. n
  BY <1>2, LastPlace
<1>4. W # {} => Max(W) # 0
  BY <1>2, <1>3
<1>5. (w # 0 <=> W # {}) /\ (W # {} => w = Max(W))
  BY <1>4
<1> HIDE DEF w
<1> QED BY <1>1, <1>5 DEF Content

\* Current is the content of the variables' cache.
LEMMA CurrentIs ==
    ASSUME NEW k \in Block, Now \in Cache, Now' \in Cache
    PROVE  Current(k) = Content(Now, disk, k) /\ Current(k)' = Content(Now', disk', k)
<1>1. Current(k) = Content(Now, disk, k)
  <2>1. Current(k) = CurrentOf(buf, io, disk, FilledIn(Now, k), k)
    BY DEF Current, CurrentOf, FilledIn
  <2> QED BY <2>1, CurrentOfIs, NowIs
<1>2. Current(k)' = Content(Now', disk', k)
  <2>1. Current(k)' = CurrentOf(buf', io', disk', FilledIn(Now', k), k)
    BY DEF Current, CurrentOf, FilledIn, SelectLastInSeq
  <2>2. Now'.buf = buf' /\ Now'.io = io'
    BY DEF Now
  <2> QED BY <2>1, <2>2, CurrentOfIs
<1> QED BY <1>1, <1>2

-----------------------------------------------------------------------------
(* The routines of the cache leave the contents what they are *)

\* Whatever is on the disk, t gives what s gives, but for the blocks X
Keeps(s, t, X) == \A d : Coherent(s, d) => Leads(s, d, t, d, X)

\* Two routines.
LEMMA KeepsOn ==
    ASSUME NEW s, NEW t, NEW u, NEW X, Keeps(s, t, X), Keeps(t, u, X)
    PROVE  Keeps(s, u, X)
<1> SUFFICES ASSUME NEW d, Coherent(s, d) PROVE Leads(s, d, u, d, X)
  BY DEF Keeps
<1>1. Leads(s, d, t, d, X)
  BY DEF Keeps
<1>2. Leads(t, d, u, d, X)
  BY <1>1 DEF Keeps, Leads
<1> QED BY <1>1, <1>2, LeadsOn

\* Other buffers are as they were.
LEMMA OthersLike ==
    ASSUME NEW s, NEW t, NEW b, OnlyAt(s, t, b)
    PROVE  \A c \in Buf \ {b} : Like(s, t, c)
BY DEF OnlyAt, Like, Is

\* Changes that are not of the contents: of lists, memory and other flags.
LEMMA AlikeKeeps ==
    ASSUME NEW s, s \in Cache, NEW t, Alike(s, t), NEW X
    PROVE  Keeps(s, t, X)
BY AlikeLeads DEF Keeps

\* The buffers and the requests are the same.
LEMMA BuffersKeep ==
    ASSUME NEW s, s \in Cache, NEW t, t.buf = s.buf, t.io = s.io, NEW X
    PROVE  Keeps(s, t, X)
<1>1. Alike(s, t)
  BY DEF Alike, Like, Is
<1> QED BY <1>1, AlikeKeeps

\* Flags that say nothing of the contents
Outer == {"BUSY", "ASYNC", "WANTED", "AGE"}

\* They change.
LEMMA FlagKeeps ==
    ASSUME NEW s, s \in Cache, NEW b \in Buf, NEW on \in SUBSET Outer, NEW off \in SUBSET Outer,
           NEW t, t = Flagged(s, b, on, off), NEW X
    PROVE  Keeps(s, t, X)
<1>1. on \in SUBSET Flag
  BY DEF Outer, Flag
<1>2. /\ OnlyBuf(s, t, b) /\ SameBut(t, s, b)
      /\ t.buf[b].flags = (s.buf[b].flags \ off) \cup on
  BY <1>1, FlagsAre
<1>3. Like(s, t, b)
  BY <1>2 DEF Like, SameBut, Is, Outer
<1>4. \A c \in Buf \ {b} : Like(s, t, c)
  BY <1>2 DEF OnlyBuf, Like, Is
<1>5. t.io = s.io
  BY <1>2 DEF OnlyBuf
<1> QED BY <1>3, <1>4, <1>5, AlikeKeeps DEF Alike

\* notavail.
LEMMA TakeKeeps ==
    ASSUME NEW s, s \in Cache, Lists(s), NEW b \in Buf, b \in OnList(s), NEW t, t = Notavail(s, b),
           NEW X
    PROVE  Keeps(s, t, X)
<1>1. /\ OnlyAt(s, t, b) /\ SameBut(t, s, b) /\ t.io = s.io
      /\ t.buf[b].flags = s.buf[b].flags \cup {"BUSY"}
  BY NotavailIs
<1>2. Like(s, t, b)
  BY <1>1 DEF Like, SameBut, Is
<1>3. \A c \in Buf \ {b} : Like(s, t, c)
  BY <1>1, OthersLike
<1> QED BY <1>1, <1>2, <1>3, AlikeKeeps DEF Alike

\* The flags of a buffer that brelse released.
LEMMA ReleasedFlags ==
    ASSUME NEW s, s \in Cache, NEW b \in Buf, NEW t, t = Brelse(s, b)
    PROVE  /\ ~ Is(s, b, "ERROR") =>
                t.buf[b].flags = s.buf[b].flags \ {"WANTED", "BUSY", "ASYNC"}
           /\ Is(s, b, "ERROR") => Is(t, b, "STALE") /\ ~ Is(t, b, "DELWRI")
<1> DEFINE failed == Is(s, b, "ERROR")
           on == IF failed THEN {"STALE", "AGE"} ELSE {}
           off == {"WANTED", "BUSY", "ASYNC"} \cup (IF failed THEN {"ERROR", "DELWRI"} ELSE {})
           u == Flagged(s, b, on, off)
<1>1. t.buf = u.buf
  BY DEF Brelse
<1>2. u.buf[b].flags = (s.buf[b].flags \ off) \cup on
  <2>1. on \in SUBSET Flag
    BY DEF Flag
  <2> HIDE DEF on, off
  <2> QED BY <2>1, FlagsAre
<1> HIDE DEF u
<1> QED BY <1>1, <1>2 DEF Is

\* brelse: what a buffer with an error contained is on the disk.
LEMMA ReleaseKeeps ==
    ASSUME NEW s, s \in Cache, Lists(s), Unique(s), NEW b \in Buf, b \notin OnList(s),
           b \notin InDriver(s), NEW t, t = Brelse(s, b), NEW X
    PROVE  Keeps(s, t, X)
<1>1. OnlyAt(s, t, b) /\ SameBut(t, s, b) /\ t.io = s.io
  BY BrelseIs
<1>2. \A c \in Buf \ {b} : Like(s, t, c)
  BY <1>1, OthersLike
<1>3. CASE ~ Is(s, b, "ERROR")
  <2>1. Like(s, t, b)
    BY <1>1, <1>3, ReleasedFlags DEF Like, SameBut, Is
  <2> QED BY <1>1, <1>2, <2>1, AlikeKeeps DEF Alike
<1>4. CASE Is(s, b, "ERROR")
  <2> SUFFICES ASSUME NEW d, Coherent(s, d) PROVE Leads(s, d, t, d, X)
    BY DEF Keeps
  <2>1. ~ Is(s, b, "DELWRI")
    BY <1>4 DEF Coherent, Delays, Valid
  <2>2. ~ Findable(t, b) /\ ~ Is(t, b, "DELWRI")
    BY <1>4, ReleasedFlags DEF Findable
  <2>3. Vanishes(s, t, b)
    BY <1>1, <1>2, <2>1, <2>2 DEF Vanishes
  <2> QED BY <2>3, VanishLeads
<1> QED BY <1>3, <1>4

\* A buffer that nobody could find is not found after a change.
LEMMA HiddenKeeps ==
    ASSUME NEW s, s \in Cache, Unique(s), NEW b \in Buf, ~ Findable(s, b), b \notin InDriver(s),
           NEW t, OnlyAt(s, t, b), t.io = s.io, ~ Findable(t, b),
           Is(t, b, "DELWRI") => Is(s, b, "DELWRI"), NEW X
    PROVE  Keeps(s, t, X)
<1> SUFFICES ASSUME NEW d, Coherent(s, d) PROVE Leads(s, d, t, d, X)
  BY DEF Keeps
<1>1. ~ Is(s, b, "DELWRI")
  BY DEF Coherent, Delays
<1>2. Vanishes(s, t, b)
  BY <1>1, OthersLike DEF Vanishes
<1> QED BY <1>2, VanishLeads

\* bwrite's request, of what is to be written or for one of the blocks X.
LEMMA WriteKeeps ==
    ASSUME NEW s, s \in Cache, Unique(s), NEW b \in Buf, b \notin InDriver(s),
           NEW t, NEW how, Written(s, t, b, how), "DELWRI" \notin how,
           NEW X, Is(s, b, "DELWRI") \/ (Findable(s, b) /\ s.buf[b].blk \in X)
    PROVE  Keeps(s, t, X)
<1> SUFFICES ASSUME NEW d, Coherent(s, d) PROVE Leads(s, d, t, d, X)
  BY DEF Keeps
<1> DEFINE e == [bp |-> b, read |-> FALSE]
<1>1. GoodRequest(e, b) /\ ~ e.read
  BY DEF GoodRequest, Request
<1>2. t.io = Append(s.io, e) /\ t.buf[b].data = s.buf[b].data
  BY DEF Written
<1>3. Is(s, b, "DELWRI") => Findable(s, b) /\ Valid(s, b)
  BY DEF Coherent, Delays
<1>4. ~ Is(t, b, "DELWRI") /\ ~ Is(t, b, "DONE")
  BY DEF Written, Is
<1>5. /\ OnlyAt(s, t, b) /\ t.buf[b].blk = s.buf[b].blk
      /\ (Is(t, b, "STALE") <=> Is(s, b, "STALE"))
  BY DEF Written, Submitted
<1> HIDE DEF e
<1>6. Sends(s, t, b, e)
  BY <1>1, <1>2, <1>3, <1>4, <1>5, OthersLike DEF Sends
<1> QED BY <1>1, <1>2, <1>3, <1>6, WriteLeads

\* bread's request, for a buffer that is not filled.
LEMMA ReadKeeps ==
    ASSUME NEW s, s \in Cache, Lists(s), Unique(s), NEW b \in Buf, b \notin InDriver(s),
           ~ Is(s, b, "DONE"), Findable(s, b), NEW how, how \in {{}, {"ASYNC"}},
           NEW t, t = StartRead(s, b, how), NEW X
    PROVE  Keeps(s, t, X)
<1> SUFFICES ASSUME NEW d, Coherent(s, d) PROVE Leads(s, d, t, d, X)
  BY DEF Keeps
<1> DEFINE e == [bp |-> b, read |-> TRUE]
<1>1. /\ t = Given(s, b, how, {}, e)
      /\ GoodRequest(e, b) /\ e.read
  BY DEF GoodRequest, StartRead, Strategy, Request, Given
<1>2. how \in SUBSET Flag /\ "STALE" \notin how /\ "DONE" \notin how /\ "DELWRI" \notin how
  BY DEF Flag
<1> HIDE DEF e
<1>3. Handed(s, t, b, how, {}, e)
  BY <1>1, <1>2, StrategyIs
<1>4. /\ OnlyAt(s, t, b) /\ t.buf[b].blk = s.buf[b].blk /\ t.io = Append(s.io, e)
      /\ t.buf[b].flags = s.buf[b].flags \cup how
  BY <1>3 DEF Handed, SameBut
<1>5. ~ Is(s, b, "DELWRI")
  BY DEF Coherent, Delays, Valid
<1>6. /\ (Is(t, b, "STALE") <=> Is(s, b, "STALE")) /\ ~ Is(t, b, "DONE") /\ ~ Is(t, b, "DELWRI")
  BY <1>2, <1>4, <1>5 DEF Is
<1>7. Sends(s, t, b, e)
  BY <1>1, <1>4, <1>6, OthersLike DEF Sends
<1> QED BY <1>1, <1>7, ReadLeads

\* A buffer that is not to be written is forgotten: what it contains is on the disk.
LEMMA ForgetKeeps ==
    ASSUME NEW s, s \in Cache, Unique(s), NEW b \in Buf, b \notin InDriver(s),
           ~ Is(s, b, "DELWRI"), NEW t, OnlyAt(s, t, b), t.io = s.io,
           ~ Findable(t, b), ~ Is(t, b, "DELWRI"), NEW X
    PROVE  Keeps(s, t, X)
<1>1. Vanishes(s, t, b)
  BY OthersLike DEF Vanishes
<1> QED BY <1>1, VanishLeads DEF Keeps

\* A turn of getfreeblk's loop.
LEMMA ReclaimKeepsAll ==
    ASSUME NEW s, NEW B, NEW N, Sound(s, B, N), NEW b, b \in OnList(s), s.saved = NoBuf, NEW bsize,
           NEW t, t = Reclaim(s, b, bsize), NEW X
    PROVE  Keeps(s, t, X)
<1> DEFINE u == Notavail(s, b)
           how == {"ASYNC", "AGE"}
<1>1. /\ s \in Cache /\ Lists(s) /\ Unique(s) /\ b \in Buf /\ b \notin B /\ b \notin N
      /\ b \notin InDriver(s)
  BY ListedFree DEF Sound
<1>2. /\ Sound(u, B \cup {b}, N) /\ OnlyAt(s, u, b) /\ SameBut(u, s, b) /\ u.io = s.io
      /\ u.buf[b].flags = s.buf[b].flags \cup {"BUSY"}
  BY Take
<1>3. Keeps(s, u, X)
  BY <1>1, TakeKeeps
<1>4. u \in Cache /\ Lists(u) /\ Unique(u) /\ b \notin InDriver(u)
  BY <1>1, <1>2 DEF Sound, InDriver
<1> HIDE DEF u
<1>5. CASE Is(u, b, "DELWRI")
  <2>1. t = StartWrite(Flagged(u, b, how, {}), b)
    BY <1>5 DEF Reclaim, u
  <2>2. Written(u, t, b, how)
    <3>1. how \in {{}, {"ASYNC"}, {"ASYNC", "AGE"}}
      OBVIOUS
    <3> HIDE DEF how
    <3> QED BY <1>1, <1>4, <2>1, <3>1, WriteSubmits
  <2>3. Keeps(u, t, X)
    BY <1>1, <1>4, <1>5, <2>2, WriteKeeps
  <2> QED BY <1>3, <2>3, KeepsOn
<1>6. CASE ~ Is(u, b, "DELWRI") /\ u.buf[b].size = bsize
  <2> DEFINE v == Unhash(u, b)
  <2>1. t = [v EXCEPT !.saved = b]
    BY <1>6 DEF Reclaim, u
  <2>2. OnlyBuf(u, v, b) /\ v.buf[b].blk = NoBlock /\ v.buf[b].flags = u.buf[b].flags
    BY <1>1, <1>4, UnhashIs
  <2> HIDE DEF v
  <2>3. OnlyAt(u, v, b) /\ v.io = u.io /\ v \in Cache
    BY <1>4, <2>2, OnlyBufAt DEF OnlyAt
  <2>4. ~ Findable(v, b) /\ ~ Is(v, b, "DELWRI")
    BY <1>6, <2>2 DEF Findable, Is
  <2>5. Keeps(u, v, X)
    BY <1>1, <1>4, <1>6, <2>3, <2>4, ForgetKeeps
  <2>6. t.buf = v.buf /\ t.io = v.io
    BY <2>1
  <2>7. Keeps(v, t, X)
    BY <2>3, <2>6, BuffersKeep
  <2> QED BY <1>3, <2>5, <2>7, KeepsOn
<1>7. CASE ~ Is(u, b, "DELWRI") /\ u.buf[b].size # bsize
  <2> DEFINE n == u.bufsize + u.buf[b].size
  <2>1. t = Rewritten(u, b, Unused, n)
    BY <1>7 DEF Reclaim, u, Rewritten
  <2>2. n \in Nat
    BY <1>1, <1>4, HeaderFields, CacheFields
  <2> HIDE DEF n
  <2>3. /\ Unused \in Header /\ Unused.blk = NoBlock /\ Unused.flags = {}
    BY <1>1, UnusedIs
  <2>4. OnlyAt(u, t, b) /\ t.buf[b] = Unused /\ t.io = u.io
    BY <1>1, <1>4, <2>1, <2>2, <2>3, HeaderAndMemory DEF RewrittenIs
  <2>5. ~ Findable(t, b) /\ ~ Is(t, b, "DELWRI")
    BY <2>3, <2>4 DEF Findable, Is
  <2>6. Keeps(u, t, X)
    BY <1>1, <1>4, <1>7, <2>4, <2>5, ForgetKeeps
  <2> QED BY <1>3, <2>6, KeepsOn
<1> QED BY <1>5, <1>6, <1>7

\* A turn after others.
LEMMA TurnKeeps ==
    ASSUME NEW s, NEW B, NEW N, Sound(s, B, N), NEW bsize, NEW t, NEW k \in Nat,
           k + 1 <= Len(s.avail), Loop(s, t, k, B, N, bsize), NEW X, Keeps(s, t, X),
           NEW u, u = Turn(t, s.avail[k + 1], bsize)
    PROVE  Keeps(s, u, X)
<1> DEFINE b == s.avail[k + 1]
<1>1. Len(s.avail) \in Nat
  BY CacheFields DEF Sound
<1>2. k + 1 \in (k + 1) .. Len(s.avail)
  BY <1>1
<1>3. b \in OnList(t) /\ u = Turn(t, b, bsize) /\ t \in Cache
  BY <1>2 DEF Loop
<1> HIDE DEF b
<1>4. CASE ~ t.stop /\ t.saved = NoBuf /\ (t.bufsize < bsize \/ Is(t, b, "AGE"))
  <2>1. u = Reclaim(t, b, bsize)
    BY <1>3, <1>4 DEF Turn
  <2>2. Sound(t, B, N)
    <3>1. N \cup One(t.saved) = N
      BY <1>4 DEF One
    <3> QED BY <3>1 DEF Loop
  <2>3. Keeps(t, u, X)
    BY <1>3, <1>4, <2>1, <2>2, ReclaimKeepsAll
  <2> QED BY <2>3, KeepsOn
<1>5. CASE ~ (~ t.stop /\ t.saved = NoBuf /\ (t.bufsize < bsize \/ Is(t, b, "AGE")))
  <2>1. u = [t EXCEPT !.stop = TRUE]
    BY <1>3, <1>5 DEF Turn
  <2>2. u.buf = t.buf /\ u.io = t.io
    BY <2>1
  <2>3. Keeps(t, u, X)
    BY <1>3, <2>2, BuffersKeep
  <2> QED BY <2>3, KeepsOn
<1> QED BY <1>4, <1>5

\* getfreeblk.
LEMMA GetfreeblkKeeps ==
    ASSUME NEW s, NEW B, NEW N, Sound(s, B, N), s.saved = NoBuf, ~ s.stop, NEW bsize,
           NEW t, t = Getfreeblk(s, bsize), NEW X
    PROVE  Keeps(s, t, X)
<1> DEFINE n == Len(s.avail)
<1>1. s \in Cache /\ n \in Nat
  BY CacheFields DEF Sound
<1>2. PICK g : Turns(g, s, bsize, n)
  BY <1>1, GetfreeblkTurns
<1>3. g[0] = s /\ g[n] = t /\ \A i \in 1 .. n : g[i] = Turn(g[i - 1], s.avail[i], bsize)
  BY <1>2 DEF Turns
<1> DEFINE T == {k \in Nat : k <= n => Loop(s, g[k], k, B, N, bsize) /\ Keeps(s, g[k], X)}
<1>4. 0 \in T
  <2>1. Keeps(s, s, X)
    BY <1>1, BuffersKeep
  <2> QED BY <1>3, <2>1, LoopBegins
<1>5. ASSUME NEW k \in Nat, k \in T PROVE k + 1 \in T
  <2> SUFFICES ASSUME k + 1 <= n
               PROVE  Loop(s, g[k + 1], k + 1, B, N, bsize) /\ Keeps(s, g[k + 1], X)
    OBVIOUS
  <2>1. k + 1 \in 1 .. n /\ (k + 1) - 1 = k /\ k <= n
    BY <1>1
  <2>2. g[k + 1] = Turn(g[k], s.avail[k + 1], bsize)
    BY <1>3, <2>1
  <2>3. Loop(s, g[k], k, B, N, bsize) /\ Keeps(s, g[k], X)
    BY <1>5, <2>1
  <2>4. Loop(s, g[k + 1], k + 1, B, N, bsize)
    BY <2>2, <2>3, LoopTurns
  <2>5. Keeps(s, g[k + 1], X)
    BY <2>2, <2>3, TurnKeeps
  <2> QED BY <2>4, <2>5
<1> HIDE DEF T
<1>6. n \in T
  BY <1>1, <1>4, <1>5, SetInduction
<1> QED BY <1>1, <1>3, <1>6 DEF T

-----------------------------------------------------------------------------
\* The new buffer of a block is not filled.
LEMMA AssignKeeps ==
    ASSUME NEW s, NEW B, NEW N, Sound(s, B, N), NEW b, b \in Buf, b \in N,
           NEW c, c.want \in Block \cup {NoBlock}, NEW t, t = Assign(s, b, c), NEW X
    PROVE  Keeps(s, t, X)
<1> DEFINE F == IF c.want = NoBlock THEN {"BUSY", "AGE"} ELSE {"BUSY"}
           k == c.want
<1>1. s \in Cache /\ Lists(s)
  BY DEF Sound
<1>2. b \notin InDriver(s) /\ s.buf[b].blk = NoBlock
  BY NewIs
<1>3. t = Renamed(s, b, F, k) /\ F \in SUBSET Flag /\ k \in Block \cup {NoBlock}
  BY DEF Assign, Renamed, Flag
<1>4. "DONE" \notin F /\ "DELWRI" \notin F
  OBVIOUS
<1> HIDE DEF F, k
<1>5. OnlyBuf(s, t, b) /\ t.buf[b].flags = F
  BY <1>1, <1>3, Rename DEF RenamedIs
<1>6. OnlyAt(s, t, b) /\ t.io = s.io
  BY <1>1, <1>5, OnlyBufAt
<1>7. ~ Is(t, b, "DONE") /\ ~ Is(t, b, "DELWRI") /\ ~ Findable(s, b)
  BY <1>2, <1>4, <1>5 DEF Is, Findable
<1>8. Appears(s, t, b)
  BY <1>2, <1>6, <1>7, OthersLike DEF Appears
<1> QED BY <1>1, <1>8, AppearLeads DEF Keeps

\* A buffer taken in vain contained nothing.
LEMMA GiveBackKeeps ==
    ASSUME NEW s, NEW B, NEW N, Sound(s, B, N), NEW b, (b \in N /\ b \in Buf) \/ b = NoBuf,
           NEW t, t = GiveBack(s, b), NEW X
    PROVE  Keeps(s, t, X)
<1>1. s \in Cache /\ Lists(s) /\ Unique(s)
  BY DEF Sound
<1>2. CASE b = NoBuf
  <2>1. t = s
    BY <1>2 DEF GiveBack
  <2> QED BY <1>1, <2>1, BuffersKeep
<1>3. CASE b # NoBuf
  <2> DEFINE F == {"BUSY"}
             u == Renamed(s, b, F, NoBlock)
  <2>1. b \in Buf /\ b \in N /\ t = Brelse(u, b)
    BY <1>3 DEF GiveBack, Renamed
  <2>2. b \notin OnList(s) /\ b \notin InDriver(s) /\ s.buf[b].blk = NoBlock
    BY <2>1, NewIs
  <2>3. RenamedIs(s, u, b, F, NoBlock)
    <3>1. F \in SUBSET Flag
      BY DEF Flag
    <3> HIDE DEF F
    <3> QED BY <1>1, <2>1, <3>1, Rename
  <2> HIDE DEF u
  <2>4. OnlyBuf(s, u, b) /\ u.buf[b].blk = NoBlock /\ u.buf[b].flags = F
    BY <2>3 DEF RenamedIs
  <2>5. /\ OnlyAt(s, u, b) /\ u.io = s.io /\ u \in Cache /\ Lists(u)
        /\ OnList(u) = OnList(s) /\ InDriver(u) = InDriver(s)
    BY <1>1, <2>4, OnlyBufAt DEF OnlyAt
  <2>6. ~ Findable(s, b) /\ ~ Findable(u, b) /\ ~ Is(u, b, "DELWRI")
    BY <2>2, <2>4 DEF Findable, Is
  <2>7. Keeps(s, u, X)
    BY <1>1, <2>1, <2>2, <2>5, <2>6, HiddenKeeps
  <2>8. Unique(u)
    <3> SUFFICES ASSUME NEW d \in Buf, NEW e \in Buf, Findable(u, d), Findable(u, e),
                        u.buf[d].blk = u.buf[e].blk
                 PROVE  d = e
      BY DEF Unique
    <3>1. d # b /\ e # b
      BY <2>6
    <3>2. u.buf[d] = s.buf[d] /\ u.buf[e] = s.buf[e]
      BY <2>5, <3>1 DEF OnlyAt
    <3>3. Findable(s, d) /\ Findable(s, e)
      BY <3>2 DEF Findable, Is
    <3> QED BY <1>1, <3>2, <3>3 DEF Unique
  <2>9. Keeps(u, t, X)
    BY <2>1, <2>2, <2>5, <2>8, ReleaseKeeps
  <2> QED BY <2>7, <2>9, KeepsOn
<1> QED BY <1>2, <1>3

\* The buffer of the block is on the free list.
LEMMA FoundKeeps ==
    ASSUME NEW s, NEW B, NEW N, Sound(s, B, N), NEW k, NEW b, b \in Incore(s, k),
           ~ Is(s, b, "BUSY"),
           NEW n, (n \in N /\ n \in Buf) \/ n = NoBuf,
           NEW t, t = GiveBack(Flagged(Notavail(s, b), b, {}, {"AGE"}), n), NEW X
    PROVE  Keeps(s, t, X)
<1> DEFINE u == Notavail(s, b)
           v == Flagged(u, b, {}, {"AGE"})
           C == B \cup {b}
           off == {"AGE"}
<1>1. /\ b \in Buf /\ s.buf[b].blk = k /\ k # NoBlock /\ ~ Is(s, b, "STALE") /\ s \in Cache
      /\ Lists(s)
  BY DEF Incore, Sound
<1>2. b \in OnList(s) /\ b \notin B \cup N /\ b \notin InDriver(s)
  <2>1. Role(s, b, B, N) /\ s.buf[b] # Unused
    <3>1. Unused.blk = NoBlock
      BY DEF Unused
    <3> QED BY <1>1, <3>1 DEF Sound
  <2> QED BY <1>1, <2>1 DEF Role
<1>3. Sound(u, C, N) /\ SameBut(u, s, b)
  BY <1>2, Take
<1>4. Keeps(s, u, X)
  BY <1>1, <1>2, TakeKeeps
<1> HIDE DEF u
<1>5. {} \in SUBSET Flag /\ b \in C /\ "AGE" \in off /\ "STALE" \notin {} \cup off
      /\ "BUSY" \notin off /\ "WANTED" \notin off /\ "DONE" \notin off
      /\ {} \in SUBSET Outer /\ off \in SUBSET Outer
  BY DEF Outer
<1>6. v = Flagged(u, b, {}, off)
  OBVIOUS
<1> HIDE DEF v, off, C
<1>7. Sound(v, C, N)
  BY <1>1, <1>3, <1>5, <1>6, Reflag
<1>8. Keeps(u, v, X)
  <2>1. u \in Cache
    BY <1>3 DEF Sound
  <2> QED BY <1>1, <1>5, <1>6, <2>1, FlagKeeps
<1>9. t = GiveBack(v, n)
  BY DEF u, v
<1>10. Keeps(v, t, X)
  BY <1>7, <1>9, GiveBackKeeps
<1>11. Keeps(s, v, X)
  BY <1>4, <1>8, KeepsOn
<1> QED BY <1>10, <1>11, KeepsOn

\* getfreeblk found a buffer: it becomes the block's.
LEMMA GottenKeeps ==
    ASSUME NEW s, NEW B, NEW N, Sound(s, B, N), s.saved = NoBuf, ~ s.stop, NEW bsize,
           NEW u, u = Getfreeblk(s, bsize), u.saved # NoBuf,
           NEW c, c.want \in Block \cup {NoBlock},
           NEW t, t = Assign(u, u.saved, c), NEW X
    PROVE  Keeps(s, t, X)
<1> DEFINE b == u.saved
           M == N \cup {b}
<1>1. Gotten(s, u, B, N, bsize)
  BY GetfreeblkIs
<1>2. b \in Buf /\ Sound(u, B, M)
  BY <1>1 DEF Gotten, One
<1>3. Keeps(s, u, X)
  BY GetfreeblkKeeps
<1>4. t = Assign(u, b, c) /\ b \in M
  OBVIOUS
<1> HIDE DEF b, M
<1>5. Keeps(u, t, X)
  BY <1>2, <1>4, AssignKeeps
<1> QED BY <1>3, <1>5, KeepsOn

-----------------------------------------------------------------------------
(* The steps leave the contents what they are *)

\* The step keeps the contents of the variables' cache, but for the blocks X
ContentsKept(X) == Coherent(Now, disk) => Leads(Now, disk, Now', disk', X)

\* A step to a cache that keeps them.
LEMMA BecomesKeeps ==
    ASSUME NEW t, t \in Cache, Becomes(t), NEW X, Keeps(Now, t, X), disk' = disk
    PROVE  ContentsKept(X)
<1>1. SamePools(Now', t)
  BY NextCache
<1>2. Now'.buf = t.buf /\ Now'.io = t.io
  BY <1>1 DEF SamePools
<1>3. Keeps(t, Now', X)
  BY <1>2, BuffersKeep
<1>4. Keeps(Now, Now', X)
  BY <1>3, KeepsOn
<1> QED BY <1>4 DEF Keeps, ContentsKept

\* A step that leaves the cache and the disk alone.
LEMMA StayKeeps ==
    ASSUME Now \in Cache, UNCHANGED <<cacheVars, disk>>, NEW X PROVE ContentsKept(X)
<1>1. Becomes(Now) /\ disk' = disk
  BY NowIs DEF Becomes, cacheVars
<1>2. Keeps(Now, Now, X)
  BY BuffersKeep
<1> QED BY <1>1, <1>2, BecomesKeeps

\* brelse, of a buffer that was the caller's.
LEMMA HeldReleaseKeeps ==
    ASSUME NEW s, NEW B, NEW N, Sound(s, B, N), NEW b, b \in Buf, b \in B, b \notin InDriver(s),
           NEW t, t = Brelse(s, b), NEW X
    PROVE  Keeps(s, t, X) /\ t \in Cache
<1>1. s \in Cache /\ Lists(s) /\ Unique(s) /\ b \notin OnList(s)
  BY HeldBusy DEF Sound
<1>2. t \in Cache
  BY <1>1, BrelseIs DEF OnlyAt
<1> QED BY <1>1, <1>2, ReleaseKeeps

\* The caller of getblk has the buffer, and goes on.
LEMMA GotKeeps ==
    ASSUME NEW p, NEW c, c \in Call, Getting(c), NEW b, NEW t, NEW B, NEW M,
           Ready(Now, t, b, B, M, c.want), Keeps(Now, t, {}), Got(p, c, b, t), disk' = disk
    PROVE  ContentsKept({})
<1> DEFINE C == B \cup {b}
<1>1. /\ b \in Buf /\ Sound(t, C, M) /\ b \in C /\ b \notin InDriver(t)
      /\ t.buf[b].blk = c.want /\ ~ Is(t, b, "STALE")
  BY DEF Ready
<1>2. t \in Cache /\ Lists(t) /\ Unique(t)
  BY <1>1 DEF Sound
<1> HIDE DEF C
<1>3. ASSUME NEW u, Becomes(u), u \in Cache, Keeps(t, u, {}) PROVE ContentsKept({})
  BY <1>3, KeepsOn, BecomesKeeps
<1>4. CASE Becomes(t)
  <2>1. Keeps(t, t, {})
    BY <1>2, BuffersKeep
  <2> QED BY <1>2, <1>3, <1>4, <2>1
<1>5. CASE Becomes(Brelse(t, b))
  BY <1>1, <1>3, <1>5, HeldReleaseKeeps
<1>6. ASSUME NEW how, how \in {{}, {"ASYNC"}}, Becomes(StartRead(t, b, how)),
             ~ Is(t, b, "DONE"), c.want # NoBlock
      PROVE  ContentsKept({})
  <2> DEFINE u == StartRead(t, b, how)
  <2>1. Findable(t, b) /\ u = StartRead(t, b, how)
    BY <1>1, <1>6 DEF Findable
  <2> HIDE DEF u
  <2>2. u \in Cache
    BY <1>1, <1>2, <1>6, <2>1, ReadSubmits DEF ReadAsked, Submitted, OnlyAt
  <2>3. Keeps(t, u, {})
    BY <1>1, <1>2, <1>6, <2>1, ReadKeeps
  <2> QED BY <1>3, <1>6, <2>1, <2>2, <2>3
<1>7. c.op \in {"bread", "breada"} => c.want # NoBlock
  BY DEF Getting
<1>8. \/ Becomes(t) \/ Becomes(Brelse(t, b))
      \/ \E how \in {{}, {"ASYNC"}} :
           Becomes(StartRead(t, b, how)) /\ ~ Is(t, b, "DONE") /\ c.want # NoBlock
  <2>1. CASE c.op = "breada" /\ c.want = c.ra
    BY <1>7, <2>1 DEF Got, BecomesWaking
  <2>2. CASE c.op = "breada" /\ c.want # c.ra
    BY <1>7, <2>2 DEF Got, BecomesWaking
  <2>3. CASE c.op = "bread" /\ ~ Is(t, b, "DONE")
    BY <1>7, <2>3 DEF Got, BecomesWaking
  <2>4. CASE c.op # "breada" /\ ~ (c.op = "bread" /\ ~ Is(t, b, "DONE"))
    BY <2>4 DEF Got, BecomesWaking
  <2> QED BY <2>1, <2>2, <2>3, <2>4
<1> QED BY <1>4, <1>5, <1>6, <1>8

\* A buffer is marked wanted.
LEMMA WantKeeps ==
    ASSUME NEW s, s \in Cache, NEW b, b \in Buf, NEW t, t = Flagged(s, b, {"WANTED"}, {}), NEW X
    PROVE  Keeps(s, t, X) /\ t \in Cache
<1>1. {"WANTED"} \in SUBSET Outer /\ {} \in SUBSET Outer /\ {"WANTED"} \in SUBSET Flag
  BY DEF Outer, Flag
<1>2. Keeps(s, t, X)
  BY <1>1, FlagKeeps
<1>3. t \in Cache
  BY <1>1, FlagsAre DEF OnlyBuf
<1> QED BY <1>2, <1>3

\* getblk.
LEMMA GetblkKeeps ==
    ASSUME GoodNow, NEW p \in Proc, NEW c, Asking(p, c), c.nbp = call[p].nbp, Getblk(p, c)
    PROVE  ContentsKept({})
<1> DEFINE s == Now  B == Held(call)  N == News(call)  M == NewsBut(call, p)  k == c.want  n == c.nbp
<1>1. /\ Sound(s, B, N) /\ k \in Block \cup {NoBlock} /\ ((n \in N /\ n \in Buf) \/ n = NoBuf)
      /\ M = N \ {n}
  BY AskedIs
<1>2. c \in Call /\ Getting(c) /\ disk' = disk
  BY DEF Asking, Getblk
<1>3. s \in Cache /\ s.saved = NoBuf /\ ~ s.stop
  BY <1>1, NowIs DEF Sound
<1> HIDE DEF s, B, N, M, k, n
<1>4. CASE GetblkBusy(p, c)
  <2>1. PICK b \in Incore(Now, c.want) :
          BecomesAsleep(p, <<"buf", b>>, Flagged(Now, b, {"WANTED"}, {}))
    BY <1>4 DEF GetblkBusy
  <2> DEFINE t == Flagged(Now, b, {"WANTED"}, {})
  <2>2. b \in Buf /\ Becomes(t) /\ t = Flagged(s, b, {"WANTED"}, {})
    BY <2>1, IncoreIs DEF BecomesAsleep, s
  <2> HIDE DEF t
  <2>3. Keeps(s, t, {}) /\ t \in Cache
    BY <1>3, <2>2, WantKeeps
  <2> QED BY <1>2, <2>2, <2>3, BecomesKeeps DEF s
<1>5. CASE GetblkFound(p, c)
  <2>1. PICK b \in Incore(Now, c.want) :
          /\ ~ Is(Now, b, "BUSY")
          /\ Got(p, c, b, GiveBack(Flagged(Notavail(Now, b), b, {}, {"AGE"}), c.nbp))
    BY <1>5 DEF GetblkFound
  <2> DEFINE t == GiveBack(Flagged(Notavail(s, b), b, {}, {"AGE"}), n)
  <2>2. b \in Incore(s, k) /\ ~ Is(s, b, "BUSY")
    BY <2>1 DEF s, k
  <2>3. t = GiveBack(Flagged(Notavail(s, b), b, {}, {"AGE"}), n)
    OBVIOUS
  <2> HIDE DEF t
  <2>4. Ready(s, t, b, B, M, k)
    BY <1>1, <2>2, <2>3, FoundIs
  <2>5. Keeps(s, t, {})
    BY <1>1, <2>2, <2>3, FoundKeeps
  <2>6. Got(p, c, b, t)
    BY <2>1 DEF t, s, n
  <2> QED BY <1>2, <2>4, <2>5, <2>6, GotKeeps DEF s, k
<1>6. CASE GetblkNew(p, c)
  <2>1. Incore(s, k) = {} /\ n # NoBuf /\ Got(p, c, n, Assign(s, n, c))
    BY <1>6 DEF GetblkNew, s, n, k
  <2> DEFINE t == Assign(s, n, c)
  <2>2. c.want \in Block \cup {NoBlock} /\ Incore(s, c.want) = {} /\ n \in N /\ n \in Buf
    BY <1>1, <2>1 DEF k
  <2>3. t = Assign(s, n, c)
    OBVIOUS
  <2> HIDE DEF t
  <2>4. Ready(s, t, n, B, N \ {n}, c.want)
    BY <1>1, <2>2, <2>3, AssignIs
  <2>5. Keeps(s, t, {})
    BY <1>1, <2>2, <2>3, AssignKeeps
  <2>6. Got(p, c, n, t)
    BY <2>1 DEF t
  <2> QED BY <1>2, <2>4, <2>5, <2>6, GotKeeps DEF s
<1>7. CASE GetblkFree(p, c)
  <2> DEFINE z == Bsize(k)  u == Getfreeblk(s, z)  e == [c EXCEPT !.nbp = u.saved]
  <2>1. Incore(s, k) = {}
    BY <1>7 DEF GetblkFree, s, k
  <2>2. \/ u.saved # NoBuf /\ Got(p, e, u.saved, Assign(u, u.saved, e))
        \/ Becomes(u)
        \/ Becomes([u EXCEPT !.wanted = TRUE])
        \/ Becomes([u EXCEPT !.bufsize = @ - z]) /\ u.bufsize >= z
    BY <1>7 DEF GetblkFree, s, k, BecomesWaking, BecomesAsleep
  <2>3. u = Getfreeblk(s, z)
    OBVIOUS
  <2>4. z \in Nat
    BY <1>1, SizesAssumption DEF Bsize
  <2> HIDE DEF u, z
  <2>5. Gotten(s, u, B, N, z)
    BY <1>1, <1>3, <2>3, GetfreeblkIs
  <2>6. Keeps(s, u, {}) /\ u \in Cache /\ (u.saved # NoBuf => u.saved \in Buf)
    BY <1>1, <1>3, <2>3, <2>5, GetfreeblkKeeps DEF Gotten
  <2>7. Nexting(e, c, u.saved)
    BY <1>2, <2>6, CacheFields DEF Nexting, Call
  <2> HIDE DEF e
  <2>8. e \in Call /\ e.want = c.want /\ Getting(e)
    BY <1>2, <2>7 DEF Nexting, Getting
  <2>9. CASE u.saved # NoBuf /\ Got(p, e, u.saved, Assign(u, u.saved, e))
    <3> DEFINE t == Assign(u, u.saved, e)  b == u.saved
    <3>1. e.want \in Block \cup {NoBlock} /\ Incore(s, e.want) = {} /\ t = Assign(u, u.saved, e)
      BY <1>1, <2>1, <2>8 DEF k
    <3> HIDE DEF t
    <3>2. Ready(s, t, u.saved, B, N, e.want)
      BY <1>3, <2>5, <2>9, <3>1, GottenIs
    <3>3. Keeps(s, t, {})
      BY <1>1, <1>3, <2>3, <2>9, <3>1, GottenKeeps
    <3>4. Got(p, e, b, t) /\ Ready(s, t, b, B, N, e.want)
      BY <2>9, <3>2 DEF t
    <3> HIDE DEF b
    <3> QED BY <1>2, <2>8, <3>3, <3>4, GotKeeps DEF s
  <2>10. CASE Becomes(u)
    BY <1>2, <2>6, <2>10, BecomesKeeps DEF s
  <2>11. ASSUME NEW t, t \in Cache, t.buf = u.buf, t.io = u.io, Becomes(t) PROVE ContentsKept({})
    <3>1. Keeps(s, t, {})
      BY <2>6, <2>11, BuffersKeep, KeepsOn
    <3> QED BY <1>2, <2>11, <3>1, BecomesKeeps DEF s
  <2>12. CASE Becomes([u EXCEPT !.wanted = TRUE])
    <3> DEFINE t == [u EXCEPT !.wanted = TRUE]
    <3>1. t \in Cache /\ t.buf = u.buf /\ t.io = u.io
      BY <2>6 DEF Cache
    <3> QED BY <2>11, <2>12, <3>1
  <2>13. CASE Becomes([u EXCEPT !.bufsize = @ - z]) /\ u.bufsize >= z
    <3> DEFINE t == [u EXCEPT !.bufsize = @ - z]
    <3>1. t \in Cache /\ t.buf = u.buf /\ t.io = u.io
      BY <2>4, <2>6, <2>13 DEF Cache
    <3> QED BY <2>11, <2>13, <3>1
  <2> QED BY <2>2, <2>9, <2>10, <2>12, <2>13
<1> QED BY <1>4, <1>5, <1>6, <1>7 DEF Getblk

-----------------------------------------------------------------------------
\* A process enters with a call that asks for a buffer.
LEMMA EnterKeeps ==
    ASSUME GoodNow, NEW p \in Proc, pc[p] = "user",
           NEW c, c \in Call, Getting(c), c.bp = NoBuf, c.nbp = NoBuf, Getblk(p, c)
    PROVE  ContentsKept({})
<1>1. wchan[p] = NoChan /\ call[p].bp = NoBuf /\ call[p].nbp = NoBuf
  BY UserIs
<1>2. Asking(p, c)
  BY <1>1 DEF Asking, Has
<1> QED BY <1>1, <1>2, GetblkKeeps

\* bread and getblk.
LEMMA BreadKeeps ==
    ASSUME GoodNow, NEW p \in Proc, NEW blk \in Block, Bread(p, blk) \/ GetblkCall(p, blk)
    PROVE  ContentsKept({})
<1> DEFINE c(op) == [NoCall EXCEPT !.op = op, !.blk = blk, !.want = blk]
<1>1. PICK op \in {"bread", "getblk"} : pc[p] = "user" /\ Getblk(p, c(op))
  BY DEF Bread, GetblkCall, Enters
<1> DEFINE e == c(op)
<1>2. /\ e \in Call /\ e.op = op /\ e.blk = blk /\ e.want = blk
      /\ e.bp = NoBuf /\ e.nbp = NoBuf
  BY DEF NoCall, Call, Ops
<1>3. Getblk(p, e)
  BY <1>1
<1> HIDE DEF e
<1>4. Getting(e)
  BY <1>2, NamesAssumption DEF Getting
<1> QED BY <1>1, <1>2, <1>3, <1>4, EnterKeeps

\* ngeteblk.
LEMMA NgeteblkKeeps ==
    ASSUME GoodNow, NEW p \in Proc, Ngeteblk(p) PROVE ContentsKept({})
<1> DEFINE c == [NoCall EXCEPT !.op = "ngeteblk"]
<1>1. pc[p] = "user" /\ Getblk(p, c)
  BY DEF Ngeteblk, Enters
<1>2. /\ c \in Call /\ c.op = "ngeteblk" /\ c.blk = NoBlock /\ c.want = NoBlock
      /\ c.bp = NoBuf /\ c.nbp = NoBuf
  BY DEF NoCall, Call, Ops
<1> HIDE DEF c
<1>3. Getting(c)
  BY <1>2 DEF Getting
<1> QED BY <1>1, <1>2, <1>3, EnterKeeps

\* The cache of a good state.
LEMMA NowCache == ASSUME GoodNow PROVE Now \in Cache /\ Sound(Now, Held(call), News(call))
BY DEF GoodNow, Good, Sound

\* breada.
LEMMA BreadaKeeps ==
    ASSUME GoodNow, NEW p \in Proc, NEW blk \in Block, NEW ra \in Block, Breada(p, blk, ra)
    PROVE  ContentsKept({})
<1> DEFINE c == [NoCall EXCEPT !.op = "breada", !.blk = blk, !.ra = ra, !.want = blk]
<1>1. pc[p] = "user" /\ blk # ra /\ (Getblk(p, c) \/ UNCHANGED <<cacheVars, disk>>)
  BY DEF Breada, Enters
<1>2. /\ c \in Call /\ c.op = "breada" /\ c.blk = blk /\ c.want = blk /\ c.ra = ra
      /\ c.bp = NoBuf /\ c.nbp = NoBuf
  BY DEF NoCall, Call, Ops
<1> HIDE DEF c
<1>3. Getting(c)
  BY <1>1, <1>2, NamesAssumption DEF Getting
<1> QED BY <1>1, <1>2, <1>3, NowCache, EnterKeeps, StayKeeps

\* getblk looks again.
LEMMA GetblkAgainKeeps ==
    ASSUME GoodNow, NEW p \in Proc, GetblkAgain(p) PROVE ContentsKept({})
<1>1. /\ pc[p] \in {"bufwait", "freewait", "again"} /\ wchan[p] = NoChan
      /\ call[p].op # "blkflush" /\ Getblk(p, call[p])
  BY DEF GetblkAgain, Asleep
<1>2. call[p] \in Call /\ Place(pc[p], call[p]) /\ Has(Now, pc[p], call[p])
  BY GoodIs
<1>3. Getting(call[p])
  BY <1>1, <1>2 DEF Place, Flushing
<1>4. Has(Now, "again", call[p])
  BY <1>1, <1>2 DEF Has
<1>5. Asking(p, call[p])
  BY <1>1, <1>2, <1>3, <1>4 DEF Asking
<1> QED BY <1>1, <1>5, GetblkKeeps

\* A header gets memory: its contents are nothing.
LEMMA GetblkAllocKeeps ==
    ASSUME GoodNow, NEW p \in Proc, GetblkAlloc(p) PROVE ContentsKept({})
<1> DEFINE s == Now  b == Bhdr  z == Bsize(call[p].want)  t == Grown(s, b, z)
           h == [s.buf[b] EXCEPT !.size = z]
<1>1. /\ pc[p] = "alloc" /\ buf' = [buf EXCEPT ![b].size = z] /\ disk' = disk
      /\ UNCHANGED <<avail, bufsize, wanted, io>>
  BY DEF GetblkAlloc
<1>2. s \in Cache
  BY NowCache
<1>3. b \in Buf
  BY <1>1, HeadersLeft
<1>4. z \in Nat
  <2>1. call[p] \in Call
    BY GoodIs
  <2> QED BY <2>1, CallFields, SizesAssumption DEF Bsize
<1>5. Becomes(t)
  BY <1>1 DEF Becomes, Grown, Now
<1>6. t = [s EXCEPT !.buf = [@ EXCEPT ![b] = h]]
  BY DEF Grown
<1> HIDE DEF s, b, z, t
<1>7. /\ h \in Header /\ h.blk = s.buf[b].blk /\ h.flags = s.buf[b].flags /\ h.data = s.buf[b].data
  BY <1>2, <1>3, <1>4, HeaderFields DEF Header
<1> HIDE DEF h
<1>8. OnlyBuf(s, t, b) /\ t.buf[b] = h
  BY <1>2, <1>3, <1>6, <1>7, OneHeader
<1>9. Alike(s, t)
  BY <1>7, <1>8 DEF Alike, Like, Is, OnlyBuf
<1>10. Keeps(s, t, {})
  BY <1>2, <1>9, AlikeKeeps
<1> QED BY <1>1, <1>5, <1>8, <1>10, BecomesKeeps DEF OnlyBuf, s

\* breada goes on.
LEMMA BreadaAheadKeeps ==
    ASSUME GoodNow, NEW p \in Proc, BreadaAhead(p) PROVE ContentsKept({})
<1> DEFINE c == call[p]  a == [c EXCEPT !.want = c.ra]  f == AsBread(c)
<1>1. /\ pc[p] = "ra"
      /\ \/ c.ra # NoBlock /\ Getblk(p, a)
         \/ c.bp = NoBuf /\ Getblk(p, f)
         \/ UNCHANGED <<cacheVars, disk>>
  BY DEF BreadaAhead
<1>2. /\ c \in Call /\ c.op = "breada" /\ c.blk # NoBlock /\ c.ra # c.blk /\ c.nbp = NoBuf
      /\ Has(Now, "ra", c)
  BY <1>1, GoodIs DEF Place
<1>3. /\ a \in Call /\ a.op = "breada" /\ a.blk = c.blk /\ a.ra = c.ra /\ a.want = c.ra
      /\ a.bp = c.bp /\ a.nbp = c.nbp
  BY <1>2 DEF Call
<1>4. /\ f \in Call /\ f.op = "bread" /\ f.blk = c.blk /\ f.want = c.blk
      /\ f.bp = c.bp /\ f.nbp = c.nbp
  BY <1>2 DEF Call, AsBread, Ops
<1>5. wchan[p] = NoChan /\ pc[p] # "alloc"
  BY <1>1, AwakeIs
<1> HIDE DEF c, a, f
<1>6. CASE c.ra # NoBlock /\ Getblk(p, a)
  <2>1. Getting(a) /\ Has(Now, "again", a)
    BY <1>2, <1>3, <1>6 DEF Getting, Has
  <2>2. Asking(p, a) /\ a.nbp = call[p].nbp
    BY <1>3, <1>5, <2>1 DEF Asking, c
  <2> QED BY <1>6, <2>2, GetblkKeeps
<1>7. CASE c.bp = NoBuf /\ Getblk(p, f)
  <2>1. Getting(f) /\ Has(Now, "again", f)
    BY <1>2, <1>4, <1>7 DEF Getting, Has
  <2>2. Asking(p, f) /\ f.nbp = call[p].nbp
    BY <1>4, <1>5, <2>1 DEF Asking, c
  <2> QED BY <1>7, <2>2, GetblkKeeps
<1> QED BY <1>1, <1>6, <1>7, NowCache, StayKeeps

\* notavail, for a buffer that a search found.
LEMMA TakeFoundKeeps ==
    ASSUME GoodNow, NEW p \in Proc, NEW k, NEW b, b \in Incore(Now, k), ~ Is(Now, b, "BUSY"),
           NEW t, t = Notavail(Now, b), NEW X
    PROVE  /\ Keeps(Now, t, X) /\ t \in Cache /\ Lists(t) /\ Unique(t) /\ b \in Buf
           /\ b \notin InDriver(t) /\ Findable(t, b) /\ t.buf[b].blk = k
           /\ t.buf[b].flags = Now.buf[b].flags \cup {"BUSY"}
<1> DEFINE s == Now  B == Held(call)  N == News(call)
<1>1. Sound(s, B, N) /\ ~ Is(s, b, "BUSY") /\ t = Notavail(s, b) /\ b \in Incore(s, k)
  BY NowCache
<1>2. b \in Buf /\ k # NoBlock
  BY IncoreIs
<1>3. TakenFor(t, p, b, k)
  BY TakeFound
<1> HIDE DEF s, B, N
<1>4. b \in OnList(s)
  <2>1. Role(s, b, B, N) /\ s.buf[b].blk = k /\ s.buf[b].blk # NoBlock
    BY <1>1, <1>2, IncoreIs DEF Sound
  <2>2. Unused.blk = NoBlock
    BY DEF Unused
  <2> QED BY <1>1, <2>1, <2>2 DEF Role
<1>5. s \in Cache /\ Lists(s)
  BY <1>1 DEF Sound
<1>6. Keeps(s, t, X)
  BY <1>1, <1>2, <1>4, <1>5, TakeKeeps
<1>7. Sound(t, B \cup {b}, N) /\ t.buf[b].flags = s.buf[b].flags \cup {"BUSY"}
  BY <1>1, <1>4, Take
<1>8. t \in Cache /\ Lists(t) /\ Unique(t)
  BY <1>7 DEF Sound
<1>9. b \notin InDriver(t) /\ Findable(t, b) /\ t.buf[b].blk = k
  BY <1>2, <1>3 DEF TakenFor, Findable
<1> QED BY <1>2, <1>6, <1>7, <1>8, <1>9 DEF s

\* blookup.
LEMMA BlookupKeeps ==
    ASSUME GoodNow, NEW p \in Proc, NEW blk \in Block, Blookup(p, blk) PROVE ContentsKept({})
<1>1. PICK b \in Incore(Now, blk) :
        /\ ~ Is(Now, b, "BUSY")
        /\ Becomes(Flagged(Notavail(Now, b), b, {}, {"AGE"}))
  BY DEF Blookup, BecomesWaking
<1> DEFINE u == Notavail(Now, b)
           t == Flagged(u, b, {}, {"AGE"})
<1>2. Becomes(t) /\ disk' = disk
  BY <1>1 DEF Blookup
<1>3. t = Flagged(u, b, {}, {"AGE"}) /\ u = Notavail(Now, b)
  OBVIOUS
<1> HIDE DEF u, t
<1>4. Keeps(Now, u, {}) /\ u \in Cache /\ b \in Buf
  BY <1>1, <1>3, TakeFoundKeeps
<1>5. {"AGE"} \in SUBSET Outer /\ {} \in SUBSET Outer /\ {} \in SUBSET Flag
  BY DEF Outer
<1>6. Keeps(u, t, {})
  BY <1>3, <1>4, <1>5, FlagKeeps
<1>7. t \in Cache
  BY <1>3, <1>4, <1>5, FlagsAre DEF OnlyBuf
<1>8. Keeps(Now, t, {})
  BY <1>4, <1>6, KeepsOn
<1> QED BY <1>2, <1>7, <1>8, BecomesKeeps

\* biowait.
LEMMA BiowaitKeeps ==
    ASSUME GoodNow, NEW p \in Proc, BiowaitSleep(p) \/ BiowaitRead(p) \/ BiowaitWrite(p)
    PROVE  ContentsKept({})
<1> DEFINE s == Now  B == Held(call)  N == News(call)  b == call[p].bp
<1>1. pc[p] \in {"iowait", "wwait"}
  BY DEF BiowaitSleep, BiowaitRead, BiowaitWrite
<1>2. s \in Cache /\ Sound(s, B, N)
  BY NowCache
<1>3. b \in Buf /\ b \in B /\ (b \in InDriver(s) => ~ Is(s, b, "DONE"))
  BY <1>1, OwnBuffer
<1>4. CASE BiowaitSleep(p)
  <2> DEFINE t == Flagged(s, b, {"WANTED"}, {})
  <2>1. Becomes(t) /\ disk' = disk
    BY <1>4 DEF BiowaitSleep, BecomesAsleep
  <2>2. t = Flagged(s, b, {"WANTED"}, {})
    OBVIOUS
  <2> HIDE DEF t, s, b
  <2>3. Keeps(s, t, {}) /\ t \in Cache
    BY <1>2, <1>3, <2>2, WantKeeps
  <2> QED BY <2>1, <2>3, BecomesKeeps DEF s
<1>5. CASE BiowaitRead(p)
  BY <1>2, <1>5, StayKeeps DEF BiowaitRead
<1>6. CASE BiowaitWrite(p)
  <2> DEFINE t == Brelse(s, b)
  <2>1. Becomes(t) /\ disk' = disk /\ Is(s, b, "DONE")
    BY <1>6 DEF BiowaitWrite, BecomesWaking
  <2>2. t = Brelse(s, b)
    OBVIOUS
  <2> HIDE DEF t, s, b, B, N
  <2>3. Keeps(s, t, {}) /\ t \in Cache
    BY <1>2, <1>3, <2>1, <2>2, HeldReleaseKeeps
  <2> QED BY <2>1, <2>3, BecomesKeeps DEF s
<1> QED BY <1>4, <1>5, <1>6

\* brelse.
LEMMA BrelseCallKeeps ==
    ASSUME GoodNow, NEW p \in Proc, BrelseCall(p) PROVE ContentsKept({})
<1> DEFINE s == Now  B == Held(call)  N == News(call)  b == call[p].bp  t == Brelse(s, b)
<1>1. pc[p] = "hold" /\ Becomes(t) /\ disk' = disk
  BY DEF BrelseCall, BecomesWaking
<1>2. b \in Buf /\ b \in B /\ b \notin InDriver(s) /\ Sound(s, B, N)
  BY <1>1, HoldIs
<1>3. t = Brelse(s, b)
  OBVIOUS
<1> HIDE DEF t, s, b, B, N
<1>4. Keeps(s, t, {}) /\ t \in Cache
  BY <1>2, <1>3, HeldReleaseKeeps
<1> QED BY <1>1, <1>4, BecomesKeeps DEF s

-----------------------------------------------------------------------------
\* A process that may write fills its buffer: the cache u.
LEMMA FillIs ==
    ASSUME GoodNow, NEW p \in Proc, MayWrite(p), NEW v \in Value, NEW b, b = call[p].bp,
           NEW u, u = Filled(b, v)
    PROVE  /\ b \in Buf /\ b \in Held(call) /\ b \notin InDriver(Now) /\ b \notin InDriver(u)
           /\ Sound(u, Held(call), News(call)) /\ OnlyAt(Now, u, b) /\ u.io = Now.io
           /\ Findable(Now, b) /\ u.buf[b].blk = Now.buf[b].blk /\ Now.buf[b].blk = call[p].blk
           /\ u.buf[b].flags = Now.buf[b].flags /\ ~ Is(Now, b, "ERROR")
<1> DEFINE s == Now  B == Held(call)  N == News(call)
<1>1. /\ b \in Buf /\ b \in B /\ b \notin InDriver(s) /\ Sound(s, B, N)
      /\ s.buf[b].blk = call[p].blk /\ ~ Is(s, b, "STALE")
  BY HoldIs DEF MayWrite
<1>2. call[p].blk # NoBlock /\ ~ Is(s, b, "ERROR")
  BY DEF MayWrite
<1>3. u = Refilled(s, b, v)
  BY DEF Filled, Refilled
<1> HIDE DEF s, B, N
<1>4. /\ Sound(u, B, N) /\ b \notin InDriver(u)
  BY <1>1, <1>3, Refill
<1>5. s \in Cache /\ Lists(s)
  BY <1>1 DEF Sound
<1>6. RefilledIs(s, u, b)
  BY <1>1, <1>3, <1>5, RefillIs
<1>7. OnlyAt(s, u, b) /\ u.io = s.io
  BY <1>5, <1>6, OnlyBufAt DEF RefilledIs
<1> QED BY <1>1, <1>2, <1>4, <1>6, <1>7 DEF RefilledIs, Findable, s, B, N

\* bdwrite: the block has the new contents, and they will be written.
LEMMA BdwriteKeeps ==
    ASSUME GoodNow, NEW p \in Proc, NEW v \in Value, Bdwrite(p, v) PROVE ContentsKept({call[p].blk})
<1> DEFINE s == Now  B == Held(call)  N == News(call)  b == call[p].bp  u == Filled(b, v)
           on == {"DELWRI", "DONE"}
           y == Flagged(u, b, on, {})  t == Brelse(y, b)  X == {call[p].blk}
<1>1. MayWrite(p) /\ Becomes(t) /\ disk' = disk
  BY DEF Bdwrite, BecomesWaking
<1>2. /\ b \in Buf /\ b \in B /\ b \notin InDriver(s) /\ b \notin InDriver(u)
      /\ Sound(u, B, N) /\ OnlyAt(s, u, b) /\ u.io = s.io
      /\ Findable(s, b) /\ u.buf[b].blk = s.buf[b].blk /\ s.buf[b].blk \in X
      /\ u.buf[b].flags = s.buf[b].flags /\ ~ Is(s, b, "ERROR")
  BY <1>1, FillIs
<1>3. Sound(s, B, N) /\ s \in Cache /\ Unique(s)
  BY NowCache DEF Sound
<1>4. y = Flagged(u, b, on, {}) /\ t = Brelse(y, b)
  OBVIOUS
<1>5. on \in SUBSET Flag /\ "ASYNC" \notin on /\ "STALE" \notin on \cup {}
      /\ "DONE" \in on /\ "DELWRI" \in on /\ "ERROR" \notin on
  BY DEF Flag
<1> HIDE DEF s, B, N, b, u, y, t, X, on
<1>6. Sound(y, B, N) /\ OnlyBuf(u, y, b) /\ SameBut(y, u, b) /\ y.buf[b].flags = u.buf[b].flags \cup on
  <2>1. u.buf[b].blk # NoBlock
    BY <1>2 DEF Findable
  <2>2. /\ Sound(y, B, N) /\ OnlyBuf(u, y, b) /\ SameBut(y, u, b)
        /\ y.buf[b].flags = (u.buf[b].flags \ {}) \cup on
    BY <1>2, <1>4, <1>5, <2>1, Reflag
  <2> QED BY <2>2
<1>7. OnlyAt(u, y, b) /\ y.io = u.io
  BY <1>2, <1>6, OnlyBufAt DEF Sound
<1>8. OnlyAt(s, y, b) /\ b \notin InDriver(y)
  BY <1>2, <1>7, OnlyAtTwice DEF InDriver
<1>9. Findable(y, b) /\ Valid(y, b) /\ Is(y, b, "DELWRI") /\ y.buf[b].blk = s.buf[b].blk
  BY <1>2, <1>5, <1>6 DEF Findable, Valid, Is, SameBut
<1>10. Rewrites(s, y, b)
  BY <1>2, <1>7, <1>8, <1>9, OthersLike DEF Rewrites
<1>11. Keeps(s, y, X)
  BY <1>2, <1>3, <1>10, RewriteLeads DEF Keeps
<1>12. Keeps(y, t, X) /\ t \in Cache
  BY <1>2, <1>4, <1>6, <1>8, HeldReleaseKeeps
<1>13. Keeps(s, t, X)
  BY <1>11, <1>12, KeepsOn
<1> QED BY <1>1, <1>12, <1>13, BecomesKeeps DEF s, X

\* The buffer is filled, and written.
LEMMA FillWriteKeeps ==
    ASSUME NEW s, NEW B, NEW N, Sound(s, B, N), NEW u, Sound(u, B, N), NEW b, b \in Buf,
           b \notin InDriver(s), OnlyAt(s, u, b), u.io = s.io, Findable(s, b),
           u.buf[b].blk = s.buf[b].blk, u.buf[b].flags = s.buf[b].flags,
           NEW how, "DELWRI" \notin how, "STALE" \notin how,
           NEW t, Written(u, t, b, how), NEW X, s.buf[b].blk \in X
    PROVE  Keeps(s, t, X) /\ t \in Cache
<1> DEFINE e == [bp |-> b, read |-> FALSE]
<1>1. GoodRequest(e, b) /\ ~ e.read
  BY DEF GoodRequest, Request
<1>2. Submitted(u, t, b) /\ t.io = Append(u.io, e)
      /\ t.buf[b].flags = (u.buf[b].flags \cup how) \ {"DONE", "ERROR", "DELWRI"}
  BY DEF Written
<1> HIDE DEF e
<1>3. OnlyAt(s, t, b) /\ t.buf[b].blk = s.buf[b].blk
  BY <1>2, OnlyAtTwice DEF Submitted
<1>4. (Is(t, b, "STALE") <=> Is(s, b, "STALE")) /\ ~ Is(t, b, "DONE") /\ ~ Is(t, b, "DELWRI")
  BY <1>2 DEF Is
<1>5. Sends(s, t, b, e)
  BY <1>1, <1>2, <1>3, <1>4, OthersLike DEF Sends
<1>6. s \in Cache /\ Unique(s)
  BY DEF Sound
<1>7. Keeps(s, t, X)
  BY <1>1, <1>5, <1>6, WriteLeads DEF Keeps
<1> QED BY <1>3, <1>7 DEF OnlyAt

\* bwrite and bawrite.
LEMMA BwriteKeeps ==
    ASSUME GoodNow, NEW p \in Proc, NEW v \in Value, Bwrite(p, v) \/ Bawrite(p, v)
    PROVE  ContentsKept({call[p].blk})
<1> DEFINE s == Now  B == Held(call)  N == News(call)  b == call[p].bp  u == Filled(b, v)
           X == {call[p].blk}
<1>1. /\ MayWrite(p) /\ disk' = disk
      /\ Becomes(StartWrite(u, b)) \/ Becomes(StartWrite(Flagged(u, b, {"ASYNC"}, {}), b))
  BY DEF Bwrite, Bawrite, BecomesWaking
<1>2. /\ b \in Buf /\ b \in B /\ b \notin InDriver(s) /\ b \notin InDriver(u)
      /\ Sound(u, B, N) /\ OnlyAt(s, u, b) /\ u.io = s.io
      /\ Findable(s, b) /\ u.buf[b].blk = s.buf[b].blk /\ s.buf[b].blk \in X
      /\ u.buf[b].flags = s.buf[b].flags
  BY <1>1, FillIs
<1>3. Sound(s, B, N) /\ u \in Cache /\ Lists(u)
  BY <1>2, NowCache DEF Sound
<1> HIDE DEF s, B, N, b, u, X
<1>4. ASSUME NEW how, how \in {{}, {"ASYNC"}}, NEW t, Written(u, t, b, how), Becomes(t)
      PROVE  ContentsKept({call[p].blk})
  <2>1. "DELWRI" \notin how /\ "STALE" \notin how
    BY <1>4
  <2>2. Keeps(s, t, X) /\ t \in Cache
    BY <1>2, <1>3, <1>4, <2>1, FillWriteKeeps
  <2> QED BY <1>1, <1>4, <2>2, BecomesKeeps DEF s, X
<1>5. CASE Becomes(StartWrite(u, b))
  <2> DEFINE t == StartWrite(u, b)
  <2>1. Written(u, t, b, {})
    BY <1>2, <1>3, StartSubmits
  <2> QED BY <1>4, <1>5, <2>1
<1>6. CASE Becomes(StartWrite(Flagged(u, b, {"ASYNC"}, {}), b))
  <2> DEFINE how == {"ASYNC"}  t == StartWrite(Flagged(u, b, how, {}), b)
  <2>1. Becomes(t) /\ t = StartWrite(Flagged(u, b, how, {}), b)
        /\ how \in {{}, {"ASYNC"}, {"ASYNC", "AGE"}} /\ how \in {{}, {"ASYNC"}}
    BY <1>6
  <2> HIDE DEF t, how
  <2>2. Written(u, t, b, how)
    BY <1>2, <1>3, <2>1, WriteSubmits
  <2> QED BY <1>4, <2>1, <2>2
<1> QED BY <1>1, <1>5, <1>6

\* A turn of blkflush's loop.
LEMMA BlkflushTurnKeeps ==
    ASSUME GoodNow, NEW p \in Proc, NEW c, BlkflushTurn(p, c) PROVE ContentsKept({})
<1>1. disk' = disk /\ Now \in Cache
  BY NowCache DEF BlkflushTurn
<1>2. ASSUME NEW b \in Incore(Now, c.blk), Becomes(Flagged(Now, b, {"WANTED"}, {}))
      PROVE  ContentsKept({})
  <2> DEFINE t == Flagged(Now, b, {"WANTED"}, {})
  <2>1. Becomes(t) /\ t = Flagged(Now, b, {"WANTED"}, {}) /\ b \in Buf
    BY <1>2, IncoreIs
  <2> HIDE DEF t
  <2>2. Keeps(Now, t, {}) /\ t \in Cache
    BY <1>1, <2>1, WantKeeps
  <2> QED BY <1>1, <2>1, <2>2, BecomesKeeps
<1>3. ASSUME NEW b \in Incore(Now, c.blk), ~ Is(Now, b, "BUSY"), Is(Now, b, "DELWRI"),
             Becomes(StartWrite(Notavail(Now, b), b))
      PROVE  ContentsKept({})
  <2> DEFINE u == Notavail(Now, b)  t == StartWrite(u, b)  k == c.blk
  <2>1. t = StartWrite(u, b) /\ u = Notavail(Now, b) /\ Becomes(t) /\ b \in Incore(Now, k)
    BY <1>3
  <2> HIDE DEF u, t, k
  <2>2. /\ Keeps(Now, u, {}) /\ u \in Cache /\ Lists(u) /\ Unique(u) /\ b \in Buf
        /\ b \notin InDriver(u) /\ u.buf[b].flags = Now.buf[b].flags \cup {"BUSY"}
    BY <1>3, <2>1, TakeFoundKeeps
  <2>3. Written(u, t, b, {})
    BY <2>1, <2>2, StartSubmits
  <2>4. Is(u, b, "DELWRI")
    BY <1>3, <2>2 DEF Is
  <2>5. Keeps(u, t, {})
    <3>1. "DELWRI" \notin {}
      OBVIOUS
    <3> QED BY <2>2, <2>3, <2>4, <3>1, WriteKeeps
  <2>6. t \in Cache
    BY <2>3 DEF Written, Submitted, OnlyAt
  <2>7. Keeps(Now, t, {})
    BY <2>2, <2>5, KeepsOn
  <2> QED BY <1>1, <2>1, <2>6, <2>7, BecomesKeeps
<1>4. CASE UNCHANGED cacheVars
  BY <1>1, <1>4, StayKeeps
<1> QED BY <1>2, <1>3, <1>4 DEF BlkflushTurn, BecomesAsleep, BecomesWaking

\* blkflush.
LEMMA BlkflushKeeps ==
    ASSUME GoodNow, NEW p \in Proc, BlkflushAgain(p) \/ (\E blk \in Block : Blkflush(p, blk))
    PROVE  ContentsKept({})
BY BlkflushTurnKeeps DEF BlkflushAgain, Blkflush

-----------------------------------------------------------------------------
\* fsflush and bflush write a buffer that is to be written.
LEMMA FlushOneKeeps ==
    ASSUME NEW s, NEW B, NEW N, Sound(s, B, N), NEW b, b \in OnList(s), Is(s, b, "DELWRI"),
           NEW t, t = FlushOne(s, b), NEW X
    PROVE  /\ Keeps(s, t, X) /\ t \in Cache /\ OnlyAt(s, t, b) /\ ~ Is(t, b, "DELWRI") /\ b \in Buf
<1> DEFINE u == Notavail(s, b)  how == {"ASYNC"}
<1>1. s \in Cache /\ Lists(s) /\ b \in Buf /\ b \notin InDriver(s)
  BY ListedFree DEF Sound
<1>2. t = StartWrite(Flagged(u, b, how, {}), b)
  BY <1>1, AsyncFirst DEF FlushOne
<1>3. Sound(u, B \cup {b}, N) /\ OnlyAt(s, u, b) /\ u.io = s.io
      /\ u.buf[b].flags = s.buf[b].flags \cup {"BUSY"}
  BY Take
<1>4. Keeps(s, u, X)
  BY <1>1, TakeKeeps
<1>5. u \in Cache /\ Lists(u) /\ Unique(u) /\ b \notin InDriver(u) /\ Is(u, b, "DELWRI")
  BY <1>1, <1>3 DEF Sound, InDriver, Is
<1>6. how \in {{}, {"ASYNC"}, {"ASYNC", "AGE"}} /\ "DELWRI" \notin how
  OBVIOUS
<1> HIDE DEF u, how
<1>7. Written(u, t, b, how)
  BY <1>1, <1>2, <1>5, <1>6, WriteSubmits
<1>8. Keeps(u, t, X)
  BY <1>1, <1>5, <1>6, <1>7, WriteKeeps
<1>9. OnlyAt(u, t, b) /\ ~ Is(t, b, "DELWRI")
  BY <1>7 DEF Written, Submitted, Is
<1>10. OnlyAt(s, t, b) /\ t \in Cache
  BY <1>3, <1>9, OnlyAtTwice DEF OnlyAt
<1>11. Keeps(s, t, X)
  BY <1>4, <1>8, KeepsOn
<1> QED BY <1>1, <1>9, <1>10, <1>11

\* The daemon writes a delayed buffer.
LEMMA FsflushKeeps ==
    ASSUME GoodNow, Fsflush PROVE ContentsKept({})
<1> DEFINE s == Now  B == Held(call)  N == News(call)
<1>1. PICK old \in (SUBSET Delayed(Now)) \ {{}} :
        LET move(list, b) == IF b \in old THEN <<b>> \o RemoveFirst(list, b) ELSE list
            sorted == [Now EXCEPT !.avail = FoldLeft(move, avail, avail)]
        IN  BecomesWaking(FlushOne(sorted, Head(sorted.avail)))
  BY DEF Fsflush
<1> DEFINE m == SortedBy(avail, old)
           u == [s EXCEPT !.avail = m]
           b == Head(u.avail)
           t == FlushOne(u, b)
<1>2. Becomes(t) /\ disk' = disk
  BY <1>1 DEF SortedBy, Fsflush, BecomesWaking
<1>3. s \in Cache /\ Sound(s, B, N) /\ s.avail = avail
  BY NowIs, NowCache
<1>4. avail \in Seq(Buf) /\ Single(avail)
  BY <1>3, CacheFields DEF Sound, Lists
<1>5. \E d \in ToSet(avail) : d \in old
  <2>1. PICK d : d \in old
    BY <1>1
  <2>2. old \subseteq ToSet(s.avail)
    BY <1>1 DEF Delayed
  <2> HIDE DEF s
  <2> QED BY <1>3, <2>1, <2>2
<1>6. m \in Seq(Buf) /\ Single(m) /\ ToSet(m) = ToSet(avail) /\ m # <<>> /\ Head(m) \in old
  BY <1>4, <1>5, SortIs
<1> HIDE DEF m
<1>7. /\ u \in Cache /\ u.avail = m /\ u.buf = s.buf /\ u.io = s.io /\ u.bufsize = s.bufsize
      /\ u.wanted = s.wanted /\ u.woken = s.woken /\ u.saved = s.saved
  BY <1>3, <1>6 DEF Cache
<1>8. Resorted(s, u)
  BY <1>3, <1>6, <1>7 DEF Resorted, OnList
<1>9. Is(u, b, "DELWRI") /\ b \in OnList(u)
  <2>1. b \in old /\ b \in ToSet(avail) /\ Is(s, b, "DELWRI")
    BY <1>1, <1>3, <1>6, <1>7 DEF Delayed
  <2> QED BY <1>6, <1>7, <2>1 DEF Is, OnList
<1>10. t = FlushOne(u, b)
  OBVIOUS
<1> HIDE DEF s, u, b, t, B, N
<1>11. Sound(u, B, N)
  BY <1>3, <1>8, ResortedIs
<1>12. Keeps(s, u, {})
  BY <1>3, <1>7, BuffersKeep
<1>13. Keeps(u, t, {}) /\ t \in Cache
  BY <1>9, <1>10, <1>11, FlushOneKeeps
<1>14. Keeps(s, t, {})
  BY <1>12, <1>13, KeepsOn
<1> QED BY <1>2, <1>13, <1>14, BecomesKeeps DEF s

\* After k turns of bflush the first k buffers of the list are written
FlushedTo(s, t, k) ==
    OnList(t) \subseteq OnList(s) /\ \A i \in 1 .. k : ~ Is(t, s.avail[i], "DELWRI")

\* A turn.
LEMMA BflushTurnKeeps ==
    ASSUME NEW s, NEW B, NEW N, Sound(s, B, N), NEW k \in Nat, k + 1 <= Len(s.avail),
           NEW t, FlushLoop(s, t, k, B, N), FlushedTo(s, t, k), NEW X, Keeps(s, t, X),
           NEW u, u = BflushTurn(t, s.avail[k + 1])
    PROVE  FlushedTo(s, u, k + 1) /\ Keeps(s, u, X)
<1> DEFINE q == s.avail  b == q[k + 1]  n == Len(q)
<1>1. s \in Cache /\ q \in Seq(Buf) /\ Single(q) /\ n \in Nat
  BY CacheFields DEF Sound, Lists
<1>2. t \in Cache /\ Sound(t, B, N) /\ b \in OnList(t) /\ t.saved = NoBuf
  <2>1. k + 1 \in (k + 1) .. n
    BY <1>1
  <2> QED BY <2>1 DEF FlushLoop
<1>3. \A i \in 1 .. k : q[i] \in Buf /\ q[i] # b
  <2>1. \A i \in 1 .. k : i \in 1 .. n /\ k + 1 \in 1 .. n /\ i # k + 1
    BY <1>1
  <2> QED BY <1>1, <2>1 DEF Single
<1>4. \A i \in 1 .. k + 1 : i \in 1 .. k \/ i = k + 1
  OBVIOUS
<1>5. CASE Is(t, b, "DELWRI")
  <2>1. u = FlushOne(t, b)
    BY <1>5 DEF BflushTurn
  <2> HIDE DEF q, b, n
  <2>2. Flushed(t, u, b, B, N)
    BY <1>2, <1>5, <2>1, FlushOneIs
  <2>3. Keeps(t, u, X) /\ OnlyAt(t, u, b) /\ ~ Is(u, b, "DELWRI")
    BY <1>2, <1>5, <2>1, FlushOneKeeps
  <2>4. \A i \in 1 .. k : ~ Is(u, q[i], "DELWRI")
    BY <1>3, <2>3 DEF OnlyAt, Is, FlushedTo, q
  <2>5. FlushedTo(s, u, k + 1)
    BY <1>4, <2>2, <2>3, <2>4 DEF FlushedTo, Flushed, q, b
  <2> QED BY <2>3, <2>5, KeepsOn
<1>6. CASE ~ Is(t, b, "DELWRI")
  <2>1. u = t
    BY <1>6 DEF BflushTurn
  <2> QED BY <1>4, <1>6, <2>1 DEF FlushedTo
<1> QED BY <1>5, <1>6

\* bflush writes everything that is on the free list.
LEMMA BflushKeeps ==
    ASSUME NEW s, NEW B, NEW N, Sound(s, B, N), s.saved = NoBuf, NEW t, t = Bflush(s, s.avail),
           NEW X
    PROVE  Keeps(s, t, X) /\ \A b \in OnList(t) : ~ Is(t, b, "DELWRI")
<1> DEFINE q == s.avail  n == Len(q)
<1>1. s \in Cache /\ q \in Seq(Buf) /\ n \in Nat
  BY CacheFields DEF Sound
<1>2. PICK g : Bflushes(g, s, q, n)
  BY <1>1, BflushTurns
<1>3. /\ g[0] = s /\ g[n] = t /\ \A i \in 1 .. n : g[i] = BflushTurn(g[i - 1], q[i])
  BY <1>2 DEF Bflushes
<1> DEFINE T == {k \in Nat : k <= n => /\ FlushLoop(s, g[k], k, B, N) /\ FlushedTo(s, g[k], k)
                                       /\ Keeps(s, g[k], X)}
<1>4. 0 \in T
  <2>1. Goes(s, s, B, B, B)
    BY <1>1, StillGoes
  <2>2. \A i \in (0 + 1) .. n : q[i] \in OnList(s)
    BY <1>1 DEF OnList, ToSet
  <2>3. FlushLoop(s, s, 0, B, N)
    BY <1>1, <2>1, <2>2 DEF FlushLoop
  <2>4. FlushedTo(s, s, 0)
    BY DEF FlushedTo
  <2>5. Keeps(s, s, X)
    BY <1>1, BuffersKeep
  <2> QED BY <1>3, <2>3, <2>4, <2>5
<1>5. ASSUME NEW k \in Nat, k \in T PROVE k + 1 \in T
  <2> SUFFICES ASSUME k + 1 <= n
               PROVE  /\ FlushLoop(s, g[k + 1], k + 1, B, N) /\ FlushedTo(s, g[k + 1], k + 1)
                      /\ Keeps(s, g[k + 1], X)
    OBVIOUS
  <2>1. /\ FlushLoop(s, g[k], k, B, N) /\ FlushedTo(s, g[k], k) /\ Keeps(s, g[k], X)
        /\ k + 1 \in 1 .. n /\ (k + 1) - 1 = k
    BY <1>1, <1>5
  <2>2. g[k + 1] = BflushTurn(g[k], q[k + 1])
    BY <1>3, <2>1
  <2>3. FlushLoop(s, g[k + 1], k + 1, B, N)
    BY <2>1, <2>2, FlushLoopTurns
  <2>4. FlushedTo(s, g[k + 1], k + 1) /\ Keeps(s, g[k + 1], X)
    BY <2>1, <2>2, BflushTurnKeeps
  <2> QED BY <2>3, <2>4
<1> HIDE DEF T, n
<1>6. n \in T
  BY <1>1, <1>4, <1>5, SetInduction
<1>7. FlushedTo(s, t, n) /\ Keeps(s, t, X)
  BY <1>1, <1>3, <1>6 DEF T
<1>8. ASSUME NEW b \in OnList(t) PROVE ~ Is(t, b, "DELWRI")
  <2>1. b \in ToSet(q)
    BY <1>7 DEF FlushedTo, OnList
  <2>2. PICK i \in 1 .. n : q[i] = b
    BY <1>1, <2>1, Members DEF n
  <2> QED BY <1>7, <2>2 DEF FlushedTo
<1> QED BY <1>7, <1>8

\* When nobody has a buffer, what is to be written is on the free list.
LEMMA DelayedOnList ==
    ASSUME NEW s, Sound(s, {}, {}), NEW d, Coherent(s, d), NEW b \in Buf, Is(s, b, "DELWRI")
    PROVE  b \in OnList(s)
<1>1. Role(s, b, {}, {}) /\ Is(s, b, "DONE")
  BY DEF Sound, Coherent, Delays, Valid
<1>2. s.buf[b] # Unused
  BY DEF Unused, Is
<1> QED BY <1>1, <1>2 DEF Role

\* The last close.
LEMMA DeviceCloseKeeps ==
    ASSUME GoodNow, DeviceClose PROVE ContentsKept({})
<1> DEFINE s == Now  B == Held(call)  N == News(call)
           u == Bflush(s, s.avail)
           t == Invalid(u)
<1>1. /\ \A p \in Proc : pc[p] = "user"
      /\ Becomes(t) /\ disk' = disk
  BY NowIs DEF DeviceClose, Bflush, Invalid, BecomesWaking
<1>2. s \in Cache /\ Sound(s, B, N) /\ s.saved = NoBuf
  BY NowIs DEF GoodNow, Good, Sound
<1>3. B = {} /\ N = {}
  BY <1>1, UserIs DEF Held, News
<1>4. t = Invalid(u) /\ u = Bflush(s, s.avail)
  OBVIOUS
<1> HIDE DEF s, B, N, u, t
<1>5. Sound(u, {}, {})
  BY <1>2, <1>3, <1>4, BflushIs
<1>6. Keeps(s, u, {}) /\ \A b \in OnList(u) : ~ Is(u, b, "DELWRI")
  BY <1>2, <1>4, BflushKeeps
<1>7. Invalidated(u, t) /\ t \in Cache
  BY <1>4, <1>5, InvalidIs DEF Sound, Invalidated
<1>8. u \in Cache /\ Unique(u) /\ \A b \in InDriver(u) : b \in Buf /\ u.buf[b].blk # NoBlock
  <2>1. u \in Cache /\ Unique(u)
    BY <1>5 DEF Sound
  <2>2. ASSUME NEW b \in InDriver(u) PROVE b \in Buf
    <3> DEFINE q == u.io
    <3>1. q \in Seq(Request) /\ b \in Bps(q)
      BY <2>1, CacheFields DEF InDriver
    <3> HIDE DEF q
    <3>2. PICK r \in ToSet(q) : b = r.bp
      BY <3>1 DEF Bps
    <3>3. r \in Request
      BY <3>1, Members
    <3> QED BY <3>2, <3>3 DEF Request
  <2>3. ASSUME NEW b \in InDriver(u) PROVE u.buf[b].blk # NoBlock
    <3>1. b \in Buf /\ Role(u, b, {}, {})
      BY <1>5, <2>2 DEF Sound
    <3> QED BY <2>3, <3>1 DEF Role, Named
  <2> QED BY <2>1, <2>2, <2>3
<1>9. Keeps(s, t, {})
  <2> SUFFICES ASSUME NEW d, Coherent(s, d) PROVE Leads(s, d, t, d, {})
    BY DEF Keeps
  <2>1. Leads(s, d, u, d, {}) /\ Coherent(u, d)
    BY <1>6 DEF Keeps, Leads
  <2>2. \A b \in Buf : ~ Is(u, b, "DELWRI")
    BY <1>5, <1>6, <2>1, DelayedOnList
  <2>3. Leads(u, d, t, d, {})
    BY <1>7, <1>8, <2>1, <2>2, InvalidLeads
  <2> QED BY <2>1, <2>3, LeadsOn
<1> QED BY <1>1, <1>7, <1>9, BecomesKeeps DEF s

\* A request leaves the place where it was found.
LEMMA LeavesAt ==
    ASSUME NEW q, q \in Seq(Request), Apart(q), NEW i \in 1 .. Len(q), NEW r, q[i] = r
    PROVE  RemoveFirst(q, r) = RemoveAt(q, i)
<1>1. r \in ToSet(q)
  BY Members
<1>2. PICK k \in 1 .. Len(q) : q[k] = r /\ RemoveFirst(q, r) = RemoveAt(q, k)
  BY <1>1, FirstAt
<1>3. k = i
  BY <1>2 DEF Apart
<1> QED BY <1>2, <1>3

\* The requests are q, and b contains what it did
Carries(s, t, b, q) == t \in Cache /\ t.io = q /\ t.buf[b].data = s.buf[b].data

\* A request that ends is no longer there, and its buffer contains what it did.
LEMMA DoneIs ==
    ASSUME NEW s, s \in Cache, NEW b, b \in Buf, NEW on, on \in SUBSET Flag,
           NEW m, m \in Seq(Request), NEW t, t = [Flagged(s, b, on, {}) EXCEPT !.io = m]
    PROVE  Carries(s, t, b, m)
<1> DEFINE u == Flagged(s, b, on, {})
<1>1. OnlyBuf(s, u, b) /\ SameBut(u, s, b)
  BY FlagsAre
<1>2. t = [u EXCEPT !.io = m]
  OBVIOUS
<1> HIDE DEF u
<1>3. t \in Cache /\ t.io = m /\ t.buf = u.buf
  BY <1>1, <1>2 DEF OnlyBuf, Cache
<1> QED BY <1>1, <1>3 DEF SameBut, Carries

\* What a buffer that was filled contains.
LEMMA FullIs ==
    ASSUME NEW s, s \in Cache, NEW b \in Buf, NEW v \in Value, NEW t, t = Refilled(s, b, v)
    PROVE  t.io = s.io /\ t.buf[b].data = v
<1> DEFINE h == [s.buf[b] EXCEPT !.data = v]
<1>1. OnlyBuf(s, t, b)
  BY RefillIs DEF RefilledIs
<1>2. s.buf[b] \in Header
  BY HeaderFields
<1>3. h.data = v
  BY <1>2 DEF Header
<1>4. t.buf[b] = h
  <2>1. s.buf \in [Buf -> Header]
    BY CacheFields
  <2>2. t = [s EXCEPT !.buf = [@ EXCEPT ![b] = h]]
    BY DEF Refilled
  <2> HIDE DEF h
  <2> QED BY <2>1, <2>2 DEF Cache
<1> QED BY <1>1, <1>3, <1>4 DEF OnlyBuf

\* After B_DONE the buffer is released, or who waits for it is woken.
LEMMA FinishKeeps ==
    ASSUME NEW s, NEW B, NEW N, Sound(s, B, N), NEW b \in Buf, b \in InDriver(s),
           NEW on, on \subseteq {"DONE", "ERROR"}, NEW u, Ended(s, u, b, on),
           NEW t, t = Finished(u, b), NEW X
    PROVE  Keeps(u, t, X) /\ t \in Cache
<1>1. s \in Cache /\ Unique(s) /\ b \notin OnList(s)
  BY DriversIs DEF Sound
<1>2. /\ OnlyAt(s, u, b) /\ u.avail = s.avail /\ InDriver(u) = InDriver(s) \ {b}
      /\ u.buf[b].blk = s.buf[b].blk /\ u.buf[b].flags = s.buf[b].flags \cup on
  BY DEF Ended
<1>3. u \in Cache /\ Lists(u) /\ b \notin OnList(u) /\ b \notin InDriver(u)
  BY <1>1, <1>2 DEF OnlyAt, OnList
<1>4. Unique(u)
  <2>1. \A c \in Buf : u.buf[c].blk = s.buf[c].blk /\ (Is(u, c, "STALE") <=> Is(s, c, "STALE"))
    BY <1>2 DEF OnlyAt, Is
  <2>2. \A c \in Buf : Findable(u, c) <=> Findable(s, c)
    BY <2>1 DEF Findable
  <2> QED BY <1>1, <2>1, <2>2 DEF Unique
<1>5. CASE Is(u, b, "ASYNC")
  <2>1. t = Brelse(u, b)
    BY <1>5 DEF Finished
  <2>2. t \in Cache
    BY <1>3, <2>1, BrelseIs DEF OnlyAt
  <2> QED BY <1>3, <1>4, <2>1, <2>2, ReleaseKeeps
<1>6. CASE ~ Is(u, b, "ASYNC")
  <2> DEFINE off == {"WANTED"}  v == Flagged(u, b, {}, off)
  <2>1. t = [v EXCEPT !.woken = @ \cup {<<"buf", b>>}]
    BY <1>6 DEF Finished
  <2>2. {} \in SUBSET Outer /\ off \in SUBSET Outer /\ {} \in SUBSET Flag /\ v = Flagged(u, b, {}, off)
    BY DEF Outer
  <2> HIDE DEF v, off
  <2>3. Keeps(u, v, X)
    BY <1>3, <2>2, FlagKeeps
  <2>4. v \in Cache
    BY <1>3, <2>2, FlagsAre DEF OnlyBuf
  <2>5. <<"buf", b>> \in Chan
    BY DEF Chan
  <2>6. t \in Cache /\ t.buf = v.buf /\ t.io = v.io
    BY <2>1, <2>4, <2>5 DEF Cache
  <2>7. Keeps(v, t, X)
    BY <2>4, <2>6, BuffersKeep
  <2> QED BY <2>3, <2>6, <2>7, KeepsOn
<1> QED BY <1>5, <1>6

\* The end of a request, in parts: what the driver did, and how it went.
LEMMA RequestKeeps ==
    ASSUME NEW s, NEW B, NEW N, Sound(s, B, N), NEW d, Coherent(s, d), NEW n \in 1 .. Len(s.io),
           NEW b \in Buf, b = s.io[n].bp, b \in InDriver(s),
           \A j \in 1 .. Len(s.io) : j < n => For(s, j) # For(s, n),
           NEW on, on \subseteq {"DONE", "ERROR"}, NEW u, Ended(s, u, b, on),
           u.io = RemoveAt(s.io, n), NEW t, t = Finished(u, b), NEW e, NEW X,
           ReadWell(s, d, u, e, n, b) \/ WroteWell(s, d, u, e, n, b) \/ Failed(s, d, u, e, n, b, X)
    PROVE  Leads(s, d, t, e, X) /\ t \in Cache
<1>1. s \in Cache /\ Unique(s) /\ Apart(s.io) /\ ~ Is(s, b, "DONE")
  BY DriversIs DEF Sound, Lists
<1>2. /\ OnlyAt(s, u, b) /\ u.buf[b].blk = s.buf[b].blk
      /\ u.buf[b].flags = s.buf[b].flags \cup on
  BY DEF Ended
<1>3. ~ Is(s, b, "DELWRI")
  BY <1>1 DEF Coherent, Delays, Valid
<1>4. (Is(u, b, "STALE") <=> Is(s, b, "STALE")) /\ ~ Is(u, b, "DELWRI")
  BY <1>2, <1>3 DEF Is
<1>5. RequestEnded(s, u, n, b)
  BY <1>1, <1>2, <1>4, OthersLike DEF RequestEnded
<1>6. Leads(s, d, u, e, X)
  BY <1>1, <1>5, EndLeads
<1>7. Keeps(u, t, X) /\ t \in Cache
  BY FinishKeeps
<1>8. Leads(u, e, t, e, X)
  BY <1>6, <1>7 DEF Keeps, Leads
<1> QED BY <1>6, <1>7, <1>8, LeadsOn

\* A step to a cache that the disk after it goes with.
LEMMA BecomesLeads ==
    ASSUME NEW t, t \in Cache, Becomes(t), NEW X, Leads(Now, disk, t, disk', X)
    PROVE  ContentsKept(X)
<1>1. SamePools(Now', t)
  BY NextCache
<1>2. Now'.buf = t.buf /\ Now'.io = t.io
  BY <1>1 DEF SamePools
<1>3. Keeps(t, Now', X)
  BY <1>2, BuffersKeep
<1>4. Leads(t, disk', Now', disk', X)
  BY <1>3 DEF Keeps, Leads
<1> QED BY <1>4, LeadsOn DEF ContentsKept

\* A request that ends leaves the contents what they are, but for a write that failed.
LEMMA BiodoneKeeps ==
    ASSUME GoodNow, DiskType, NEW r, r \in ToSet(io), NEW error \in BOOLEAN, Biodone(r, error),
           NEW X, error /\ ~ r.read => buf[r.bp].blk \in X
    PROVE  ContentsKept(X)
<1> SUFFICES ASSUME Coherent(Now, disk) PROVE Leads(Now, disk, Now', disk', X)
  BY DEF ContentsKept
<1> DEFINE s == Now  b == r.bp  k == buf[b].blk  B == Held(call)  N == News(call)
           on == {"DONE"} \cup (IF error THEN {"ERROR"} ELSE {})
           u == [Flagged(s, b, on, {}) EXCEPT !.io = RemoveFirst(io, r)]
           full == r.read /\ ~ error
           v == IF full THEN [u EXCEPT !.buf[b].data = disk[k]] ELSE u
           t == Finished(v, b)
<1>1. /\ BecomesWaking(t)
      /\ disk' = IF r.read \/ error THEN disk ELSE [disk EXCEPT ![k] = buf[b].data]
      /\ \E i \in DOMAIN io : io[i] = r /\ \A j \in 1 .. i - 1 : buf[io[j].bp].blk # k
  BY DEF Biodone
<1>2. s \in Cache /\ Lists(s) /\ Sound(s, B, N) /\ s.io = io /\ s.buf = buf
  BY NowIs DEF GoodNow, Good, Sound
<1>3. io \in Seq(Request) /\ Apart(io) /\ DOMAIN io = 1 .. Len(io) /\ Len(io) \in Nat
  <2>1. s.io \in Seq(Request) /\ Apart(s.io)
    BY <1>2, CacheFields DEF Lists
  <2>2. io \in Seq(Request) /\ Apart(io)
    BY <1>2, <2>1
  <2> QED BY <2>2
<1>4. PICK n \in 1 .. Len(io) : io[n] = r /\ \A j \in 1 .. n - 1 : buf[io[j].bp].blk # k
  BY <1>1, <1>3
<1>5. n \in 1 .. Len(s.io) /\ b = s.io[n].bp /\ r = s.io[n]
      /\ \A j \in 1 .. Len(s.io) : j < n => For(s, j) # For(s, n)
  BY <1>2, <1>3, <1>4 DEF For
<1>6. b \in Buf /\ b \in InDriver(s) /\ r.read \in BOOLEAN
  <2> HIDE DEF s, b
  <2> QED BY <1>2, <1>5, BufferOf
<1>7. s.buf[b].blk \in Block /\ s.buf[b].data \in Value /\ k = s.buf[b].blk
  <2>1. k = s.buf[b].blk
    BY <1>2
  <2> HIDE DEF s, b, k, B, N
  <2>2. s.buf[b].blk # NoBlock
    BY <1>2, <1>6, DriversIs
  <2>3. s.buf[b].blk \in Block \cup {NoBlock} /\ s.buf[b].data \in Value
    BY <1>2, <1>6, HeaderFields
  <2> QED BY <2>1, <2>2, <2>3
<1>8. on \in SUBSET Flag /\ on \subseteq {"DONE", "ERROR"} /\ (error => "ERROR" \in on)
  BY DEF Flag
<1> DEFINE m == RemoveAt(io, n)
<1>9. RemoveFirst(io, r) = m /\ m \in Seq(Request)
  BY <1>3, <1>4, LeavesAt, Removed
<1>10. u = [Flagged(s, b, on, {}) EXCEPT !.io = m]
  BY <1>9
<1>11. Ended(s, u, b, on)
  <2>1. u = [Flagged(s, b, on, {}) EXCEPT !.io = RemoveFirst(s.io, r)] /\ r \in ToSet(s.io)
    BY <1>2
  <2>2. b = r.bp
    OBVIOUS
  <2> HIDE DEF s, b, on, u
  <2> QED BY <1>2, <1>6, <1>8, <2>1, <2>2, RequestDone
<1>12. u \in Cache /\ u.io = m /\ u.buf[b].data = s.buf[b].data
  <2>1. s \in Cache /\ b \in Buf /\ on \in SUBSET Flag /\ m \in Seq(Request)
    BY <1>2, <1>6, <1>8, <1>9
  <2> HIDE DEF s, b, k, B, N, on, u, full, v, t, m
  <2>2. Carries(s, u, b, m)
    BY <1>10, <2>1, DoneIs
  <2> QED BY <2>2 DEF Carries
<1>13. disk[k] \in Value
  BY <1>7 DEF DiskType
<1>14. /\ Ended(s, v, b, on) /\ v.io = m
       /\ v.buf[b].data = IF full THEN disk[k] ELSE s.buf[b].data
  <2>1. CASE full
    <3> DEFINE d == disk[k]
    <3>1. v = Refilled(u, b, d) /\ d \in Value /\ d = disk[k]
      BY <1>13, <2>1 DEF Refilled
    <3>2. v.io = u.io /\ v.buf[b].data = d
      <4> HIDE DEF s, b, on, u, v, d, m
      <4> QED BY <1>6, <1>12, <3>1, FullIs
    <3>3. Ended(s, v, b, on)
      <4> HIDE DEF s, b, on, u, v, d, m
      <4> QED BY <1>6, <1>11, <3>1, ReadDone
    <3> QED BY <1>12, <2>1, <3>2, <3>3
  <2>2. CASE ~ full
    <3>1. v = u
      BY <2>2
    <3> HIDE DEF v, u
    <3> QED BY <1>11, <1>12, <2>2, <3>1
  <2> QED BY <2>1, <2>2
<1>15. full = (r.read /\ ~ error) /\ t = Finished(v, b)
  OBVIOUS
<1>16. disk' = IF r.read \/ error THEN disk ELSE [disk EXCEPT ![k] = s.buf[b].data]
  BY <1>1, <1>2
<1>17. error /\ ~ r.read => k \in X
  OBVIOUS
<1>18. v.io = RemoveAt(s.io, n)
  BY <1>2, <1>14
<1> HIDE DEF s, b, k, B, N, on, u, full, v, t, m
<1>19. \/ ReadWell(s, disk, v, disk', n, b) \/ WroteWell(s, disk, v, disk', n, b)
       \/ Failed(s, disk, v, disk', n, b, X)
  <2>1. CASE full
    BY <1>5, <1>7, <1>14, <1>15, <1>16, <2>1 DEF ReadWell
  <2>2. CASE ~ r.read /\ ~ error
    <3>1. disk' = [disk EXCEPT ![k] = s.buf[b].data] /\ disk \in [Block -> Value]
      BY <1>16, <2>2 DEF DiskType
    <3>2. v.buf[b].data = s.buf[b].data
      BY <1>14, <1>15, <2>2
    <3>3. disk'[k] = s.buf[b].data
      BY <1>7, <3>1
    <3>4. \A j : j # k => disk'[j] = disk[j]
      BY <3>1
    <3> QED BY <1>5, <1>7, <2>2, <3>2, <3>3, <3>4 DEF WroteWell
  <2>3. CASE error
    <3>1. Is(v, b, "ERROR")
      BY <1>8, <1>14, <2>3 DEF Ended, Is
    <3> QED BY <1>5, <1>7, <1>16, <1>17, <2>3, <3>1 DEF Failed
  <2> QED BY <1>6, <1>15, <2>1, <2>2, <2>3
<1>20. Coherent(s, disk)
  BY DEF s
<1>21. Leads(s, disk, t, disk', X) /\ t \in Cache
  BY <1>2, <1>5, <1>6, <1>8, <1>14, <1>15, <1>18, <1>19, <1>20, RequestKeeps
<1>22. Becomes(t)
  BY <1>1 DEF BecomesWaking
<1>23. ContentsKept(X)
  BY <1>21, <1>22, BecomesLeads DEF s
<1> QED BY <1>23 DEF ContentsKept

-----------------------------------------------------------------------------
(* Every step leaves the contents what they are, but for what is written *)

\* The step may change what the block contains: a process that has its buffer
\* releases or writes it, or a write fails
MayChange(blk) ==
    \/ \E p \in Proc : MayWrite(p) /\ call[p].blk = blk /\ pc'[p] # "hold"
    \/ \E r \in ToSet(io) : buf[r.bp].blk = blk /\ ~ r.read /\ Biodone(r, TRUE)

\* Where a process is after a step of its own, and where another is.
LEMMA GotoIs ==
    ASSUME GoodNow, NEW p \in Proc, NEW w, NEW c, Goto(p, w, c)
    PROVE  pc'[p] = w /\ \A q \in Proc : q # p => pc'[q] = pc[q]
<1>1. pc \in [Proc -> Pcs]
  BY DEF GoodNow, Good, Tables
<1> QED BY <1>1 DEF Goto

\* Writing a block may change it.
LEMMA WriterMay ==
    ASSUME GoodNow, NEW p \in Proc, NEW v \in Value, Bdwrite(p, v) \/ Bwrite(p, v) \/ Bawrite(p, v)
    PROVE  ContentsKept({call[p].blk}) /\ MayChange(call[p].blk)
<1>1. MayWrite(p) /\ \E w \in {"user", "wwait"} : \E c : Goto(p, w, c)
  BY DEF Bdwrite, Bwrite, Bawrite, Return
<1>2. pc'[p] # "hold"
  BY <1>1, GotoIs
<1>3. MayChange(call[p].blk)
  BY <1>1, <1>2 DEF MayChange
<1>4. ContentsKept({call[p].blk})
  BY BdwriteKeeps, BwriteKeeps
<1> QED BY <1>3, <1>4

\* A step of a process.
LEMMA ProcessKeeps ==
    ASSUME GoodNow, NEW p \in Proc, Starts(p) \/ Continue(p) \/ Releases(p)
    PROVE  \E X : ContentsKept(X) /\ \A k \in X : MayChange(k)
<1>1. SUFFICES ASSUME ~ \E v \in Value : Bdwrite(p, v) \/ Bwrite(p, v) \/ Bawrite(p, v)
               PROVE  ContentsKept({})
  <2>1. CASE ContentsKept({})
    BY <2>1
  <2>2. CASE \E v \in Value : Bdwrite(p, v) \/ Bwrite(p, v) \/ Bawrite(p, v)
    <3>1. ContentsKept({call[p].blk}) /\ MayChange(call[p].blk)
      BY <2>2, WriterMay
    <3> QED BY <3>1
  <2> QED BY <2>1, <2>2
<1>2. ASSUME NEW blk \in Block, Bread(p, blk) \/ GetblkCall(p, blk) PROVE ContentsKept({})
  BY <1>2, BreadKeeps
<1>3. ASSUME NEW blk \in Block, Blookup(p, blk) PROVE ContentsKept({})
  BY <1>3, BlookupKeeps
<1>4. CASE BlkflushAgain(p) \/ \E blk \in Block : Blkflush(p, blk)
  BY <1>4, BlkflushKeeps
<1>5. ASSUME NEW blk \in Block, NEW ra \in Block, Breada(p, blk, ra) PROVE ContentsKept({})
  BY <1>5, BreadaKeeps
<1>6. CASE Ngeteblk(p)
  BY <1>6, NgeteblkKeeps
<1>7. CASE GetblkAgain(p)
  BY <1>7, GetblkAgainKeeps
<1>8. CASE GetblkAlloc(p)
  BY <1>8, GetblkAllocKeeps
<1>9. CASE BreadaAhead(p)
  BY <1>9, BreadaAheadKeeps
<1>10. CASE BiowaitSleep(p) \/ BiowaitRead(p) \/ BiowaitWrite(p)
  BY <1>10, BiowaitKeeps
<1>11. CASE BrelseCall(p)
  BY <1>11, BrelseCallKeeps
<1> QED BY <1>1, <1>2, <1>3, <1>4, <1>5, <1>6, <1>7, <1>8, <1>9, <1>10, <1>11
        DEF Starts, Continue, Releases

\* Every step.
LEMMA NextKeepsContents ==
    ASSUME IInv, [Next]_vars
    PROVE  \E X : ContentsKept(X) /\ \A k \in X : MayChange(k)
<1>1. GoodNow /\ DiskType
  BY DEF IInv
<1>2. ASSUME NEW p \in Proc, Starts(p) \/ Continue(p) \/ Releases(p)
      PROVE  \E X : ContentsKept(X) /\ \A k \in X : MayChange(k)
  BY <1>1, <1>2, ProcessKeeps
<1>3. CASE ContentsKept({})
  BY <1>3
<1>4. CASE Interrupt
  <2>1. PICK r \in ToSet(io), error \in BOOLEAN : Biodone(r, error)
    BY <1>4 DEF Interrupt
  <2> DEFINE X == IF error /\ ~ r.read THEN {buf[r.bp].blk} ELSE {}
  <2>2. error /\ ~ r.read => buf[r.bp].blk \in X
    OBVIOUS
  <2>3. \A k \in X : MayChange(k)
    <3> SUFFICES ASSUME error, ~ r.read PROVE MayChange(buf[r.bp].blk)
      OBVIOUS
    <3>1. error = TRUE
      OBVIOUS
    <3>2. Biodone(r, TRUE)
      BY <2>1, <3>1
    <3> QED BY <3>2 DEF MayChange
  <2> HIDE DEF X
  <2>4. ContentsKept(X)
    BY <1>1, <2>1, <2>2, BiodoneKeeps
  <2> QED BY <2>3, <2>4
<1>5. CASE UNCHANGED vars
  <2>1. UNCHANGED <<cacheVars, disk>>
    BY <1>5 DEF vars
  <2>2. ContentsKept({})
    BY <1>1, <2>1, NowCache, StayKeeps
  <2> QED BY <1>3, <2>2
<1> QED BY <1>1, <1>2, <1>3, <1>4, <1>5, FsflushKeeps, DeviceCloseKeeps DEF Next

-----------------------------------------------------------------------------
(* What is in the cache, on its way and on the disk goes together *)

CInv == IInv /\ Coherent(Now, disk)

\* At first there is nothing in the cache.
LEMMA InitCoherent == ASSUME Init PROVE Coherent(Now, disk)
<1>1. buf = [b \in Buf |-> Unused] /\ io = <<>> /\ Unused.flags = {}
  BY DEF Init, Unused
<1>2. \A b \in Buf : \A f : ~ Is(Now, b, f)
  BY <1>1, NowIs DEF Is
<1>3. Len(Now.io) = 0
  BY <1>1, NowIs
<1>4. InTurn(Now)
  BY <1>3 DEF InTurn
<1> QED BY <1>2, <1>4 DEF Coherent, Delays, Clean, Valid

\* The steps keep that.
LEMMA NextCoherent == ASSUME CInv, [Next]_vars PROVE CInv'
<1>1. IInv'
  BY NextGood DEF CInv
<1>2. PICK X : ContentsKept(X)
  BY NextKeepsContents DEF CInv
<1>3. Coherent(Now', disk')
  BY <1>2 DEF CInv, ContentsKept, Leads
<1> QED BY <1>1, <1>3 DEF CInv, Coherent, InTurn, Delays, Clean, For, Findable, Valid, Is

\* What a search finds is on the disk or delayed, what is delayed can be found, and of
\* the requests for a block only the last is for a buffer that can be found (getblk,
\* bdwrite, bwrite, biodone, brelse, device_close).
THEOREM ContentsSound == Spec => []CInv
<1>1. Init => CInv
  BY InitGood, InitCoherent DEF CInv
<1>2. CInv /\ [Next]_vars => CInv'
  BY NextCoherent
<1> QED BY <1>1, <1>2, PTL DEF Spec

\* A block that no one writes contains what it did.
LEMMA BlockStays ==
    ASSUME CInv, [Next]_vars, NEW blk \in Block, ~ MayChange(blk)
    PROVE  Current(blk)' = Current(blk)
<1>1. CInv'
  BY NextCoherent
<1>2. Now \in Cache /\ Unique(Now)
  BY DEF CInv, IInv, GoodNow, Good, Sound
<1>3. Now' \in Cache /\ Unique(Now')
  <2>1. GoodNow'
    BY <1>1 DEF CInv, IInv
  <2>2. Good(Now', wchan', pc', call')
    BY <2>1 DEF GoodNow
  <2> QED BY <2>2 DEF Good, Sound
<1>4. PICK X : ContentsKept(X) /\ \A k \in X : MayChange(k)
  BY NextKeepsContents DEF CInv
<1>5. blk \in Block \ X
  BY <1>4
<1>6. Leads(Now, disk, Now', disk', X)
  BY <1>4 DEF CInv, ContentsKept
<1> DEFINE v == Content(Now, disk, blk)
<1>7. Gives(Now, disk, blk, v)
  BY <1>2, ContentIs
<1>8. Current(blk) = v /\ Current(blk)' = Content(Now', disk', blk)
  BY <1>2, <1>3, CurrentIs
<1> HIDE DEF v
<1>9. Gives(Now', disk', blk, v)
  BY <1>5, <1>6, <1>7 DEF Leads
<1>10. v = Content(Now', disk', blk)
  BY <1>3, <1>9, ContentIs
<1> QED BY <1>8, <1>10

\* NothingLost: a block changes only when a process that has its buffer writes it or
\* when that write fails; getfreeblk, fsflush, brelse, blkflush and device_close lose
\* and revive nothing.
THEOREM OnlyWritersChange == Spec => NothingLost
<1>1. CInv /\ [Next]_vars =>
        [\A blk \in Block : Current(blk)' # Current(blk) =>
           \/ \E p \in Proc : MayWrite(p) /\ call[p].blk = blk /\ pc'[p] # "hold"
           \/ \E r \in ToSet(io) : buf[r.bp].blk = blk /\ ~ r.read /\ Biodone(r, TRUE)]_vars
  BY BlockStays DEF MayChange
<1> QED BY <1>1, ContentsSound, PTL DEF Spec, NothingLost

-----------------------------------------------------------------------------
(* What blkflush has done when it returns *)

\* Nobody has the block, and it is not to be written
AtRest(k) == \A b \in Incore(Now, k) : ~ Is(Now, b, "BUSY") /\ ~ Is(Now, b, "DELWRI")

\* What it contains is on the disk then, or a write that the last close left behind
\* is on its way.
LEMMA RestsOnDisk ==
    ASSUME CInv, NEW k \in Block, AtRest(k), \A b \in InIo : buf[b].blk = k => ~ Is(Now, b, "STALE")
    PROVE  Content(Now, disk, k) = disk[k]
<1> DEFINE s == Now  B == Held(call)  N == News(call)
<1>1. s \in Cache /\ Unique(s) /\ Sound(s, B, N) /\ Clean(s, disk)
  BY DEF CInv, IInv, GoodNow, Good, Sound, Coherent
<1>2. k # NoBlock
  BY NamesAssumption
<1>3. \A b \in Buf : Findable(s, b) /\ s.buf[b].blk = k => b \in Incore(s, k)
  BY <1>2 DEF Incore, Findable
<1>4. \A b \in Buf : Serves(s, b, k) => s.buf[b].data = disk[k]
  BY <1>1, <1>3 DEF Serves, Clean, AtRest
<1>5. \A b \in InDriver(s) : s.buf[b].blk = k => ~ Is(s, b, "STALE")
  BY NowIs DEF InDriver, Bps, InIo
<1>6. ASSUME NEW i \in 1 .. Len(s.io), Writes(s, i, k) PROVE FALSE
  <2> DEFINE b == s.io[i].bp
  <2>1. b \in Buf /\ b \in InDriver(s) /\ s.buf[b].blk = k
    BY <1>1, <1>6, BufferOf DEF Writes, For
  <2> HIDE DEF b, s, B, N
  <2>2. b \in Incore(s, k) /\ Is(s, b, "BUSY")
    BY <1>1, <1>2, <1>3, <1>5, <2>1, DriversIs DEF Findable
  <2> QED BY <2>2 DEF AtRest, s
<1>7. Gives(s, disk, k, disk[k])
  BY <1>4, <1>6 DEF Gives
<1> QED BY <1>1, <1>7, ContentIs

\* A step of a process moves it and no other.
LEMMA OwnMove ==
    ASSUME GoodNow, NEW p \in Proc, Starts(p) \/ Continue(p) \/ Releases(p)
    PROVE  \A q \in Proc : q # p => pc'[q] = pc[q]
<1>1. SUFFICES ASSUME ~ UNCHANGED pc PROVE \E w, c : Goto(p, w, c)
  BY GotoIs
<1>2. ASSUME NEW c, NEW b, NEW t, Got(p, c, b, t) PROVE \E w, e : Goto(p, w, e)
  BY <1>2 DEF Got
<1>3. ASSUME NEW c, Getblk(p, c) PROVE \E w, e : Goto(p, w, e)
  BY <1>2, <1>3 DEF Getblk, GetblkBusy, GetblkFound, GetblkNew, GetblkFree
<1>4. ASSUME NEW c, BlkflushTurn(p, c) PROVE \E w, e : Goto(p, w, e)
  BY <1>4 DEF BlkflushTurn, Return
<1>5. CASE Starts(p)
  BY <1>3, <1>4, <1>5 DEF Starts, Bread, GetblkCall, Blookup, Blkflush, Breada, Ngeteblk
<1>6. CASE Continue(p)
  BY <1>1, <1>3, <1>4, <1>6 DEF Continue, GetblkAgain, GetblkAlloc, BreadaAhead, BlkflushAgain,
     BiowaitSleep, BiowaitRead, BiowaitWrite, Return
<1>7. CASE Releases(p)
  BY <1>7 DEF Releases, BrelseCall, Bdwrite, Bwrite, Bawrite, Return
<1> QED BY <1>5, <1>6, <1>7

\* blkflush returns when nobody has the block, and it is not to be written.
LEMMA FlushReturns ==
    ASSUME GoodNow, [Next]_vars, NEW p \in Proc, call[p].op = "blkflush", pc'[p] = "user"
    PROVE  call[p].blk \in Block /\ AtRest(call[p].blk)
<1>1. call[p] \in Call /\ Place(pc[p], call[p]) /\ pc \in [Proc -> Pcs]
  BY GoodIs DEF GoodNow, Good, Tables
<1>2. pc[p] \in {"bufwait", "again", "wwait"}
  BY <1>1 DEF Place, Pcs, Getting, NoCall
<1>3. call[p].blk \in Block
  BY <1>1, <1>2, CallFields DEF Place, Getting, Flushing
<1>4. pc' # pc
  BY <1>2
<1>5. PICK q \in Proc : Starts(q) \/ Continue(q) \/ Releases(q)
  BY <1>4 DEF Next, Fsflush, DeviceClose, Interrupt, Biodone, vars
<1>6. q = p
  BY <1>2, <1>5, OwnMove
<1>7. BlkflushAgain(p)
  <2>1. CASE Starts(p)
    BY <1>2, <2>1 DEF Starts, Bread, GetblkCall, Blookup, Blkflush, Breada, Ngeteblk, Enters
  <2>2. CASE Releases(p)
    BY <1>2, <2>2 DEF Releases, BrelseCall, Bdwrite, Bwrite, Bawrite, MayWrite
  <2>3. CASE BiowaitWrite(p)
    <3>1. Goto(p, "again", [call[p] EXCEPT !.bp = NoBuf])
      BY <2>3 DEF BiowaitWrite
    <3> QED BY <3>1, GotoIs
  <2>4. CASE Continue(p) /\ ~ BiowaitWrite(p)
    BY <1>2, <1>4, <2>4 DEF Continue, GetblkAgain, GetblkAlloc, BreadaAhead, BiowaitSleep, BiowaitRead
  <2> QED BY <1>5, <1>6, <2>1, <2>2, <2>3, <2>4
<1> DEFINE c == call[p]
<1>8. AtRest(c.blk)
  <2>1. ASSUME NEW w, NEW e, Goto(p, w, e) PROVE w = "user"
    BY <2>1, GotoIs
  <2>2. BlkflushTurn(p, c)
    BY <1>7 DEF BlkflushAgain
  <2> HIDE DEF c
  <2> QED BY <2>1, <2>2 DEF BlkflushTurn, AtRest
<1> QED BY <1>3, <1>8

\* FlushedToDisk: what the block contains is on the disk when blkflush returns, unless
\* the last close of the device left a write of it behind.
THEOREM FlushWaitsForDisk == Spec => FlushedToDisk
<1>1. CInv /\ [Next]_vars =>
        [\A p \in Proc : call[p].op = "blkflush" /\ pc'[p] = "user" =>
           LET blk == call[p].blk
           IN  \/ disk[blk] = Current(blk)
               \/ \E b \in InIo : buf[b].blk = blk /\ Is(Now, b, "STALE")]_vars
  <2> SUFFICES ASSUME CInv, [Next]_vars, NEW p \in Proc, call[p].op = "blkflush", pc'[p] = "user",
                      \A b \in InIo : buf[b].blk = call[p].blk => ~ Is(Now, b, "STALE")
               PROVE  disk[call[p].blk] = Current(call[p].blk)
    OBVIOUS
  <2> DEFINE k == call[p].blk
  <2>1. k \in Block /\ AtRest(k)
    BY FlushReturns DEF CInv, IInv
  <2>2. Now \in Cache /\ Now' \in Cache
    <3>1. GoodNow /\ GoodNow'
      BY NextCoherent DEF CInv, IInv
    <3>2. Good(Now', wchan', pc', call')
      BY <3>1 DEF GoodNow
    <3> QED BY <3>1, <3>2 DEF GoodNow, Good, Sound
  <2>3. Content(Now, disk, k) = disk[k]
    BY <2>1, RestsOnDisk
  <2> HIDE DEF k
  <2>4. Current(k) = Content(Now, disk, k)
    BY <2>1, <2>2, CurrentIs
  <2> QED BY <2>3, <2>4 DEF k
<1> QED BY <1>1, ContentsSound, PTL DEF Spec, FlushedToDisk
=============================================================================
