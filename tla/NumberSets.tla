----------------------------- MODULE NumberSets -----------------------------
(***************************************************************************)
(* What the proofs need to know of numbers and finite sets: smallest and   *)
(* largest elements (Min and Max of the community modules), induction over *)
(* the numbers and over the size of a set, and sums of functions           *)
(* (SumFunctionOnSet of the community modules).                            *)
(***************************************************************************)
EXTENDS Integers, Sequences, FiniteSetsExt, Functions, FiniteSetTheorems,
        WellFoundedInduction, TLAPS

LEMMA MinOf ==
  ASSUME NEW S \in SUBSET Nat, S # {}
  PROVE  Min(S) \in S /\ \A y \in S : Min(S) <= y
<1> DEFINE R == {ss \in Nat \X Nat : ss[1] < ss[2]}
<1>1. IsWellFoundedOn(R, Nat)
  BY NatLessThanWellFounded DEF OpToRel
<1>2. PICK x \in S : \A y \in S : <<y, x>> \notin R
  <2> HIDE DEF R
  <2> QED BY <1>1, WFMin
<1>3. \A y \in S : x <= y
  <2> TAKE y \in S
  <2>1. ~ (y < x)
    BY <1>2
  <2> QED
    BY <2>1
<1> QED
  BY <1>3 DEF Min

LEMMA LargestOf ==
  ASSUME NEW S \in SUBSET Nat, S # {}, NEW n \in Nat, \A x \in S : x <= n
  PROVE  \E x \in S : \A y \in S : y <= x
<1> DEFINE T == {n - x : x \in S}
<1>1. T \in SUBSET Nat /\ T # {}
  <2>1. \A x \in S : n - x \in Nat
    OBVIOUS
  <2> QED
    BY <2>1, Zenon
<1>2. Min(T) \in T /\ \A y \in T : Min(T) <= y
  BY <1>1, MinOf
<1>3. PICK x \in S : Min(T) = n - x
  BY <1>2
<1>4. \A y \in S : n - x <= n - y
  BY <1>2, <1>3
<1> QED
  BY <1>4

LEMMA MaxOf ==
  ASSUME NEW S \in SUBSET Nat, S # {}, NEW n \in Nat, \A x \in S : x <= n
  PROVE  Max(S) \in S
<1>1. PICK x \in S : \A y \in S : y <= x
  BY LargestOf
<1> QED
  BY <1>1 DEF Max

-----------------------------------------------------------------------------
(* Induction.                                                              *)

\* A set that has 0, and n + 1 if it has n, has all numbers.
LEMMA NatSet ==
  ASSUME NEW S, 0 \in S, \A n \in Nat : n \in S => n + 1 \in S
  PROVE  Nat \subseteq S
<1> DEFINE T == Nat \ S
<1> SUFFICES ASSUME T # {} PROVE FALSE
  OBVIOUS
<1>1. Min(T) \in T /\ \A y \in T : Min(T) <= y
  BY MinOf
<1>2. Min(T) # 0 /\ Min(T) \in Nat
  BY <1>1
<1>3. Min(T) - 1 \in Nat /\ Min(T) - 1 \notin T
  BY <1>1, <1>2
<1> QED
  BY <1>1, <1>2, <1>3

\* The element of s that a sum over s takes first, and the sum over s in terms of the
\* sums g over smaller sets.
Pick(s) == CHOOSE x \in s : TRUE
Summed(f, g, s) == IF s = {} THEN 0 ELSE f[Pick(s)] + g[s \ {Pick(s)}]

LEMMA PickIn == ASSUME NEW s, s # {} PROVE Pick(s) \in s
  BY DEF Pick

\* Induction over the size of a finite set.
LEMMA BySize ==
  ASSUME NEW Z, IsFiniteSet(Z), NEW B \in SUBSET SUBSET Z,
         {} \in B,
         \A s \in SUBSET Z : s # {} /\ (\A x \in s : s \ {x} \in B) => s \in B
  PROVE  SUBSET Z \subseteq B
<1> DEFINE N == {n \in Nat : \A s \in SUBSET Z : Cardinality(s) = n => s \in B}
<1>1. \A s \in SUBSET Z : IsFiniteSet(s) /\ Cardinality(s) \in Nat
  BY FS_Subset, FS_CardinalityType
<1>2. 0 \in N
  BY <1>1, FS_EmptySet
<1>3. ASSUME NEW n \in Nat, n \in N PROVE n + 1 \in N
  <2> SUFFICES ASSUME NEW s \in SUBSET Z, Cardinality(s) = n + 1 PROVE s \in B
    OBVIOUS
  <2>1. s # {}
    BY FS_EmptySet, <1>3
  <2>2. ASSUME NEW x \in s PROVE s \ {x} \in B
    <3>1. IsFiniteSet(s)
      BY <1>1
    <3>2. Cardinality(s \ {x}) = Cardinality(s) - 1
      BY <3>1, FS_RemoveElement
    <3>3. s \ {x} \in SUBSET Z /\ Cardinality(s \ {x}) = n
      BY <3>2
    <3> QED
      BY <3>3, <1>3
  <2> QED
    BY <2>1, <2>2
<1>4. Nat \subseteq N
  <2> HIDE DEF N
  <2> QED
    BY <1>2, <1>3, NatSet
<1> QED
  BY <1>1, <1>4

LEMMA ByPick ==
  ASSUME NEW Z, IsFiniteSet(Z), NEW B \in SUBSET SUBSET Z,
         {} \in B,
         \A s \in SUBSET Z : s # {} /\ s \ {Pick(s)} \in B => s \in B
  PROVE  SUBSET Z \subseteq B
<1>1. \A s \in SUBSET Z : s # {} /\ (\A x \in s : s \ {x} \in B) => s \in B
  BY PickIn
<1> QED
  BY <1>1, BySize

\* Remainders of numbers below twice the divisor.
LEMMA Remainder ==
  ASSUME NEW m \in Nat \ {0}, NEW x \in Nat, x < 2 * m
  PROVE  x % m = IF x < m THEN x ELSE x - m
<1>1. CASE x < m
  BY <1>1
<1>2. CASE x >= m
  <2>1. x = m * 1 + (x - m) /\ x - m \in 0 .. m - 1
    BY <1>2
  <2> QED
    BY <2>1, <1>2
<1> QED
  BY <1>1, <1>2

\* Following a function from a value on.
LEMMA Iterates ==
  ASSUME NEW V, NEW v \in V, NEW h \in [V -> V]
  PROVE  \E g \in [Nat -> V] : g[0] = v /\ \A n \in Nat : g[n + 1] = h[g[n]]
<1> DEFINE Part(n) == {g \in [0 .. n -> V] : g[0] = v /\ \A i \in 0 .. n - 1 : g[i + 1] = h[g[i]]}
           N == {n \in Nat : Part(n) # {}}
           Same(n) == \A m, p \in Nat : n <= m /\ n <= p =>
                        \A a \in Part(m), b \in Part(p) : a[n] = b[n]
           U == {n \in Nat : Same(n)}
<1>1. Nat \subseteq N
  <2>1. 0 \in N
    <3>1. [i \in 0 .. 0 |-> v] \in Part(0)
      OBVIOUS
    <3> QED
      BY <3>1
  <2>2. ASSUME NEW n \in Nat, n \in N PROVE n + 1 \in N
    <3>1. PICK g \in Part(n) : TRUE
      BY <2>2
    <3> DEFINE e == [i \in 0 .. n + 1 |-> IF i = n + 1 THEN h[g[n]] ELSE g[i]]
    <3>2. e \in [0 .. n + 1 -> V]
      <4>1. \A i \in 0 .. n + 1 : i # n + 1 => i \in 0 .. n
        OBVIOUS
      <4> QED
        BY <4>1, <3>1
    <3>3. e[0] = v
      BY <3>1
    <3>4. \A i \in 0 .. (n + 1) - 1 : e[i + 1] = h[e[i]]
      <4> TAKE i \in 0 .. (n + 1) - 1
      <4>1. CASE i = n
        BY <4>1
      <4>2. CASE i # n
        <5>1. i \in 0 .. n - 1 /\ i + 1 \in 0 .. n + 1 /\ i \in 0 .. n + 1 /\ i + 1 # n + 1 /\ i # n + 1
          BY <4>2
        <5>2. g[i + 1] = h[g[i]]
          BY <3>1, <5>1
        <5> QED
          BY <5>1, <5>2
      <4> QED
        BY <4>1, <4>2
    <3>5. e \in Part(n + 1)
      BY <3>2, <3>3, <3>4
    <3>6. Part(n + 1) # {}
      <4> HIDE DEF Part, e
      <4> QED
        BY <3>5
    <3> QED
      BY <3>6
  <2> HIDE DEF N
  <2> QED
    BY <2>1, <2>2, NatSet
<1>2. Nat \subseteq U
  <2>1. 0 \in U
    OBVIOUS
  <2>2. ASSUME NEW n \in Nat, n \in U PROVE n + 1 \in U
    <3>1. ASSUME NEW m \in Nat, NEW p \in Nat, n + 1 <= m, n + 1 <= p,
                 NEW a \in Part(m), NEW b \in Part(p)
          PROVE  a[n + 1] = b[n + 1]
      <4>1. a[n] = b[n]
        <5>1. n <= m /\ n <= p
          BY <3>1
        <5>2. Same(n)
          BY <2>2
        <5> HIDE DEF Part
        <5> QED
          BY <5>1, <5>2, <3>1
      <4>2. n \in 0 .. m - 1 /\ n \in 0 .. p - 1
        BY <3>1
      <4>3. a[n + 1] = h[a[n]] /\ b[n + 1] = h[b[n]]
        BY <4>2, <3>1
      <4> QED
        BY <4>1, <4>3
    <3>2. Same(n + 1)
      <4> HIDE DEF Part
      <4> QED
        BY <3>1
    <3> HIDE DEF Same
    <3> QED
      BY <3>2
  <2> HIDE DEF U
  <2> QED
    BY <2>1, <2>2, NatSet
<1> DEFINE c == [n \in Nat |-> CHOOSE g \in Part(n) : TRUE]
           G == [n \in Nat |-> c[n][n]]
<1>3. \A n \in Nat : c[n] \in Part(n)
  BY <1>1
<1> HIDE DEF c
<1>4. G \in [Nat -> V]
  <2>1. \A n \in Nat : n \in 0 .. n /\ c[n] \in [0 .. n -> V]
    BY <1>3
  <2> QED
    BY <2>1
<1>5. G[0] = v
  BY <1>3
<1>6. \A n \in Nat : G[n + 1] = h[G[n]]
  <2> TAKE n \in Nat
  <2>1. c[n + 1][n] = c[n][n]
    <3>1. Same(n)
      BY <1>2
    <3>2. c[n + 1] \in Part(n + 1) /\ c[n] \in Part(n) /\ n <= n + 1 /\ n <= n /\ n + 1 \in Nat
      BY <1>3
    <3> HIDE DEF Part
    <3> QED
      BY <3>1, <3>2
  <2>2. c[n + 1][n + 1] = h[c[n + 1][n]]
    <3>1. n \in 0 .. (n + 1) - 1 /\ c[n + 1] \in Part(n + 1)
      BY <1>3
    <3> QED
      BY <3>1
  <2> QED
    BY <2>1, <2>2
<1> HIDE DEF G
<1> QED
  BY <1>4, <1>5, <1>6

-----------------------------------------------------------------------------
(* Sums.                                                                   *)

\* The recursion of a sum is well defined on the subsets of a finite set.
LEMMA SumsExist ==
  ASSUME NEW f, NEW Z, IsFiniteSet(Z)
  PROVE  \E g : g = [s \in SUBSET Z |-> Summed(f, g, s)]
<1> DEFINE Good(g, n) == g = [s \in SUBSET Z |-> IF Cardinality(s) <= n THEN Summed(f, g, s) ELSE 0]
           N == {n \in Nat : \E g : Good(g, n)}
<1>1. \A s \in SUBSET Z : IsFiniteSet(s) /\ Cardinality(s) \in Nat
  BY FS_Subset, FS_CardinalityType
<1>2. \A s \in SUBSET Z : s # {} => Pick(s) \in s /\ s \ {Pick(s)} \in SUBSET Z
                                    /\ Cardinality(s \ {Pick(s)}) = Cardinality(s) - 1
  BY <1>1, PickIn, FS_RemoveElement
<1>3. 0 \in N
  <2> DEFINE g == [s \in SUBSET Z |-> 0]
  <2>1. \A s \in SUBSET Z : Cardinality(s) <= 0 => s = {}
    BY <1>1, FS_EmptySet
  <2>2. Good(g, 0)
    BY <2>1 DEF Summed
  <2> QED
    BY <2>2
<1>4. ASSUME NEW n \in Nat, n \in N PROVE n + 1 \in N
  <2>1. PICK g : Good(g, n)
    BY <1>4
  <2> DEFINE h == [s \in SUBSET Z |-> IF Cardinality(s) <= n + 1 THEN Summed(f, g, s) ELSE 0]
  <2>2. \A s \in SUBSET Z : Cardinality(s) <= n => h[s] = g[s]
    BY <2>1, <1>1
  <2>3. ASSUME NEW s \in SUBSET Z, Cardinality(s) <= n + 1 PROVE Summed(f, g, s) = Summed(f, h, s)
    <3>1. CASE s = {}
      BY <3>1 DEF Summed
    <3>2. CASE s # {}
      <4>1. s \ {Pick(s)} \in SUBSET Z /\ Cardinality(s \ {Pick(s)}) <= n
        BY <3>2, <2>3, <1>1, <1>2
      <4>2. h[s \ {Pick(s)}] = g[s \ {Pick(s)}]
        BY <4>1, <2>2
      <4> HIDE DEF h
      <4> QED
        BY <4>2, <3>2 DEF Summed
    <3> QED
      BY <3>1, <3>2
  <2>4. Good(h, n + 1)
    <3>1. \A s \in SUBSET Z : h[s] = IF Cardinality(s) <= n + 1 THEN Summed(f, h, s) ELSE 0
      BY <2>3
    <3>2. h = [s \in SUBSET Z |-> h[s]]
      OBVIOUS
    <3> HIDE DEF h
    <3> QED
      BY <3>1, <3>2
  <2> HIDE DEF h
  <2> QED
    BY <2>4
<1>5. Cardinality(Z) \in N
  <2>1. Nat \subseteq N
    <3> HIDE DEF N
    <3> QED
      BY <1>3, <1>4, NatSet
  <2> QED
    BY <2>1, <1>1
<1>6. PICK g : Good(g, Cardinality(Z))
  BY <1>5
<1>7. \A s \in SUBSET Z : Cardinality(s) <= Cardinality(Z)
  BY FS_Subset
<1> QED
  BY <1>6, <1>7

Sums(f, Z) == CHOOSE g : g = [s \in SUBSET Z |-> Summed(f, g, s)]

LEMMA SumsDef ==
  ASSUME NEW f, NEW Z, IsFiniteSet(Z)
  PROVE  Sums(f, Z) = [s \in SUBSET Z |-> Summed(f, Sums(f, Z), s)]
  BY SumsExist DEF Sums

LEMMA SumsAt ==
  ASSUME NEW f, NEW Z, IsFiniteSet(Z), NEW s \in SUBSET Z
  PROVE  Sums(f, Z)[s] = IF s = {} THEN 0 ELSE f[Pick(s)] + Sums(f, Z)[s \ {Pick(s)}]
<1>1. \A g : g = [t \in SUBSET Z |-> Summed(f, g, t)] => g[s] = Summed(f, g, s)
  OBVIOUS
<1>2. Sums(f, Z)[s] = Summed(f, Sums(f, Z), s)
  BY <1>1, SumsDef
<1> QED
  BY <1>2 DEF Summed

LEMMA SumIsSums == ASSUME NEW f, NEW S PROVE SumFunctionOnSet(f, S) = Sums(f, S)[S]
  BY DEF SumFunctionOnSet, FoldFunctionOnSet, MapThenFoldSet, Pick, Sums, Summed

\* The part of a sum over Z that concerns a subset does not depend on Z.
LEMMA SumsAgree ==
  ASSUME NEW f, NEW Z, IsFiniteSet(Z), NEW Y \in SUBSET Z
  PROVE  \A s \in SUBSET Y : Sums(f, Y)[s] = Sums(f, Z)[s]
<1> DEFINE B == {s \in SUBSET Y : Sums(f, Y)[s] = Sums(f, Z)[s]}
<1>1. IsFiniteSet(Y)
  BY FS_Subset
<1>2. {} \in B
  BY <1>1, SumsAt
<1>3. \A s \in SUBSET Y : s # {} /\ s \ {Pick(s)} \in B => s \in B
  <2> TAKE s \in SUBSET Y
  <2> HAVE s # {} /\ s \ {Pick(s)} \in B
  <2>0. Sums(f, Y)[s \ {Pick(s)}] = Sums(f, Z)[s \ {Pick(s)}]
    OBVIOUS
  <2> HIDE DEF B
  <2>1. Sums(f, Y)[s] = f[Pick(s)] + Sums(f, Y)[s \ {Pick(s)}]
    BY <1>1, SumsAt
  <2>2. Sums(f, Z)[s] = f[Pick(s)] + Sums(f, Z)[s \ {Pick(s)}]
    <3>1. s \in SUBSET Z
      OBVIOUS
    <3> QED
      BY <3>1, SumsAt
  <2>3. Sums(f, Y)[s] = Sums(f, Z)[s]
    BY <2>0, <2>1, <2>2
  <2> QED
    BY <2>3 DEF B
<1>4. SUBSET Y \subseteq B
  <2>1. B \in SUBSET SUBSET Y
    OBVIOUS
  <2> HIDE DEF B
  <2> QED
    BY <1>1, <1>2, <1>3, <2>1, ByPick
<1> QED
  BY <1>4

LEMMA SumStep ==
  ASSUME NEW f, NEW S, IsFiniteSet(S), S # {}
  PROVE  SumFunctionOnSet(f, S) = f[Pick(S)] + SumFunctionOnSet(f, S \ {Pick(S)})
<1> DEFINE R == S \ {Pick(S)}
<1>1. Sums(f, S)[S] = f[Pick(S)] + Sums(f, S)[R]
  <2>1. S \in SUBSET S
    OBVIOUS
  <2> QED
    BY <2>1, SumsAt
<1>2. Sums(f, R)[R] = Sums(f, S)[R]
  <2>1. R \in SUBSET S /\ R \in SUBSET R
    OBVIOUS
  <2> HIDE DEF R
  <2> QED
    BY <2>1, SumsAgree
<1> QED
  BY <1>1, <1>2, SumIsSums

LEMMA SumEmpty == ASSUME NEW f PROVE SumFunctionOnSet(f, {}) = 0
<1>1. IsFiniteSet({}) /\ {} \in SUBSET {}
  BY FS_EmptySet
<1> QED
  BY <1>1, SumIsSums, SumsAt

\* Sums of natural numbers.
LEMMA SumNat ==
  ASSUME NEW S, IsFiniteSet(S), NEW f, \A x \in S : f[x] \in Nat
  PROVE  SumFunctionOnSet(f, S) \in Nat
<1> DEFINE B == {s \in SUBSET S : SumFunctionOnSet(f, s) \in Nat}
<1>1. {} \in B
  BY SumEmpty
<1>2. \A s \in SUBSET S : s # {} /\ s \ {Pick(s)} \in B => s \in B
  BY SumStep, PickIn, FS_Subset
<1>3. SUBSET S \subseteq B
  <2>1. B \in SUBSET SUBSET S
    OBVIOUS
  <2> HIDE DEF B
  <2> QED
    BY <1>1, <1>2, <2>1, ByPick
<1> QED
  BY <1>3

\* Functions that agree on a set have the same sum over it.
LEMMA SumSame ==
  ASSUME NEW S, IsFiniteSet(S), NEW f, NEW g, \A x \in S : f[x] = g[x]
  PROVE  SumFunctionOnSet(f, S) = SumFunctionOnSet(g, S)
<1> DEFINE B == {s \in SUBSET S : SumFunctionOnSet(f, s) = SumFunctionOnSet(g, s)}
<1>1. {} \in B
  BY SumEmpty
<1>2. \A s \in SUBSET S : s # {} /\ s \ {Pick(s)} \in B => s \in B
  <2> TAKE s \in SUBSET S
  <2> HAVE s # {} /\ s \ {Pick(s)} \in B
  <2>1. IsFiniteSet(s) /\ Pick(s) \in S
    BY PickIn, FS_Subset
  <2> QED
    BY <2>1, SumStep
<1>3. SUBSET S \subseteq B
  <2>1. B \in SUBSET SUBSET S
    OBVIOUS
  <2> HIDE DEF B
  <2> QED
    BY <1>1, <1>2, <2>1, ByPick
<1> QED
  BY <1>3

\* A sum of zeros.
LEMMA SumZero ==
  ASSUME NEW S, IsFiniteSet(S), NEW f, \A x \in S : f[x] = 0
  PROVE  SumFunctionOnSet(f, S) = 0
<1> DEFINE B == {s \in SUBSET S : SumFunctionOnSet(f, s) = 0}
<1>1. {} \in B
  BY SumEmpty
<1>2. \A s \in SUBSET S : s # {} /\ s \ {Pick(s)} \in B => s \in B
  <2> TAKE s \in SUBSET S
  <2> HAVE s # {} /\ s \ {Pick(s)} \in B
  <2>1. IsFiniteSet(s) /\ Pick(s) \in S
    BY PickIn, FS_Subset
  <2> QED
    BY <2>1, SumStep
<1>3. SUBSET S \subseteq B
  <2>1. B \in SUBSET SUBSET S
    OBVIOUS
  <2> HIDE DEF B
  <2> QED
    BY <1>1, <1>2, <2>1, ByPick
<1> QED
  BY <1>3

\* Any element may be taken out of a sum first.
LEMMA SumTake ==
  ASSUME NEW S, IsFiniteSet(S), NEW f, \A x \in S : f[x] \in Nat
  PROVE  \A x \in S : SumFunctionOnSet(f, S) = f[x] + SumFunctionOnSet(f, S \ {x})
<1> DEFINE Ok(s) == \A x \in s : SumFunctionOnSet(f, s) = f[x] + SumFunctionOnSet(f, s \ {x})
           B == {s \in SUBSET S : Ok(s)}
<1>1. {} \in B
  OBVIOUS
<1>2. ASSUME NEW s \in SUBSET S, s # {}, \A x \in s : s \ {x} \in B
      PROVE  s \in B
  <2> DEFINE p == Pick(s)
  <2>1. IsFiniteSet(s) /\ p \in s
    BY <1>2, PickIn, FS_Subset
  <2>2. SumFunctionOnSet(f, s) = f[p] + SumFunctionOnSet(f, s \ {p})
    BY <1>2, <2>1, SumStep
  <2>3. ASSUME NEW x \in s, x # p
        PROVE  SumFunctionOnSet(f, s) = f[x] + SumFunctionOnSet(f, s \ {x})
    <3> DEFINE r == (s \ {p}) \ {x}
    <3>1. SumFunctionOnSet(f, s \ {p}) = f[x] + SumFunctionOnSet(f, r)
      BY <1>2, <2>1, <2>3
    <3>2. SumFunctionOnSet(f, s \ {x}) = f[p] + SumFunctionOnSet(f, r)
      <4>1. r = (s \ {x}) \ {p} /\ p \in s \ {x}
        BY <2>1, <2>3
      <4>2. Ok(s \ {x})
        BY <1>2
      <4> QED
        BY <4>1, <4>2
    <3>3. SumFunctionOnSet(f, r) \in Nat /\ f[x] \in Nat /\ f[p] \in Nat
      <4>1. IsFiniteSet(r) /\ \A y \in r : f[y] \in Nat
        BY FS_Subset
      <4> QED
        BY <4>1, <2>1, SumNat
    <3> HIDE DEF r, p
    <3> QED
      BY <3>1, <3>2, <3>3, <2>2
  <2>4. Ok(s)
    BY <2>2, <2>3
  <2> QED
    BY <2>4
<1>3. SUBSET S \subseteq B
  <2>1. B \in SUBSET SUBSET S
    OBVIOUS
  <2> HIDE DEF B
  <2> QED
    BY <1>1, <1>2, <2>1, BySize
<1> QED
  BY <1>3

\* One more element.
LEMMA SumAdd ==
  ASSUME NEW S, IsFiniteSet(S), NEW y, y \notin S, NEW f, \A x \in S \cup {y} : f[x] \in Nat
  PROVE  SumFunctionOnSet(f, S \cup {y}) = f[y] + SumFunctionOnSet(f, S)
<1>1. IsFiniteSet(S \cup {y}) /\ (S \cup {y}) \ {y} = S
  BY FS_AddElement
<1> QED
  BY <1>1, SumTake

\* One value is changed.
LEMMA SumExcept ==
  ASSUME NEW S, IsFiniteSet(S), NEW f, \A x \in S : f[x] \in Nat,
         NEW g, NEW y \in S, g[y] \in Nat, \A x \in S \ {y} : g[x] = f[x]
  PROVE  SumFunctionOnSet(g, S) + f[y] = SumFunctionOnSet(f, S) + g[y]
<1> DEFINE R == S \ {y}
<1>1. IsFiniteSet(R) /\ (\A x \in R : f[x] \in Nat) /\ (\A x \in S : g[x] \in Nat)
  BY FS_Subset
<1>2. SumFunctionOnSet(f, R) = SumFunctionOnSet(g, R) /\ SumFunctionOnSet(f, R) \in Nat
  BY <1>1, SumSame, SumNat
<1>3. SumFunctionOnSet(f, S) = f[y] + SumFunctionOnSet(f, R)
  BY SumTake
<1>4. SumFunctionOnSet(g, S) = g[y] + SumFunctionOnSet(g, R)
  BY <1>1, SumTake
<1> QED
  BY <1>2, <1>3, <1>4
\* Sums over the places of a sequence, from its first one on.
LEMMA SumShift ==
  ASSUME NEW m \in Nat, NEW f, \A i \in 1 .. m + 1 : f[i] \in Nat,
         NEW g, \A i \in 1 .. m : g[i] = f[i + 1]
  PROVE  SumFunctionOnSet(f, 1 .. m + 1) = f[1] + SumFunctionOnSet(g, 1 .. m)
<1> DEFINE Ok(n) == SumFunctionOnSet(f, 1 .. n + 1) = f[1] + SumFunctionOnSet(g, 1 .. n)
           N == {n \in Nat : n <= m => Ok(n)}
<1>1. 0 \in N
  <2>1. 1 .. 0 = {} /\ 1 .. 0 + 1 = {} \cup {1}
    OBVIOUS
  <2>2. SumFunctionOnSet(f, {} \cup {1}) = f[1] + SumFunctionOnSet(f, {})
    <3>1. \A x \in {} \cup {1} : f[x] \in Nat
      OBVIOUS
    <3> QED
      BY <3>1, SumAdd, FS_EmptySet
  <2> QED
    BY <2>1, <2>2, SumEmpty
<1>2. ASSUME NEW n \in Nat, n \in N PROVE n + 1 \in N
  <2> SUFFICES ASSUME n + 1 <= m PROVE Ok(n + 1)
    OBVIOUS
  <2>1. Ok(n)
    BY <1>2
  <2>0. IsFiniteSet(1 .. n) /\ \A x \in (1 .. n) \cup {n + 1} : g[x] \in Nat
    <3>1. \A x \in (1 .. n) \cup {n + 1} : x \in 1 .. m /\ x + 1 \in 1 .. m + 1
      OBVIOUS
    <3>2. \A x \in (1 .. n) \cup {n + 1} : g[x] \in Nat
      BY <3>1
    <3>3. IsFiniteSet(1 .. n)
      BY FS_Interval
    <3> QED
      BY <3>2, <3>3
  <2>2. SumFunctionOnSet(f, 1 .. (n + 1) + 1) = f[n + 2] + SumFunctionOnSet(f, 1 .. n + 1)
    <3>1. 1 .. (n + 1) + 1 = (1 .. n + 1) \cup {n + 2} /\ n + 2 \notin 1 .. n + 1
      OBVIOUS
    <3>2. IsFiniteSet(1 .. n + 1) /\ \A x \in (1 .. n + 1) \cup {n + 2} : f[x] \in Nat
      BY FS_Interval
    <3> QED
      BY <3>1, <3>2, SumAdd
  <2>3. SumFunctionOnSet(g, 1 .. n + 1) = g[n + 1] + SumFunctionOnSet(g, 1 .. n)
    <3>1. 1 .. n + 1 = (1 .. n) \cup {n + 1} /\ n + 1 \notin 1 .. n
      OBVIOUS
    <3> QED
      BY <3>1, <2>0, SumAdd
  <2>4. g[n + 1] = f[n + 2] /\ f[n + 2] \in Nat /\ f[1] \in Nat
    OBVIOUS
  <2>5. SumFunctionOnSet(g, 1 .. n) \in Nat
    BY <2>0, SumNat
  <2> QED
    BY <2>1, <2>2, <2>3, <2>4, <2>5
<1>3. Nat \subseteq N
  <2> HIDE DEF N
  <2> QED
    BY <1>1, <1>2, NatSet
<1> QED
  BY <1>3

\* What the members of a sequence are worth together.
SumOver(P, q) == SumFunctionOnSet([i \in DOMAIN q |-> P[q[i]]], DOMAIN q)

LEMMA SumOverAppend ==
  ASSUME NEW X, NEW P \in [X -> Nat], NEW q \in Seq(X), NEW x \in X
  PROVE  SumOver(P, Append(q, x)) = SumOver(P, q) + P[x]
<1> DEFINE r == Append(q, x)
           f == [i \in DOMAIN q |-> P[q[i]]]
           g == [i \in DOMAIN r |-> P[r[i]]]
           n == Len(q)
<1>1. DOMAIN q = 1 .. n /\ DOMAIN r = (1 .. n) \cup {n + 1} /\ n + 1 \notin 1 .. n
  OBVIOUS
<1>2. \A i \in 1 .. n : g[i] = f[i] /\ f[i] \in Nat
  OBVIOUS
<1>3. g[n + 1] = P[x] /\ P[x] \in Nat
  OBVIOUS
<1>4. IsFiniteSet(1 .. n)
  BY FS_Interval
<1> HIDE DEF f, g, n, r
<1>5. SumFunctionOnSet(g, (1 .. n) \cup {n + 1}) = g[n + 1] + SumFunctionOnSet(g, 1 .. n)
  BY <1>1, <1>2, <1>3, <1>4, SumAdd, ZenonT(60)
<1>6. SumFunctionOnSet(g, 1 .. n) = SumFunctionOnSet(f, 1 .. n) /\ SumFunctionOnSet(f, 1 .. n) \in Nat
  BY <1>2, <1>4, SumSame, SumNat
<1>7. SumOver(P, r) = SumFunctionOnSet(g, DOMAIN r) /\ SumOver(P, q) = SumFunctionOnSet(f, DOMAIN q)
  BY DEF SumOver, f, g
<1> QED
  BY <1>1, <1>3, <1>5, <1>6, <1>7 DEF r

LEMMA SumOverTail ==
  ASSUME NEW X, NEW P \in [X -> Nat], NEW q \in Seq(X), q # <<>>
  PROVE  SumOver(P, q) = P[Head(q)] + SumOver(P, Tail(q))
<1> DEFINE r == Tail(q)
           f == [i \in DOMAIN q |-> P[q[i]]]
           g == [i \in DOMAIN r |-> P[r[i]]]
           m == Len(q) - 1
<1>1. m \in Nat /\ DOMAIN q = 1 .. m + 1 /\ DOMAIN r = 1 .. m
  OBVIOUS
<1>2. \A i \in 1 .. m + 1 : f[i] \in Nat
  OBVIOUS
<1>3. \A i \in 1 .. m : g[i] = f[i + 1]
  OBVIOUS
<1>4. f[1] = P[Head(q)]
  OBVIOUS
<1>5. SumOver(P, q) = SumFunctionOnSet(f, DOMAIN q) /\ SumOver(P, r) = SumFunctionOnSet(g, DOMAIN r)
  BY DEF SumOver
<1> HIDE DEF f, g, m
<1>6. SumFunctionOnSet(f, 1 .. m + 1) = f[1] + SumFunctionOnSet(g, 1 .. m)
  BY <1>1, <1>2, <1>3, SumShift
<1> QED
  BY <1>1, <1>4, <1>5, <1>6

LEMMA SumOverNat ==
  ASSUME NEW X, NEW P \in [X -> Nat], NEW q \in Seq(X)
  PROVE  SumOver(P, q) \in Nat
<1>1. IsFiniteSet(DOMAIN q) /\ \A i \in DOMAIN q : [j \in DOMAIN q |-> P[q[j]]][i] \in Nat
  BY FS_Interval
<1> QED
  BY <1>1, SumNat DEF SumOver

\* A sum over two sets that have nothing in common.
LEMMA SumUnion ==
  ASSUME NEW S, NEW T, IsFiniteSet(S), IsFiniteSet(T), S \cap T = {},
         NEW f, \A x \in S \cup T : f[x] \in Nat
  PROVE  SumFunctionOnSet(f, S \cup T) = SumFunctionOnSet(f, S) + SumFunctionOnSet(f, T)
<1> DEFINE Ok(t) == SumFunctionOnSet(f, S \cup t) = SumFunctionOnSet(f, S) + SumFunctionOnSet(f, t)
           B == {t \in SUBSET T : Ok(t)}
<1>1. SumFunctionOnSet(f, S) \in Nat
  BY SumNat
<1>2. {} \in B
  <2>1. S \cup {} = S
    OBVIOUS
  <2>2. Ok({})
    BY <1>1, <2>1, SumEmpty
  <2> QED
    BY <2>2
<1>3. ASSUME NEW t \in SUBSET T, t # {}, t \ {Pick(t)} \in B PROVE t \in B
  <2> DEFINE x == Pick(t)  u == t \ {x}
  <2>1. x \in t /\ x \notin u /\ x \notin S \cup u /\ t = u \cup {x} /\ S \cup t = (S \cup u) \cup {x}
    BY <1>3, PickIn
  <2>2. IsFiniteSet(u) /\ IsFiniteSet(S \cup u)
    BY FS_Subset, FS_Union
  <2>3. SumFunctionOnSet(f, u) \in Nat /\ f[x] \in Nat
    BY <2>1, <2>2, SumNat
  <2>4. SumFunctionOnSet(f, t) = f[x] + SumFunctionOnSet(f, u)
    <3>1. \A y \in u \cup {x} : f[y] \in Nat
      BY <2>1
    <3> QED
      BY <2>1, <2>2, <3>1, SumAdd
  <2>5. SumFunctionOnSet(f, S \cup t) = f[x] + SumFunctionOnSet(f, S \cup u)
    <3>1. \A y \in (S \cup u) \cup {x} : f[y] \in Nat
      BY <2>1
    <3> QED
      BY <2>1, <2>2, <3>1, SumAdd
  <2>6. SumFunctionOnSet(f, S \cup u) = SumFunctionOnSet(f, S) + SumFunctionOnSet(f, u)
    BY <1>3
  <2>7. Ok(t)
    BY <1>1, <2>3, <2>4, <2>5, <2>6
  <2> QED
    BY <2>7
<1>4. SUBSET T \subseteq B
  <2>1. B \in SUBSET SUBSET T
    OBVIOUS
  <2> HIDE DEF B
  <2> QED
    BY <1>2, <1>3, <2>1, ByPick
<1> QED
  BY <1>4

\* A sum does not change when all that is summed moves up by one.
SlidUp(g, f, a, m) == \A i \in a + 1 .. a + m : f[i] \in Nat /\ g[i + 1] = f[i]

LEMMA SumSlid ==
  ASSUME NEW a \in Nat, NEW m \in Nat, NEW f, NEW g, SlidUp(g, f, a, m)
  PROVE  SumFunctionOnSet(g, a + 2 .. a + m + 1) = SumFunctionOnSet(f, a + 1 .. a + m)
<1> DEFINE Ok(n) == SumFunctionOnSet(g, a + 2 .. a + n + 1) = SumFunctionOnSet(f, a + 1 .. a + n)
           B == {n \in Nat : n <= m => Ok(n)}
<1>0. \A i \in a + 1 .. a + m : f[i] \in Nat /\ g[i + 1] = f[i]
  BY DEF SlidUp
<1>1. 0 \in B
  <2>1. a + 2 .. a + 0 + 1 = {} /\ a + 1 .. a + 0 = {}
    OBVIOUS
  <2>2. Ok(0)
    BY <2>1, SumEmpty
  <2> QED
    BY <2>2
<1>2. ASSUME NEW n \in Nat, n \in B PROVE n + 1 \in B
  <2> SUFFICES ASSUME n + 1 <= m PROVE Ok(n + 1)
    OBVIOUS
  <2>1. Ok(n)
    BY <1>2
  <2>2. PICK y \in Nat : y = a + n + 1
    OBVIOUS
  <2>3. /\ a + 1 .. a + (n + 1) = (a + 1 .. a + n) \cup {y} /\ y \notin a + 1 .. a + n
        /\ a + 2 .. a + (n + 1) + 1 = (a + 2 .. a + n + 1) \cup {y + 1} /\ y + 1 \notin a + 2 .. a + n + 1
    BY <2>2
  <2>4. \A i \in (a + 1 .. a + n) \cup {y} : f[i] \in Nat
    BY <1>0, <2>2
  <2>5. \A i \in (a + 2 .. a + n + 1) \cup {y + 1} : g[i] \in Nat
    <3> TAKE i \in (a + 2 .. a + n + 1) \cup {y + 1}
    <3>1. i - 1 \in a + 1 .. a + m /\ (i - 1) + 1 = i
      BY <2>2
    <3> QED
      BY <1>0, <3>1
  <2>6. g[y + 1] = f[y]
    BY <1>0, <2>2
  <2>7. IsFiniteSet(a + 1 .. a + n) /\ IsFiniteSet(a + 2 .. a + n + 1)
    BY FS_Interval
  <2>8. SumFunctionOnSet(f, a + 1 .. a + (n + 1)) = f[y] + SumFunctionOnSet(f, a + 1 .. a + n)
    BY <2>3, <2>4, <2>7, SumAdd
  <2>9. SumFunctionOnSet(g, a + 2 .. a + (n + 1) + 1) = g[y + 1] + SumFunctionOnSet(g, a + 2 .. a + n + 1)
    <3>1. PICK z, U : z = y + 1 /\ U = a + 2 .. a + n + 1
      OBVIOUS
    <3>2. IsFiniteSet(U) /\ z \notin U /\ \A i \in U \cup {z} : g[i] \in Nat
      BY <2>3, <2>5, <2>7, <3>1
    <3>3. SumFunctionOnSet(g, U \cup {z}) = g[z] + SumFunctionOnSet(g, U)
      BY <3>2, SumAdd
    <3>4. U \cup {z} = a + 2 .. a + (n + 1) + 1
      BY <2>3, <3>1
    <3> QED
      BY <3>1, <3>3, <3>4
  <2> QED
    BY <2>1, <2>6, <2>8, <2>9
<1>3. Nat \subseteq B
  <2> HIDE DEF B
  <2> QED
    BY <1>1, <1>2, NatSet
<1> QED
  BY <1>3

\* h is g with one more number, at place k.
HasMore(h, g, n, k) ==
  /\ n \in Nat /\ k \in 1 .. n + 1 /\ h[k] \in Nat /\ \A j \in 1 .. n : g[j] \in Nat
  /\ \A j \in 1 .. k - 1 : h[j] = g[j]
  /\ \A j \in k .. n : h[j + 1] = g[j]

LEMMA SumSpliced ==
  ASSUME NEW n, NEW k, NEW g, NEW h, HasMore(h, g, n, k)
  PROVE  SumFunctionOnSet(h, 1 .. n + 1) = SumFunctionOnSet(g, 1 .. n) + h[k]
<1> n \in Nat /\ k \in 1 .. n + 1 /\ h[k] \in Nat /\ \A j \in 1 .. n : g[j] \in Nat
  BY DEF HasMore
<1> (\A j \in 1 .. k - 1 : h[j] = g[j]) /\ \A j \in k .. n : h[j + 1] = g[j]
  BY DEF HasMore
<1>8. \A j \in 1 .. n + 1 : h[j] \in Nat
  <2> TAKE j \in 1 .. n + 1
  <2>1. CASE j < k
    <3>1. j \in 1 .. k - 1 /\ j \in 1 .. n
      BY <2>1
    <3> QED
      BY <3>1
  <2>2. CASE j > k
    <3>1. PICK i \in k .. n : i + 1 = j
      BY <2>2
    <3>2. i \in 1 .. n
      OBVIOUS
    <3> QED
      BY <3>1, <3>2
  <2> QED
    BY <2>1, <2>2
<1>9. PICK A, B : A = 1 .. k - 1 /\ B = k .. n
  OBVIOUS
<1>10. PICK D : D = k + 1 .. n + 1
  OBVIOUS
<1>11. IsFiniteSet(A) /\ IsFiniteSet(B) /\ IsFiniteSet(D)
  BY <1>9, <1>10, FS_Interval
<1>12. 1 .. n = A \cup B /\ A \cap B = {} /\ 1 .. n + 1 = (A \cup D) \cup {k} /\ A \cap D = {} /\ k \notin A \cup D
  BY <1>9, <1>10
<1>13. SumFunctionOnSet(g, A \cup B) = SumFunctionOnSet(g, A) + SumFunctionOnSet(g, B)
  <2>1. \A x \in A \cup B : g[x] \in Nat
    BY <1>12
  <2> QED
    BY <1>11, <1>12, <2>1, SumUnion
<1>14. SumFunctionOnSet(h, A \cup D) = SumFunctionOnSet(h, A) + SumFunctionOnSet(h, D)
  <2>1. \A x \in A \cup D : h[x] \in Nat
    BY <1>8, <1>12
  <2> QED
    BY <1>11, <1>12, <2>1, SumUnion
<1>15. SumFunctionOnSet(h, (A \cup D) \cup {k}) = h[k] + SumFunctionOnSet(h, A \cup D)
  <2>1. (\A x \in (A \cup D) \cup {k} : h[x] \in Nat) /\ IsFiniteSet(A \cup D)
    BY <1>8, <1>11, <1>12, FS_Union
  <2> QED
    BY <1>12, <2>1, SumAdd
<1>16. SumFunctionOnSet(h, A) = SumFunctionOnSet(g, A)
  <2>1. \A x \in A : h[x] = g[x]
    BY <1>9
  <2> QED
    BY <1>11, <2>1, SumSame
<1>17. SumFunctionOnSet(h, D) = SumFunctionOnSet(g, B)
  <2>1. PICK a \in Nat : a = k - 1
    OBVIOUS
  <2>2. PICK m \in Nat : m = n - a
    BY <2>1
  <2>3. B = a + 1 .. a + m /\ D = a + 2 .. a + m + 1
    BY <1>9, <1>10, <2>1, <2>2
  <2>4. SlidUp(h, g, a, m)
    <3> SUFFICES ASSUME NEW i \in a + 1 .. a + m PROVE g[i] \in Nat /\ h[i + 1] = g[i]
      BY DEF SlidUp
    <3>1. i \in k .. n /\ i \in 1 .. n
      BY <2>1, <2>2
    <3> QED
      BY <3>1
  <2>5. SumFunctionOnSet(h, a + 2 .. a + m + 1) = SumFunctionOnSet(g, a + 1 .. a + m)
    BY <2>1, <2>2, <2>4, SumSlid
  <2> QED
    BY <2>3, <2>5
<1>18. SumFunctionOnSet(g, A) \in Nat /\ SumFunctionOnSet(g, B) \in Nat
  <2>1. (\A x \in A : g[x] \in Nat) /\ (\A x \in B : g[x] \in Nat)
    BY <1>12
  <2> QED
    BY <1>11, <2>1, SumNat
<1>19. SumFunctionOnSet(h, 1 .. n + 1) = h[k] + SumFunctionOnSet(h, A \cup D)
  BY <1>12, <1>15, Zenon
<1>20. SumFunctionOnSet(g, 1 .. n) = SumFunctionOnSet(g, A \cup B)
  BY <1>12, Zenon
<1> QED
  BY <1>13, <1>14, <1>16, <1>17, <1>18, <1>19, <1>20
=============================================================================
