------------------------------ MODULE Induction ------------------------------
(***************************************************************************)
(* Induction in the forms the proofs use: over sets of numbers, given as   *)
(* sets and not as predicates, and for functions defined by recursion,     *)
(* over an interval or on whatever has a lower rank.                       *)
(***************************************************************************)
EXTENDS Integers, WellFoundedInduction, TLAPS

\* A set of natural numbers that is not empty has a least element.
LEMMA NatLeast ==
  ASSUME NEW T, T \subseteq Nat, T # {}
  PROVE  \E x \in T : \A y \in T : x <= y
<1> DEFINE R == {ss \in Nat \X Nat : ss[1] < ss[2]}
<1>1. IsWellFoundedOn(R, Nat)
  BY NatLessThanWellFounded DEF OpToRel
<1>2. \E x \in T : \A y \in T : ~ (<<y, x>> \in R)
  <2> HIDE DEF R
  <2> QED BY <1>1, WFMin
<1>3. \A x, y \in Nat : <<y, x>> \in R <=> y < x
  OBVIOUS
<1>4. PICK x \in T : \A y \in T : ~ (<<y, x>> \in R)
  BY <1>2
<1>5. x \in Nat
  OBVIOUS
<1>6. ASSUME NEW y \in T PROVE x <= y
  <2>1. y \in Nat /\ ~ (<<y, x>> \in R)
    BY <1>4
  <2> QED BY <1>3, <1>5, <2>1
<1> QED BY <1>6

\* A set that has 0, and with a number its successor, has all natural numbers.
LEMMA NatSetInduction ==
  ASSUME NEW T, 0 \in T, \A n \in Nat : n \in T => n + 1 \in T
  PROVE  Nat \subseteq T
<1> DEFINE Missing == Nat \ T
<1> SUFFICES ASSUME Missing # {} PROVE FALSE
  OBVIOUS
<1>1. PICK n \in Missing : \A y \in Missing : n <= y
  BY NatLeast
<1>2. n - 1 \in Nat /\ n - 1 \notin Missing
  BY <1>1
<1> QED BY <1>1, <1>2
\* Induction from 0 up to a bound.
LEMMA IntervalInduction ==
  ASSUME NEW len \in Nat, NEW T, 0 \in T, \A i \in 1 .. len : i - 1 \in T => i \in T
  PROVE  0 .. len \subseteq T
<1> DEFINE U == {i \in Nat : i <= len => i \in T}
<1>1. 0 \in U
  OBVIOUS
<1>2. ASSUME NEW i \in Nat, i \in U PROVE i + 1 \in U
  <2> SUFFICES ASSUME i + 1 <= len PROVE i + 1 \in T
    OBVIOUS
  <2>1. i \in T /\ i + 1 \in 1 .. len /\ (i + 1) - 1 = i
    BY <1>2
  <2> QED BY <2>1
<1>3. Nat \subseteq U
  <2> HIDE DEF U
  <2> QED BY <1>1, <1>2, NatSetInduction
<1> QED BY <1>3

\* r is defined by recursion over an interval: F[i] gives the value at i from that at i - 1.
Recursion(r, len, V, base, F) ==
  /\ r \in [0 .. len -> V]
  /\ r[0] = base
  /\ \A i \in 1 .. len : r[i] = F[i][r[i - 1]]

\* A function defined by recursion over an interval exists.
LEMMA IntervalRecursion ==
  ASSUME NEW len \in Nat, NEW V, NEW base \in V, NEW F \in [1 .. len -> [V -> V]]
  PROVE  \E r : Recursion(r, len, V, base, F)
<1> DEFINE Def(r, n) == [i \in 0 .. n |-> IF i = 0 THEN base ELSE F[i][r[i - 1]]]
           T == {n \in 0 .. len : \E r \in [0 .. n -> V] : r = Def(r, n)}
<1>1. 0 \in T
  <2> DEFINE r == [i \in 0 .. 0 |-> base]
  <2>1. r \in [0 .. 0 -> V] /\ r = Def(r, 0)
    OBVIOUS
  <2> HIDE DEF r, Def
  <2> QED BY <2>1
<1>2. ASSUME NEW n \in 1 .. len, n - 1 \in T PROVE n \in T
  <2>1. PICK r \in [0 .. n - 1 -> V] : r = Def(r, n - 1)
    BY <1>2
  <2> DEFINE s == [i \in 0 .. n |-> IF i = n THEN F[n][r[n - 1]] ELSE r[i]]
  <2>2. r[n - 1] \in V /\ F[n][r[n - 1]] \in V
    OBVIOUS
  <2>3. s \in [0 .. n -> V]
    BY <2>2
  <2>4. ASSUME NEW i \in 0 .. n
        PROVE  s[i] = IF i = 0 THEN base ELSE F[i][s[i - 1]]
    <3>1. CASE i = n
      <4>1. n # 0 /\ n - 1 \in 0 .. n /\ n - 1 # n
        OBVIOUS
      <4> QED BY <3>1, <4>1
    <3>2. CASE i # n
      <4>1. i \in 0 .. n - 1 /\ s[i] = r[i] /\ (i # 0 => i - 1 \in 0 .. n /\ i - 1 # n)
        BY <3>2
      <4>2. r[i] = IF i = 0 THEN base ELSE F[i][r[i - 1]]
        BY <2>1, <4>1
      <4> QED BY <4>1, <4>2
    <3> QED BY <3>1, <3>2
  <2>5. s = Def(s, n)
    <3> HIDE DEF s
    <3> QED BY <2>3, <2>4
  <2> HIDE DEF s, Def
  <2> QED BY <2>3, <2>5
<1>3. 0 .. len \subseteq T
  <2> HIDE DEF T
  <2> QED BY <1>1, <1>2, IntervalInduction
<1>4. PICK r \in [0 .. len -> V] : r = Def(r, len)
  BY <1>3
<1>5. \A i \in 0 .. len : r[i] = IF i = 0 THEN base ELSE F[i][r[i - 1]]
  BY <1>4
<1>6. r[0] = base
  BY <1>5
<1>7. ASSUME NEW i \in 1 .. len PROVE r[i] = F[i][r[i - 1]]
  <2>1. i \in 0 .. len /\ i # 0
    OBVIOUS
  <2> QED BY <1>5, <2>1
<1> QED BY <1>6, <1>7 DEF Recursion

\* What F makes of f at d depends only on the values of f where the rank is lower.
LooksBelow(F, D, V, rank, m) ==
  /\ m \in Nat /\ rank \in [D -> 0 .. m] /\ F \in [D -> [[D -> V] -> V]]
  /\ \A d \in D : \A f, g \in [D -> V] :
       (\A x \in D : rank[x] < rank[d] => f[x] = g[x]) => F[d][f] = F[d][g]

\* f is what F makes of f.
FixedPoint(f, F, D, V) == f \in [D -> V] /\ \A d \in D : f[d] = F[d][f]

\* A function defined at each argument from its values at those of lower rank exists.
LEMMA RankRecursion ==
  ASSUME NEW D, NEW V, NEW e \in V, NEW m, NEW rank, NEW F, LooksBelow(F, D, V, rank, m)
  PROVE  \E f : FixedPoint(f, F, D, V)
<1>0. m \in Nat /\ rank \in [D -> 0 .. m] /\ F \in [D -> [[D -> V] -> V]]
  BY DEF LooksBelow
<1> DEFINE T == {k \in Nat : \E f \in [D -> V] : \A d \in D : rank[d] < k => f[d] = F[d][f]}
<1>1. 0 \in T
  <2>1. [d \in D |-> e] \in [D -> V] /\ \A d \in D : ~ (rank[d] < 0)
    BY <1>0
  <2> QED BY <2>1
<1>2. ASSUME NEW k \in Nat, k \in T PROVE k + 1 \in T
  <2>1. PICK f \in [D -> V] : \A d \in D : rank[d] < k => f[d] = F[d][f]
    BY <1>2
  <2> DEFINE g == [d \in D |-> IF rank[d] = k THEN F[d][f] ELSE f[d]]
  <2>2. g \in [D -> V]
    BY <1>0
  <2>3. ASSUME NEW d \in D, rank[d] < k + 1 PROVE g[d] = F[d][g]
    <3>1. \A x \in D : rank[x] < rank[d] => f[x] = g[x]
      <4>1. \A i, j \in Nat : i < j /\ j < k + 1 => i # k
        OBVIOUS
      <4>2. \A x \in D : rank[x] \in Nat
        BY <1>0
      <4>3. \A x \in D : rank[x] < rank[d] => rank[x] # k
        BY <4>1, <4>2, <2>3, Zenon
      <4> QED BY <4>3
    <3>2. F[d][f] = F[d][g]
      <4> HIDE DEF g
      <4> QED BY <2>2, <3>1 DEF LooksBelow
    <3>3. rank[d] < k \/ rank[d] = k
      <4>1. \A i \in Nat : i < k + 1 => i < k \/ i = k
        OBVIOUS
      <4>2. rank[d] \in Nat
        BY <1>0
      <4> QED BY <4>1, <4>2, <2>3, Zenon
    <3>4. g[d] = F[d][f]
      BY <3>3, <2>1
    <3> HIDE DEF g
    <3> QED BY <3>2, <3>4
  <2> HIDE DEF g
  <2> QED BY <2>2, <2>3
<1>3. m + 1 \in T
  <2>1. Nat \subseteq T
    <3> HIDE DEF T
    <3> QED BY <1>1, <1>2, NatSetInduction
  <2>2. m + 1 \in Nat
    BY <1>0
  <2> HIDE DEF T
  <2> QED BY <2>1, <2>2
<1>4. PICK f \in [D -> V] : \A d \in D : rank[d] < m + 1 => f[d] = F[d][f]
  BY <1>3
<1>5. \A d \in D : rank[d] < m + 1
  BY <1>0
<1> QED BY <1>4, <1>5 DEF FixedPoint

\* A set that has what all of lower rank being in it implies it has is everything.
LEMMA RankInduction ==
  ASSUME NEW D, NEW rank \in [D -> Nat], NEW T,
         \A d \in D : (\A x \in D : rank[x] < rank[d] => x \in T) => d \in T
  PROVE  D \subseteq T
<1> DEFINE U == {k \in Nat : \A d \in D : rank[d] < k => d \in T}
<1>1. 0 \in U
  OBVIOUS
<1>2. ASSUME NEW k \in Nat, k \in U PROVE k + 1 \in U
  <2>1. ASSUME NEW d \in D, rank[d] < k + 1 PROVE d \in T
    <3>1. \A x \in D : rank[x] < rank[d] => x \in T
      BY <1>2, <2>1
    <3> QED BY <3>1
  <2> QED BY <2>1
<1>3. Nat \subseteq U
  <2> HIDE DEF U
  <2> QED BY <1>1, <1>2, NatSetInduction
<1>4. ASSUME NEW d \in D PROVE d \in T
  <2>1. rank[d] + 1 \in Nat /\ rank[d] < rank[d] + 1
    OBVIOUS
  <2> QED BY <1>3, <2>1
<1> QED BY <1>4
==============================================================================
