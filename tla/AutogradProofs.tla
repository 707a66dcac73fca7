---------------------------- MODULE AutogradProofs ----------------------------
(***************************************************************************)
(* Proofs about Autograd for any leaves, any number of Variables and any   *)
(* graph between them: the sort puts every Variable the root was computed  *)
(* from once, behind all that was computed from it, and the pass over it   *)
(* leaves in every gradient the number of paths, or throws on the first    *)
(* pair of types that differ.                                              *)
(***************************************************************************)
EXTENDS Autograd, Induction

-----------------------------------------------------------------------------
(* Functions applied one after the other.                                  *)

\* r has the values on the way from start to the last.
Stages(r, V, steps, start) ==
  /\ r \in [0 .. Len(steps) -> V]
  /\ r[0] = start
  /\ \A i \in 1 .. Len(steps) : r[i] = steps[i][r[i - 1]]

LEMMA IterateRecursion ==
  ASSUME NEW V, NEW start \in V, NEW steps \in Seq([V -> V])
  PROVE  \E r : Stages(r, V, steps, start) /\ Iterate(steps, start) = r[Len(steps)]
<1> DEFINE len == Len(steps)
           Def(s) == [i \in 0 .. len |-> IF i = 0 THEN start ELSE steps[i][s[i - 1]]]
           after == CHOOSE s : s = Def(s)
<1>1. len \in Nat /\ steps \in [1 .. len -> [V -> V]]
  OBVIOUS
<1>2. PICK r : Recursion(r, len, V, start, steps)
  <2> HIDE DEF len
  <2> QED BY <1>1, IntervalRecursion, Zenon
<1> HIDE DEF len
<1>3. r = Def(r)
  <2>1. ASSUME NEW i \in 0 .. len PROVE r[i] = IF i = 0 THEN start ELSE steps[i][r[i - 1]]
    <3>1. CASE i = 0
      BY <3>1, <1>2 DEF Recursion
    <3>2. CASE i # 0
      <4>1. i \in 1 .. len
        BY <1>1, <3>2
      <4> QED BY <3>2, <4>1, <1>2 DEF Recursion
    <3> QED BY <3>1, <3>2
  <2> QED BY <2>1, <1>2 DEF Recursion
<1>4. after = Def(after)
  <2> HIDE DEF Def
  <2> QED BY <1>3
<1>5. Iterate(steps, start) = after[len]
  BY DEF Iterate, len
<1> HIDE DEF after
<1>6. \A i \in 0 .. len : after[i] = IF i = 0 THEN start ELSE steps[i][after[i - 1]]
  BY <1>4
<1>7. \A i \in 0 .. len : after[i] \in V
  <2> DEFINE T == {i \in 0 .. len : after[i] \in V}
  <2>1. 0 \in T
    BY <1>1, <1>6
  <2>2. ASSUME NEW i \in 1 .. len, i - 1 \in T PROVE i \in T
    <3>1. i \in 0 .. len /\ i # 0 /\ steps[i] \in [V -> V] /\ after[i - 1] \in V
      BY <1>1, <2>2
    <3> QED BY <3>1, <1>6
  <2>3. 0 .. len \subseteq T
    <3> HIDE DEF T
    <3> QED BY <1>1, <2>1, <2>2, IntervalInduction
  <2> QED BY <2>3
<1>8. after \in [0 .. len -> V]
  BY <1>4, <1>7
<1>9. after[0] = start /\ \A i \in 1 .. len : after[i] = steps[i][after[i - 1]]
  BY <1>1, <1>6
<1> QED BY <1>5, <1>8, <1>9 DEF len, Stages

LEMMA IterateType ==
  ASSUME NEW V, NEW start \in V, NEW steps \in Seq([V -> V])
  PROVE  Iterate(steps, start) \in V
<1>1. PICK r : Stages(r, V, steps, start) /\ Iterate(steps, start) = r[Len(steps)]
  BY IterateRecursion
<1> QED BY <1>1 DEF Stages
-----------------------------------------------------------------------------
(* Sums.                                                                   *)

\* s has the sums of the first numbers of f, one after the other.
PartialSums(s, f, n) ==
  s \in [0 .. n -> Nat] /\ s[0] = 0 /\ \A i \in 1 .. n : s[i] = s[i - 1] + f[i]

LEMMA SumStages ==
  ASSUME NEW n \in Nat, NEW f \in [1 .. n -> Nat]
  PROVE  \E s : PartialSums(s, f, n) /\ Sum(f) = s[n]
<1> DEFINE steps == [i \in DOMAIN f |-> [sum \in Nat |-> sum + f[i]]]
<1>1. steps \in [1 .. n -> [Nat -> Nat]] /\ steps \in Seq([Nat -> Nat]) /\ Len(steps) = n
  OBVIOUS
<1>2. \A i \in 1 .. n : \A x \in Nat : steps[i][x] = x + f[i]
  OBVIOUS
<1>3. Sum(f) = Iterate(steps, 0)
  BY DEF Sum
<1> HIDE DEF steps
<1>4. PICK r : Stages(r, Nat, steps, 0) /\ Iterate(steps, 0) = r[Len(steps)]
  <2>1. 0 \in Nat
    OBVIOUS
  <2> QED BY <1>1, <2>1, IterateRecursion, Zenon
<1>5. r \in [0 .. n -> Nat] /\ r[0] = 0 /\ \A i \in 1 .. n : r[i] = steps[i][r[i - 1]]
  BY <1>1, <1>4 DEF Stages
<1>6. ASSUME NEW i \in 1 .. n PROVE r[i] = r[i - 1] + f[i]
  <2>1. r[i - 1] \in Nat
    BY <1>5
  <2> QED BY <1>2, <1>5, <2>1
<1>7. PartialSums(r, f, n)
  BY <1>5, <1>6 DEF PartialSums
<1> QED BY <1>1, <1>3, <1>4, <1>7

LEMMA SumStep ==
  ASSUME NEW n \in Nat, NEW f \in [1 .. n -> Nat], NEW s, PartialSums(s, f, n), NEW i \in 1 .. n
  PROVE  f[i] \in Nat /\ s[i - 1] \in Nat /\ s[i] = s[i - 1] + f[i]
<1>1. i - 1 \in 0 .. n
  OBVIOUS
<1> QED BY <1>1 DEF PartialSums

LEMMA SumType ==
  ASSUME NEW n \in Nat, NEW f \in [1 .. n -> Nat]
  PROVE  Sum(f) \in Nat
<1>1. PICK s : PartialSums(s, f, n) /\ Sum(f) = s[n]
  BY SumStages
<1> QED BY <1>1 DEF PartialSums

\* A sum of zeros is zero.
LEMMA SumZero ==
  ASSUME NEW n \in Nat, NEW f \in [1 .. n -> Nat], \A i \in 1 .. n : f[i] = 0
  PROVE  Sum(f) = 0
<1>1. PICK s : PartialSums(s, f, n) /\ Sum(f) = s[n]
  BY SumStages
<1> DEFINE T == {i \in 0 .. n : s[i] = 0}
<1>2. 0 \in T
  BY <1>1 DEF PartialSums
<1>3. ASSUME NEW i \in 1 .. n, i - 1 \in T PROVE i \in T
  BY <1>1, <1>3 DEF PartialSums
<1>4. 0 .. n \subseteq T
  <2> HIDE DEF T
  <2> QED BY <1>2, <1>3, IntervalInduction
<1> QED BY <1>1, <1>4

\* Greater terms make a greater sum.
LEMMA SumLeq ==
  ASSUME NEW n \in Nat, NEW f \in [1 .. n -> Nat], NEW g \in [1 .. n -> Nat],
         \A i \in 1 .. n : f[i] <= g[i]
  PROVE  Sum(f) <= Sum(g)
<1>1. PICK s : PartialSums(s, f, n) /\ Sum(f) = s[n]
  BY SumStages
<1>2. PICK t : PartialSums(t, g, n) /\ Sum(g) = t[n]
  BY SumStages
<1> DEFINE T == {i \in 0 .. n : s[i] <= t[i]}
<1>3. 0 \in T
  BY <1>1, <1>2 DEF PartialSums
<1>4. ASSUME NEW i \in 1 .. n, i - 1 \in T PROVE i \in T
  <2>1. /\ f[i] \in Nat /\ s[i - 1] \in Nat /\ s[i] = s[i - 1] + f[i]
        /\ g[i] \in Nat /\ t[i - 1] \in Nat /\ t[i] = t[i - 1] + g[i]
    BY <1>1, <1>2, SumStep
  <2>2. f[i] <= g[i] /\ s[i - 1] <= t[i - 1]
    BY <1>4
  <2>3. \A a, b, c, d \in Nat : a <= b /\ c <= d => a + c <= b + d
    OBVIOUS
  <2>4. s[i - 1] + f[i] <= t[i - 1] + g[i]
    BY <2>1, <2>2, <2>3
  <2>5. s[i] <= t[i]
    BY <2>1, <2>4
  <2> QED BY <2>5
<1>5. 0 .. n \subseteq T
  <2> HIDE DEF T
  <2> QED BY <1>3, <1>4, IntervalInduction
<1> QED BY <1>1, <1>2, <1>5

\* A sum changes by what one of its terms changes by.
LEMMA SumChange ==
  ASSUME NEW n \in Nat, NEW f \in [1 .. n -> Nat], NEW g \in [1 .. n -> Nat],
         NEW k \in 1 .. n, NEW d \in Nat, g[k] = f[k] + d,
         \A i \in 1 .. n : i # k => g[i] = f[i]
  PROVE  Sum(g) = Sum(f) + d
<1>1. PICK s : PartialSums(s, f, n) /\ Sum(f) = s[n]
  BY SumStages
<1>2. PICK t : PartialSums(t, g, n) /\ Sum(g) = t[n]
  BY SumStages
<1> DEFINE T == {i \in 0 .. n : t[i] = IF i < k THEN s[i] ELSE s[i] + d}
<1>3. 0 \in T
  BY <1>1, <1>2 DEF PartialSums
<1>4. ASSUME NEW i \in 1 .. n, i - 1 \in T PROVE i \in T
  <2>1. /\ f[i] \in Nat /\ s[i - 1] \in Nat /\ s[i] = s[i - 1] + f[i]
        /\ g[i] \in Nat /\ t[i - 1] \in Nat /\ t[i] = t[i - 1] + g[i]
    BY <1>1, <1>2, SumStep
  <2>2. t[i - 1] = IF i - 1 < k THEN s[i - 1] ELSE s[i - 1] + d
    BY <1>4
  <2>3. CASE i < k
    <3>1. g[i] = f[i] /\ t[i - 1] = s[i - 1]
      BY <2>2, <2>3
    <3> QED BY <2>1, <2>3, <3>1
  <2>4. CASE i = k
    <3>1. g[i] = f[i] + d /\ t[i - 1] = s[i - 1]
      BY <2>2, <2>4
    <3>2. d \in Nat
      OBVIOUS
    <3>3. t[i] = s[i] + d
      BY ONLY <2>1, <3>1, <3>2
    <3> QED BY <2>4, <3>3
  <2>5. CASE i > k
    <3>1. g[i] = f[i] /\ t[i - 1] = s[i - 1] + d
      BY <2>2, <2>5
    <3>2. d \in Nat
      OBVIOUS
    <3>3. t[i] = s[i] + d
      BY ONLY <2>1, <3>1, <3>2
    <3> QED BY <2>5, <3>3
  <2> QED BY <2>3, <2>4, <2>5
<1>5. 0 .. n \subseteq T
  <2> HIDE DEF T
  <2> QED BY <1>3, <1>4, IntervalInduction
<1>6. n \in T
  BY <1>5
<1> QED BY <1>1, <1>2, <1>6

\* No term is above the sum.
LEMMA TermLeqSum ==
  ASSUME NEW n \in Nat, NEW f \in [1 .. n -> Nat], NEW k \in 1 .. n
  PROVE  f[k] <= Sum(f)
<1> DEFINE g == [f EXCEPT ![k] = 0]
<1>1. g \in [1 .. n -> Nat] /\ f[k] = g[k] + f[k] /\ f[k] \in Nat
      /\ \A i \in 1 .. n : i # k => f[i] = g[i]
  OBVIOUS
<1> HIDE DEF g
<1>2. Sum(f) = Sum(g) + f[k]
  BY <1>1, SumChange
<1>3. Sum(g) \in Nat
  BY <1>1, SumType
<1> QED BY <1>1, <1>2, <1>3

-----------------------------------------------------------------------------
(* Paths.                                                                  *)

\* Every node's inputs are nodes before it.
Graph(inputs, n) ==
  /\ inputs \in [1 .. n -> Seq(Nat)]
  /\ \A w \in 1 .. n : \A i \in 1 .. Len(inputs[w]) : inputs[w][i] \in 1 .. w - 1

LEMMA UsesPositive ==
  ASSUME NEW n \in Nat, NEW inputs, Graph(inputs, n), NEW w \in 1 .. n, NEW v
  PROVE  /\ Uses(inputs, w, v) \in Nat
         /\ Uses(inputs, w, v) > 0 <=> \E i \in 1 .. Len(inputs[w]) : inputs[w][i] = v
<1> DEFINE len == Len(inputs[w])
           f == [i \in DOMAIN inputs[w] |-> IF inputs[w][i] = v THEN 1 ELSE 0]
<1>1. len \in Nat /\ DOMAIN inputs[w] = 1 .. len
  BY DEF Graph
<1>2. f \in [1 .. len -> Nat] /\ \A i \in 1 .. len : f[i] = IF inputs[w][i] = v THEN 1 ELSE 0
  BY <1>1
<1>3. Uses(inputs, w, v) = Sum(f)
  BY DEF Uses
<1> HIDE DEF len, f
<1>4. Sum(f) \in Nat
  BY <1>1, <1>2, SumType
<1>5. ASSUME NEW i \in 1 .. len, inputs[w][i] = v PROVE Sum(f) > 0
  <2>1. f[i] = 1 /\ f[i] <= Sum(f)
    BY <1>1, <1>2, <1>5, TermLeqSum
  <2> QED BY <1>4, <2>1
<1>6. ASSUME \A i \in 1 .. len : inputs[w][i] # v PROVE Sum(f) = 0
  <2>1. \A i \in 1 .. len : f[i] = 0
    BY <1>2, <1>6
  <2> QED BY <1>1, <1>2, <2>1, SumZero
<1> QED BY <1>3, <1>4, <1>5, <1>6 DEF len

\* The paths to v, by the node before v.
Terms(paths, inputs, v) ==
  [w \in DOMAIN inputs |-> IF w > v THEN paths[w] * Uses(inputs, w, v) ELSE 0]

LEMMA TermsType ==
  ASSUME NEW n \in Nat, NEW inputs, Graph(inputs, n), NEW v \in 1 .. n,
         NEW paths, \A w \in 1 .. n : w > v => paths[w] \in Nat
  PROVE  Terms(paths, inputs, v) \in [1 .. n -> Nat]
<1>1. DOMAIN inputs = 1 .. n
  BY DEF Graph
<1>2. \A a, b \in Nat : a * b \in Nat
  OBVIOUS
<1>3. ASSUME NEW w \in 1 .. n, w > v PROVE paths[w] * Uses(inputs, w, v) \in Nat
  BY <1>2, <1>3, UsesPositive
<1> QED BY <1>1, <1>3 DEF Terms

\* p has the numbers of paths from root.
PathCounts(p, inputs, n, root) ==
  /\ p \in [1 .. n -> Nat]
  /\ \A v \in 1 .. n : p[v] = IF v = root THEN 1 ELSE Sum(Terms(p, inputs, v))

LEMMA PathsRecursion ==
  ASSUME NEW n \in Nat, NEW inputs, Graph(inputs, n), NEW root
  PROVE  PathCounts(PathsIn(inputs, root), inputs, n, root)
<1> DEFINE D == 1 .. n
           V == [D -> Nat]
           rank == [v \in D |-> n - v]
           At(p, v) == IF v = root THEN 1 ELSE Sum(Terms(p, inputs, v))
           F == [v \in D |-> [p \in V |-> At(p, v)]]
           Def(p) == [v \in DOMAIN inputs |-> At(p, v)]
           paths == CHOOSE p : p = Def(p)
<1>1. DOMAIN inputs = 1 .. n
  BY DEF Graph
<1>2. ASSUME NEW v \in D, NEW p, \A w \in D : w > v => p[w] \in Nat
      PROVE  At(p, v) \in Nat
  <2>1. Terms(p, inputs, v) \in [1 .. n -> Nat]
    BY <1>2, TermsType
  <2> QED BY <2>1, SumType
<1>3. ASSUME NEW v \in D, NEW p, NEW q, \A w \in D : w > v => p[w] = q[w]
      PROVE  At(p, v) = At(q, v)
  <2>1. Terms(p, inputs, v) = Terms(q, inputs, v)
    BY <1>1, <1>3 DEF Terms
  <2> QED BY <2>1
<1> HIDE DEF At
<1>4. F \in [D -> [V -> Nat]] /\ \A v \in D : \A p \in V : F[v][p] = At(p, v)
  BY <1>2
<1>5. /\ rank \in [D -> 0 .. n]
      /\ \A v, w \in D : rank[w] < rank[v] <=> w > v
  OBVIOUS
<1> HIDE DEF rank, F
<1>6. LooksBelow(F, D, Nat, rank, n)
  <2>1. ASSUME NEW v \in D, NEW p \in V, NEW q \in V, \A w \in D : rank[w] < rank[v] => p[w] = q[w]
        PROVE  F[v][p] = F[v][q]
    <3>1. At(p, v) = At(q, v)
      BY <1>3, <1>5, <2>1
    <3> QED BY <1>4, <3>1
  <2> HIDE DEF At
  <2> QED BY <1>4, <1>5, <2>1 DEF LooksBelow
<1>7. PICK f : FixedPoint(f, F, D, Nat)
  <2>1. 0 \in Nat
    OBVIOUS
  <2> HIDE DEF D
  <2> QED BY <1>6, <2>1, RankRecursion, Zenon
<1>8. f = Def(f)
  BY <1>1, <1>4, <1>7 DEF FixedPoint
<1>9. paths = Def(paths)
  <2> HIDE DEF Def
  <2> QED BY <1>8
<1>10. PathsIn(inputs, root) = paths
  BY DEF PathsIn, At, Terms
<1> HIDE DEF paths
<1>11. D \subseteq {v \in D : paths[v] \in Nat}
  <2> DEFINE T == {v \in D : paths[v] \in Nat}
  <2>1. ASSUME NEW v \in D, \A w \in D : rank[w] < rank[v] => w \in T PROVE v \in T
    <3>1. At(paths, v) \in Nat
      BY <1>2, <1>5, <2>1
    <3> QED BY <1>1, <1>9, <3>1
  <2>2. rank \in [D -> Nat]
    BY <1>5
  <2> HIDE DEF T, D
  <2>3. D \subseteq T
    BY <2>1, <2>2, RankInduction
  <2> QED BY <2>3 DEF T
<1> QED BY <1>1, <1>9, <1>10, <1>11 DEF PathCounts, At

\* What reached nodes are computed from is reached.
LEMMA InputReached ==
  ASSUME NEW n \in Nat, NEW inputs, Graph(inputs, n), NEW root \in 1 .. n,
         NEW p, PathCounts(p, inputs, n, root),
         NEW w \in 1 .. n, p[w] > 0, NEW i \in 1 .. Len(inputs[w])
  PROVE  p[inputs[w][i]] > 0
<1> DEFINE v == inputs[w][i]
           f == Terms(p, inputs, v)
<1>1. v \in 1 .. n /\ v < w
  BY DEF Graph
<1>2. p \in [1 .. n -> Nat]
  BY DEF PathCounts
<1>3. f \in [1 .. n -> Nat] /\ f[w] = p[w] * Uses(inputs, w, v)
  <2>1. f \in [1 .. n -> Nat]
    BY <1>1, <1>2, TermsType
  <2>2. f[w] = p[w] * Uses(inputs, w, v)
    BY <1>1 DEF Terms, Graph
  <2> QED BY <2>1, <2>2
<1>4. Uses(inputs, w, v) \in Nat /\ Uses(inputs, w, v) > 0
  BY UsesPositive
<1>5. \A a, b \in Nat : a > 0 /\ b > 0 => a * b > 0
  OBVIOUS
<1>6. f[w] > 0
  BY <1>2, <1>3, <1>4, <1>5
<1> HIDE DEF f, v
<1>7. f[w] <= Sum(f) /\ Sum(f) \in Nat
  BY <1>3, SumType, TermLeqSum
<1>8. p[v] = IF v = root THEN 1 ELSE Sum(f)
  BY <1>1 DEF PathCounts, f
<1>9. p[v] > 0
  BY <1>3, <1>6, <1>7, <1>8
<1> QED BY <1>9 DEF v

\* Above the root nothing is reached, and the root is not computed from itself.
LEMMA NothingAbove ==
  ASSUME NEW n \in Nat, NEW inputs, Graph(inputs, n), NEW root \in 1 .. n,
         NEW p, PathCounts(p, inputs, n, root), NEW v \in 1 .. n
  PROVE  Sum(Terms(p, inputs, v)) = IF v = root THEN 0 ELSE p[v]
<1>1. p \in [1 .. n -> Nat] /\ DOMAIN inputs = 1 .. n
  BY DEF PathCounts, Graph
<1>2. ASSUME NEW u \in 1 .. n, \A w \in 1 .. n : w > u => p[w] = 0
      PROVE  Sum(Terms(p, inputs, u)) = 0
  <2>1. Terms(p, inputs, u) \in [1 .. n -> Nat]
    BY <1>1, TermsType
  <2>2. ASSUME NEW w \in 1 .. n PROVE Terms(p, inputs, u)[w] = 0
    <3>1. Terms(p, inputs, u)[w] = IF w > u THEN p[w] * Uses(inputs, w, u) ELSE 0
      BY <1>1 DEF Terms
    <3>2. Uses(inputs, w, u) \in Nat
      BY UsesPositive
    <3>3. 0 * Uses(inputs, w, u) = 0
      BY <3>2
    <3> QED BY <1>2, <3>1, <3>3
  <2> QED BY <2>1, <2>2, SumZero
<1> DEFINE D == root + 1 .. n
           rank == [u \in D |-> n - u]
           T == {u \in D : p[u] = 0}
<1>3. /\ rank \in [D -> Nat]
      /\ \A u, w \in D : w > u => rank[w] < rank[u]
  OBVIOUS
<1>4. ASSUME NEW u \in D, \A w \in D : rank[w] < rank[u] => w \in T PROVE u \in T
  <2>1. u \in 1 .. n /\ u # root /\ \A w \in 1 .. n : w > u => w \in D
    OBVIOUS
  <2> HIDE DEF D, rank
  <2>2. \A w \in 1 .. n : w > u => p[w] = 0
    BY <1>3, <1>4, <2>1
  <2>3. p[u] = 0
    BY <1>2, <2>1, <2>2 DEF PathCounts
  <2> QED BY <2>3
<1>5. D \subseteq T
  <2> HIDE DEF D, rank, T
  <2> QED BY <1>3, <1>4, RankInduction
<1>6. \A w \in 1 .. n : w > root => p[w] = 0
  BY <1>5
<1>7. CASE v = root
  BY <1>2, <1>6, <1>7
<1>8. CASE v # root
  BY <1>8 DEF PathCounts
<1> QED BY <1>7, <1>8

\* A node that is reached and not the root is an input of one that is.
LEMMA ReachedFrom ==
  ASSUME NEW n \in Nat, NEW inputs, Graph(inputs, n), NEW root \in 1 .. n,
         NEW p, PathCounts(p, inputs, n, root),
         NEW v \in 1 .. n, v # root, p[v] > 0
  PROVE  \E w \in 1 .. n : w > v /\ p[w] > 0 /\ \E i \in 1 .. Len(inputs[w]) : inputs[w][i] = v
<1> DEFINE f == Terms(p, inputs, v)
<1>1. p \in [1 .. n -> Nat] /\ p[v] = Sum(f) /\ DOMAIN inputs = 1 .. n
  BY DEF PathCounts, Graph
<1>2. f \in [1 .. n -> Nat]
  BY <1>1, TermsType
<1>3. PICK w \in 1 .. n : f[w] # 0
  <2> HIDE DEF f
  <2>1. (\A w \in 1 .. n : f[w] = 0) => Sum(f) = 0
    BY <1>2, SumZero
  <2> QED BY <1>1, <2>1
<1>4. w > v /\ p[w] * Uses(inputs, w, v) # 0
  BY <1>1, <1>3 DEF Terms
<1>5. p[w] \in Nat /\ Uses(inputs, w, v) \in Nat
  BY <1>1, UsesPositive
<1>6. \A a, b \in Nat : a * b # 0 => a > 0 /\ b > 0
  OBVIOUS
<1>7. p[w] > 0 /\ Uses(inputs, w, v) > 0
  BY <1>4, <1>5, <1>6
<1> QED BY <1>4, <1>7, UsesPositive

-----------------------------------------------------------------------------
(* The sort.                                                               *)

LEMMA VariablesType ==
  ASSUME TypeOK
  PROVE  /\ Len(variables) \in Nat /\ Known = 1 .. Len(variables)
         /\ variables \in [Known -> Variable]
         /\ \A v \in Known : /\ Inputs[v] = variables[v].saved_inputs
                             /\ Inputs[v] \in Seq(1 .. v - 1)
         /\ DOMAIN Inputs = Known
         /\ Graph(Inputs, Len(variables))
<1>1. Len(variables) \in Nat /\ Known = 1 .. Len(variables) /\ variables \in [Known -> Variable]
  BY DEF TypeOK, Known
<1>2. ASSUME NEW v \in Known
      PROVE  /\ Inputs[v] = variables[v].saved_inputs /\ Inputs[v] \in Seq(1 .. v - 1)
             /\ Inputs[v] \in Seq(Nat)
  <2>1. variables[v] \in Variable
    BY <1>1
  <2>2. Inputs[v] = variables[v].saved_inputs
    BY DEF Inputs
  <2>3. variables[v].saved_inputs \in Seq(Nat)
    BY <2>1 DEF Variable
  <2>4. variables[v].saved_inputs \in Seq(1 .. v - 1)
    BY DEF TypeOK
  <2> QED BY <2>2, <2>3, <2>4
<1>3. ASSUME NEW w \in Known, NEW i \in 1 .. Len(Inputs[w]) PROVE Inputs[w][i] \in 1 .. w - 1
  <2>1. Inputs[w] \in Seq(1 .. w - 1)
    BY <1>2
  <2>2. \A S : \A q \in Seq(S) : \A j \in 1 .. Len(q) : q[j] \in S
    OBVIOUS
  <2> QED BY <2>1, <2>2, Zenon
<1>4. Inputs \in [1 .. Len(variables) -> Seq(Nat)]
  BY <1>1, <1>2 DEF Inputs
<1> QED BY <1>1, <1>2, <1>3, <1>4 DEF Graph, Inputs

\* The operands of a Variable are Variables made before it.
LEMMA OperandsBefore ==
  ASSUME TypeOK, NEW v \in Known
  PROVE  /\ v \in Nat /\ \A w \in 1 .. v - 1 : w \in Known /\ w \in Nat /\ w < v
         /\ Len(Inputs[v]) \in Nat /\ DOMAIN Inputs[v] = 1 .. Len(Inputs[v])
         /\ \A i \in 1 .. Len(Inputs[v]) : Inputs[v][i] \in 1 .. v - 1
<1>1. Known = 1 .. Len(variables) /\ Len(variables) \in Nat
  BY VariablesType
<1>2. Inputs[v] \in Seq(1 .. v - 1)
  BY VariablesType
<1>3. v \in Nat /\ \A w \in 1 .. v - 1 : w \in Known /\ w \in Nat /\ w < v
  BY <1>1
<1> QED BY <1>2, <1>3

LEMMA PathsType ==
  ASSUME TypeOK, NEW root
  PROVE  PathCounts(Paths(root), Inputs, Len(variables), root)
BY VariablesType, PathsRecursion DEF Paths

\* One call of dfs, f doing the calls for the operands.
LEMMA DfsType ==
  ASSUME TypeOK, NEW v \in Known, NEW s \in Sorting,
         NEW f, \A w \in 1 .. v - 1 : f[w] \in [Sorting -> Sorting]
  PROVE  /\ VisitOperands(f, v) \in Seq([Sorting -> Sorting])
         /\ Len(VisitOperands(f, v)) = Len(Inputs[v])
         /\ \A i \in 1 .. Len(Inputs[v]) : VisitOperands(f, v)[i] = f[Inputs[v][i]]
         /\ Dfs(f, v, s) \in Sorting
<1>1. /\ variables[v].saved_inputs = Inputs[v]
      /\ DOMAIN Inputs[v] = 1 .. Len(Inputs[v]) /\ Len(Inputs[v]) \in Nat
      /\ \A i \in 1 .. Len(Inputs[v]) : Inputs[v][i] \in 1 .. v - 1
  BY VariablesType, OperandsBefore
<1>2. VisitOperands(f, v) = [i \in 1 .. Len(Inputs[v]) |-> f[Inputs[v][i]]]
  BY <1>1 DEF VisitOperands
<1>3. \A i \in 1 .. Len(Inputs[v]) : f[Inputs[v][i]] \in [Sorting -> Sorting]
  BY <1>1
<1>4. /\ VisitOperands(f, v) \in Seq([Sorting -> Sorting])
      /\ Len(VisitOperands(f, v)) = Len(Inputs[v])
  BY <1>1, <1>2, <1>3
<1>5. [s EXCEPT !.visited = @ \cup {v}] \in Sorting
  BY DEF Sorting
<1>6. PICK t \in Sorting : t = Iterate(VisitOperands(f, v), [s EXCEPT !.visited = @ \cup {v}])
  BY <1>4, <1>5, IterateType
<1>7. [t EXCEPT !.topo = Append(@, v)] \in Sorting
  <2>1. t.topo \in Seq(Known)
    BY DEF Sorting
  <2>2. Append(t.topo, v) \in Seq(Known)
    BY <2>1
  <2> QED BY <2>2 DEF Sorting
<1>8. Dfs(f, v, s) \in Sorting
  BY <1>6, <1>7 DEF Dfs
<1> QED BY <1>2, <1>4, <1>8

SortFunction(dfs) ==
  /\ dfs \in [Known -> [Sorting -> Sorting]]
  /\ \A v \in Known : \A s \in Sorting : dfs[v][s] = Dfs(dfs, v, s)

Nothing == [visited |-> {}, topo |-> <<>>]

LEMMA SortRecursion ==
  ASSUME TypeOK, NEW root \in Known
  PROVE  \E dfs : /\ SortFunction(dfs)
                  /\ LET topo == dfs[root][Nothing].topo
                     IN  TopologicalSort(root) = [i \in 1 .. Len(topo) |-> topo[Len(topo) + 1 - i]]
<1> DEFINE V == [Sorting -> Sorting]
           rank == [v \in Known |-> v]
           F == [v \in Known |-> [f \in [Known -> V] |-> [s \in Sorting |-> Dfs(f, v, s)]]]
           Def(f) == [v \in Known |-> [s \in Sorting |-> Dfs(f, v, s)]]
           dfs == CHOOSE f : f = Def(f)
<1>1. \A v \in Known : v \in Nat /\ \A w \in 1 .. v - 1 : w \in Known /\ w \in Nat /\ w < v
  BY OperandsBefore
<1>2. ASSUME NEW f, NEW v \in Known, \A w \in 1 .. v - 1 : f[w] \in V
      PROVE  [s \in Sorting |-> Dfs(f, v, s)] \in V
  <2>1. ASSUME NEW s \in Sorting PROVE Dfs(f, v, s) \in Sorting
    BY <1>2, DfsType
  <2> QED BY <2>1
<1>3. ASSUME NEW f, NEW g, NEW v \in Known, \A w \in 1 .. v - 1 : f[w] = g[w]
      PROVE  [s \in Sorting |-> Dfs(f, v, s)] = [s \in Sorting |-> Dfs(g, v, s)]
  <2>1. \A i \in DOMAIN variables[v].saved_inputs : variables[v].saved_inputs[i] \in 1 .. v - 1
    BY VariablesType, OperandsBefore
  <2>2. VisitOperands(f, v) = VisitOperands(g, v)
    BY <1>3, <2>1 DEF VisitOperands
  <2>3. \A s \in Sorting : Dfs(f, v, s) = Dfs(g, v, s)
    BY <2>2 DEF Dfs
  <2> QED BY <2>3
<1> HIDE DEF V
<1>4. F \in [Known -> [[Known -> V] -> V]]
  <2>1. ASSUME NEW v \in Known, NEW f \in [Known -> V]
        PROVE  [s \in Sorting |-> Dfs(f, v, s)] \in V
    <3>1. \A w \in 1 .. v - 1 : f[w] \in V
      BY <1>1
    <3> QED BY <1>2, <3>1
  <2> QED BY <2>1
<1>5. \A v \in Known : \A f \in [Known -> V] : F[v][f] = [s \in Sorting |-> Dfs(f, v, s)]
  OBVIOUS
<1>6. /\ rank \in [Known -> 0 .. Len(variables)] /\ Len(variables) \in Nat
      /\ \A v \in Known : rank[v] = v
  BY VariablesType
<1> HIDE DEF F, rank
<1>7. LooksBelow(F, Known, V, rank, Len(variables))
  <2>1. ASSUME NEW v \in Known, NEW f \in [Known -> V], NEW g \in [Known -> V],
               \A w \in Known : rank[w] < rank[v] => f[w] = g[w]
        PROVE  F[v][f] = F[v][g]
    <3>1. \A w \in 1 .. v - 1 : w \in Known /\ rank[w] < rank[v]
      BY <1>1, <1>6
    <3>2. \A w \in 1 .. v - 1 : f[w] = g[w]
      BY <2>1, <3>1
    <3>3. [s \in Sorting |-> Dfs(f, v, s)] = [s \in Sorting |-> Dfs(g, v, s)]
      BY <1>3, <3>2
    <3>4. F[v][f] = [s \in Sorting |-> Dfs(f, v, s)] /\ F[v][g] = [s \in Sorting |-> Dfs(g, v, s)]
      BY <1>5
    <3> QED BY <3>3, <3>4
  <2> QED BY <1>4, <1>6, <2>1 DEF LooksBelow
<1>8. PICK f : FixedPoint(f, F, Known, V)
  <2>1. [s \in Sorting |-> s] \in V
    BY DEF V
  <2> QED BY <1>7, <2>1, RankRecursion, Zenon
<1>9. f = Def(f)
  <2>1. f \in [Known -> V] /\ \A v \in Known : f[v] = F[v][f]
    BY <1>8 DEF FixedPoint
  <2>2. \A v \in Known : f[v] = [s \in Sorting |-> Dfs(f, v, s)]
    BY <1>5, <2>1
  <2>3. f = [v \in Known |-> f[v]]
    BY <2>1
  <2> QED BY <2>2, <2>3
<1>10. dfs = Def(dfs)
  <2> HIDE DEF Def
  <2> QED BY <1>9
<1>11. LET topo == dfs[root][Nothing].topo
       IN  TopologicalSort(root) = [i \in 1 .. Len(topo) |-> topo[Len(topo) + 1 - i]]
  BY DEF TopologicalSort, Nothing
<1> HIDE DEF dfs
<1>12. Known \subseteq {v \in Known : dfs[v] \in V}
  <2> DEFINE T == {v \in Known : dfs[v] \in V}
  <2>1. ASSUME NEW v \in Known, \A w \in Known : rank[w] < rank[v] => w \in T PROVE v \in T
    <3>1. \A w \in 1 .. v - 1 : w \in Known /\ rank[w] < rank[v]
      BY <1>1, <1>6
    <3>2. \A w \in 1 .. v - 1 : dfs[w] \in V
      BY <2>1, <3>1
    <3>3. [s \in Sorting |-> Dfs(dfs, v, s)] \in V
      BY <1>2, <3>2
    <3> QED BY <1>10, <3>3
  <2>2. rank \in [Known -> Nat]
    BY <1>6
  <2> HIDE DEF T
  <2>3. Known \subseteq T
    BY <2>1, <2>2, RankInduction
  <2> QED BY <2>3 DEF T
<1>13. SortFunction(dfs)
  BY <1>10, <1>12 DEF SortFunction, V
<1> QED BY <1>11, <1>13

Placed(s) == {s.topo[i] : i \in 1 .. Len(s.topo)}
Pending(s) == s.visited \ Placed(s)

\* Each node is placed once, behind what it was computed from, and only if it is reached.
SortOK(s, root) ==
  /\ s \in Sorting
  /\ Placed(s) \subseteq s.visited
  /\ \A i, j \in 1 .. Len(s.topo) : s.topo[i] = s.topo[j] => i = j
  /\ \A j \in 1 .. Len(s.topo) : \A i \in 1 .. Len(Inputs[s.topo[j]]) :
       \E k \in 1 .. j - 1 : s.topo[k] = Inputs[s.topo[j]][i]
  /\ \A x \in Placed(s) : Paths(root)[x] > 0

\* dfs has made t of s and placed v.
Sorted(s, t, v, root) ==
  /\ SortOK(t, root)
  /\ Pending(t) = Pending(s)
  /\ Placed(s) \subseteq Placed(t)
  /\ v \in Placed(t)

\* The node that is put last.
LEMMA AppendSorted ==
  ASSUME TypeOK, NEW root \in Known, NEW t, SortOK(t, root), NEW v \in Pending(t), v \in Known,
         \A i \in 1 .. Len(Inputs[v]) : Inputs[v][i] \in Placed(t), Paths(root)[v] > 0,
         NEW u, u = [t EXCEPT !.topo = Append(@, v)]
  PROVE  /\ SortOK(u, root)
         /\ Placed(u) = Placed(t) \cup {v} /\ Pending(u) = Pending(t) \ {v}
<1> DEFINE n == Len(t.topo)
<1>1. t \in [visited : SUBSET Known, topo : Seq(Known)] /\ t.topo \in Seq(Known) /\ n \in Nat
  BY DEF SortOK, Sorting
<1>2. u.visited = t.visited /\ u.topo = Append(t.topo, v)
  BY <1>1
<1>3. /\ u.topo \in Seq(Known) /\ Len(u.topo) = n + 1 /\ u.topo[n + 1] = v
      /\ \A i \in 1 .. n : u.topo[i] = t.topo[i]
  BY <1>1, <1>2
<1>4. u \in Sorting
  BY <1>1, <1>3 DEF Sorting
<1> HIDE DEF n
<1>5. Placed(u) = Placed(t) \cup {v}
  <2>1. \A x \in Placed(u) : x \in Placed(t) \cup {v}
    <3>1. ASSUME NEW i \in 1 .. n + 1 PROVE u.topo[i] \in Placed(t) \cup {v}
      <4>1. i \in 1 .. n \/ i = n + 1
        BY <1>1
      <4> QED BY <4>1, <1>3 DEF Placed, n
    <3> QED BY <3>1, <1>3 DEF Placed
  <2>2. ASSUME NEW i \in 1 .. n PROVE t.topo[i] \in Placed(u)
    <3>1. i \in 1 .. n + 1
      BY <1>1
    <3> QED BY <3>1, <1>3 DEF Placed
  <2>3. v \in Placed(u)
    <3>1. n + 1 \in 1 .. n + 1
      BY <1>1
    <3> QED BY <3>1, <1>3 DEF Placed
  <2> QED BY <2>1, <2>2, <2>3 DEF Placed, n
<1>6. v \in t.visited /\ v \notin Placed(t) /\ Placed(t) \subseteq t.visited
  BY DEF Pending, SortOK
<1>7. Placed(u) \subseteq u.visited /\ Pending(u) = Pending(t) \ {v}
  BY <1>2, <1>5, <1>6 DEF Pending
<1>8. ASSUME NEW i \in 1 .. n + 1, NEW j \in 1 .. n + 1, u.topo[i] = u.topo[j] PROVE i = j
  <2>1. (i \in 1 .. n \/ i = n + 1) /\ (j \in 1 .. n \/ j = n + 1)
    BY <1>1
  <2>2. \A k \in 1 .. n : t.topo[k] # v
    BY <1>6 DEF Placed, n
  <2>3. \A k, l \in 1 .. n : t.topo[k] = t.topo[l] => k = l
    BY DEF SortOK, n
  <2> QED BY <1>3, <1>8, <2>1, <2>2, <2>3
<1>9. ASSUME NEW j \in 1 .. n + 1, NEW i \in 1 .. Len(Inputs[u.topo[j]])
      PROVE  \E k \in 1 .. j - 1 : u.topo[k] = Inputs[u.topo[j]][i]
  <2>1. CASE j \in 1 .. n
    <3>1. u.topo[j] = t.topo[j]
      BY <1>3, <2>1
    <3>2. PICK k \in 1 .. j - 1 : t.topo[k] = Inputs[t.topo[j]][i]
      BY <2>1, <3>1 DEF SortOK, n
    <3>3. k \in 1 .. n
      BY <1>1, <2>1
    <3> QED BY <1>3, <3>1, <3>2, <3>3
  <2>2. CASE j = n + 1
    <3>1. u.topo[j] = v /\ Inputs[v][i] \in Placed(t)
      BY <1>3, <2>2
    <3>2. PICK k \in 1 .. n : t.topo[k] = Inputs[v][i]
      BY <3>1 DEF Placed, n
    <3>3. k \in 1 .. j - 1
      BY <1>1, <2>2
    <3> QED BY <1>3, <3>1, <3>2, <3>3
  <2>3. j \in 1 .. n \/ j = n + 1
    BY <1>1
  <2> QED BY <2>1, <2>2, <2>3
<1>10. \A x \in Placed(u) : Paths(root)[x] > 0
  BY <1>5 DEF SortOK
<1> QED BY <1>3, <1>4, <1>5, <1>7, <1>8, <1>9, <1>10 DEF SortOK

\* dfs on v, when only Variables above it are on the way.
LEMMA DfsStep ==
  ASSUME TypeOK, NEW root \in Known, NEW dfs, SortFunction(dfs), NEW v \in Known,
         \A w \in 1 .. v - 1 : \A s \in Sorting :
           SortOK(s, root) /\ (\A x \in Pending(s) : x > w) /\ Paths(root)[w] > 0
             => Sorted(s, dfs[w][s], w, root),
         NEW s \in Sorting, SortOK(s, root), \A x \in Pending(s) : x > v, Paths(root)[v] > 0
  PROVE  Sorted(s, dfs[v][s], v, root)
<1> DEFINE steps == VisitOperands(dfs, v)
           len == Len(Inputs[v])
           start == [s EXCEPT !.visited = @ \cup {v}]
<1>1. /\ v \in Nat /\ \A w \in 1 .. v - 1 : w \in Known /\ w \in Nat /\ w < v
      /\ len \in Nat /\ \A i \in 1 .. len : Inputs[v][i] \in 1 .. v - 1
  BY OperandsBefore
<1>2. /\ dfs \in [Known -> [Sorting -> Sorting]] /\ dfs[v][s] = Dfs(dfs, v, s)
  BY DEF SortFunction
<1>3. /\ steps \in Seq([Sorting -> Sorting]) /\ Len(steps) = len
      /\ \A i \in 1 .. len : steps[i] = dfs[Inputs[v][i]]
  BY <1>1, <1>2, DfsType
<1>4. CASE v \in s.visited
  <2>1. dfs[v][s] = s
    BY <1>2, <1>4 DEF Dfs
  <2>2. v \notin Pending(s)
    BY <1>1
  <2>3. v \in Placed(s)
    BY <1>4, <2>2 DEF Pending
  <2> QED BY <2>1, <2>3 DEF Sorted
<1>5. CASE v \notin s.visited
  <2>1. /\ start \in Sorting /\ start.topo = s.topo /\ start.visited = s.visited \cup {v}
    BY DEF Sorting
  <2>2. dfs[v][s] = [Iterate(steps, start) EXCEPT !.topo = Append(@, v)]
    BY <1>2, <1>5 DEF Dfs
  <2> HIDE DEF steps, start, len
  <2>3. Placed(start) = Placed(s)
    BY <2>1 DEF Placed
  <2>4. v \notin Placed(s) /\ Placed(s) \subseteq s.visited
    BY <1>5 DEF SortOK
  <2>5. SortOK(start, root) /\ Pending(start) = Pending(s) \cup {v}
    <3>1. Pending(start) = Pending(s) \cup {v}
      BY <2>1, <2>3, <2>4 DEF Pending
    <3>2. Placed(start) \subseteq start.visited
      BY <2>1, <2>3, <2>4
    <3> QED BY <2>1, <2>3, <3>1, <3>2 DEF SortOK
  <2>6. PICK r : Stages(r, Sorting, steps, start) /\ Iterate(steps, start) = r[Len(steps)]
    <3>1. start \in Sorting /\ steps \in Seq([Sorting -> Sorting])
      BY <1>3, <2>1
    <3> QED BY <3>1, IterateRecursion, Zenon
  <2>7. /\ r \in [0 .. len -> Sorting] /\ r[0] = start
        /\ \A i \in 1 .. len : r[i] = steps[i][r[i - 1]]
    BY <1>3, <2>6 DEF Stages
  <2> DEFINE T == {i \in 0 .. len :
                     /\ SortOK(r[i], root) /\ Pending(r[i]) = Pending(start)
                     /\ Placed(s) \subseteq Placed(r[i])
                     /\ \A j \in 1 .. i : Inputs[v][j] \in Placed(r[i])}
  <2>8. 0 \in T
    <3>1. 0 \in 0 .. len /\ ~ \E j : j \in 1 .. 0
      BY <1>1
    <3> QED BY <3>1, <2>3, <2>5, <2>7
  <2>9. ASSUME NEW i \in 1 .. len, i - 1 \in T PROVE i \in T
    <3> DEFINE w == Inputs[v][i]
               q == r[i - 1]
    <3>1. w \in 1 .. v - 1 /\ w \in Nat /\ w < v
      BY <1>1
    <3>2. i - 1 \in 0 .. len /\ q \in Sorting /\ r[i] = dfs[w][q]
      <4>1. i - 1 \in 0 .. len
        BY <1>1
      <4> QED BY <4>1, <1>3, <2>7
    <3>3. /\ SortOK(q, root) /\ Pending(q) = Pending(start) /\ Placed(s) \subseteq Placed(q)
          /\ \A j \in 1 .. i - 1 : Inputs[v][j] \in Placed(q)
      BY <2>9
    <3>4. Paths(root)[w] > 0
      BY VariablesType, PathsType, InputReached DEF len
    <3>5. \A x \in Pending(q) : x > w
      <4>1. Pending(s) \subseteq Nat
        BY VariablesType DEF Pending, Sorting
      <4>2. \A x \in Pending(s) \cup {v} : x \in Nat /\ x >= v
        BY <1>1, <4>1
      <4> QED BY <1>1, <2>5, <3>1, <3>3, <4>2
    <3> HIDE DEF w, q
    <3>6. Sorted(q, r[i], w, root)
      BY <3>1, <3>2, <3>3, <3>4, <3>5
    <3>7. /\ SortOK(r[i], root) /\ Pending(r[i]) = Pending(start)
          /\ Placed(q) \subseteq Placed(r[i]) /\ w \in Placed(r[i])
      BY <3>3, <3>6 DEF Sorted
    <3>8. ASSUME NEW j \in 1 .. i PROVE Inputs[v][j] \in Placed(r[i])
      <4>1. j \in 1 .. i - 1 \/ j = i
        OBVIOUS
      <4> QED BY <3>3, <3>7, <4>1 DEF w
    <3>9. i \in 0 .. len
      OBVIOUS
    <3> QED BY <3>3, <3>7, <3>8, <3>9
  <2>10. len \in T
    <3>1. 0 .. len \subseteq T
      <4> HIDE DEF T
      <4> QED BY <1>1, <2>8, <2>9, IntervalInduction
    <3> QED BY <1>1, <3>1
  <2> DEFINE t == r[len]
  <2>11. /\ SortOK(t, root) /\ Pending(t) = Pending(s) \cup {v}
         /\ Placed(s) \subseteq Placed(t)
         /\ \A j \in 1 .. Len(Inputs[v]) : Inputs[v][j] \in Placed(t)
    BY <2>5, <2>10 DEF len
  <2>12. dfs[v][s] = [t EXCEPT !.topo = Append(@, v)]
    BY <1>3, <2>2, <2>6
  <2> HIDE DEF t, T
  <2>13. /\ SortOK(dfs[v][s], root) /\ Placed(dfs[v][s]) = Placed(t) \cup {v}
         /\ Pending(dfs[v][s]) = Pending(t) \ {v}
    BY <2>11, <2>12, AppendSorted
  <2>14. v \notin Pending(s)
    BY <1>5 DEF Pending
  <2> QED BY <2>11, <2>13, <2>14 DEF Sorted
<1> QED BY <1>4, <1>5

\* What topological_sort returns: the reached nodes, once each, behind all they were used in.
ReverseTopological(order, root) ==
  /\ order \in Seq(Known)
  /\ \A i, j \in 1 .. Len(order) : order[i] = order[j] => i = j
  /\ \A j \in 1 .. Len(order) : \A i \in 1 .. Len(Inputs[order[j]]) :
       \E k \in j + 1 .. Len(order) : order[k] = Inputs[order[j]][i]
  /\ \A v \in Known : Paths(root)[v] > 0 <=> \E j \in 1 .. Len(order) : order[j] = v

LEMMA SortComplete ==
  ASSUME TypeOK, NEW root \in Known, NEW t, SortOK(t, root), root \in Placed(t),
         NEW v \in Known, Paths(root)[v] > 0
  PROVE  v \in Placed(t)
<1> DEFINE rank == [w \in Known |-> Len(variables) - w]
           T == {w \in Known : Paths(root)[w] > 0 => w \in Placed(t)}
<1>1. /\ Len(variables) \in Nat /\ Known = 1 .. Len(variables)
      /\ Graph(Inputs, Len(variables))
      /\ PathCounts(Paths(root), Inputs, Len(variables), root)
  BY VariablesType, PathsType
<1>2. rank \in [Known -> Nat] /\ \A w, x \in Known : x > w => rank[x] < rank[w]
  <2>1. ASSUME NEW w \in Known PROVE rank[w] = Len(variables) - w /\ rank[w] \in Nat /\ w \in Nat
    BY <1>1
  <2>2. ASSUME NEW w \in Known, NEW x \in Known, x > w PROVE rank[x] < rank[w]
    <3> HIDE DEF rank
    <3>1. Len(variables) - x < Len(variables) - w
      BY <1>1, <2>1, <2>2
    <3> QED BY <2>1, <3>1
  <2> QED BY <2>1, <2>2
<1>3. ASSUME NEW w \in Known, \A x \in Known : rank[x] < rank[w] => x \in T PROVE w \in T
  <2> HIDE DEF rank
  <2> SUFFICES ASSUME Paths(root)[w] > 0, w # root PROVE w \in Placed(t)
    OBVIOUS
  <2>1. PICK x \in Known : /\ x > w /\ Paths(root)[x] > 0
                           /\ \E i \in 1 .. Len(Inputs[x]) : Inputs[x][i] = w
    <3> DEFINE n == Len(variables)
               p == Paths(root)
    <3>1. /\ n \in Nat /\ Graph(Inputs, n) /\ root \in 1 .. n /\ PathCounts(p, Inputs, n, root)
          /\ w \in 1 .. n /\ p[w] > 0 /\ Known = 1 .. n
      BY <1>1
    <3> HIDE DEF n, p
    <3>2. \E x \in 1 .. n : x > w /\ p[x] > 0 /\ \E i \in 1 .. Len(Inputs[x]) : Inputs[x][i] = w
      BY <3>1, ReachedFrom
    <3> QED BY <3>1, <3>2 DEF p
  <2>2. x \in Placed(t)
    BY <1>2, <1>3, <2>1
  <2>3. PICK j \in 1 .. Len(t.topo) : t.topo[j] = x
    BY <2>2 DEF Placed
  <2>4. PICK i \in 1 .. Len(Inputs[x]) : Inputs[x][i] = w
    BY <2>1
  <2>5. PICK k \in 1 .. j - 1 : t.topo[k] = w
    BY <2>3, <2>4 DEF SortOK
  <2>6. Len(t.topo) \in Nat
    BY DEF SortOK, Sorting
  <2>7. k \in 1 .. Len(t.topo)
    BY <2>6
  <2> QED BY <2>5, <2>7 DEF Placed
<1>4. Known \subseteq T
  <2> HIDE DEF rank, T
  <2> QED BY <1>2, <1>3, RankInduction
<1> QED BY <1>4

(* The order of a backward pass, topological_sort of variable.cpp: every   *)
(* Variable with a path from root is in it, once, and before all of its    *)
(* operands, however the operands are shared.                              *)
THEOREM SortResult ==
  ASSUME TypeOK, NEW root \in Known
  PROVE  ReverseTopological(TopologicalSort(root), root)
<1>1. PICK dfs : /\ SortFunction(dfs)
                 /\ LET topo == dfs[root][Nothing].topo
                    IN  TopologicalSort(root) = [i \in 1 .. Len(topo) |-> topo[Len(topo) + 1 - i]]
  BY SortRecursion
<1> DEFINE rank == [v \in Known |-> v]
           Post(v) == \A s \in Sorting :
             SortOK(s, root) /\ (\A x \in Pending(s) : x > v) /\ Paths(root)[v] > 0
               => Sorted(s, dfs[v][s], v, root)
           T == {v \in Known : Post(v)}
<1>2. rank \in [Known -> Nat] /\ \A v \in Known : \A w \in 1 .. v - 1 : w \in Known /\ rank[w] < rank[v]
  BY OperandsBefore
<1>3. ASSUME NEW v \in Known, \A w \in Known : rank[w] < rank[v] => w \in T PROVE v \in T
  <2> HIDE DEF rank
  <2>1. \A w \in 1 .. v - 1 : Post(w)
    BY <1>2, <1>3
  <2>2. Post(v)
    BY <1>1, <2>1, DfsStep
  <2> QED BY <2>2
<1>4. root \in T
  <2> HIDE DEF rank, T
  <2> QED BY <1>2, <1>3, RankInduction
<1>5. Nothing \in Sorting /\ SortOK(Nothing, root) /\ Pending(Nothing) = {}
  <2>1. Nothing.topo = <<>> /\ Nothing.visited = {} /\ Len(Nothing.topo) = 0
    BY DEF Nothing
  <2>2. Nothing \in Sorting
    BY DEF Nothing, Sorting
  <2>3. ~ \E i : i \in 1 .. 0
    OBVIOUS
  <2>4. Placed(Nothing) = {}
    BY <2>1, <2>3 DEF Placed
  <2> QED BY <2>1, <2>2, <2>3, <2>4 DEF SortOK, Pending
<1>6. Paths(root)[root] > 0
  BY PathsType, VariablesType DEF PathCounts
<1> DEFINE t == dfs[root][Nothing]
           m == Len(t.topo)
           order == TopologicalSort(root)
<1>7. SortOK(t, root) /\ root \in Placed(t)
  BY <1>4, <1>5, <1>6 DEF Sorted
<1>8. /\ t.topo \in Seq(Known) /\ m \in Nat
      /\ \A i, j \in 1 .. m : t.topo[i] = t.topo[j] => i = j
      /\ \A j \in 1 .. m : \A i \in 1 .. Len(Inputs[t.topo[j]]) :
           \E k \in 1 .. j - 1 : t.topo[k] = Inputs[t.topo[j]][i]
  <2> HIDE DEF t
  <2> QED BY <1>7 DEF SortOK, Sorting
<1>9. order = [i \in 1 .. m |-> t.topo[m + 1 - i]]
  BY <1>1
<1> HIDE DEF t, m, order
<1>10. /\ order \in Seq(Known) /\ Len(order) = m
       /\ \A i \in 1 .. m : m + 1 - i \in 1 .. m /\ order[i] = t.topo[m + 1 - i]
  <2>1. \A i \in 1 .. m : m + 1 - i \in 1 .. m
    BY <1>8
  <2>2. \A i \in 1 .. m : t.topo[i] \in Known
    BY <1>8 DEF m
  <2>3. order \in [1 .. m -> Known] /\ \A i \in 1 .. m : order[i] = t.topo[m + 1 - i]
    BY <1>9, <2>1, <2>2
  <2>4. order \in Seq(Known) /\ Len(order) = m
    <3> HIDE <1>8
    <3>1. m \in Nat
      BY <1>8
    <3> QED BY <2>3, <3>1
  <2> QED BY <2>1, <2>3, <2>4
<1>11. ASSUME NEW i \in 1 .. m, NEW j \in 1 .. m, order[i] = order[j] PROVE i = j
  <2>1. m + 1 - i = m + 1 - j
    BY <1>8, <1>10, <1>11
  <2> QED BY <1>8, <2>1
<1>12. ASSUME NEW j \in 1 .. m, NEW i \in 1 .. Len(Inputs[order[j]])
       PROVE  \E k \in j + 1 .. m : order[k] = Inputs[order[j]][i]
  <2>1. PICK u \in 1 .. m : u = m + 1 - j /\ order[j] = t.topo[u]
    BY <1>10
  <2>2. PICK l \in 1 .. u - 1 : t.topo[l] = Inputs[order[j]][i]
    <3>1. \A w \in 1 .. m : \A x \in 1 .. Len(Inputs[t.topo[w]]) :
            \E l \in 1 .. w - 1 : t.topo[l] = Inputs[t.topo[w]][x]
      BY <1>8
    <3>2. i \in 1 .. Len(Inputs[t.topo[u]])
      BY <1>12, <2>1, Zenon
    <3>3. \E l \in 1 .. u - 1 : t.topo[l] = Inputs[t.topo[u]][i]
      BY <3>1, <3>2, Zenon
    <3> QED BY <2>1, <3>3, Zenon
  <2>3. m + 1 - l \in j + 1 .. m /\ m + 1 - l \in 1 .. m /\ m + 1 - (m + 1 - l) = l
    BY <1>8, <2>1
  <2>4. order[m + 1 - l] = t.topo[l]
    BY <1>10, <2>3
  <2> QED BY <2>2, <2>3, <2>4
<1>13. ASSUME NEW v \in Known
       PROVE  Paths(root)[v] > 0 <=> \E j \in 1 .. m : order[j] = v
  <2>1. v \in Placed(t) <=> \E j \in 1 .. m : order[j] = v
    <3>1. ASSUME NEW k \in 1 .. m, t.topo[k] = v PROVE \E j \in 1 .. m : order[j] = v
      <4>1. m + 1 - k \in 1 .. m /\ m + 1 - (m + 1 - k) = k
        BY <1>8
      <4> QED BY <1>10, <3>1, <4>1
    <3>2. ASSUME NEW j \in 1 .. m, order[j] = v PROVE v \in Placed(t)
      BY <1>10, <3>2 DEF Placed, m
    <3> QED BY <3>1, <3>2 DEF Placed, m
  <2>2. Paths(root)[v] > 0 <=> v \in Placed(t)
    BY <1>7, SortComplete DEF SortOK
  <2> QED BY <2>1, <2>2
<1>14. ReverseTopological(order, root)
  BY <1>10, <1>11, <1>12, <1>13 DEF ReverseTopological
<1> QED BY <1>14 DEF order

-----------------------------------------------------------------------------
(* The pass over one node.                                                 *)

\* The three ends of incr_grad.
Incremented(q, r, v, from) ==
  \/ r.outcome = "crashes" /\ r.grad = q.grad /\ variables[from].comparison
  \/ /\ r.outcome = "throws" /\ r.grad = q.grad
     /\ ~variables[from].comparison /\ variables[v].type # variables[from].type
  \/ /\ r.outcome = q.outcome /\ r.grad = [q.grad EXCEPT ![v] = @ + q.grad[from]]
     /\ ~variables[from].comparison /\ variables[v].type = variables[from].type

LEMMA IncrGradEffect ==
  ASSUME TypeOK, NEW q \in Pass, NEW v \in Known, NEW from \in Known
  PROVE  IncrGrad(q, v, from) \in Pass /\ Incremented(q, IncrGrad(q, v, from), v, from)
<1> DEFINE r == IncrGrad(q, v, from)
<1>1. q.grad \in [Known -> Nat] /\ q.outcome \in Outcomes
  BY DEF Pass
<1> DEFINE compared == variables[from].comparison
           mixed    == variables[v].type # variables[from].type
<1>2. \/ r = [q EXCEPT !.outcome = "crashes"] /\ compared
      \/ r = [q EXCEPT !.outcome = "throws"] /\ ~compared /\ mixed
      \/ r = [q EXCEPT !.grad[v] = @ + q.grad[from]] /\ ~compared /\ ~mixed
  BY DEF IncrGrad
<1> HIDE DEF compared, mixed
<1> HIDE DEF r
<1>3. q = [grad |-> q.grad, outcome |-> q.outcome]
  BY DEF Pass
<1>4. CASE r = [q EXCEPT !.outcome = "crashes"] /\ compared
  <2>1. r.outcome = "crashes" /\ r.grad = q.grad /\ r \in Pass
    BY <1>1, <1>3, <1>4 DEF Pass, Outcomes
  <2> QED BY <1>4, <2>1 DEF r, compared, Incremented
<1>5. CASE r = [q EXCEPT !.outcome = "throws"] /\ ~compared /\ mixed
  <2>1. r.outcome = "throws" /\ r.grad = q.grad /\ r \in Pass
    BY <1>1, <1>3, <1>5 DEF Pass, Outcomes
  <2> QED BY <1>5, <2>1 DEF r, compared, mixed, Incremented
<1>6. CASE r = [q EXCEPT !.grad[v] = @ + q.grad[from]] /\ ~compared /\ ~mixed
  <2>1. q.grad[v] + q.grad[from] \in Nat
    BY <1>1
  <2>2. [q.grad EXCEPT ![v] = @ + q.grad[from]] \in [Known -> Nat]
    BY <1>1, <2>1
  <2>3. r.outcome = q.outcome /\ r.grad = [q.grad EXCEPT ![v] = @ + q.grad[from]] /\ r \in Pass
    BY <1>1, <1>3, <1>6, <2>2 DEF Pass
  <2> QED BY <1>6, <2>3 DEF r, compared, mixed, Incremented
<1> QED BY <1>2, <1>4, <1>5, <1>6 DEF Incremented

\* What incr_grad makes of q on the i-th operand of n, if it is called.
OperandStep(q, n, i) ==
  IF q.outcome # "returns" \/ Inputs[n][i] \notin Tracked THEN q ELSE IncrGrad(q, Inputs[n][i], n)

\* r has the passes between the operands of n.
PassStages(r, n, p) ==
  /\ r \in [0 .. Len(Inputs[n]) -> Pass]
  /\ r[0] = p
  /\ \A i \in 1 .. Len(Inputs[n]) : r[i] = OperandStep(r[i - 1], n, i)

LEMMA ApplyStages ==
  ASSUME TypeOK, NEW n \in Known
  PROVE  /\ ApplyBackward(n) \in [Pass -> Pass]
         /\ \A p \in Pass :
              \E r : PassStages(r, n, p) /\ ApplyBackward(n)[p] = r[Len(Inputs[n])]
<1> DEFINE len == Len(Inputs[n])
           steps == [i \in 1 .. len |-> [q \in Pass |-> OperandStep(q, n, i)]]
<1>1. /\ len \in Nat /\ DOMAIN Inputs[n] = 1 .. len /\ variables[n].saved_inputs = Inputs[n]
      /\ \A i \in 1 .. len : Inputs[n][i] \in Known
  <2>1. /\ \A w \in 1 .. n - 1 : w \in Known
        /\ len \in Nat /\ DOMAIN Inputs[n] = 1 .. len
        /\ \A i \in 1 .. len : Inputs[n][i] \in 1 .. n - 1
    BY OperandsBefore
  <2>2. variables[n].saved_inputs = Inputs[n]
    BY VariablesType
  <2> QED BY <2>1, <2>2
<1>2. ASSUME NEW q \in Pass, NEW i \in 1 .. len PROVE OperandStep(q, n, i) \in Pass
  BY <1>1, IncrGradEffect DEF OperandStep
<1>3. /\ steps \in Seq([Pass -> Pass]) /\ Len(steps) = len
      /\ \A i \in 1 .. len : \A q \in Pass : steps[i][q] = OperandStep(q, n, i)
  BY <1>1, <1>2
<1>4. ApplyBackward(n) = [p \in Pass |-> Iterate(steps, p)]
  BY <1>1 DEF ApplyBackward, OperandStep
<1> HIDE DEF steps, len
<1>5. \A p \in Pass : Iterate(steps, p) \in Pass
  <2>1. steps \in Seq([Pass -> Pass])
    BY <1>3
  <2> QED BY <2>1, IterateType
<1>6. ASSUME NEW p \in Pass
      PROVE  \E r : PassStages(r, n, p) /\ Iterate(steps, p) = r[len]
  <2>1. steps \in Seq([Pass -> Pass])
    BY <1>3
  <2>2. PICK r : Stages(r, Pass, steps, p) /\ Iterate(steps, p) = r[Len(steps)]
    BY <2>1, IterateRecursion, Zenon
  <2>3. r \in [0 .. len -> Pass] /\ r[0] = p /\ \A i \in 1 .. len : r[i] = steps[i][r[i - 1]]
    BY <1>3, <2>2 DEF Stages
  <2>4. ASSUME NEW i \in 1 .. len PROVE r[i] = OperandStep(r[i - 1], n, i)
    <3>1. i - 1 \in 0 .. len
      BY <1>1
    <3>2. r[i - 1] \in Pass
      BY <2>3, <3>1
    <3> QED BY <1>3, <2>3, <3>2
  <2>5. PassStages(r, n, p)
    BY <2>3, <2>4 DEF PassStages, len
  <2> QED BY <1>3, <2>2, <2>5
<1> QED BY <1>4, <1>5, <1>6 DEF len

\* How the pass over n ends tells whether its operands have its type and n is no comparison.
LEMMA ApplyOutcome ==
  ASSUME TypeOK, NEW n \in Known, NEW p \in Pass
  PROVE  LET q == ApplyBackward(n)[p]
         IN  /\ p.outcome # "returns" => q = p
             /\ p.outcome = "returns" /\ q.outcome = "throws" => Mixed(n)
             /\ p.outcome = "returns" /\ q.outcome = "crashes" => Comparing(n)
             /\ q.outcome = "returns" => p.outcome = "returns" /\ ~Mixed(n) /\ ~Comparing(n)
<1> DEFINE len == Len(Inputs[n])
<1>1. PICK r : PassStages(r, n, p) /\ ApplyBackward(n)[p] = r[len]
  BY ApplyStages
<1>2. len \in Nat /\ \A i \in 1 .. len : Inputs[n][i] \in 1 .. n - 1
  BY OperandsBefore
<1>3. /\ r \in [0 .. len -> Pass] /\ r[0] = p
      /\ \A i \in 1 .. len : r[i] = OperandStep(r[i - 1], n, i)
  BY <1>1 DEF PassStages
<1> DEFINE Odd(i) == Inputs[n][i] \in Tracked /\ variables[Inputs[n][i]].type # variables[n].type
           Null(i) == variables[n].comparison /\ Inputs[n][i] \in Tracked
           T == {i \in 0 .. len :
                   /\ p.outcome # "returns" => r[i] = p
                   /\ p.outcome = "returns" /\ r[i].outcome = "throws" => \E j \in 1 .. len : Odd(j)
                   /\ p.outcome = "returns" /\ r[i].outcome = "crashes" => \E j \in 1 .. len : Null(j)
                   /\ r[i].outcome = "returns" =>
                        p.outcome = "returns" /\ \A j \in 1 .. i : ~Odd(j) /\ ~Null(j)}
<1> HIDE DEF len, Odd, Null
<1>4. 0 \in T
  <2>1. 0 \in 0 .. len /\ ~ \E j : j \in 1 .. 0
    BY <1>2
  <2> QED BY <1>3, <2>1
<1>5. ASSUME NEW i \in 1 .. len, i - 1 \in T PROVE i \in T
  <2>1. i \in 0 .. len /\ i - 1 \in 0 .. len /\ \A j \in 1 .. i : j \in 1 .. i - 1 \/ j = i
    BY <1>2
  <2>2. r[i - 1] \in Pass /\ r[i] = OperandStep(r[i - 1], n, i)
    BY <1>3, <2>1
  <2>3. CASE r[i - 1].outcome # "returns"
    BY <1>5, <2>1, <2>2, <2>3 DEF OperandStep
  <2>4. CASE r[i - 1].outcome = "returns" /\ Inputs[n][i] \notin Tracked
    <3>1. r[i] = r[i - 1] /\ ~Odd(i) /\ ~Null(i)
      BY <2>2, <2>4 DEF OperandStep, Odd, Null
    <3> QED BY <1>5, <2>1, <3>1
  <2>5. CASE r[i - 1].outcome = "returns" /\ Inputs[n][i] \in Tracked
    <3>1. r[i] = IncrGrad(r[i - 1], Inputs[n][i], n) /\ Inputs[n][i] \in Known
      BY <2>2, <2>5 DEF OperandStep, Tracked
    <3>2. \/ r[i].outcome = "crashes" /\ variables[n].comparison
          \/ r[i].outcome = "throws" /\ variables[Inputs[n][i]].type # variables[n].type
          \/ /\ r[i].outcome = "returns" /\ ~variables[n].comparison
             /\ variables[Inputs[n][i]].type = variables[n].type
      <4> DEFINE a == r[i - 1]
                 b == r[i]
                 x == Inputs[n][i]
      <4>1. a \in Pass /\ x \in Known /\ b = IncrGrad(a, x, n) /\ a.outcome = "returns"
        BY <2>2, <2>5, <3>1
      <4> HIDE DEF a, b, x
      <4>2. \/ b.outcome = "crashes" /\ variables[n].comparison
            \/ b.outcome = "throws" /\ variables[x].type # variables[n].type
            \/ /\ b.outcome = "returns" /\ ~variables[n].comparison
               /\ variables[x].type = variables[n].type
        <5>1. Incremented(a, b, x, n)
          BY <4>1, IncrGradEffect
        <5> QED BY <4>1, <5>1 DEF Incremented
      <4> QED BY <4>2 DEF b, x
    <3>3. \/ r[i].outcome = "crashes" /\ Null(i)
          \/ r[i].outcome = "throws" /\ Odd(i)
          \/ r[i].outcome = "returns" /\ ~Odd(i) /\ ~Null(i)
      BY <2>5, <3>2 DEF Odd, Null
    <3>4. p.outcome = "returns" /\ \A j \in 1 .. i - 1 : ~Odd(j) /\ ~Null(j)
      BY <1>5, <2>5
    <3> QED BY <2>1, <3>3, <3>4
  <2> QED BY <2>3, <2>4, <2>5
<1>6. len \in T
  <2>1. 0 .. len \subseteq T
    <3> HIDE DEF T
    <3> QED BY <1>2, <1>4, <1>5, IntervalInduction
  <2> QED BY <1>2, <2>1
<1>7. /\ Mixed(n) <=> \E j \in 1 .. len : Odd(j)
      /\ Comparing(n) <=> \E j \in 1 .. len : Null(j)
  <2>1. DOMAIN Inputs[n] = 1 .. len
    BY OperandsBefore DEF len
  <2> QED BY <2>1 DEF Mixed, Comparing, Odd, Null
<1> QED BY <1>1, <1>6, <1>7

\* The pass over n adds its gradient to an operand once for every use.
LEMMA ApplyGrad ==
  ASSUME TypeOK, NEW n \in Known, NEW p \in Pass, NEW v \in Tracked
  PROVE  LET q   == ApplyBackward(n)[p]
             due == p.grad[v] + p.grad[n] * Uses(Inputs, n, v)
         IN  /\ q.grad[v] <= due
             /\ q.outcome = "returns" => q.grad[v] = due
<1> DEFINE len == Len(Inputs[n])
           f == [i \in DOMAIN Inputs[n] |-> IF Inputs[n][i] = v THEN 1 ELSE 0]
           g == p.grad[n]
<1>1. PICK r : PassStages(r, n, p) /\ ApplyBackward(n)[p] = r[len]
  BY ApplyStages
<1>2. /\ len \in Nat /\ DOMAIN Inputs[n] = 1 .. len /\ n \in Nat /\ v \in Known
      /\ \A i \in 1 .. len : Inputs[n][i] \in 1 .. n - 1
  BY OperandsBefore DEF Tracked
<1>3. /\ r \in [0 .. len -> Pass] /\ r[0] = p
      /\ \A i \in 1 .. len : r[i] = OperandStep(r[i - 1], n, i)
  BY <1>1 DEF PassStages
<1>4. f \in [1 .. len -> Nat] /\ \A i \in 1 .. len : f[i] = IF Inputs[n][i] = v THEN 1 ELSE 0
  BY <1>2
<1>5. Uses(Inputs, n, v) = Sum(f)
  BY DEF Uses
<1>6. g \in Nat /\ p.grad[v] \in Nat
  BY <1>2 DEF Pass
<1> HIDE DEF len, f, g
<1>7. PICK s : PartialSums(s, f, len) /\ Sum(f) = s[len]
  BY <1>2, <1>4, SumStages
<1> DEFINE T == {i \in 0 .. len :
                   /\ r[i].grad[n] = g
                   /\ r[i].grad[v] <= p.grad[v] + g * s[i]
                   /\ r[i].outcome = "returns" => r[i].grad[v] = p.grad[v] + g * s[i]}
<1>8. 0 \in T
  <2>1. s[0] = 0 /\ g * 0 = 0 /\ p.grad[v] + 0 = p.grad[v] /\ p.grad[v] <= p.grad[v]
    BY <1>6, <1>7 DEF PartialSums
  <2>2. 0 \in 0 .. len /\ r[0] = p
    BY <1>2, <1>3
  <2> QED BY <1>6, <2>1, <2>2 DEF g
<1>9. ASSUME NEW i \in 1 .. len, i - 1 \in T PROVE i \in T
  <2> DEFINE a == r[i - 1]
             x == Inputs[n][i]
  <2>1. i \in 0 .. len /\ i - 1 \in 0 .. len
    BY <1>2
  <2>2. a \in Pass /\ r[i] = OperandStep(a, n, i) /\ x \in 1 .. n - 1 /\ x # n
    BY <1>2, <1>3, <2>1
  <2>3. s[i - 1] \in Nat /\ s[i] = s[i - 1] + f[i] /\ f[i] = IF x = v THEN 1 ELSE 0
    BY <1>2, <1>4, <1>7, SumStep
  <2>4. /\ a.grad[n] = g /\ a.grad[v] <= p.grad[v] + g * s[i - 1]
        /\ a.outcome = "returns" => a.grad[v] = p.grad[v] + g * s[i - 1]
    BY <1>9
  <2> HIDE DEF a, x
  <2>5. a.grad[v] \in Nat /\ a.grad \in [Known -> Nat]
    BY <1>2, <2>2 DEF Pass
  <2>6. g * s[i - 1] \in Nat /\ g * s[i] = g * s[i - 1] + (IF x = v THEN g ELSE 0)
    <3>1. \A j, k \in Nat : j * k \in Nat /\ j * (k + 1) = j * k + j /\ j * (k + 0) = j * k + 0
      OBVIOUS
    <3> QED BY <1>6, <2>3, <3>1
  <2>7. CASE a.outcome # "returns" \/ x \notin Tracked
    <3>1. r[i] = a
      BY <2>2, <2>7 DEF OperandStep, x
    <3>2. p.grad[v] + g * s[i - 1] <= p.grad[v] + g * s[i]
      BY <1>6, <2>6
    <3>3. a.outcome = "returns" => x # v
      BY <2>7
    <3>4. a.grad[v] <= p.grad[v] + g * s[i]
      BY <1>6, <2>4, <2>5, <2>6
    <3>5. a.outcome = "returns" => a.grad[v] = p.grad[v] + g * s[i]
      BY <1>6, <2>4, <2>6, <3>3
    <3> QED BY <2>1, <2>4, <3>1, <3>4, <3>5
  <2>8. CASE a.outcome = "returns" /\ x \in Tracked
    <3>1. r[i] = IncrGrad(a, x, n) /\ x \in Known
      BY <2>2, <2>8 DEF OperandStep, x, Tracked
    <3>2. \/ r[i].outcome # "returns" /\ r[i].grad = a.grad
          \/ r[i].grad = [a.grad EXCEPT ![x] = @ + a.grad[n]]
      <4>1. \/ r[i].outcome = "crashes" /\ r[i].grad = a.grad
            \/ r[i].outcome = "throws" /\ r[i].grad = a.grad
            \/ r[i].grad = [a.grad EXCEPT ![x] = @ + a.grad[n]]
        BY <2>2, <3>1, IncrGradEffect DEF Incremented
      <4> QED BY <4>1
    <3>3. CASE r[i].outcome # "returns" /\ r[i].grad = a.grad
      <4>1. a.grad[v] <= p.grad[v] + g * s[i]
        BY <1>6, <2>4, <2>5, <2>6
      <4> QED BY <2>1, <2>4, <3>3, <4>1
    <3>4. CASE r[i].grad = [a.grad EXCEPT ![x] = @ + a.grad[n]]
      <4>1. r[i].grad[n] = g /\ r[i].grad[v] = a.grad[v] + (IF x = v THEN g ELSE 0)
        BY <1>2, <1>6, <2>2, <2>4, <2>5, <3>1, <3>4
      <4>2. r[i].grad[v] = p.grad[v] + g * s[i]
        <5>1. a.grad[v] = p.grad[v] + g * s[i - 1]
          BY <2>4, <2>8
        <5>2. CASE x = v
          BY <1>6, <2>5, <2>6, <4>1, <5>1, <5>2
        <5>3. CASE x # v
          BY <1>6, <2>5, <2>6, <4>1, <5>1, <5>3
        <5> QED BY <5>2, <5>3
      <4>3. r[i].grad[v] \in Nat
        BY <1>6, <2>5, <4>1
      <4>4. r[i].grad[v] <= p.grad[v] + g * s[i]
        BY <4>2, <4>3
      <4> QED BY <2>1, <4>1, <4>2, <4>4
    <3> QED BY <3>2, <3>3, <3>4
  <2> QED BY <2>7, <2>8
<1>10. len \in T
  <2>1. 0 .. len \subseteq T
    <3> HIDE DEF T
    <3> QED BY <1>2, <1>8, <1>9, IntervalInduction
  <2> QED BY <1>2, <2>1
<1> QED BY <1>1, <1>5, <1>7, <1>10 DEF g

\* The pass over n leaves what requires no gradient alone.
LEMMA ApplyUntracked ==
  ASSUME TypeOK, NEW n \in Known, NEW p \in Pass, NEW v \in Known, v \notin Tracked
  PROVE  ApplyBackward(n)[p].grad[v] = p.grad[v]
<1> DEFINE len == Len(Inputs[n])
<1>1. PICK r : PassStages(r, n, p) /\ ApplyBackward(n)[p] = r[len]
  BY ApplyStages
<1>2. /\ len \in Nat /\ r \in [0 .. len -> Pass] /\ r[0] = p
      /\ \A i \in 1 .. len : r[i] = OperandStep(r[i - 1], n, i)
  BY <1>1, OperandsBefore DEF PassStages
<1> HIDE DEF len
<1> DEFINE T == {i \in 0 .. len : r[i].grad[v] = p.grad[v]}
<1>3. 0 \in T
  BY <1>2
<1>4. ASSUME NEW i \in 1 .. len, i - 1 \in T PROVE i \in T
  <2> DEFINE a == r[i - 1]
             b == r[i]
             x == Inputs[n][i]
  <2>1. a \in Pass /\ b = OperandStep(a, n, i) /\ a.grad[v] = p.grad[v] /\ i \in 0 .. len
    BY <1>2, <1>4
  <2> HIDE DEF a, b, x
  <2>2. CASE a.outcome # "returns" \/ x \notin Tracked
    <3>1. b = a
      BY <2>1, <2>2 DEF OperandStep, x
    <3> QED BY <2>1, <3>1 DEF b
  <2>3. CASE a.outcome = "returns" /\ x \in Tracked
    <3>1. b = IncrGrad(a, x, n) /\ x \in Known /\ x # v
      BY <2>1, <2>3 DEF OperandStep, x, Tracked
    <3>2. Incremented(a, b, x, n)
      BY <2>1, <3>1, IncrGradEffect
    <3>3. b.grad = a.grad \/ b.grad = [a.grad EXCEPT ![x] = @ + a.grad[n]]
      BY <3>2 DEF Incremented
    <3>4. a.grad \in [Known -> Nat]
      BY <2>1 DEF Pass
    <3>5. b.grad[v] = a.grad[v]
      BY <3>1, <3>3, <3>4
    <3> QED BY <2>1, <3>5 DEF b
  <2> QED BY <2>2, <2>3
<1>5. len \in T
  <2>1. 0 .. len \subseteq T
    <3> HIDE DEF T
    <3> QED BY <1>2, <1>3, <1>4, IntervalInduction
  <2> QED BY <1>2, <2>1
<1> QED BY <1>1, <1>5

-----------------------------------------------------------------------------
(* The whole pass.                                                         *)

Seeded(root) ==
  [grad |-> [v \in Known |-> IF v = root THEN 1 ELSE Grad(v)], outcome |-> "returns"]

\* r has the passes between the nodes of order.
BackwardStages(r, order, root) ==
  /\ r \in [0 .. Len(order) -> Pass]
  /\ r[0] = Seeded(root)
  /\ \A k \in 1 .. Len(order) : r[k] = ApplyBackward(order[k])[r[k - 1]]

LEMMA BackwardRecursion ==
  ASSUME TypeOK, NEW root \in Known, Backward(root)
  PROVE  \E r : LET p == r[Len(TopologicalSort(root))]
                IN  /\ BackwardStages(r, TopologicalSort(root), root)
                    /\ variables' = [v \in Known |-> [variables[v] EXCEPT !.grad = p.grad[v]]]
                    /\ call' = [root |-> root, outcome |-> p.outcome]
<1> DEFINE order == TopologicalSort(root)
           steps == [i \in DOMAIN order |-> ApplyBackward(order[i])]
<1>1. order \in Seq(Known)
  BY SortResult DEF ReverseTopological
<1>2. Seeded(root) \in Pass
  <2>1. \A v \in Known : Grad(v) \in Nat
    BY VariablesType DEF Grad, Variable
  <2> QED BY <2>1 DEF Seeded, Pass, Outcomes
<1>3. /\ variables' = [v \in Known |-> [variables[v] EXCEPT !.grad = Iterate(steps, Seeded(root)).grad[v]]]
      /\ call' = [root |-> root, outcome |-> Iterate(steps, Seeded(root)).outcome]
  BY DEF Backward, Seeded
<1> HIDE DEF order
<1>4. /\ steps \in Seq([Pass -> Pass]) /\ Len(steps) = Len(order)
      /\ \A k \in 1 .. Len(order) : steps[k] = ApplyBackward(order[k])
  <2>1. DOMAIN order = 1 .. Len(order) /\ Len(order) \in Nat
    BY <1>1
  <2>2. \A k \in 1 .. Len(order) : ApplyBackward(order[k]) \in [Pass -> Pass]
    BY <1>1, ApplyStages
  <2> QED BY <2>1, <2>2
<1> HIDE DEF steps
<1>5. PICK r : Stages(r, Pass, steps, Seeded(root)) /\ Iterate(steps, Seeded(root)) = r[Len(steps)]
  <2>1. steps \in Seq([Pass -> Pass])
    BY <1>4
  <2> QED BY <1>2, <2>1, IterateRecursion, Zenon
<1>6. BackwardStages(r, order, root)
  BY <1>4, <1>5 DEF Stages, BackwardStages
<1> QED BY <1>3, <1>4, <1>5, <1>6 DEF order

\* The ends of a backward pass that the graph below root leaves.
OutcomeFrom(outcome, root) ==
  LET mixed    == \E w \in Known : Paths(root)[w] > 0 /\ Mixed(w)
      compared == \E w \in Known : Paths(root)[w] > 0 /\ Comparing(w)
  IN  /\ outcome = "throws" => mixed
      /\ outcome = "crashes" => compared
      /\ outcome = "returns" => ~mixed /\ ~compared

\* A pass throws on a reached node with an operand of another type, crashes on a comparison
\* it reached, and returns if there is neither.
LEMMA BackwardOutcome ==
  ASSUME TypeOK, NEW root \in Known, NEW r, BackwardStages(r, TopologicalSort(root), root)
  PROVE  LET p == r[Len(TopologicalSort(root))] IN p \in Pass /\ OutcomeFrom(p.outcome, root)
<1> DEFINE order == TopologicalSort(root)
           m == Len(order)
<1>1. /\ order \in Seq(Known) /\ m \in Nat /\ \A k \in 1 .. m : order[k] \in Known
      /\ \A v \in Known : Paths(root)[v] > 0 <=> \E j \in 1 .. m : order[j] = v
  BY SortResult DEF ReverseTopological
<1>2. /\ r \in [0 .. m -> Pass] /\ r[0] = Seeded(root)
      /\ \A k \in 1 .. m : r[k] = ApplyBackward(order[k])[r[k - 1]]
  BY DEF BackwardStages
<1> DEFINE T == {k \in 0 .. m :
                   /\ r[k].outcome = "throws" => \E j \in 1 .. m : Mixed(order[j])
                   /\ r[k].outcome = "crashes" => \E j \in 1 .. m : Comparing(order[j])
                   /\ r[k].outcome = "returns" =>
                        \A j \in 1 .. k : ~Mixed(order[j]) /\ ~Comparing(order[j])}
<1> HIDE DEF m, order
<1>3. 0 \in T
  <2>1. 0 \in 0 .. m /\ ~ \E j : j \in 1 .. 0
    BY <1>1
  <2>2. r[0].outcome = "returns"
    BY <1>2 DEF Seeded
  <2> QED BY <2>1, <2>2
<1>4. ASSUME NEW k \in 1 .. m, k - 1 \in T PROVE k \in T
  <2> DEFINE p == r[k - 1]
             q == r[k]
             n == order[k]
  <2>1. k \in 0 .. m /\ k - 1 \in 0 .. m /\ \A j \in 1 .. k : j \in 1 .. k - 1 \/ j = k
    BY <1>1
  <2>2. p \in Pass /\ q = ApplyBackward(n)[p] /\ n \in Known
    BY <1>1, <1>2, <2>1
  <2>3. /\ p.outcome = "throws" => \E j \in 1 .. m : Mixed(order[j])
        /\ p.outcome = "crashes" => \E j \in 1 .. m : Comparing(order[j])
        /\ p.outcome = "returns" =>
             \A j \in 1 .. k - 1 : ~Mixed(order[j]) /\ ~Comparing(order[j])
    BY <1>4
  <2> HIDE DEF p, q, n
  <2>4. /\ p.outcome # "returns" => q = p
        /\ p.outcome = "returns" /\ q.outcome = "throws" => Mixed(n)
        /\ p.outcome = "returns" /\ q.outcome = "crashes" => Comparing(n)
        /\ q.outcome = "returns" => p.outcome = "returns" /\ ~Mixed(n) /\ ~Comparing(n)
    BY <2>2, ApplyOutcome
  <2>5. q.outcome = "throws" => \E j \in 1 .. m : Mixed(order[j])
    BY <2>3, <2>4 DEF n
  <2>6. q.outcome = "crashes" => \E j \in 1 .. m : Comparing(order[j])
    BY <2>3, <2>4 DEF n
  <2>7. q.outcome = "returns" => \A j \in 1 .. k : ~Mixed(order[j]) /\ ~Comparing(order[j])
    BY <2>1, <2>3, <2>4 DEF n
  <2> QED BY <2>1, <2>5, <2>6, <2>7 DEF q
<1>5. m \in T
  <2>1. 0 .. m \subseteq T
    <3> HIDE DEF T
    <3> QED BY <1>1, <1>3, <1>4, IntervalInduction
  <2> QED BY <1>1, <2>1
<1>6. r[m] \in Pass
  BY <1>1, <1>2
<1>7. OutcomeFrom(r[m].outcome, root)
  BY <1>1, <1>5 DEF OutcomeFrom
<1> QED BY <1>6, <1>7 DEF m, order

LEMMA UsesKnown ==
  ASSUME TypeOK, NEW w \in Known, NEW v
  PROVE  /\ Uses(Inputs, w, v) \in Nat
         /\ Uses(Inputs, w, v) > 0 => \E i \in 1 .. Len(Inputs[w]) : Inputs[w][i] = v
<1>1. Len(variables) \in Nat /\ Graph(Inputs, Len(variables)) /\ w \in 1 .. Len(variables)
  BY VariablesType
<1> QED BY <1>1, UsesPositive

\* The paths to v whose last node the pass has done.
DoneTerms(order, k, paths, v) ==
  [w \in Known |-> IF w > v /\ (\E j \in 1 .. k : order[j] = w)
                   THEN paths[w] * Uses(Inputs, w, v) ELSE 0]

LEMMA DoneTermsType ==
  ASSUME TypeOK, NEW order, NEW k, NEW paths \in [Known -> Nat], NEW v
  PROVE  DoneTerms(order, k, paths, v) \in [1 .. Len(variables) -> Nat]
<1>1. ASSUME NEW w \in Known PROVE paths[w] * Uses(Inputs, w, v) \in Nat
  <2>1. paths[w] \in Nat /\ Uses(Inputs, w, v) \in Nat
    BY VariablesType, UsesPositive
  <2>2. \A i, j \in Nat : i * j \in Nat
    OBVIOUS
  <2> QED BY <2>1, <2>2
<1> QED BY <1>1, VariablesType DEF DoneTerms

\* When its turn comes, everything a node was used in is done: its gradient is complete.
LEMMA UsersDone ==
  ASSUME TypeOK, NEW root \in Known, NEW order, ReverseTopological(order, root),
         NEW k \in 1 .. Len(order)
  PROVE  DoneTerms(order, k - 1, Paths(root), order[k]) = Terms(Paths(root), Inputs, order[k])
<1> DEFINE n == order[k]
           p == Paths(root)
<1>1. /\ Len(order) \in Nat /\ n \in Known
  BY DEF ReverseTopological
<1>2. p \in [Known -> Nat] /\ DOMAIN Inputs = Known
  BY PathsType, VariablesType DEF PathCounts
<1>3. ASSUME NEW w \in Known, w > n, ~ \E j \in 1 .. k - 1 : order[j] = w
      PROVE  p[w] * Uses(Inputs, w, n) = 0
  <2>1. p[w] \in Nat /\ Uses(Inputs, w, n) \in Nat
    BY <1>2, VariablesType, UsesPositive
  <2>2. ~ (p[w] > 0 /\ Uses(Inputs, w, n) > 0)
    <3> SUFFICES ASSUME p[w] > 0, Uses(Inputs, w, n) > 0 PROVE FALSE
      OBVIOUS
    <3>1. PICK j \in 1 .. Len(order) : order[j] = w
      BY DEF ReverseTopological
    <3>2. PICK i \in 1 .. Len(Inputs[w]) : Inputs[w][i] = n
      BY UsesKnown
    <3>3. PICK l \in j + 1 .. Len(order) : order[l] = n
      BY <3>1, <3>2 DEF ReverseTopological
    <3>4. l \in 1 .. Len(order)
      BY <1>1
    <3>5. l = k
      BY <3>3, <3>4 DEF ReverseTopological
    <3>6. j \in 1 .. k - 1
      BY <1>1, <3>5
    <3> QED BY <1>3, <3>1, <3>6
  <2>3. \A i, j \in Nat : ~ (i > 0 /\ j > 0) => i * j = 0
    OBVIOUS
  <2> QED BY <2>1, <2>2, <2>3
<1> QED BY <1>2, <1>3 DEF DoneTerms, Terms

\* One more node done.
LEMMA DoneNext ==
  ASSUME TypeOK, NEW root \in Known, NEW order, ReverseTopological(order, root),
         NEW k \in 1 .. Len(order), NEW v \in Known
  PROVE  Sum(DoneTerms(order, k, Paths(root), v))
           = Sum(DoneTerms(order, k - 1, Paths(root), v))
               + Paths(root)[order[k]] * Uses(Inputs, order[k], v)
<1> DEFINE n == order[k]
           p == Paths(root)
           f == DoneTerms(order, k - 1, p, v)
           g == DoneTerms(order, k, p, v)
           d == p[n] * Uses(Inputs, n, v)
           N == Len(variables)
<1>1. /\ Len(order) \in Nat /\ n \in Known /\ n \in Nat /\ v \in Nat
      /\ N \in Nat /\ Known = 1 .. N
  <2>1. Len(order) \in Nat /\ n \in Known
    BY DEF ReverseTopological
  <2>2. N \in Nat /\ Known = 1 .. N
    BY VariablesType
  <2> QED BY <2>1, <2>2
<1>2. p \in [Known -> Nat]
  BY PathsType, VariablesType DEF PathCounts
<1>3. f \in [1 .. N -> Nat] /\ g \in [1 .. N -> Nat]
  BY <1>2, DoneTermsType
<1>4. p[n] \in Nat /\ Uses(Inputs, n, v) \in Nat /\ d \in Nat
  <2>1. p[n] \in Nat /\ Uses(Inputs, n, v) \in Nat
    BY <1>1, <1>2, VariablesType, UsesPositive
  <2>2. \A i, j \in Nat : i * j \in Nat
    OBVIOUS
  <2> QED BY <2>1, <2>2
<1>5. ~ (n > v) => d = 0
  <2>1. Uses(Inputs, n, v) > 0 => n > v
    <3>1. ASSUME NEW i \in 1 .. Len(Inputs[n]), Inputs[n][i] = v PROVE n > v
      BY <1>1, <3>1, OperandsBefore
    <3> HIDE DEF n
    <3> QED BY <1>1, <3>1, UsesKnown
  <2>2. \A i \in Nat : i * 0 = 0
    OBVIOUS
  <2>3. Uses(Inputs, n, v) > 0 \/ Uses(Inputs, n, v) = 0
    BY <1>4
  <2> QED BY <1>4, <2>1, <2>2, <2>3
<1>6. ~ \E j \in 1 .. k - 1 : order[j] = n
  <2>1. \A j \in 1 .. k - 1 : j \in 1 .. Len(order) /\ j # k
    BY <1>1
  <2> QED BY <2>1 DEF ReverseTopological
<1>7. \A w \in Known : w # n =>
        ((\E j \in 1 .. k : order[j] = w) <=> (\E j \in 1 .. k - 1 : order[j] = w))
  <2>1. \A j : j \in 1 .. k <=> j \in 1 .. k - 1 \/ j = k
    BY <1>1
  <2> QED BY <2>1
<1>8. \E j \in 1 .. k : order[j] = n
  BY <1>1
<1>9. g[n] = (IF n > v THEN d ELSE 0) /\ f[n] = 0
  BY <1>1, <1>6, <1>8 DEF DoneTerms
<1>10. \A w \in 1 .. N : w # n => g[w] = f[w]
  BY <1>1, <1>7 DEF DoneTerms
<1> HIDE DEF f, g, d, N, n, p
<1>11. g[n] = f[n] + d
  BY <1>4, <1>5, <1>9
<1>12. n \in 1 .. N /\ d \in Nat /\ \A w \in 1 .. N : w # n => g[w] = f[w]
  BY <1>1, <1>4, <1>10
<1>13. N \in Nat
  BY <1>1
<1>14. Sum(g) = Sum(f) + d
  <2> HIDE <1>1
  <2> QED BY ONLY <1>3, <1>11, <1>12, <1>13, SumChange
<1> QED BY <1>14 DEF f, g, d, n, p

\* The pass adds to every Variable the number of paths to it.
LEMMA BackwardGrad ==
  ASSUME TypeOK, NEW root \in Tracked, ClearBelow(root),
         NEW r, BackwardStages(r, TopologicalSort(root), root), NEW v \in Tracked
  PROVE  LET p == r[Len(TopologicalSort(root))]
             due == IF v = root THEN 1 ELSE Grad(v) + Paths(root)[v]
         IN  p.grad[v] <= due /\ (p.outcome = "returns" => p.grad[v] = due)
<1> DEFINE order == TopologicalSort(root)
           m == Len(order)
           P == Paths(root)
           N == Len(variables)
           Old(x) == IF x = root THEN 1 ELSE Grad(x)
           Done(k, x) == Sum(DoneTerms(order, k, P, x))
           All(x) == IF x = root THEN 0 ELSE P[x]
<1>1. /\ ReverseTopological(order, root) /\ root \in Known
      /\ order \in Seq(Known) /\ m \in Nat /\ \A k \in 1 .. m : order[k] \in Known
  <2>1. root \in Known
    BY DEF Tracked
  <2>2. ReverseTopological(order, root)
    BY <2>1, SortResult
  <2> HIDE DEF order
  <2>3. order \in Seq(Known)
    BY <2>2 DEF ReverseTopological
  <2> QED BY <2>1, <2>2, <2>3
<1>2. /\ r \in [0 .. m -> Pass] /\ r[0] = Seeded(root)
      /\ \A k \in 1 .. m : r[k] = ApplyBackward(order[k])[r[k - 1]]
  BY DEF BackwardStages
<1>3. /\ P \in [Known -> Nat] /\ P[root] = 1 /\ N \in Nat /\ Known = 1 .. N
      /\ Graph(Inputs, N) /\ PathCounts(P, Inputs, N, root) /\ DOMAIN Inputs = Known
  BY <1>1, PathsType, VariablesType DEF PathCounts
<1> HIDE DEF order, m, P, N
<1>4. ASSUME NEW x \in Known PROVE Sum(Terms(P, Inputs, x)) = All(x) /\ All(x) \in Nat
  BY <1>1, <1>3, NothingAbove
<1>5. ASSUME NEW x \in Known
      PROVE  Old(x) \in Nat /\ \A k : Done(k, x) \in Nat /\ Done(k, x) <= All(x)
  <2>1. Old(x) \in Nat
    BY VariablesType DEF Grad, Variable
  <2>2. ASSUME NEW k PROVE Done(k, x) \in Nat /\ Done(k, x) <= All(x)
    <3> DEFINE f == DoneTerms(order, k, P, x)
               g == Terms(P, Inputs, x)
    <3>1. f \in [1 .. N -> Nat] /\ g \in [1 .. N -> Nat]
      BY <1>3, DoneTermsType, TermsType DEF N
    <3>2. ASSUME NEW w \in 1 .. N PROVE f[w] <= g[w]
      <4>1. f[w] = g[w] \/ f[w] = 0
        BY <1>3 DEF DoneTerms, Terms
      <4>2. f[w] \in Nat /\ g[w] \in Nat
        BY <3>1
      <4> HIDE DEF f, g
      <4> QED BY <4>1, <4>2
    <3> HIDE DEF f, g
    <3>3. Sum(f) \in Nat /\ Sum(f) <= Sum(g)
      BY <1>3, <3>1, <3>2, SumType, SumLeq
    <3> QED BY <1>4, <3>3 DEF f, g
  <2> QED BY <2>1, <2>2
<1> DEFINE T == {k \in 0 .. m : \A x \in Tracked :
                   /\ r[k].grad[x] <= Old(x) + All(x)
                   /\ r[k].outcome = "returns" => r[k].grad[x] = Old(x) + Done(k, x)}
<1>6. \A x \in Tracked : x \in Known
  BY DEF Tracked
<1>7. 0 \in T
  <2>1. ASSUME NEW x \in Tracked
        PROVE  r[0].grad[x] = Old(x) /\ Done(0, x) = 0
    <3>1. r[0].grad[x] = Old(x)
      BY <1>2, <1>6 DEF Seeded
    <3>2. ~ \E j : j \in 1 .. 0
      OBVIOUS
    <3>3. \A w \in 1 .. N : DoneTerms(order, 0, P, x)[w] = 0
      BY <1>3, <3>2 DEF DoneTerms
    <3>4. DoneTerms(order, 0, P, x) \in [1 .. N -> Nat]
      BY <1>3, DoneTermsType DEF N
    <3>5. Done(0, x) = 0
      BY <1>3, <3>3, <3>4, SumZero
    <3> QED BY <3>1, <3>5
  <2>2. 0 \in 0 .. m
    BY <1>1
  <2> HIDE DEF Done, Old, All
  <2>3. ASSUME NEW x \in Tracked
        PROVE  r[0].grad[x] <= Old(x) + All(x) /\ r[0].grad[x] = Old(x) + Done(0, x)
    BY <1>4, <1>5, <1>6, <2>1
  <2> QED BY <2>2, <2>3
<1>8. ASSUME NEW k \in 1 .. m, k - 1 \in T PROVE k \in T
  <2> DEFINE p == r[k - 1]
             q == r[k]
             n == order[k]
  <2>1. k \in 0 .. m /\ k - 1 \in 0 .. m
    BY <1>1
  <2>2. p \in Pass /\ q = ApplyBackward(n)[p] /\ n \in Known
    BY <1>1, <1>2, <2>1
  <2>3. \A x \in Tracked : /\ p.grad[x] <= Old(x) + All(x)
                           /\ p.outcome = "returns" => p.grad[x] = Old(x) + Done(k - 1, x)
    BY <1>8
  <2>4. P[n] > 0
    BY <1>1, <2>2 DEF ReverseTopological, P, m
  <2>5. CASE p.outcome # "returns"
    <3>1. q = p
      <4> HIDE DEF p, q, n
      <4> QED BY <2>2, <2>5, ApplyOutcome
    <3> QED BY <2>1, <2>3, <2>5, <3>1
  <2>6. CASE p.outcome = "returns"
    <3>1. ASSUME Inputs[n] # <<>> PROVE p.grad[n] = P[n]
      <4>1. n \in Tracked
        BY <2>2, <3>1, VariablesType DEF TypeOK
      <4>2. p.grad[n] = Old(n) + Done(k - 1, n)
        BY <2>3, <2>6, <4>1
      <4>3. Done(k - 1, n) = All(n)
        BY <1>1, <1>4, <2>2, UsersDone DEF P, m
      <4>4. n # root => Grad(n) = 0
        BY <2>2, <2>4, <3>1, <4>1, VariablesType DEF ClearBelow, P
      <4>5. P[n] \in Nat
        BY <1>3, <2>2
      <4> QED BY <1>3, <4>2, <4>3, <4>4, <4>5
    <3>2. ASSUME NEW x \in Tracked
          PROVE  /\ p.grad[n] * Uses(Inputs, n, x) = P[n] * Uses(Inputs, n, x)
                 /\ P[n] * Uses(Inputs, n, x) \in Nat
      <4>1. p.grad[n] \in Nat /\ P[n] \in Nat
        BY <1>3, <2>2 DEF Pass
      <4>2. Uses(Inputs, n, x) \in Nat
        BY <1>3, <2>2, UsesPositive
      <4>3. CASE Inputs[n] # <<>>
        <5>1. \A i, j \in Nat : i * j \in Nat
          OBVIOUS
        <5>2. p.grad[n] = P[n]
          BY <3>1, <4>3
        <5> QED BY <4>1, <4>2, <5>1, <5>2, Zenon
      <4>4. CASE Inputs[n] = <<>>
        <5>1. Uses(Inputs, n, x) = 0
          <6>1. ~ \E i : i \in 1 .. Len(Inputs[n])
            BY <4>4
          <6>2. ~(Uses(Inputs, n, x) > 0)
            BY <1>3, <2>2, <6>1, UsesPositive
          <6> QED BY <4>2, <6>2
        <5>2. \A i \in Nat : i * 0 = 0
          OBVIOUS
        <5> QED BY <4>1, <5>1, <5>2
      <4> QED BY <4>3, <4>4
    <3>3. ASSUME NEW x \in Tracked
          PROVE  /\ q.grad[x] <= Old(x) + All(x)
                 /\ q.outcome = "returns" => q.grad[x] = Old(x) + Done(k, x)
      <4> DEFINE d == P[n] * Uses(Inputs, n, x)
      <4>1. Done(k, x) = Done(k - 1, x) + d
        BY <1>1, <1>6, DoneNext DEF P, m
      <4>2. p.grad[x] = Old(x) + Done(k - 1, x)
        BY <2>3, <2>6
      <4>3. /\ q.grad[x] <= p.grad[x] + p.grad[n] * Uses(Inputs, n, x)
            /\ q.outcome = "returns" => q.grad[x] = p.grad[x] + p.grad[n] * Uses(Inputs, n, x)
        <5> HIDE DEF p, q, n
        <5> QED BY <2>2, ApplyGrad
      <4>4. /\ q.grad[x] <= p.grad[x] + d
            /\ q.outcome = "returns" => q.grad[x] = p.grad[x] + d
            /\ d \in Nat
        BY <3>2, <4>3
      <4>5. /\ Old(x) \in Nat /\ Done(k, x) \in Nat /\ Done(k - 1, x) \in Nat
            /\ Done(k, x) <= All(x) /\ All(x) \in Nat
        BY <1>4, <1>5, <1>6
      <4>6. q.grad[x] \in Nat
        <5>1. q \in Pass
          BY <1>2, <2>1
        <5> QED BY <1>6, <5>1 DEF Pass
      <4> HIDE DEF d, p, q, n, Old, Done, All
      <4>7. p.grad[x] + d = Old(x) + Done(k, x)
        BY <4>1, <4>2, <4>4, <4>5
      <4>8. q.grad[x] <= Old(x) + Done(k, x)
        BY <4>4, <4>7
      <4>9. q.grad[x] <= Old(x) + All(x)
        BY <4>5, <4>6, <4>8
      <4> QED BY <4>4, <4>7, <4>9
    <3> QED BY <2>1, <3>3
  <2> QED BY <2>5, <2>6
<1>9. m \in T
  <2>1. 0 .. m \subseteq T
    <3> HIDE DEF T
    <3> QED BY <1>1, <1>7, <1>8, IntervalInduction
  <2> QED BY <1>1, <2>1
<1>10. Done(m, v) = All(v)
  <2>1. v \in Known
    BY <1>6
  <2>2. ASSUME NEW w \in Known, ~ \E j \in 1 .. m : order[j] = w
        PROVE  P[w] * Uses(Inputs, w, v) = 0
    <3>1. P[w] \in Nat /\ ~ (P[w] > 0)
      BY <1>1, <1>3, <2>2 DEF ReverseTopological, P, m
    <3>2. P[w] = 0
      BY <3>1
    <3>3. Uses(Inputs, w, v) \in Nat
      BY <1>3, UsesPositive
    <3>4. \A i \in Nat : 0 * i = 0
      OBVIOUS
    <3> QED BY <3>2, <3>3, <3>4
  <2>3. DoneTerms(order, m, P, v) = Terms(P, Inputs, v)
    BY <1>3, <2>2 DEF DoneTerms, Terms
  <2> QED BY <1>4, <2>1, <2>3
<1>11. /\ r[m].grad[v] <= Old(v) + All(v)
       /\ r[m].outcome = "returns" => r[m].grad[v] = Old(v) + All(v)
  BY <1>9, <1>10
<1>12. Old(v) + All(v) = IF v = root THEN 1 ELSE Grad(v) + P[v]
  OBVIOUS
<1> QED BY <1>11, <1>12 DEF m, order, P

-----------------------------------------------------------------------------
(* The theorems.                                                           *)

IInv == TypeOK /\ OutcomeOfGraph

\* The result of an operation has a type, and comes after its operands.
LEMMA ApplyTypeOK ==
  ASSUME TypeOK, NEW ins \in Operands, NEW comparison \in BOOLEAN, Apply(ins, comparison)
  PROVE  TypeOK'
<1> DEFINE n == Len(variables)
           requires == grad_enabled /\ \E i \in DOMAIN ins : ins[i] \in Tracked
           made == IF requires THEN Impl(TRUE, Upcast(ins), 0, ins, comparison)
                   ELSE Impl(FALSE, Upcast(ins), 0, <<>>, FALSE)
<1>1. /\ n \in Nat /\ Known = 1 .. n /\ variables \in Seq(Variable)
      /\ \A v \in Known : variables[v].type \in DataType
  BY VariablesType DEF TypeOK, Variable
<1>2. ins \in Seq(Known) /\ DOMAIN ins # {} /\ \A i \in DOMAIN ins : ins[i] \in Known
  <2>1. CASE \E a \in Known : ins = <<a>>
    <3>1. PICK a \in Known : ins = <<a>>
      BY <2>1
    <3>2. DOMAIN ins = {1} /\ ins[1] = a /\ ins \in Seq(Known)
      BY <3>1
    <3> QED BY <3>2
  <2>2. CASE \E a, b \in Known : ins = <<a, b>>
    <3>1. PICK a \in Known, b \in Known : ins = <<a, b>>
      BY <2>2
    <3>2. DOMAIN ins = {1, 2} /\ ins[1] = a /\ ins[2] = b /\ ins \in Seq(Known)
      BY <3>1
    <3> QED BY <3>2
  <2> QED BY <2>1, <2>2 DEF Operands
<1>3. Upcast(ins) \in DataType
  <2> DEFINE types == {variables[ins[i]].type : i \in DOMAIN ins}
  <2>1. types \subseteq {1, 2} /\ types # {}
    BY <1>1, <1>2 DEF DataType
  <2>2. \E type \in types : \A i \in DOMAIN ins : variables[ins[i]].type <= type
    <3>1. \A i \in DOMAIN ins : variables[ins[i]].type \in types
      OBVIOUS
    <3> HIDE DEF types
    <3>2. CASE 2 \in types
      <4>1. \A x \in types : x <= 2
        BY <2>1
      <4> QED BY <3>1, <3>2, <4>1
    <3>3. CASE 2 \notin types
      <4>1. \A x \in types : x = 1
        BY <2>1, <3>3
      <4>2. 1 \in types /\ 1 <= 1
        <5>1. PICK x : x \in types
          BY <2>1
        <5> QED BY <4>1, <5>1
      <4> QED BY <3>1, <4>1, <4>2
    <3> QED BY <3>2, <3>3
  <2>3. Upcast(ins) \in types
    BY <2>2 DEF Upcast
  <2> QED BY <2>1, <2>3 DEF DataType
<1>4. /\ variables' = Append(variables, made) /\ call' = NoCall /\ grad_enabled' = grad_enabled
  BY DEF Apply
<1>5. made \in Variable /\ made.saved_inputs \in Seq(Known)
      /\ (~made.requires_grad => made.grad = 0 /\ made.saved_inputs = <<>>)
  <2>1. ins \in Seq(Nat) /\ <<>> \in Seq(Nat) /\ <<>> \in Seq(Known)
    BY <1>1, <1>2
  <2>2. CASE requires
    <3>1. made = Impl(TRUE, Upcast(ins), 0, ins, comparison)
      BY <2>2
    <3> HIDE DEF made
    <3> QED BY <1>2, <1>3, <2>1, <3>1 DEF Impl, Variable
  <2>3. CASE ~requires
    <3>1. made = Impl(FALSE, Upcast(ins), 0, <<>>, FALSE)
      BY <2>3
    <3> HIDE DEF made
    <3> QED BY <1>3, <2>1, <3>1 DEF Impl, Variable
  <2> QED BY <2>2, <2>3
<1> HIDE DEF made, n
<1>6. /\ variables' \in Seq(Variable) /\ Len(variables') = n + 1 /\ variables'[n + 1] = made
      /\ \A v \in 1 .. n : variables'[v] = variables[v]
  BY <1>1, <1>4, <1>5 DEF n
<1>7. ASSUME NEW v \in Known'
      PROVE  /\ variables'[v].saved_inputs \in Seq(1 .. v - 1)
             /\ v \notin Tracked' => variables'[v].grad = 0 /\ variables'[v].saved_inputs = <<>>
  <2>1. v \in 1 .. n + 1
    BY <1>6 DEF Known
  <2>2. v \notin Tracked' => ~variables'[v].requires_grad
    BY DEF Tracked
  <2>3. CASE v \in 1 .. n
    <3>1. v \in Known /\ variables'[v] = variables[v]
      BY <1>1, <1>6, <2>3
    <3>2. v \notin Tracked' => v \notin Tracked
      BY <2>2, <3>1 DEF Tracked
    <3> QED BY <3>1, <3>2 DEF TypeOK
  <2>4. CASE v = n + 1
    <3>1. variables'[v] = made /\ Known = 1 .. v - 1
      BY <1>1, <1>6, <2>4
    <3> QED BY <1>5, <2>2, <3>1
  <2> QED BY <1>1, <2>1, <2>3, <2>4
<1>8. grad_enabled' \in BOOLEAN
  BY <1>4 DEF TypeOK
<1>9. call' \in [root : 0 .. Len(variables'), outcome : Outcomes]
  BY <1>1, <1>4, <1>6 DEF NoCall, Outcomes
<1> QED BY <1>6, <1>7, <1>8, <1>9 DEF TypeOK

LEMMA ZeroGradTypeOK ==
  ASSUME TypeOK, NEW v \in Known, ZeroGrad(v)
  PROVE  TypeOK'
<1>1. /\ Len(variables) \in Nat /\ Known = 1 .. Len(variables)
      /\ variables \in [Known -> Variable]
  BY VariablesType
<1>2. /\ variables' = [variables EXCEPT ![v].grad = 0, ![v].saved_inputs = <<>>,
                                         ![v].comparison = FALSE]
      /\ call' = NoCall /\ grad_enabled' = grad_enabled /\ v \in Tracked
  BY DEF ZeroGrad
<1>3. variables'[v] = [variables[v] EXCEPT !.grad = 0, !.saved_inputs = <<>>, !.comparison = FALSE]
      /\ \A w \in Known : w # v => variables'[w] = variables[w]
  BY <1>1, <1>2
<1>4. /\ variables'[v] \in Variable /\ variables'[v].saved_inputs = <<>>
      /\ variables'[v].requires_grad = variables[v].requires_grad
  <2>1. PICK empty \in Seq(Nat) : empty = <<>>
    <3>1. <<>> \in Seq(Nat)
      OBVIOUS
    <3> QED BY <3>1, Zenon
  <2>2. variables'[v] = [variables[v] EXCEPT !.grad = 0, !.saved_inputs = empty, !.comparison = FALSE]
    BY <1>3, <2>1
  <2>3. variables'[v] \in Variable /\ variables'[v].saved_inputs = empty
        /\ variables'[v].requires_grad = variables[v].requires_grad
    <3>1. PICK old \in Variable : old = variables[v]
      BY <1>1
    <3>2. PICK new : new = [old EXCEPT !.grad = 0, !.saved_inputs = empty, !.comparison = FALSE]
      OBVIOUS
    <3>3. new \in Variable /\ new.saved_inputs = empty /\ new.requires_grad = old.requires_grad
      BY <3>2 DEF Variable
    <3> QED BY <2>2, <3>1, <3>2, <3>3
  <2> QED BY <2>1, <2>3
<1>5. DOMAIN variables' = Known /\ \A w \in Known : variables'[w] \in Variable
  BY <1>1, <1>2, <1>3, <1>4
<1>6. variables' = [w \in Known |-> variables'[w]]
  BY <1>1, <1>2
<1>7. variables' \in Seq(Variable) /\ Len(variables') = Len(variables) /\ Known' = Known
  <2>1. variables' \in [1 .. Len(variables) -> Variable]
    BY <1>1, <1>5, <1>6
  <2> QED BY <1>1, <2>1 DEF Known
<1>8. Tracked' = Tracked
  BY <1>3, <1>4, <1>7 DEF Tracked
<1>9. ASSUME NEW w \in Known
      PROVE  /\ variables'[w].saved_inputs \in Seq(1 .. w - 1)
             /\ w \notin Tracked => variables'[w].grad = 0 /\ variables'[w].saved_inputs = <<>>
  <2>1. CASE w = v
    <3>1. <<>> \in Seq(1 .. w - 1)
      OBVIOUS
    <3> QED BY <1>2, <1>4, <2>1, <3>1
  <2>2. CASE w # v
    BY <1>3, <2>2 DEF TypeOK
  <2> QED BY <2>1, <2>2
<1>10. grad_enabled' \in BOOLEAN /\ call' \in [root : 0 .. Len(variables'), outcome : Outcomes]
  BY <1>1, <1>2, <1>7 DEF TypeOK, NoCall, Outcomes
<1> QED BY <1>7, <1>8, <1>9, <1>10 DEF TypeOK

\* A backward pass changes gradients and nothing else of the graph.
LEMMA BackwardStep ==
  ASSUME TypeOK, NEW root \in Known, Backward(root)
  PROVE  /\ TypeOK' /\ call'.root = root
         /\ Known' = Known /\ Tracked' = Tracked /\ Inputs' = Inputs
         /\ \A v \in Known : /\ variables'[v].type = variables[v].type
                            /\ variables'[v].comparison = variables[v].comparison
         /\ OutcomeFrom(call'.outcome, root)
         /\ ClearBelow(root) =>
              \A v \in Tracked :
                LET due == IF v = root THEN 1 ELSE Grad(v) + Paths(root)[v]
                IN  /\ variables'[v].grad <= due
                    /\ call'.outcome = "returns" => variables'[v].grad = due
<1>1. /\ Len(variables) \in Nat /\ Known = 1 .. Len(variables)
      /\ variables \in [Known -> Variable]
  BY VariablesType
<1> DEFINE m == Len(TopologicalSort(root))
<1>2. PICK r : /\ BackwardStages(r, TopologicalSort(root), root)
               /\ variables' = [v \in Known |-> [variables[v] EXCEPT !.grad = r[m].grad[v]]]
               /\ call' = [root |-> root, outcome |-> r[m].outcome]
  BY BackwardRecursion
<1> HIDE DEF m
<1> DEFINE p == r[m]
<1>3. /\ p \in Pass
      /\ OutcomeFrom(p.outcome, root)
  BY <1>2, BackwardOutcome DEF m
<1>4. root \in Tracked /\ grad_enabled' = grad_enabled
  BY DEF Backward
<1>5. ClearBelow(root) =>
        \A v \in Tracked :
          LET due == IF v = root THEN 1 ELSE Grad(v) + Paths(root)[v]
          IN  p.grad[v] <= due /\ (p.outcome = "returns" => p.grad[v] = due)
  BY <1>2, <1>4, BackwardGrad DEF m
<1> HIDE DEF p
<1>6. /\ variables' = [v \in Known |-> [variables[v] EXCEPT !.grad = p.grad[v]]]
      /\ call' = [root |-> root, outcome |-> p.outcome]
      /\ p.grad \in [Known -> Nat] /\ p.outcome \in Outcomes
  BY <1>2, <1>3 DEF p, Pass
<1>7. ASSUME NEW v \in Known
      PROVE  /\ variables'[v] \in Variable
             /\ variables'[v].grad = p.grad[v]
             /\ variables'[v].type = variables[v].type
             /\ variables'[v].comparison = variables[v].comparison
             /\ variables'[v].requires_grad = variables[v].requires_grad
             /\ variables'[v].saved_inputs = variables[v].saved_inputs
  <2>1. variables[v] \in Variable /\ p.grad[v] \in Nat
    BY <1>1, <1>6
  <2>2. variables'[v] = [variables[v] EXCEPT !.grad = p.grad[v]]
    BY <1>6
  <2> QED BY <2>1, <2>2 DEF Variable
<1>8. variables' \in Seq(Variable) /\ Len(variables') = Len(variables) /\ Known' = Known
  <2>1. variables' \in [1 .. Len(variables) -> Variable]
    BY <1>1, <1>6, <1>7
  <2> QED BY <1>1, <2>1 DEF Known
<1>9. Tracked' = Tracked /\ Inputs' = Inputs
  BY <1>7, <1>8 DEF Tracked, Inputs
<1>10. \A v \in Tracked : v \in Known
  BY DEF Tracked
<1>11. ASSUME NEW v \in Known, v \notin Tracked PROVE variables'[v].grad = 0
  <2>1. \A k \in 0 .. m : r[k].grad[v] = 0
    <3> DEFINE T == {k \in 0 .. m : r[k].grad[v] = 0}
    <3>1. m \in Nat /\ \A k \in 1 .. m : TopologicalSort(root)[k] \in Known
      BY SortResult DEF ReverseTopological, m
    <3>2. /\ r \in [0 .. m -> Pass] /\ r[0] = Seeded(root)
          /\ \A k \in 1 .. m : r[k] = ApplyBackward(TopologicalSort(root)[k])[r[k - 1]]
      BY <1>2 DEF BackwardStages, m
    <3>3. 0 \in T
      <4>1. v # root /\ Grad(v) = 0
        BY <1>4, <1>11 DEF TypeOK, Grad
      <4> QED BY <3>1, <3>2, <4>1 DEF Seeded
    <3>4. ASSUME NEW k \in 1 .. m, k - 1 \in T PROVE k \in T
      <4>1. r[k - 1] \in Pass /\ r[k - 1].grad[v] = 0 /\ k \in 0 .. m
        BY <3>1, <3>2, <3>4
      <4>2. r[k].grad[v] = r[k - 1].grad[v]
        BY <1>11, <3>1, <3>2, <4>1, ApplyUntracked
      <4> QED BY <4>1, <4>2
    <3>5. 0 .. m \subseteq T
      <4> HIDE DEF T
      <4> QED BY <3>1, <3>3, <3>4, IntervalInduction
    <3> QED BY <3>5
  <2>2. m \in 0 .. m
    BY SortResult DEF ReverseTopological, m
  <2> QED BY <1>7, <2>1, <2>2 DEF p
<1>12. TypeOK'
  <2>1. ASSUME NEW v \in Known
        PROVE  /\ variables'[v].saved_inputs \in Seq(1 .. v - 1)
               /\ v \notin Tracked => variables'[v].grad = 0 /\ variables'[v].saved_inputs = <<>>
    BY <1>7, <1>11 DEF TypeOK
  <2>2. grad_enabled' \in BOOLEAN
    BY <1>4 DEF TypeOK
  <2>3. call' \in [root : 0 .. Len(variables'), outcome : Outcomes]
    BY <1>1, <1>6, <1>8
  <2> QED BY <1>8, <1>9, <2>1, <2>2, <2>3 DEF TypeOK
<1>13. call'.root = root /\ call'.outcome = p.outcome
  BY <1>6
<1> QED BY <1>3, <1>5, <1>7, <1>8, <1>9, <1>10, <1>12, <1>13 DEF p

LEMMA BackwardEnds ==
  ASSUME TypeOK, NEW root \in Known, Backward(root)
  PROVE  OutcomeOfGraph'
<1>1. /\ call'.root = root /\ Known' = Known /\ Tracked' = Tracked /\ Inputs' = Inputs
      /\ call' \in [root : 0 .. Len(variables'), outcome : Outcomes]
      /\ \A v \in Known : /\ variables'[v].type = variables[v].type
                         /\ variables'[v].comparison = variables[v].comparison
      /\ OutcomeFrom(call'.outcome, root)
  BY BackwardStep DEF TypeOK
<1> DEFINE paths == Paths(root)
<1>2. Paths(call.root)' = paths
  BY <1>1 DEF Paths
<1>3. ASSUME NEW w \in Known PROVE (Mixed(w)' <=> Mixed(w)) /\ (Comparing(w)' <=> Comparing(w))
  <2>1. \A i \in DOMAIN Inputs[w] : Inputs[w][i] \in Known
    BY OperandsBefore
  <2>2. \A i \in DOMAIN Inputs[w] : variables'[Inputs[w][i]].type = variables[Inputs[w][i]].type
    BY <1>1, <2>1
  <2>3. variables'[w].type = variables[w].type /\ variables'[w].comparison = variables[w].comparison
    BY <1>1
  <2> QED BY <1>1, <2>2, <2>3 DEF Mixed, Comparing
<1>4. /\ (\E w \in Known' : paths[w] > 0 /\ Mixed(w)') <=> \E w \in Known : paths[w] > 0 /\ Mixed(w)
      /\ (\E w \in Known' : paths[w] > 0 /\ Comparing(w)')
           <=> \E w \in Known : paths[w] > 0 /\ Comparing(w)
  <2> HIDE DEF paths
  <2> QED BY <1>1, <1>3
<1> DEFINE mixed    == \E w \in Known : paths[w] > 0 /\ Mixed(w)
           compared == \E w \in Known : paths[w] > 0 /\ Comparing(w)
<1>5. /\ call'.outcome \in {"returns", "throws", "crashes"}
      /\ call'.outcome = "throws" => mixed
      /\ call'.outcome = "crashes" => compared
      /\ call'.outcome = "returns" => ~mixed /\ ~compared
  BY <1>1 DEF Outcomes, OutcomeFrom
<1> HIDE DEF mixed, compared
<1>6. /\ call'.outcome = "returns" <=> ~mixed /\ ~compared
      /\ call'.outcome = "throws" => mixed
      /\ call'.outcome = "crashes" => compared
  BY <1>5
<1> QED BY <1>2, <1>4, <1>6 DEF OutcomeOfGraph, mixed, compared

\* A call that is not backward is not judged.
LEMMA NoCallEnds ==
  ASSUME call' = NoCall
  PROVE  OutcomeOfGraph'
<1>1. call'.root = 0
  BY DEF NoCall
<1> QED BY <1>1 DEF OutcomeOfGraph

\* Nothing has been computed yet.
LEMMA InitIInv == Init => IInv
<1> SUFFICES ASSUME Init PROVE IInv
  OBVIOUS
<1>1. PICK leaves \in Leaves :
        variables = [v \in DOMAIN leaves |->
          Impl(leaves[v].requires_grad, leaves[v].type, 0, <<>>, FALSE)]
  BY DEF Init
<1>2. leaves \in Seq([requires_grad : BOOLEAN, type : DataType])
  BY LeavesAssumption
<1>3. /\ Len(leaves) \in Nat /\ DOMAIN leaves = 1 .. Len(leaves)
      /\ \A v \in 1 .. Len(leaves) : leaves[v].requires_grad \in BOOLEAN /\ leaves[v].type \in DataType
  <2> DEFINE Start == [requires_grad : BOOLEAN, type : DataType]
  <2>1. \A start \in Start : start.requires_grad \in BOOLEAN /\ start.type \in DataType
    OBVIOUS
  <2>2. leaves \in Seq(Start)
    BY <1>2
  <2> HIDE DEF Start
  <2>3. /\ Len(leaves) \in Nat /\ DOMAIN leaves = 1 .. Len(leaves)
        /\ \A v \in 1 .. Len(leaves) : leaves[v] \in Start
    BY <2>2
  <2> QED BY <2>1, <2>3
<1>4. ASSUME NEW v \in 1 .. Len(leaves)
      PROVE  /\ variables[v] \in Variable
             /\ variables[v].grad = 0 /\ variables[v].saved_inputs = <<>>
  <2>1. <<>> \in Seq(Nat)
    OBVIOUS
  <2>2. PICK type \in DataType : type = leaves[v].type
    BY <1>3
  <2>3. PICK requires_grad \in BOOLEAN : requires_grad = leaves[v].requires_grad
    BY <1>3
  <2>4. variables[v] = Impl(requires_grad, type, 0, <<>>, FALSE)
    BY <1>1, <1>3, <2>2, <2>3
  <2> QED BY <2>1, <2>4 DEF Impl, Variable
<1>5. variables \in Seq(Variable) /\ Known = 1 .. Len(leaves) /\ Len(variables) = Len(leaves)
  <2>1. variables \in [1 .. Len(leaves) -> Variable]
    BY <1>1, <1>3, <1>4
  <2> QED BY <1>3, <2>1 DEF Known
<1>6. \A v \in Known : <<>> \in Seq(1 .. v - 1)
  OBVIOUS
<1>7. call = NoCall /\ grad_enabled = TRUE
  BY DEF Init
<1>8. call \in [root : 0 .. Len(variables), outcome : Outcomes]
  BY <1>3, <1>5, <1>7 DEF NoCall, Outcomes
<1>9. TypeOK
  BY <1>4, <1>5, <1>6, <1>7, <1>8 DEF TypeOK
<1>10. OutcomeOfGraph
  BY <1>7 DEF NoCall, OutcomeOfGraph
<1> QED BY <1>9, <1>10 DEF IInv

(* No call breaks the types or lets a pass end otherwise than the graph    *)
(* decides: the recording, zero_grad and backward of csrc/src/autograd.    *)
THEOREM NextIInv == IInv /\ [Next]_vars => IInv'
<1> SUFFICES ASSUME IInv, [Next]_vars PROVE IInv'
  OBVIOUS
<1>1. TypeOK /\ OutcomeOfGraph
  BY DEF IInv
<1>2. ASSUME NEW enable \in BOOLEAN, SetGradEnabled(enable) PROVE IInv'
  <2>1. variables' = variables /\ grad_enabled' \in BOOLEAN /\ call' = NoCall
    BY <1>2 DEF SetGradEnabled
  <2>2. Len(variables) \in Nat
    BY <1>1 DEF TypeOK
  <2>3. call' \in [root : 0 .. Len(variables'), outcome : Outcomes]
    BY <2>1, <2>2 DEF NoCall, Outcomes
  <2>4. TypeOK'
    BY <1>1, <2>1, <2>3 DEF TypeOK, Known, Tracked
  <2> QED BY <2>1, <2>4, NoCallEnds DEF IInv
<1>3. ASSUME NEW ins \in Operands, NEW comparison \in BOOLEAN, Apply(ins, comparison) PROVE IInv'
  <2>1. TypeOK'
    BY <1>1, <1>3, ApplyTypeOK
  <2>2. call' = NoCall
    BY <1>3 DEF Apply
  <2> QED BY <2>1, <2>2, NoCallEnds DEF IInv
<1>4. ASSUME NEW v \in Known, ZeroGrad(v) PROVE IInv'
  <2>1. TypeOK'
    BY <1>1, <1>4, ZeroGradTypeOK
  <2>2. call' = NoCall
    BY <1>4 DEF ZeroGrad
  <2> QED BY <2>1, <2>2, NoCallEnds DEF IInv
<1>5. ASSUME NEW root \in Known, Backward(root) PROVE IInv'
  BY <1>1, <1>5, BackwardStep, BackwardEnds DEF IInv
<1>6. CASE UNCHANGED vars
  <2>1. variables' = variables /\ grad_enabled' = grad_enabled /\ call' = call
    BY <1>6 DEF vars
  <2>2. Known' = Known /\ Tracked' = Tracked /\ Inputs' = Inputs
    BY <2>1 DEF Known, Tracked, Inputs
  <2>3. TypeOK'
    BY <1>1, <2>1, <2>2 DEF TypeOK
  <2>4. \A w : (Mixed(w)' <=> Mixed(w)) /\ (Comparing(w)' <=> Comparing(w))
    BY <2>1, <2>2 DEF Mixed, Comparing
  <2>5. OutcomeOfGraph'
    BY <1>1, <2>1, <2>2, <2>4 DEF OutcomeOfGraph, Paths
  <2> QED BY <2>3, <2>5 DEF IInv
<1>7. CASE Calls
  <2>1. TRUE \in BOOLEAN /\ FALSE \in BOOLEAN
    OBVIOUS
  <2> QED BY <1>2, <1>3, <1>4, <1>5, <1>7, <2>1 DEF Calls
<1> QED BY <1>6, <1>7 DEF Next, Crashed

\* The invariant holds of every reachable state, whatever program runs.
THEOREM SpecIInv == Spec => []IInv
BY InitIInv, NextIInv, PTL DEF Spec

(* The graph variable.cpp records stays one: operations only refer to      *)
(* Variables made before, and what requires no gradient has neither        *)
(* operands nor a gradient.                                                *)
THEOREM SpecTypeOK == Spec => []TypeOK
<1>1. IInv => TypeOK
  BY DEF IInv
<1> QED BY <1>1, SpecIInv, PTL

(* The end of a backward pass is decided by the graph below its root: it   *)
(* returns unless an operand has another type than its result or was       *)
(* compared, throws only over the first and crashes only over the second,  *)
(* in whatever order the pass meets them.                                  *)
THEOREM SpecOutcomeOfGraph == Spec => []OutcomeOfGraph
<1>1. IInv => OutcomeOfGraph
  BY DEF IInv
<1> QED BY <1>1, SpecIInv, PTL

(* Whatever the graph, a backward pass that returns has added to every     *)
(* gradient the number of paths from the root, and one that throws or      *)
(* crashes no more than that.                                              *)
THEOREM SpecBackwardExact == Spec => BackwardExact
<1> DEFINE Exact ==
      LET root == call'.root
      IN  root # 0 /\ ClearBelow(root) =>
            \A v \in Tracked :
              LET due == IF v = root THEN 1 ELSE Grad(v) + Paths(root)[v]
              IN  /\ Grad(v)' <= due
                  /\ call'.outcome = "returns" => Grad(v)' = due
<1>1. IInv /\ [Next]_vars => [Exact]_vars
  <2> SUFFICES ASSUME IInv, Next, ~ UNCHANGED vars PROVE Exact
    OBVIOUS
  <2>1. Calls
    BY DEF Next, Crashed
  <2>2. CASE call' = NoCall
    <3>1. call'.root = 0
      BY <2>2 DEF NoCall
    <3> QED BY <3>1
  <2>3. ASSUME NEW root \in Known, Backward(root) PROVE Exact
    <3>1. /\ TypeOK
          /\ call'.root = root
          /\ ClearBelow(root) =>
               \A v \in Tracked :
                 LET due == IF v = root THEN 1 ELSE Grad(v) + Paths(root)[v]
                 IN  /\ variables'[v].grad <= due
                     /\ call'.outcome = "returns" => variables'[v].grad = due
      BY <2>3, BackwardStep DEF IInv
    <3>2. \A v : Grad(v)' = variables'[v].grad
      BY DEF Grad
    <3> QED BY <3>1, <3>2
  <2>4. call' = NoCall \/ \E root \in Known : Backward(root)
    BY <2>1 DEF Calls, SetGradEnabled, Apply, ZeroGrad
  <2> QED BY <2>2, <2>3, <2>4
<1>2. BackwardExact <=> [][Exact]_vars
  BY DEF BackwardExact
<1> HIDE DEF Exact
<1> QED BY <1>1, <1>2, SpecIInv, PTL DEF Spec
===============================================================================
