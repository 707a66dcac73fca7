-------------------------- MODULE TiledMatmulProofs --------------------------
(***************************************************************************)
(* Proofs about TiledMatmul, for matrices of any extents, blocks and tiles *)
(* of any size and any order of the blocks and threads: no thread reads a  *)
(* tile that another one is still to load or has begun to load again, no   *)
(* vector access is misaligned, and what a launch leaves in memory is the  *)
(* product, or the transposed matrix.                                      *)
(***************************************************************************)
EXTENDS TiledMatmul, Induction, FiniteSetTheorems

-----------------------------------------------------------------------------
(* The inductive invariant.                                                *)

Loading == {"load", "sync_loaded"}
Multiplying == {"multiply", "sync_read"}
Storing == {"store", "ended"}

\* The state r of a block that runs: its shared memory and its threads.
Registers ==
    [sA : [Cells -> Int \cup {NaN}], sB : [Cells -> Int \cup {NaN}],
     pc : [ThreadsOf -> Loading \cup Multiplying \cup Storing \cup {"plain"}],
     slide : [ThreadsOf -> Nat], kIdx : [ThreadsOf -> Nat],
     tmp : [ThreadsOf -> [Part -> Int \cup {NaN}]]]

\* The threads of a block are in the same part of the same slide.
InStep(r) ==
    \A t, u \in Thread :
        /\ r.slide[t] = r.slide[u]
        /\ \A part \in {Loading, Multiplying, Storing} : r.pc[t] \in part => r.pc[u] \in part

\* How far each thread is, by its place.
Counters(r) ==
    \A t \in Thread :
        /\ r.pc[t] \in Loading \cup Multiplying \cup Storing
        /\ r.pc[t] \in Storing <=> r.slide[t] >= k
        /\ r.slide[t] < k + kChK
        /\ r.pc[t] = "multiply" => r.kIdx[t] < kChK
        /\ r.pc[t] = "sync_read" => r.kIdx[t] = kChK
        /\ r.pc[t] \notin Multiplying => r.kIdx[t] = 0

\* The cells of the tiles that thread t loads.
CellsOfA(t) == {c \in Cells : c \div kChD = t[2] /\ (c % kChD) - t[1] * kT \in 0 .. kT - 1}
CellsOfB(t) == {c \in Cells : c \div kChD = t[1] /\ (c % kChD) - t[2] * kT \in 0 .. kT - 1}

\* What belongs in a cell of the tiles of block b in a slide.
CellOfA(b, slide, c) == AElement(b[1] * kChD + (c % kChD), slide + (c \div kChD))
CellOfB(b, slide, c) == BElement(slide + (c \div kChD), b[2] * kChD + (c % kChD))

\* What a thread has loaded stays until all threads have read it.
Loaded(b, r) ==
    \A t \in Thread : r.pc[t] \in Multiplying \cup {"sync_loaded"} =>
        /\ \A c \in CellsOfA(t) : r.sA[c] = CellOfA(b, r.slide[t], c)
        /\ \A c \in CellsOfB(t) : r.sB[c] = CellOfB(b, r.slide[t], c)

\* The sum of the first `len` products for the element at x and y of the result.
PartialDot(x, y, len) ==
    SumTo([q \in 0 .. len - 1 |-> AElement(x, q) * BElement(q, y)], len)

\* A thread has added up the products of its slides and rows so far.
Sums(b, r) ==
    \A t \in Thread, p \in Part :
        r.tmp[t][p] =
            PartialDot(ResIdx(b, t, p)[1], ResIdx(b, t, p)[2], r.slide[t] + r.kIdx[t])

BlockInv(b, r) ==
    /\ r \in Registers
    /\ op = "tiled" => InStep(r) /\ Counters(r) /\ Loaded(b, r) /\ Sums(b, r)
    /\ op # "tiled" => \A t \in PlainThread :
           r.pc[t] \in {"plain", "ended"} /\ r.slide[t] = 0 /\ r.kIdx[t] = 0

Shape ==
    /\ op \in {"none", "tiled", "plain", "transpose"}
    /\ shape \in Products \cup Flips \cup {<<0, 0, 0>>}
    /\ todo \subseteq Nat \X Nat
    /\ DOMAIN run \subseteq Nat \X Nat
    /\ todo \cap DOMAIN run = {}
    /\ run = [b \in DOMAIN run |-> run[b]]
    /\ IsFiniteSet(DOMAIN run) /\ Cardinality(DOMAIN run) <= Resident
    /\ C \in [0 .. m * n - 1 -> Int \cup {NaN}]
    /\ op = "none" => todo = {} /\ DOMAIN run = {} /\ shape = <<0, 0, 0>>
    /\ op = "tiled" => UsesTiles(shape)
    /\ fault = FALSE

\* Element a of the result is for thread t of block b to compute.
Due(b, t, a) ==
    \/ /\ op = "tiled"
       /\ \E p \in Part : /\ ResIdx(b, t, p)[1] < m /\ ResIdx(b, t, p)[2] < n
                          /\ a = ResIdx(b, t, p)[1] * n + ResIdx(b, t, p)[2]
    \/ /\ op \in {"plain", "transpose"}
       /\ \E i \in 0 .. m - 1, j \in 0 .. n - 1 :
             /\ i = b[1] * Dim + t[1] /\ j = b[2] * Dim + t[2]
             /\ a = IF op = "plain" THEN i * n + j ELSE j * m + i

\* An element of the result is right, or a thread is still to compute it.
Progress ==
    /\ op = "tiled" => \A a \in 0 .. m * n - 1 : C[a] \in Int
    /\ op # "none" => \A a \in 0 .. m * n - 1 :
          \/ C[a] = Expected(a)
          \/ \E b \in todo, t \in ThreadsOf : Due(b, t, a)
          \/ \E b \in DOMAIN run, t \in ThreadsOf : Due(b, t, a) /\ run[b].pc[t] # "ended"

IInv ==
    /\ Shape
    /\ \A b \in DOMAIN run : BlockInv(b, run[b])
    /\ Progress

-----------------------------------------------------------------------------
(* Arithmetic.                                                             *)

LEMMA Parameters ==
    /\ kT \in Nat /\ kT > 0 /\ kChK \in Nat /\ kChK > 0 /\ Packet \in Nat /\ Packet > 0
    /\ Dim \in Nat /\ Dim > 0 /\ Resident \in Nat /\ kChD \in Nat /\ kChD > 0
BY KernelAssumption DEF kChD

LEMMA Extents ==
    ASSUME shape \in Products \cup Flips \cup {<<0, 0, 0>>}
    PROVE  m \in Nat /\ n \in Nat /\ k \in Nat
BY KernelAssumption DEF m, n, k

\* Quotient and remainder by d.
LEMMA Quotient ==
    ASSUME NEW d \in Nat, d > 0, NEW x \in Nat
    PROVE  /\ x \div d \in Nat /\ x % d \in 0 .. d - 1
           /\ x = (x \div d) * d + (x % d)
OBVIOUS

LEMMA QuotientOf ==
    ASSUME NEW d \in Nat, d > 0, NEW q \in Nat, NEW r \in 0 .. d - 1
    PROVE  (q * d + r) \div d = q /\ (q * d + r) % d = r
OBVIOUS

\* A position in a matrix, by its row and column.
LEMMA Position ==
    ASSUME NEW rows \in Nat, NEW cols \in Nat, NEW x \in 0 .. rows - 1, NEW y \in 0 .. cols - 1
    PROVE  x * cols + y \in 0 .. rows * cols - 1
<1>1. (x + 1) * cols <= rows * cols
  OBVIOUS
<1>2. (x + 1) * cols = x * cols + cols
  OBVIOUS
<1>3. x * cols \in Nat /\ rows * cols \in Nat
  OBVIOUS
<1> QED BY <1>1, <1>2, <1>3

LEMMA RowAndColumn ==
    ASSUME NEW rows \in Nat, NEW cols \in Nat, NEW a \in 0 .. rows * cols - 1
    PROVE  /\ a \div cols \in 0 .. rows - 1 /\ a % cols \in 0 .. cols - 1
           /\ a = (a \div cols) * cols + (a % cols)
<1>1. cols > 0 /\ rows > 0
  OBVIOUS
<1>2. /\ a \div cols \in Nat /\ a % cols \in 0 .. cols - 1
      /\ a = (a \div cols) * cols + (a % cols)
  BY <1>1
<1>3. a \div cols < rows
  <2> SUFFICES ASSUME a \div cols >= rows PROVE FALSE
    BY <1>2
  <2>1. (a \div cols) * cols >= rows * cols
    BY <1>1, <1>2
  <2>2. (a \div cols) * cols \in Nat /\ rows * cols \in Nat
    BY <1>2
  <2> QED BY <1>2, <2>1, <2>2
<1> QED BY <1>2, <1>3

\* The grid has a block for every position.
LEMMA InGrid ==
    ASSUME NEW dim \in Nat, dim > 0, NEW rows \in Nat, NEW cols \in Nat,
           NEW x \in 0 .. rows - 1, NEW y \in 0 .. cols - 1
    PROVE  <<x \div dim, y \div dim>> \in GridOf(rows, cols, dim)
<1>1. ASSUME NEW e \in Nat, NEW z \in 0 .. e - 1
      PROVE  z \div dim \in 0 .. CeilDiv(e, dim) - 1
  BY DEF CeilDiv
<1> QED BY <1>1 DEF GridOf
-----------------------------------------------------------------------------
(* Sums.                                                                   *)

\* The sums of the first numbers of f, one after the other.
LEMMA SumToRecursion ==
  ASSUME NEW len \in Nat, NEW f \in [0 .. len - 1 -> Int]
  PROVE  \E s \in [0 .. len -> Int] :
           /\ s[0] = 0 /\ \A i \in 1 .. len : s[i] = s[i - 1] + f[i - 1]
           /\ SumTo(f, len) = s[len]
<1> DEFINE F == [i \in 1 .. len |-> [x \in Int |-> x + f[i - 1]]]
           Def(s) == [i \in 0 .. len |-> IF i = 0 THEN 0 ELSE s[i - 1] + f[i - 1]]
           sum == CHOOSE s : s = Def(s)
<1>1. F \in [1 .. len -> [Int -> Int]]
  OBVIOUS
<1>2. PICK r : Recursion(r, len, Int, 0, F)
  <2>1. 0 \in Int
    OBVIOUS
  <2> HIDE DEF F
  <2> QED BY <1>1, <2>1, IntervalRecursion, Zenon
<1>3. \A i \in 1 .. len : F[i][r[i - 1]] = r[i - 1] + f[i - 1]
  BY <1>2 DEF Recursion
<1>4. r = Def(r)
  <2> HIDE DEF F
  <2>1. ASSUME NEW i \in 0 .. len PROVE r[i] = IF i = 0 THEN 0 ELSE r[i - 1] + f[i - 1]
    <3>1. CASE i = 0
      BY <3>1, <1>2 DEF Recursion
    <3>2. CASE i # 0
      <4>1. i \in 1 .. len
        BY <3>2
      <4> QED BY <3>2, <4>1, <1>2, <1>3 DEF Recursion
    <3> QED BY <3>1, <3>2
  <2> QED BY <2>1, <1>2 DEF Recursion
<1>5. sum = Def(sum)
  <2> HIDE DEF Def
  <2> QED BY <1>4
<1>6. SumTo(f, len) = sum[len]
  BY DEF SumTo
<1>7. \A i \in 0 .. len : sum[i] = IF i = 0 THEN 0 ELSE sum[i - 1] + f[i - 1]
  <2> HIDE DEF sum
  <2> QED BY <1>5
<1>8. \A i \in 0 .. len : sum[i] \in Int
  <2> HIDE DEF sum
  <2> DEFINE T == {i \in Nat : i <= len => sum[i] \in Int}
  <2>1. 0 \in T
     BY <1>7
  <2>2. ASSUME NEW i \in 1 .. len, i - 1 \in T PROVE i \in T
     BY <1>7, <2>2
  <2>3. 0 .. len \subseteq T
     <3> HIDE DEF T
     <3> QED BY <2>1, <2>2, IntervalInduction
  <2> QED BY <2>3
<1>9. sum \in [0 .. len -> Int]
  <2> HIDE DEF sum
  <2> QED BY <1>5, <1>8
<1>10. sum[0] = 0 /\ \A i \in 1 .. len : sum[i] = sum[i - 1] + f[i - 1]
  <2> HIDE DEF sum
  <2> QED BY <1>7
<1> HIDE DEF sum
<1> WITNESS sum \in [0 .. len -> Int]
<1> QED BY <1>6, <1>10

LEMMA SumToType ==
    ASSUME NEW len \in Nat, NEW f \in [0 .. len - 1 -> Int]
    PROVE  SumTo(f, len) \in Int /\ (len = 0 => SumTo(f, len) = 0)
<1>1. PICK s \in [0 .. len -> Int] :
          /\ s[0] = 0 /\ \A i \in 1 .. len : s[i] = s[i - 1] + f[i - 1]
          /\ SumTo(f, len) = s[len]
  BY SumToRecursion
<1> QED BY <1>1

\* One number more.
LEMMA SumToNext ==
    ASSUME NEW len \in Nat, NEW f \in [0 .. len -> Int], NEW g \in [0 .. len - 1 -> Int],
           \A q \in 0 .. len - 1 : g[q] = f[q]
    PROVE  SumTo(f, len + 1) = SumTo(g, len) + f[len]
<1>1. PICK s \in [0 .. len + 1 -> Int] :
          /\ s[0] = 0 /\ \A i \in 1 .. len + 1 : s[i] = s[i - 1] + f[i - 1]
          /\ SumTo(f, len + 1) = s[len + 1]
  <2>1. len + 1 \in Nat /\ f \in [0 .. (len + 1) - 1 -> Int]
    OBVIOUS
  <2> QED BY <2>1, SumToRecursion
<1>2. PICK r \in [0 .. len -> Int] :
          /\ r[0] = 0 /\ \A i \in 1 .. len : r[i] = r[i - 1] + g[i - 1]
          /\ SumTo(g, len) = r[len]
  BY SumToRecursion
<1> DEFINE T == {i \in 0 .. len : r[i] = s[i]}
<1>3. 0 \in T
  BY <1>1, <1>2
<1>4. ASSUME NEW i \in 1 .. len, i - 1 \in T PROVE i \in T
  <2>1. i - 1 \in 0 .. len - 1 /\ i \in 1 .. len + 1 /\ i \in 0 .. len
    OBVIOUS
  <2>2. r[i - 1] = s[i - 1] /\ g[i - 1] = f[i - 1]
    BY <1>4, <2>1
  <2>3. r[i] = r[i - 1] + g[i - 1] /\ s[i] = s[i - 1] + f[i - 1]
    BY <1>1, <1>2, <2>1
  <2> QED BY <2>1, <2>2, <2>3
<1>5. 0 .. len \subseteq T
  <2> HIDE DEF T
  <2> QED BY <1>3, <1>4, IntervalInduction
<1>6. r[len] = s[len]
  BY <1>5
<1>7. s[len + 1] = s[len] + f[len]
  <2>1. len + 1 \in 1 .. len + 1 /\ (len + 1) - 1 = len
    OBVIOUS
  <2> QED BY <1>1, <2>1
<1> QED BY <1>1, <1>2, <1>6, <1>7

\* The elements of the matrices are numbers, zero past the edges.
LEMMA Elements ==
    ASSUME m \in Nat, n \in Nat, k \in Nat, NEW x \in Nat, NEW y \in Nat
    PROVE  /\ AElement(x, y) \in Int /\ (y >= k => AElement(x, y) = 0)
           /\ BElement(x, y) \in Int
           /\ x < m /\ y < k => AElement(x, y) = A(x * k + y)
           /\ x < k /\ y < n => BElement(x, y) = B(x * n + y)
<1>1. ASSUME x < m, y < k PROVE A(x * k + y) \in Int
  <2>1. x * k + y \in 0 .. m * k - 1
    BY <1>1, Position
  <2> QED BY <2>1 DEF A
<1>2. ASSUME x < k, y < n PROVE B(x * n + y) \in Int
  <2>1. x * n + y \in 0 .. k * n - 1
    BY <1>2, Position
  <2>2. ASSUME NEW p \in Nat, p < k * n PROVE B(p) \in Int
    <3>1. B(p) = p * p + 2
      BY <2>2 DEF B
    <3>2. p * p \in Nat
      OBVIOUS
    <3> QED BY <3>1, <3>2
  <2>3. x * n + y \in Nat /\ x * n + y < k * n
    BY <2>1
  <2> QED BY <2>2, <2>3
<1> QED BY <1>1, <1>2 DEF AElement, BElement

\* One product more.
LEMMA PartialDotNext ==
    ASSUME m \in Nat, n \in Nat, k \in Nat, NEW x \in Nat, NEW y \in Nat, NEW len \in Nat
    PROVE  /\ PartialDot(x, y, 0) = 0
           /\ PartialDot(x, y, len) \in Int
           /\ PartialDot(x, y, len + 1) =
                  PartialDot(x, y, len) + AElement(x, len) * BElement(len, y)
<1> DEFINE f(l) == [q \in 0 .. l - 1 |-> AElement(x, q) * BElement(q, y)]
<1>1. ASSUME NEW l \in Nat PROVE f(l) \in [0 .. l - 1 -> Int]
  <2>1. ASSUME NEW q \in 0 .. l - 1 PROVE AElement(x, q) * BElement(q, y) \in Int
    <3>1. AElement(x, q) \in Int /\ BElement(q, y) \in Int
      BY Elements
    <3> QED BY <3>1
  <2> QED BY <2>1
<1>2. \A q \in 0 .. len - 1 : f(len)[q] = f(len + 1)[q]
  OBVIOUS
<1>3. f(len + 1)[len] = AElement(x, len) * BElement(len, y)
  OBVIOUS
<1>4. \A l : PartialDot(x, y, l) = SumTo(f(l), l)
  BY DEF PartialDot
<1>5. f(len + 1) \in [0 .. len -> Int]
  <2>1. len + 1 \in Nat /\ (len + 1) - 1 = len
    OBVIOUS
  <2> HIDE DEF f
  <2> QED BY <1>1, <2>1
<1>6. f(len) \in [0 .. len - 1 -> Int] /\ f(0) \in [0 .. 0 - 1 -> Int]
  <2> HIDE DEF f
  <2> QED BY <1>1
<1> HIDE DEF f
<1>7. SumTo(f(len + 1), len + 1) = SumTo(f(len), len) + f(len + 1)[len]
  BY <1>2, <1>5, <1>6, SumToNext
<1>8. SumTo(f(0), 0) = 0 /\ SumTo(f(len), len) \in Int
  BY <1>6, SumToType
<1> QED BY <1>3, <1>4, <1>7, <1>8

\* Positions past the edge add nothing.
LEMMA PartialDotEnd ==
    ASSUME m \in Nat, n \in Nat, k \in Nat, NEW x \in Nat, NEW y \in Nat,
           NEW len \in Nat, len >= k
    PROVE  PartialDot(x, y, len) = PartialDot(x, y, k)
<1> DEFINE T == {i \in Nat : PartialDot(x, y, k + i) = PartialDot(x, y, k)}
<1>1. 0 \in T
  OBVIOUS
<1>2. ASSUME NEW i \in Nat, i \in T PROVE i + 1 \in T
  <2>1. /\ PartialDot(x, y, (k + i) + 1) =
               PartialDot(x, y, k + i) + AElement(x, k + i) * BElement(k + i, y)
        /\ PartialDot(x, y, k + i) \in Int
    BY PartialDotNext
  <2>2. AElement(x, k + i) = 0 /\ BElement(k + i, y) \in Int
    <3>1. k + i \in Nat /\ k + i >= k
      OBVIOUS
    <3> QED BY <3>1, Elements
  <2>3. (k + i) + 1 = k + (i + 1)
    OBVIOUS
  <2>4. AElement(x, k + i) * BElement(k + i, y) = 0
    BY <2>2
  <2> QED BY <1>2, <2>1, <2>3, <2>4
<1>3. Nat \subseteq T
  <2> HIDE DEF T
  <2> QED BY <1>1, <1>2, NatSetInduction
<1>4. len - k \in T /\ k + (len - k) = len
  BY <1>3
<1> QED BY <1>4

\* The sum of all products is what the element of the result should be.
LEMMA FullDot ==
    ASSUME m \in Nat, n \in Nat, k \in Nat, op # "transpose",
           NEW x \in 0 .. m - 1, NEW y \in 0 .. n - 1
    PROVE  PartialDot(x, y, k) = Expected(x * n + y)
<1> DEFINE a == x * n + y
<1>1. a \div n = x /\ a % n = y
  BY QuotientOf
<1>2. ASSUME NEW q \in 0 .. k - 1
      PROVE  AElement(x, q) * BElement(q, y) = A((a \div n) * k + q) * B(q * n + (a % n))
  <2>1. AElement(x, q) = A(x * k + q) /\ BElement(q, y) = B(q * n + y)
    BY Elements
  <2> QED BY <1>1, <2>1
<1>3. [q \in 0 .. k - 1 |-> AElement(x, q) * BElement(q, y)] =
      [q \in 0 .. k - 1 |-> A((a \div n) * k + q) * B(q * n + (a % n))]
  BY <1>2
<1> HIDE DEF a
<1> QED BY <1>3 DEF PartialDot, Expected, a

-----------------------------------------------------------------------------
(* Positions.                                                              *)

LEMMA MultipleOf ==
    ASSUME NEW d \in Nat, d > 0, NEW x \in Nat
    PROVE  x % d = 0 <=> \E q \in Nat : x = q * d
<1>1. ASSUME x % d = 0 PROVE \E q \in Nat : x = q * d
  <2>1. x \div d \in Nat /\ x = (x \div d) * d + (x % d)
    BY Quotient
  <2>2. x = (x \div d) * d
    <3> DEFINE w == (x \div d) * d
    <3>1. w \in Nat /\ x = w + (x % d)
      BY <2>1
    <3> HIDE DEF w
    <3>2. x = w
      BY <1>1, <3>1
    <3> QED BY <3>2 DEF w
  <2> QED BY <2>1, <2>2
<1>2. ASSUME NEW q \in Nat, x = q * d PROVE x % d = 0
  <2>1. 0 \in 0 .. d - 1
    OBVIOUS
  <2>2. (q * d + 0) % d = 0
    BY <2>1, QuotientOf
  <2>3. q * d + 0 = x
    BY <1>2
  <2> QED BY <2>2, <2>3
<1> QED BY <1>1, <1>2

LEMMA Multiples ==
    ASSUME NEW x \in Nat, NEW y \in Nat, y % Packet = 0
    PROVE  /\ x % Packet = 0 => (x + y) % Packet = 0 /\ x + y \in Nat
           /\ (x * y) % Packet = 0 /\ x * y \in Nat
<1>1. Packet \in Nat /\ Packet > 0
  BY Parameters
<1>2. PICK b \in Nat : y = b * Packet
  BY <1>1, MultipleOf
<1>3. ASSUME x % Packet = 0 PROVE (x + y) % Packet = 0
  <2>1. PICK a \in Nat : x = a * Packet
    BY <1>1, <1>3, MultipleOf
  <2>2. x + y = (a + b) * Packet /\ a + b \in Nat /\ x + y \in Nat
    BY <1>1, <1>2, <2>1
  <2>3. \E q \in Nat : x + y = q * Packet
    BY <2>2, Zenon
  <2> DEFINE z == x + y
  <2> HIDE DEF z
  <2>4. z \in Nat /\ \E q \in Nat : z = q * Packet
    BY <2>2, <2>3 DEF z
  <2>5. z % Packet = 0
    BY <1>1, <2>4, MultipleOf
  <2> QED BY <2>5 DEF z
<1>4. (x * y) % Packet = 0 /\ x * y \in Nat
  <2>1. x * y = (x * b) * Packet /\ x * b \in Nat /\ x * y \in Nat
    <3>1. x * (b * Packet) = (x * b) * Packet
      BY <1>1
    <3> QED BY <1>2, <3>1
  <2>2. \E q \in Nat : x * y = q * Packet
    BY <2>1, Zenon
  <2> DEFINE z == x * y
  <2> HIDE DEF z
  <2>3. z \in Nat /\ \E q \in Nat : z = q * Packet
    BY <2>1, <2>2 DEF z
  <2>4. z % Packet = 0
    BY <1>1, <2>3, MultipleOf
  <2> QED BY <2>1, <2>4 DEF z
<1>5. x + y \in Nat
  OBVIOUS
<1> QED BY <1>3, <1>4, <1>5, Zenon

\* A vector access at a column that is a multiple of the packet is aligned.
LEMMA Aligned ==
    ASSUME n \in Nat, NEW x \in Nat, NEW y \in Nat, y % Packet = 0
    PROVE  ~ Misaligned(x, y)
<1> SUFFICES ASSUME n % Packet = 0 PROVE (x * n + y) % Packet = 0
  BY DEF Misaligned, AsVector, vec_switch
<1>1. (x * n) % Packet = 0 /\ x * n \in Nat
  BY Multiples, Zenon
<1> QED BY <1>1, Multiples, Zenon

\* The first columns of a thread's packets are multiples of the packet.
LEMMA PartAligned ==
    ASSUME NEW c \in Nat, NEW d \in Nat, NEW j \in Nat, j % Packet = 0
    PROVE  /\ (c * kChD + d * kT + j) % Packet = 0 /\ c * kChD + d * kT + j \in Nat
           /\ (d * kT + c * kChK * kT + j) % Packet = 0 /\ d * kT + c * kChK * kT + j \in Nat
<1>1. kT \in Nat /\ kChK \in Nat /\ kT % Packet = 0 /\ kChD = kChK * kT
  BY Parameters, KernelAssumption DEF kChD
<1>2. (d * kT) % Packet = 0 /\ d * kT \in Nat
  BY <1>1, Multiples, Zenon
<1>3. c * kChK \in Nat
  BY <1>1
<1>4. ((c * kChK) * kT) % Packet = 0 /\ (c * kChK) * kT \in Nat
  BY <1>1, <1>3, Multiples, Zenon
<1>5. c * kChD = (c * kChK) * kT
  BY <1>1
<1> DEFINE w == (c * kChK) * kT
           v == d * kT
<1> HIDE DEF w, v
<1>6. (w + v) % Packet = 0 /\ (v + w) % Packet = 0 /\ w + v \in Nat /\ v + w \in Nat
  <2>1. w \in Nat /\ v \in Nat /\ w % Packet = 0 /\ v % Packet = 0
    BY <1>2, <1>4 DEF w, v
  <2> QED BY <2>1, Multiples, Zenon
<1>7. (w + v + j) % Packet = 0 /\ (v + w + j) % Packet = 0
  BY <1>6, Multiples, Zenon
<1>8. w + v + j \in Nat /\ v + w + j \in Nat
  BY <1>6
<1> QED BY <1>5, <1>7, <1>8 DEF w, v

LEMMA BlockSide ==
    ASSUME NEW z \in Nat
    PROVE  z * kChK * kT = z * kChD /\ z * kChD \in Nat
BY Parameters DEF kChD

\* The column of a tile in which a thread's element i is.
LEMMA InTile ==
    ASSUME NEW t \in 0 .. kChK - 1, NEW i \in 0 .. kT - 1
    PROVE  t * kT + i \in 0 .. kChD - 1
<1>1. t * kT + i \in 0 .. kChK * kT - 1
  BY Parameters, Position
<1> QED BY <1>1 DEF kChD

\* A cell of a tile, by its row and column.
LEMMA CellAt ==
    ASSUME NEW row \in 0 .. kChK - 1, NEW col \in 0 .. kChD - 1
    PROVE  /\ row * kChD + col \in Cells
           /\ (row * kChD + col) \div kChD = row /\ (row * kChD + col) % kChD = col
<1>1. row * kChD + col \in 0 .. kChK * kChD - 1
  BY Parameters, Position
<1>2. kChK * kChD = kChD * kChK
  BY Parameters
<1> QED BY <1>1, <1>2, Parameters, QuotientOf DEF Cells

\* The row and the column of a cell.
LEMMA RowOfCell ==
    ASSUME NEW c \in Cells
    PROVE  /\ c \in Nat /\ c \div kChD \in 0 .. kChK - 1 /\ c % kChD \in 0 .. kChD - 1
<1>1. c \in 0 .. kChK * kChD - 1
  <2>1. kChK * kChD = kChD * kChK
    BY Parameters
  <2> QED BY <2>1 DEF Cells
<1> QED BY <1>1, Parameters, RowAndColumn

\* A cell that a thread reads is one that a thread of the block loads.
LEMMA CellLoaded ==
    ASSUME NEW t \in Thread, NEW row \in 0 .. kChK - 1, NEW i \in 0 .. kT - 1
    PROVE  /\ <<t[1], row>> \in Thread /\ <<row, t[2]>> \in Thread
           /\ row * kChD + t[1] * kT + i \in CellsOfA(<<t[1], row>>)
           /\ row * kChD + t[2] * kT + i \in CellsOfB(<<row, t[2]>>)
<1> DEFINE c1 == t[1] * kT + i
           c2 == t[2] * kT + i
<1>1. t[1] \in 0 .. kChK - 1 /\ t[2] \in 0 .. kChK - 1
  BY DEF Thread
<1>2. c1 \in 0 .. kChD - 1 /\ c2 \in 0 .. kChD - 1
  BY <1>1, InTile, Zenon
<1>3. t[1] * kT \in Nat /\ t[2] * kT \in Nat /\ row * kChD \in Nat
  BY <1>1, Parameters
<1>4. /\ row * kChD + t[1] * kT + i = row * kChD + c1 /\ c1 - t[1] * kT = i
      /\ row * kChD + t[2] * kT + i = row * kChD + c2 /\ c2 - t[2] * kT = i
  BY <1>3
<1> HIDE DEF c1, c2
<1>5. /\ row * kChD + c1 \in Cells /\ row * kChD + c2 \in Cells
      /\ (row * kChD + c1) \div kChD = row /\ (row * kChD + c2) \div kChD = row
      /\ (row * kChD + c1) % kChD = c1 /\ (row * kChD + c2) % kChD = c2
  BY <1>2, CellAt
<1>6. <<t[1], row>>[2] = row /\ <<t[1], row>>[1] = t[1] /\ <<row, t[2]>>[1] = row /\ <<row, t[2]>>[2] = t[2]
  OBVIOUS
<1>7. i \in 0 .. kT - 1
  OBVIOUS
<1>8. row * kChD + c1 \in CellsOfA(<<t[1], row>>)
  BY <1>4, <1>5, <1>6, <1>7 DEF CellsOfA
<1>9. row * kChD + c2 \in CellsOfB(<<row, t[2]>>)
  BY <1>4, <1>5, <1>6, <1>7 DEF CellsOfB
<1>10. <<t[1], row>> \in Thread /\ <<row, t[2]>> \in Thread
  BY <1>1 DEF Thread
<1> QED BY <1>4, <1>8, <1>9, <1>10

\* What a thread reads while it multiplies.
LEMMA TileRow ==
    ASSUME NEW b \in Nat \X Nat, NEW r, InStep(r), Counters(r), Loaded(b, r), m \in Nat, n \in Nat, k \in Nat,
           NEW t \in Thread, r.pc[t] = "multiply", r.slide[t] \in Nat,
           NEW row \in 0 .. kChK - 1, NEW i \in 0 .. kT - 1
    PROVE  /\ r.sA[row * kChD + t[1] * kT + i]
                  = AElement(b[1] * kChD + t[1] * kT + i, r.slide[t] + row)
           /\ r.sB[row * kChD + t[2] * kT + i]
                  = BElement(r.slide[t] + row, b[2] * kChD + t[2] * kT + i)
<1> DEFINE c1 == row * kChD + t[1] * kT + i
           c2 == row * kChD + t[2] * kT + i
           u1 == <<t[1], row>>
           u2 == <<row, t[2]>>
<1>1. u1 \in Thread /\ u2 \in Thread /\ c1 \in CellsOfA(u1) /\ c2 \in CellsOfB(u2)
  BY CellLoaded
<1> HIDE DEF u1, u2
<1>2. r.pc[u1] \in Multiplying /\ r.pc[u2] \in Multiplying
      /\ r.slide[u1] = r.slide[t] /\ r.slide[u2] = r.slide[t]
  BY <1>1 DEF InStep, Multiplying
<1>3. r.sA[c1] = CellOfA(b, r.slide[t], c1) /\ r.sB[c2] = CellOfB(b, r.slide[t], c2)
  BY <1>1, <1>2 DEF Loaded
<1>4. t[1] \in 0 .. kChK - 1 /\ t[2] \in 0 .. kChK - 1
  BY DEF Thread
<1>5. t[1] * kT \in Nat /\ t[2] * kT \in Nat /\ row * kChD \in Nat
      /\ b[1] * kChD \in Nat /\ b[2] * kChD \in Nat
  BY <1>4, Parameters
<1>6. /\ c1 \div kChD = row /\ c1 % kChD = t[1] * kT + i
      /\ c2 \div kChD = row /\ c2 % kChD = t[2] * kT + i
  <2>1. t[1] * kT + i \in 0 .. kChD - 1 /\ t[2] * kT + i \in 0 .. kChD - 1
    BY <1>4, InTile, Zenon
  <2>2. c1 = row * kChD + (t[1] * kT + i) /\ c2 = row * kChD + (t[2] * kT + i)
    BY <1>5
  <2> HIDE DEF c1, c2
  <2> QED BY <2>1, <2>2, CellAt
<1>7. /\ b[1] * kChD + (t[1] * kT + i) = b[1] * kChD + t[1] * kT + i
      /\ b[2] * kChD + (t[2] * kT + i) = b[2] * kChD + t[2] * kT + i
  BY <1>5
<1> HIDE DEF c1, c2
<1>8. /\ CellOfA(b, r.slide[t], c1) = AElement(b[1] * kChD + t[1] * kT + i, r.slide[t] + row)
      /\ CellOfB(b, r.slide[t], c2) = BElement(r.slide[t] + row, b[2] * kChD + t[2] * kT + i)
  BY <1>6, <1>7 DEF CellOfA, CellOfB
<1> QED BY <1>3, <1>8 DEF c1, c2

-----------------------------------------------------------------------------
(* Updates of the state of a block.                                        *)

\* The state of a block, by its fields.
BlockState(A1, B1, P, S, K, T) ==
    [sA |-> A1, sB |-> B1, pc |-> P, slide |-> S, kIdx |-> K, tmp |-> T]

\* What the steps of a thread, the barrier and the last step of a thread
\* update, as operators so that the lemmas can be instantiated.
IsMap(f) == f = [c \in DOMAIN f |-> f[c]]
Put(f, b, R) == [f EXCEPT ![b] = R]
PutLoad(f, b, t, A2, B2, p) == [f EXCEPT ![b].sA = A2, ![b].sB = B2, ![b].pc[t] = p]
PutSums(f, b, t, x, y, z) == [f EXCEPT ![b].tmp[t] = x, ![b].kIdx[t] = y, ![b].pc[t] = z]
PutPass(f, b, x, y, z) == [f EXCEPT ![b].pc = x, ![b].slide = y, ![b].kIdx = z]
PutEnd(f, b, t, z) == [f EXCEPT ![b].pc[t] = z]

\* Updates of the fields of one block, one after the other.
LEMMA UpdateLoad ==
    ASSUME NEW f, NEW b \in DOMAIN f, IsMap(f), NEW t, NEW A2, NEW B2, NEW p,
           NEW A1, NEW B1, NEW P, NEW S, NEW K, NEW T, f[b] = BlockState(A1, B1, P, S, K, T)
    PROVE  PutLoad(f, b, t, A2, B2, p)
             = Put(f, b, BlockState(A2, B2, [P EXCEPT ![t] = p], S, K, T))
<1>1. PICK g : g = [f EXCEPT ![b].sA = A2]
  OBVIOUS
<1>2. PICK h : h = [g EXCEPT ![b].sB = B2]
  OBVIOUS
<1>3. g[b] = BlockState(A2, B1, P, S, K, T) /\ DOMAIN g = DOMAIN f
  <2>1. g[b] = [f[b] EXCEPT !.sA = A2] /\ DOMAIN g = DOMAIN f
    BY <1>1
  <2> QED BY <2>1 DEF BlockState
<1>4. h[b] = BlockState(A2, B2, P, S, K, T) /\ DOMAIN h = DOMAIN f
  <2>1. h[b] = [g[b] EXCEPT !.sB = B2] /\ DOMAIN h = DOMAIN f
    BY <1>2, <1>3
  <2> QED BY <1>3, <2>1 DEF BlockState
<1>5. [h EXCEPT ![b].pc[t] = p][b] = BlockState(A2, B2, [P EXCEPT ![t] = p], S, K, T)
  <2>1. [h EXCEPT ![b].pc[t] = p][b] = [h[b] EXCEPT !.pc[t] = p]
    BY <1>4
  <2> QED BY <1>4, <2>1 DEF BlockState
<1>6. \A c \in DOMAIN f : c # b => [h EXCEPT ![b].pc[t] = p][c] = f[c]
  BY <1>1, <1>2
<1>7. [h EXCEPT ![b].pc[t] = p] = [f EXCEPT ![b] = BlockState(A2, B2, [P EXCEPT ![t] = p], S, K, T)]
  BY <1>4, <1>5, <1>6 DEF IsMap
<1> QED BY <1>1, <1>2, <1>7 DEF IsMap, Put, PutLoad

LEMMA UpdateAccumulate ==
    ASSUME NEW f, NEW b \in DOMAIN f, IsMap(f), NEW t, NEW x, NEW y, NEW z,
           NEW A1, NEW B1, NEW P, NEW S, NEW K, NEW T, f[b] = BlockState(A1, B1, P, S, K, T)
    PROVE  PutSums(f, b, t, x, y, z)
             = Put(f, b, BlockState(A1, B1, [P EXCEPT ![t] = z], S, [K EXCEPT ![t] = y], [T EXCEPT ![t] = x]))
<1>1. PICK g : g = [f EXCEPT ![b].tmp[t] = x]
  OBVIOUS
<1>2. PICK h : h = [g EXCEPT ![b].kIdx[t] = y]
  OBVIOUS
<1>3. g[b] = BlockState(A1, B1, P, S, K, [T EXCEPT ![t] = x]) /\ DOMAIN g = DOMAIN f
  <2>1. g[b] = [f[b] EXCEPT !.tmp[t] = x] /\ DOMAIN g = DOMAIN f
    BY <1>1
  <2> QED BY <2>1 DEF BlockState
<1>4. h[b] = BlockState(A1, B1, P, S, [K EXCEPT ![t] = y], [T EXCEPT ![t] = x]) /\ DOMAIN h = DOMAIN f
  <2>1. h[b] = [g[b] EXCEPT !.kIdx[t] = y] /\ DOMAIN h = DOMAIN f
    BY <1>2, <1>3
  <2> QED BY <1>3, <2>1 DEF BlockState
<1> DEFINE R == BlockState(A1, B1, [P EXCEPT ![t] = z], S, [K EXCEPT ![t] = y], [T EXCEPT ![t] = x])
<1>5. [h EXCEPT ![b].pc[t] = z][b] = R
  <2>1. [h EXCEPT ![b].pc[t] = z][b] = [h[b] EXCEPT !.pc[t] = z]
    BY <1>4
  <2> QED BY <1>4, <2>1 DEF BlockState
<1>6. \A c \in DOMAIN f : c # b => [h EXCEPT ![b].pc[t] = z][c] = f[c]
  BY <1>1, <1>2
<1> HIDE DEF R
<1>7. [h EXCEPT ![b].pc[t] = z] = [f EXCEPT ![b] = R]
  BY <1>4, <1>5, <1>6 DEF IsMap
<1> QED BY <1>1, <1>2, <1>7 DEF R, IsMap, Put, PutSums

LEMMA UpdatePass ==
    ASSUME NEW f, NEW b \in DOMAIN f, IsMap(f), NEW x, NEW y, NEW z,
           NEW A1, NEW B1, NEW P, NEW S, NEW K, NEW T, f[b] = BlockState(A1, B1, P, S, K, T)
    PROVE  PutPass(f, b, x, y, z)
             = Put(f, b, BlockState(A1, B1, x, y, z, T))
<1>1. PICK g : g = [f EXCEPT ![b].pc = x]
  OBVIOUS
<1>2. PICK h : h = [g EXCEPT ![b].slide = y]
  OBVIOUS
<1>3. g[b] = BlockState(A1, B1, x, S, K, T) /\ DOMAIN g = DOMAIN f
  <2>1. g[b] = [f[b] EXCEPT !.pc = x] /\ DOMAIN g = DOMAIN f
    BY <1>1
  <2> QED BY <2>1 DEF BlockState
<1>4. h[b] = BlockState(A1, B1, x, y, K, T) /\ DOMAIN h = DOMAIN f
  <2>1. h[b] = [g[b] EXCEPT !.slide = y] /\ DOMAIN h = DOMAIN f
    BY <1>2, <1>3
  <2> QED BY <1>3, <2>1 DEF BlockState
<1>5. [h EXCEPT ![b].kIdx = z][b] = BlockState(A1, B1, x, y, z, T)
  <2>1. [h EXCEPT ![b].kIdx = z][b] = [h[b] EXCEPT !.kIdx = z]
    BY <1>4
  <2> QED BY <1>4, <2>1 DEF BlockState
<1>6. \A c \in DOMAIN f : c # b => [h EXCEPT ![b].kIdx = z][c] = f[c]
  BY <1>1, <1>2
<1>7. [h EXCEPT ![b].kIdx = z] = [f EXCEPT ![b] = BlockState(A1, B1, x, y, z, T)]
  BY <1>4, <1>5, <1>6 DEF IsMap
<1> QED BY <1>1, <1>2, <1>7 DEF IsMap, Put, PutPass

LEMMA UpdateEnd ==
    ASSUME NEW f, NEW b \in DOMAIN f, IsMap(f), NEW t, NEW z,
           NEW A1, NEW B1, NEW P, NEW S, NEW K, NEW T, f[b] = BlockState(A1, B1, P, S, K, T)
    PROVE  PutEnd(f, b, t, z) = Put(f, b, BlockState(A1, B1, [P EXCEPT ![t] = z], S, K, T))
<1>1. [f[b] EXCEPT !.pc[t] = z] = BlockState(A1, B1, [P EXCEPT ![t] = z], S, K, T)
  BY DEF BlockState
<1>2. [f EXCEPT ![b].pc[t] = z] = [f EXCEPT ![b] = [f[b] EXCEPT !.pc[t] = z]]
  OBVIOUS
<1> QED BY <1>1, <1>2 DEF IsMap, Put, PutEnd

-----------------------------------------------------------------------------
(* Steps of a thread.                                                      *)

\* What is said of a block depends on no other variable than op and shape.
LEMMA BlockInvFrame ==
    ASSUME UNCHANGED <<op, shape>>, NEW b, NEW r
    PROVE  BlockInv(b, r)' <=> BlockInv(b, r)
BY DEF BlockInv, Registers, ThreadsOf, InStep, Counters, Loaded, Sums, CellOfA, CellOfB,
       AElement, BElement, A, B, m, n, k, PartialDot

LEMMA DueFrame ==
    ASSUME UNCHANGED <<op, shape>>
    PROVE  /\ \A b, t, a : Due(b, t, a)' <=> Due(b, t, a)
           /\ \A a : Expected(a)' = Expected(a)
           /\ ThreadsOf' = ThreadsOf /\ m' = m /\ n' = n
BY DEF Due, ResIdx, Expected, ThreadsOf, A, B, m, n, k

\* A step of block b to the state R that writes nothing but elements that are
\* due from a thread, and writes them right.
LEMMA BlockStep ==
    ASSUME IInv, NEW b \in DOMAIN run, NEW R, run' = [run EXCEPT ![b] = R],
           UNCHANGED <<op, shape, todo, fault>>, BlockInv(b, R),
           C' \in [0 .. m * n - 1 -> Int \cup {NaN}],
           \A a \in 0 .. m * n - 1 :
              /\ C'[a] = C[a] \/ C'[a] = Expected(a)
              /\ op = "tiled" => C'[a] \in Int,
           \A t \in ThreadsOf : R.pc[t] = "ended" =>
              \/ run[b].pc[t] = "ended"
              \/ \A a \in 0 .. m * n - 1 : Due(b, t, a) => C'[a] = Expected(a)
    PROVE  IInv'
<1>1. /\ DOMAIN run' = DOMAIN run /\ run'[b] = R
      /\ \A c \in DOMAIN run : c # b => run'[c] = run[c]
      /\ run' = [c \in DOMAIN run' |-> run'[c]]
  OBVIOUS
<1>2. Shape'
  BY <1>1, DueFrame DEF IInv, Shape
<1>3. ASSUME NEW c \in DOMAIN run' PROVE BlockInv(c, run[c])'
  <2>1. PICK r : r = run'[c]
    OBVIOUS
  <2>2. BlockInv(c, r)
    BY <1>1, <2>1 DEF IInv
  <2>3. BlockInv(c, r)'
    BY <2>2, BlockInvFrame
  <2> QED BY <2>1, <2>3
<1>4. Progress'
  <2>1. op' = "tiled" => \A a \in 0 .. m' * n' - 1 : C'[a] \in Int
    BY DueFrame
  <2>2. ASSUME op # "none", NEW a \in 0 .. m * n - 1
        PROVE  \/ C'[a] = Expected(a)
               \/ \E c \in todo, t \in ThreadsOf : Due(c, t, a)
               \/ \E c \in DOMAIN run', t \in ThreadsOf : Due(c, t, a) /\ run'[c].pc[t] # "ended"
    <3>1. CASE C[a] = Expected(a)
      BY <3>1
    <3>2. CASE \E c \in todo, t \in ThreadsOf : Due(c, t, a)
      BY <3>2
    <3>3. ASSUME NEW c \in DOMAIN run, NEW t \in ThreadsOf, Due(c, t, a), run[c].pc[t] # "ended"
          PROVE  \/ C'[a] = Expected(a)
                 \/ \E d \in DOMAIN run', u \in ThreadsOf : Due(d, u, a) /\ run'[d].pc[u] # "ended"
      <4>1. CASE c # b
        BY <1>1, <3>3, <4>1
      <4>2. CASE c = b
        BY <1>1, <3>3, <4>2
      <4> QED BY <4>1, <4>2
    <3> QED BY <2>2, <3>1, <3>2, <3>3 DEF IInv, Progress
  <2> QED BY <2>1, <2>2, DueFrame DEF Progress
<1> QED BY <1>2, <1>3, <1>4 DEF IInv

\* A step that writes no element and ends no thread.
LEMMA QuietStep ==
    ASSUME IInv, NEW b \in DOMAIN run, NEW R, run' = [run EXCEPT ![b] = R],
           UNCHANGED <<op, shape, todo, C, fault>>, BlockInv(b, R),
           \A t \in ThreadsOf : R.pc[t] = "ended" => run[b].pc[t] = "ended"
    PROVE  IInv'
<1>1. C' \in [0 .. m * n - 1 -> Int \cup {NaN}]
  BY DEF IInv, Shape
<1>2. \A a \in 0 .. m * n - 1 :
          /\ C'[a] = C[a] \/ C'[a] = Expected(a)
          /\ op = "tiled" => C'[a] \in Int
  BY DEF IInv, Progress
<1>3. \A t \in ThreadsOf : R.pc[t] = "ended" =>
          \/ run[b].pc[t] = "ended"
          \/ \A a \in 0 .. m * n - 1 : Due(b, t, a) => C'[a] = Expected(a)
  OBVIOUS
<1> QED BY <1>1, <1>2, <1>3, BlockStep, Zenon

LEMMA LoadTilesIInv ==
    ASSUME IInv, NEW b \in DOMAIN run, NEW t \in ThreadsOf, LoadTiles(b, t)
    PROVE  IInv'
<1> DEFINE r == run[b]
           Aidx_x == t[1] * kT + b[1] * kChK * kT
           Aidx_y == r.slide[t] + t[2]
           Bidx_x == t[1] + r.slide[t]
           Bidx_y == t[2] * kT + b[2] * kChK * kT
           i(c, first) == (c % kChD) - first * kT
           sA == [c \in Cells |-> IF c \div kChD = t[2] /\ i(c, t[1]) \in 0 .. kT - 1
                                  THEN AElement(Aidx_x + i(c, t[1]), Aidx_y) ELSE r.sA[c]]
           sB == [c \in Cells |-> IF c \div kChD = t[1] /\ i(c, t[2]) \in 0 .. kT - 1
                                  THEN BElement(Bidx_x, Bidx_y + i(c, t[2])) ELSE r.sB[c]]
           R == BlockState(sA, sB, [r.pc EXCEPT ![t] = "sync_loaded"], r.slide, r.kIdx, r.tmp)
<1>1. /\ BlockInv(b, r) /\ b \in Nat \X Nat /\ fault = FALSE /\ run = [c \in DOMAIN run |-> run[c]]
      /\ m \in Nat /\ n \in Nat /\ k \in Nat
  BY Extents DEF IInv, Shape
<1>2. op = "tiled" /\ t \in Thread /\ r.pc[t] = "load"
  BY <1>1 DEF BlockInv, ThreadsOf, LoadTiles
<1>3. r \in Registers /\ InStep(r) /\ Counters(r) /\ Loaded(b, r) /\ Sums(b, r) /\ ThreadsOf = Thread
  BY <1>1, <1>2 DEF BlockInv, ThreadsOf
<1>4. run' = [run EXCEPT ![b] = R]
  <2>1. run' = [run EXCEPT ![b].sA = sA, ![b].sB = sB, ![b].pc[t] = "sync_loaded"]
    BY DEF LoadTiles
  <2> HIDE DEF sA, sB
  <2>2. r = BlockState(r.sA, r.sB, r.pc, r.slide, r.kIdx, r.tmp)
    BY <1>3 DEF Registers, BlockState
  <2>3. PutLoad(run, b, t, sA, sB, "sync_loaded") = Put(run, b, R)
    BY <1>1, <2>2, UpdateLoad DEF IsMap
  <2> HIDE DEF R
  <2> QED BY <2>1, <2>3 DEF PutLoad, Put
<1>5. /\ R.sA = sA /\ R.sB = sB /\ R.pc = [r.pc EXCEPT ![t] = "sync_loaded"]
      /\ R.slide = r.slide /\ R.kIdx = r.kIdx /\ R.tmp = r.tmp
      /\ R = BlockState(R.sA, R.sB, R.pc, R.slide, R.kIdx, R.tmp)
  <2> HIDE DEF sA, sB
  <2> QED BY DEF BlockState
<1>6. t[1] \in 0 .. kChK - 1 /\ t[2] \in 0 .. kChK - 1 /\ r.slide[t] \in Nat
  BY <1>2, <1>3 DEF Thread, Registers
<1>7. ASSUME NEW c \in CellsOfA(t) PROVE sA[c] = CellOfA(b, r.slide[t], c) /\ sA[c] \in Int
  <2>1. c \in Cells /\ c \div kChD = t[2] /\ i(c, t[1]) \in 0 .. kT - 1
    BY DEF CellsOfA
  <2>2. c % kChD \in Nat /\ b[1] * kChD \in Nat /\ t[1] * kT \in Nat /\ b[1] * kChK * kT = b[1] * kChD
    BY <1>1, <1>6, <2>1, RowOfCell, Parameters, BlockSide
  <2>3. Aidx_x + i(c, t[1]) = b[1] * kChD + (c % kChD) /\ Aidx_x + i(c, t[1]) \in Nat
    BY <2>2
  <2>4. Aidx_y = r.slide[t] + (c \div kChD) /\ Aidx_y \in Nat
    BY <1>6, <2>1
  <2>5. sA[c] = AElement(Aidx_x + i(c, t[1]), Aidx_y)
    BY <2>1
  <2> HIDE DEF Aidx_x, Aidx_y, i, sA, r
  <2>6. AElement(Aidx_x + i(c, t[1]), Aidx_y) \in Int
    BY <1>1, <2>3, <2>4, Elements
  <2> QED BY <2>3, <2>4, <2>5, <2>6 DEF CellOfA
<1>8. ASSUME NEW c \in CellsOfB(t) PROVE sB[c] = CellOfB(b, r.slide[t], c) /\ sB[c] \in Int
  <2>1. c \in Cells /\ c \div kChD = t[1] /\ i(c, t[2]) \in 0 .. kT - 1
    BY DEF CellsOfB
  <2>2. c % kChD \in Nat /\ b[2] * kChD \in Nat /\ t[2] * kT \in Nat /\ b[2] * kChK * kT = b[2] * kChD
    BY <1>1, <1>6, <2>1, RowOfCell, Parameters, BlockSide
  <2>3. Bidx_y + i(c, t[2]) = b[2] * kChD + (c % kChD) /\ Bidx_y + i(c, t[2]) \in Nat
    BY <2>2
  <2>4. Bidx_x = r.slide[t] + (c \div kChD) /\ Bidx_x \in Nat
    BY <1>6, <2>1
  <2>5. sB[c] = BElement(Bidx_x, Bidx_y + i(c, t[2]))
    BY <2>1
  <2> HIDE DEF Bidx_x, Bidx_y, i, sB, r
  <2>6. BElement(Bidx_x, Bidx_y + i(c, t[2])) \in Int
    BY <1>1, <2>3, <2>4, Elements
  <2> QED BY <2>3, <2>4, <2>5, <2>6 DEF CellOfB
<1>9. /\ \A c \in Cells : c \notin CellsOfA(t) => sA[c] = r.sA[c]
      /\ \A c \in Cells : c \notin CellsOfB(t) => sB[c] = r.sB[c]
  BY DEF CellsOfA, CellsOfB
<1> HIDE DEF sA, sB, R
<1>10. R \in Registers
  <2>1. sA \in [Cells -> Int \cup {NaN}]
    <3>1. ASSUME NEW c \in Cells PROVE sA[c] \in Int \cup {NaN}
      BY <1>3, <1>7, <1>9 DEF Registers
    <3> QED BY <3>1 DEF sA
  <2>2. sB \in [Cells -> Int \cup {NaN}]
    <3>1. ASSUME NEW c \in Cells PROVE sB[c] \in Int \cup {NaN}
      BY <1>3, <1>8, <1>9 DEF Registers
    <3> QED BY <3>1 DEF sB
  <2>3. /\ R.pc \in [ThreadsOf -> Loading \cup Multiplying \cup Storing \cup {"plain"}]
        /\ R.slide \in [ThreadsOf -> Nat] /\ R.kIdx \in [ThreadsOf -> Nat]
        /\ R.tmp \in [ThreadsOf -> [Part -> Int \cup {NaN}]]
    <3> HIDE DEF r
    <3> QED BY <1>3, <1>5 DEF Registers, Loading
  <2> QED BY <1>5, <2>1, <2>2, <2>3 DEF Registers, BlockState
<1>11. InStep(R)
  BY <1>2, <1>3, <1>5 DEF InStep, Registers, Loading, Multiplying, Storing
<1>12. Counters(R)
  BY <1>2, <1>3, <1>5 DEF Counters, Registers, Loading, Multiplying, Storing
<1>13. Loaded(b, R)
  <2> SUFFICES ASSUME NEW u \in Thread, R.pc[u] \in Multiplying \cup {"sync_loaded"}
               PROVE  /\ \A c \in CellsOfA(u) : sA[c] = CellOfA(b, r.slide[u], c)
                      /\ \A c \in CellsOfB(u) : sB[c] = CellOfB(b, r.slide[u], c)
    BY <1>5 DEF Loaded
  <2> HIDE DEF r
  <2>1. r.slide[u] = r.slide[t] /\ (u = t \/ r.pc[u] \in Multiplying \cup {"sync_loaded"})
    BY <1>2, <1>3, <1>5 DEF InStep, Registers
  <2>2. ASSUME NEW c \in CellsOfA(u) PROVE sA[c] = CellOfA(b, r.slide[u], c)
    <3>1. CASE c \in CellsOfA(t)
      BY <1>7, <2>1, <3>1
    <3>2. CASE c \notin CellsOfA(t)
      <4>1. u # t /\ c \in Cells
        BY <2>2, <3>2 DEF CellsOfA
      <4> QED BY <1>3, <1>9, <2>1, <2>2, <3>2, <4>1 DEF Loaded
    <3> QED BY <3>1, <3>2
  <2>3. ASSUME NEW c \in CellsOfB(u) PROVE sB[c] = CellOfB(b, r.slide[u], c)
    <3>1. CASE c \in CellsOfB(t)
      BY <1>8, <2>1, <3>1
    <3>2. CASE c \notin CellsOfB(t)
      <4>1. u # t /\ c \in Cells
        BY <2>3, <3>2 DEF CellsOfB
      <4> QED BY <1>3, <1>9, <2>1, <2>3, <3>2, <4>1 DEF Loaded
    <3> QED BY <3>1, <3>2
  <2> QED BY <2>2, <2>3
<1>14. Sums(b, R)
  BY <1>3, <1>5 DEF Sums
<1>15. fault' = FALSE
  <2> SUFFICES ASSUME NEW j \in 0 .. kT - 1, j % Packet = 0
               PROVE  ~ Misaligned(Bidx_x, Bidx_y + j)
    BY <1>1 DEF LoadTiles
  <2>1. (Bidx_y + j) % Packet = 0 /\ Bidx_y + j \in Nat
    <3>1. t[2] \in Nat /\ b[2] \in Nat /\ j \in Nat
      BY <1>1, <1>6
    <3> QED BY <3>1, PartAligned, Zenon
  <2>2. Bidx_x \in Nat
    BY <1>6
  <2> HIDE DEF Bidx_x, Bidx_y
  <2> QED BY <1>1, <2>1, <2>2, Aligned
<1>16. \A u \in ThreadsOf : R.pc[u] = "ended" => r.pc[u] = "ended"
  BY <1>2, <1>3, <1>5 DEF Registers
<1>17. BlockInv(b, R)
  BY <1>2, <1>10, <1>11, <1>12, <1>13, <1>14 DEF BlockInv
<1>18. UNCHANGED <<op, shape, todo, C, fault>>
  BY <1>1, <1>15 DEF LoadTiles
<1> HIDE DEF R
<1> QED BY <1>1, <1>4, <1>16, <1>17, <1>18, QuietStep DEF r

LEMMA AccumulateIInv ==
    ASSUME IInv, NEW b \in DOMAIN run, NEW t \in ThreadsOf, Accumulate(b, t)
    PROVE  IInv'
<1> DEFINE r == run[b]
           row == r.kIdx[t]
           sA_tmp == [i \in 0 .. kT - 1 |-> r.sA[row * kChD + t[1] * kT + i]]
           sB_tmp == [j \in 0 .. kT - 1 |-> r.sB[row * kChD + t[2] * kT + j]]
           sums == [p \in Part |-> Plus(r.tmp[t][p], Times(sA_tmp[p[1]], sB_tmp[p[2]]))]
           next == IF row + 1 < kChK THEN r.pc[t] ELSE "sync_read"
           R == BlockState(r.sA, r.sB, [r.pc EXCEPT ![t] = next], r.slide,
                           [r.kIdx EXCEPT ![t] = row + 1], [r.tmp EXCEPT ![t] = sums])
<1>1. /\ BlockInv(b, r) /\ b \in Nat \X Nat /\ fault = FALSE /\ IsMap(run)
      /\ m \in Nat /\ n \in Nat /\ k \in Nat
  BY Extents DEF IInv, Shape, IsMap
<1>2. op = "tiled" /\ t \in Thread /\ r.pc[t] = "multiply"
  BY <1>1 DEF BlockInv, ThreadsOf, Accumulate
<1>3. r \in Registers /\ InStep(r) /\ Counters(r) /\ Loaded(b, r) /\ Sums(b, r) /\ ThreadsOf = Thread
  BY <1>1, <1>2 DEF BlockInv, ThreadsOf
<1>4. run' = [run EXCEPT ![b] = R]
  <2>1. run' = [run EXCEPT ![b].tmp[t] = sums, ![b].kIdx[t] = row + 1, ![b].pc[t] = next]
    BY DEF Accumulate
  <2> HIDE DEF sums, next
  <2>2. r = BlockState(r.sA, r.sB, r.pc, r.slide, r.kIdx, r.tmp)
    BY <1>3 DEF Registers, BlockState
  <2>3. PutSums(run, b, t, sums, row + 1, next) = Put(run, b, R)
    BY <1>1, <2>2, UpdateAccumulate
  <2> HIDE DEF R
  <2> QED BY <2>1, <2>3 DEF PutSums, Put
<1> HIDE DEF r
<1>5. /\ R.sA = r.sA /\ R.sB = r.sB /\ R.pc = [r.pc EXCEPT ![t] = next] /\ R.slide = r.slide
      /\ R.kIdx = [r.kIdx EXCEPT ![t] = row + 1] /\ R.tmp = [r.tmp EXCEPT ![t] = sums]
      /\ R = BlockState(R.sA, R.sB, R.pc, R.slide, R.kIdx, R.tmp)
  <2> HIDE DEF next, sums, row
  <2> QED BY DEF BlockState
<1>6. r.slide[t] \in Nat /\ row \in 0 .. kChK - 1
  BY <1>2, <1>3, Parameters DEF Registers, Counters
<1>7. next \in {"multiply", "sync_read"} /\ (next = "multiply" => row + 1 < kChK)
      /\ (next = "sync_read" => row + 1 = kChK)
  <2> HIDE DEF row
  <2> QED BY <1>2, <1>6, Parameters
<1>8. ASSUME NEW p \in Part
      PROVE  sums[p] = PartialDot(ResIdx(b, t, p)[1], ResIdx(b, t, p)[2], r.slide[t] + (row + 1))
             /\ sums[p] \in Int
  <2> DEFINE x == b[1] * kChD + t[1] * kT + p[1]
             y == b[2] * kChD + t[2] * kT + p[2]
             inner == r.slide[t] + row
  <2>1. p[1] \in 0 .. kT - 1 /\ p[2] \in 0 .. kT - 1
    BY DEF Part
  <2>2. t[1] * kT \in Nat /\ t[2] * kT \in Nat /\ b[1] * kChD \in Nat /\ b[2] * kChD \in Nat
    <3>1. t[1] \in Nat /\ t[2] \in Nat /\ b[1] \in Nat /\ b[2] \in Nat
      BY <1>1, <1>2 DEF Thread
    <3>2. kT \in Nat /\ kChD \in Nat
      BY Parameters
    <3>3. \A i, j \in Nat : i * j \in Nat
      OBVIOUS
    <3> QED BY <3>1, <3>2, <3>3
  <2>3. x \in Nat /\ y \in Nat /\ inner \in Nat
    BY <1>6, <2>1, <2>2
  <2>4. sA_tmp[p[1]] = AElement(x, inner)
    <3>1. sA_tmp[p[1]] = r.sA[row * kChD + t[1] * kT + p[1]]
      BY <2>1
    <3> HIDE DEF row
    <3> QED BY <1>1, <1>2, <1>3, <1>6, <2>1, <3>1, TileRow
  <2>5. sB_tmp[p[2]] = BElement(inner, y)
    <3>1. sB_tmp[p[2]] = r.sB[row * kChD + t[2] * kT + p[2]]
      BY <2>1
    <3> HIDE DEF row
    <3> QED BY <1>1, <1>2, <1>3, <1>6, <2>1, <3>1, TileRow
  <2>6. r.tmp[t][p] = PartialDot(x, y, inner)
    BY <1>2, <1>3 DEF Sums, ResIdx
  <2>7. sums[p] = Plus(PartialDot(x, y, inner), Times(AElement(x, inner), BElement(inner, y)))
    BY <2>4, <2>5, <2>6
  <2> HIDE DEF sums, x, y, inner, row
  <2>8. /\ PartialDot(x, y, inner) \in Int /\ AElement(x, inner) \in Int /\ BElement(inner, y) \in Int
        /\ PartialDot(x, y, inner + 1) = PartialDot(x, y, inner) + AElement(x, inner) * BElement(inner, y)
    BY <1>1, <2>3, PartialDotNext, Elements
  <2>9. sums[p] = PartialDot(x, y, inner + 1) /\ sums[p] \in Int
    <3>1. ASSUME NEW u \in Int, NEW v \in Int PROVE Times(u, v) = u * v /\ Plus(u, v) = u + v /\ u * v \in Int
      BY KernelAssumption DEF Times, Plus
    <3>2. PICK w \in Int : w = AElement(x, inner) * BElement(inner, y)
      BY <2>8, <3>1
    <3>3. Times(AElement(x, inner), BElement(inner, y)) = w
      BY <2>8, <3>1, <3>2
    <3>4. sums[p] = PartialDot(x, y, inner) + w
      BY <2>7, <2>8, <3>1, <3>3
    <3> QED BY <2>8, <3>2, <3>4
  <2>10. inner + 1 = r.slide[t] + (row + 1)
    BY <1>6 DEF inner
  <2>11. ResIdx(b, t, p)[1] = x /\ ResIdx(b, t, p)[2] = y
    BY DEF ResIdx, x, y
  <2> QED BY <2>9, <2>10, <2>11
<1>9. sums \in [Part -> Int \cup {NaN}]
  BY <1>8
<1> HIDE DEF sums, next, R
<1>10. R \in Registers
  <2>1. R.pc \in [ThreadsOf -> Loading \cup Multiplying \cup Storing \cup {"plain"}]
    BY <1>2, <1>3, <1>5, <1>7 DEF Registers, Multiplying
  <2>2. R.kIdx \in [ThreadsOf -> Nat] /\ R.tmp \in [ThreadsOf -> [Part -> Int \cup {NaN}]]
    BY <1>2, <1>3, <1>5, <1>6, <1>9 DEF Registers
  <2>3. /\ R.sA \in [Cells -> Int \cup {NaN}] /\ R.sB \in [Cells -> Int \cup {NaN}]
        /\ R.slide \in [ThreadsOf -> Nat]
    BY <1>3, <1>5 DEF Registers
  <2> QED BY <1>5, <2>1, <2>2, <2>3 DEF Registers, BlockState
<1>11. InStep(R)
  BY <1>2, <1>3, <1>5, <1>7 DEF InStep, Registers, Loading, Multiplying, Storing
<1>12. Counters(R)
  <2> SUFFICES ASSUME NEW u \in Thread
               PROVE  /\ R.pc[u] \in Loading \cup Multiplying \cup Storing
                      /\ R.pc[u] \in Storing <=> R.slide[u] >= k
                      /\ R.slide[u] < k + kChK
                      /\ R.pc[u] = "multiply" => R.kIdx[u] < kChK
                      /\ R.pc[u] = "sync_read" => R.kIdx[u] = kChK
                      /\ R.pc[u] \notin Multiplying => R.kIdx[u] = 0
    BY DEF Counters
  <2>1. CASE u = t
    <3>1. R.pc[u] = next /\ R.kIdx[u] = row + 1 /\ R.slide[u] = r.slide[t]
      BY <1>2, <1>3, <1>5, <2>1 DEF Registers
    <3>2. r.slide[t] < k + kChK /\ ~ (r.slide[t] >= k)
      BY <1>2, <1>3 DEF Counters, Storing
    <3> HIDE DEF row
    <3> QED BY <1>6, <1>7, <3>1, <3>2 DEF Loading, Multiplying, Storing
  <2>2. CASE u # t
    <3>1. R.pc[u] = r.pc[u] /\ R.kIdx[u] = r.kIdx[u] /\ R.slide[u] = r.slide[u]
      BY <1>3, <1>5, <2>2 DEF Registers
    <3> QED BY <1>3, <3>1 DEF Counters
  <2> QED BY <2>1, <2>2
<1>13. Loaded(b, R)
  BY <1>2, <1>3, <1>5, <1>7 DEF Loaded, Registers, Multiplying
<1>14. Sums(b, R)
  <2> SUFFICES ASSUME NEW u \in Thread, NEW p \in Part
               PROVE  R.tmp[u][p] = PartialDot(ResIdx(b, u, p)[1], ResIdx(b, u, p)[2],
                                               R.slide[u] + R.kIdx[u])
    BY DEF Sums
  <2>1. CASE u = t
    <3>1. R.tmp[u] = sums /\ R.kIdx[u] = row + 1 /\ R.slide[u] = r.slide[t]
      BY <1>2, <1>3, <1>5, <2>1 DEF Registers
    <3> HIDE DEF row
    <3> QED BY <1>8, <2>1, <3>1
  <2>2. CASE u # t
    <3>1. R.tmp[u] = r.tmp[u] /\ R.kIdx[u] = r.kIdx[u] /\ R.slide[u] = r.slide[u]
      BY <1>3, <1>5, <2>2 DEF Registers
    <3> QED BY <1>3, <3>1 DEF Sums
  <2> QED BY <2>1, <2>2
<1>16. \A u \in ThreadsOf : R.pc[u] = "ended" => r.pc[u] = "ended"
  BY <1>2, <1>3, <1>5, <1>7 DEF Registers
<1>17. BlockInv(b, R)
  BY <1>2, <1>10, <1>11, <1>12, <1>13, <1>14 DEF BlockInv
<1>18. UNCHANGED <<op, shape, todo, C, fault>>
  BY DEF Accumulate
<1> HIDE DEF R
<1> QED BY <1>1, <1>4, <1>16, <1>17, <1>18, QuietStep DEF r

LEMMA SyncIInv ==
    ASSUME IInv, NEW b \in DOMAIN run, Sync(b)
    PROVE  IInv'
<1> DEFINE r == run[b]
           pc == [t \in Thread |-> AfterSync(b, t)]
           slide == [t \in Thread |->
                        IF r.pc[t] = "sync_read" THEN r.slide[t] + kChK ELSE r.slide[t]]
           kIdx == [t \in Thread |-> 0]
           R == BlockState(r.sA, r.sB, pc, slide, kIdx, r.tmp)
<1>1. /\ BlockInv(b, r) /\ b \in Nat \X Nat /\ fault = FALSE /\ IsMap(run)
      /\ m \in Nat /\ n \in Nat /\ k \in Nat
  BY Extents DEF IInv, Shape, IsMap
<1>2. op = "tiled" /\ \A t \in Thread : r.pc[t] \in {"sync_loaded", "sync_read"}
  BY DEF Sync, Pass
<1>3. r \in Registers /\ InStep(r) /\ Counters(r) /\ Loaded(b, r) /\ Sums(b, r) /\ ThreadsOf = Thread
  BY <1>1, <1>2 DEF BlockInv, ThreadsOf
<1>4. run' = [run EXCEPT ![b] = R]
  <2>1. run' = [run EXCEPT ![b].pc = pc, ![b].slide = slide, ![b].kIdx = kIdx]
    BY DEF Sync, Pass
  <2> HIDE DEF pc, slide, kIdx
  <2>2. r = BlockState(r.sA, r.sB, r.pc, r.slide, r.kIdx, r.tmp)
    BY <1>3 DEF Registers, BlockState
  <2>3. PutPass(run, b, pc, slide, kIdx) = Put(run, b, R)
    BY <1>1, <2>2, UpdatePass
  <2> HIDE DEF R
  <2> QED BY <2>1, <2>3 DEF PutPass, Put
<1>12. UNCHANGED <<op, shape, todo, C, fault>>
  BY DEF Sync, Pass
<1>5. \A t \in Thread : AfterSync(b, t) = IF r.pc[t] = "sync_loaded" THEN "multiply"
                                          ELSE IF r.slide[t] + kChK < k THEN "load" ELSE "store"
  BY DEF AfterSync
<1> HIDE DEF r
<1>6. /\ R.sA = r.sA /\ R.sB = r.sB /\ R.pc = pc /\ R.slide = slide /\ R.kIdx = kIdx /\ R.tmp = r.tmp
      /\ R = BlockState(R.sA, R.sB, R.pc, R.slide, R.kIdx, R.tmp)
  <2> HIDE DEF pc, slide, kIdx
  <2> QED BY DEF BlockState
<1> HIDE DEF R
<1>7. \A t \in Thread : r.slide[t] \in Nat /\ r.kIdx[t] \in Nat
  BY <1>3 DEF Registers
<1>8. R \in Registers
  <2>1. pc \in [ThreadsOf -> Loading \cup Multiplying \cup Storing \cup {"plain"}]
    BY <1>3, <1>5 DEF Loading, Multiplying, Storing
  <2>2. slide \in [ThreadsOf -> Nat] /\ kIdx \in [ThreadsOf -> Nat]
    BY <1>3, <1>7, Parameters
  <2> HIDE DEF pc, slide, kIdx
  <2> QED BY <1>3, <1>6, <2>1, <2>2 DEF Registers, BlockState
<1>9. ASSUME \A t \in Thread : r.pc[t] = "sync_loaded"
      PROVE  BlockInv(b, R) /\ \A t \in ThreadsOf : R.pc[t] = "ended" => r.pc[t] = "ended"
  <2>1. \A t \in Thread : R.pc[t] = "multiply" /\ R.slide[t] = r.slide[t] /\ R.kIdx[t] = 0
    BY <1>5, <1>6, <1>9
  <2>2. InStep(R)
    BY <1>3, <2>1 DEF InStep, Loading, Multiplying, Storing
  <2>3. Counters(R)
    BY <1>3, <1>7, <1>9, <2>1, Parameters DEF Counters, Loading, Multiplying, Storing
  <2>4. Loaded(b, R)
    BY <1>3, <1>6, <1>9, <2>1 DEF Loaded
  <2>5. Sums(b, R)
    <3>1. \A t \in Thread : r.kIdx[t] = 0
      BY <1>3, <1>9 DEF Counters, Multiplying
    <3> QED BY <1>3, <1>6, <2>1, <3>1 DEF Sums
  <2>6. \A t \in ThreadsOf : R.pc[t] = "ended" => r.pc[t] = "ended"
    BY <1>3, <2>1
  <2>7. BlockInv(b, R)
    BY <1>2, <1>8, <2>2, <2>3, <2>4, <2>5 DEF BlockInv
  <2> QED BY <2>6, <2>7
<1>10. ASSUME \A t \in Thread : r.pc[t] = "sync_read"
       PROVE  BlockInv(b, R) /\ \A t \in ThreadsOf : R.pc[t] = "ended" => r.pc[t] = "ended"
  <2>1. \A t \in Thread : /\ R.pc[t] = IF r.slide[t] + kChK < k THEN "load" ELSE "store"
                          /\ R.slide[t] = r.slide[t] + kChK /\ R.kIdx[t] = 0
    BY <1>5, <1>6, <1>10
  <2>2. InStep(R)
    BY <1>3, <2>1 DEF InStep, Loading, Multiplying, Storing
  <2>3. Counters(R)
    <3>1. \A t \in Thread : r.slide[t] < k
      BY <1>1, <1>3, <1>7, <1>10 DEF Counters, Storing
    <3> QED BY <1>1, <1>7, <2>1, <3>1, Parameters DEF Counters, Loading, Multiplying, Storing
  <2>4. Loaded(b, R)
    BY <2>1 DEF Loaded, Multiplying
  <2>5. Sums(b, R)
    <3>1. \A t \in Thread : r.kIdx[t] = kChK /\ r.slide[t] + kChK + 0 = r.slide[t] + kChK
      BY <1>3, <1>7, <1>10, Parameters DEF Counters
    <3> QED BY <1>3, <1>6, <2>1, <3>1 DEF Sums
  <2>6. \A t \in ThreadsOf : R.pc[t] = "ended" => r.pc[t] = "ended"
    BY <1>3, <2>1
  <2>7. BlockInv(b, R)
    BY <1>2, <1>8, <2>2, <2>3, <2>4, <2>5 DEF BlockInv
  <2> QED BY <2>6, <2>7
<1>11. (\A t \in Thread : r.pc[t] = "sync_loaded") \/ (\A t \in Thread : r.pc[t] = "sync_read")
  BY <1>2, <1>3 DEF InStep, Loading, Multiplying, r
<1>13. BlockInv(b, R) /\ \A t \in ThreadsOf : R.pc[t] = "ended" => r.pc[t] = "ended"
  BY <1>9, <1>10, <1>11
<1> QED BY <1>1, <1>4, <1>12, <1>13, QuietStep DEF r

\* The last step of a thread: it writes the elements due from it, and others only rightly.
LEMMA LastStep ==
    ASSUME IInv, NEW b \in DOMAIN run, NEW t \in ThreadsOf, run[b].pc[t] \in {"store", "plain"},
           run' = [run EXCEPT ![b].pc[t] = "ended"], UNCHANGED <<op, shape, todo, fault>>,
           NEW values, C' = Overwritten(values),
           \A a \in DOMAIN values :
              a \in 0 .. m * n - 1 /\ values[a] = Expected(a) /\ values[a] \in Int,
           \A a \in 0 .. m * n - 1 : Due(b, t, a) => a \in DOMAIN values
    PROVE  IInv'
<1> DEFINE r == run[b]
           R == BlockState(r.sA, r.sB, [r.pc EXCEPT ![t] = "ended"], r.slide, r.kIdx, r.tmp)
<1>1. BlockInv(b, r) /\ IsMap(run) /\ r \in Registers
  BY DEF IInv, Shape, IsMap, BlockInv
<1>2. run' = [run EXCEPT ![b] = R]
  <2>1. r = BlockState(r.sA, r.sB, r.pc, r.slide, r.kIdx, r.tmp)
    BY <1>1 DEF Registers, BlockState
  <2>2. PutEnd(run, b, t, "ended") = Put(run, b, R)
    <3>1. PICK f, P, S, K, T, A1, B1 :
             /\ f = run /\ P = r.pc /\ S = r.slide /\ K = r.kIdx /\ T = r.tmp /\ A1 = r.sA /\ B1 = r.sB
      OBVIOUS
    <3>2. f[b] = BlockState(A1, B1, P, S, K, T) /\ IsMap(f) /\ b \in DOMAIN f
      BY <1>1, <2>1, <3>1
    <3>3. PutEnd(f, b, t, "ended") = Put(f, b, BlockState(A1, B1, [P EXCEPT ![t] = "ended"], S, K, T))
      BY <3>2, UpdateEnd
    <3> QED BY <3>1, <3>3
  <2> HIDE DEF R
  <2> QED BY <2>2 DEF PutEnd, Put
<1>3. r.pc[t] \in {"store", "plain"}
  OBVIOUS
<1> HIDE DEF r
<1>4. /\ R.sA = r.sA /\ R.sB = r.sB /\ R.pc = [r.pc EXCEPT ![t] = "ended"]
      /\ R.slide = r.slide /\ R.kIdx = r.kIdx /\ R.tmp = r.tmp
      /\ R = BlockState(R.sA, R.sB, R.pc, R.slide, R.kIdx, R.tmp)
  BY DEF BlockState
<1> HIDE DEF R
<1>5. R \in Registers
  <2>1. R.pc \in [ThreadsOf -> Loading \cup Multiplying \cup Storing \cup {"plain"}]
    BY <1>1, <1>4 DEF Registers, Storing
  <2>2. /\ R.sA \in [Cells -> Int \cup {NaN}] /\ R.sB \in [Cells -> Int \cup {NaN}]
        /\ R.slide \in [ThreadsOf -> Nat] /\ R.kIdx \in [ThreadsOf -> Nat]
        /\ R.tmp \in [ThreadsOf -> [Part -> Int \cup {NaN}]]
    BY <1>1, <1>4 DEF Registers
  <2> QED BY <1>4, <2>1, <2>2 DEF Registers, BlockState
<1>6. ASSUME op = "tiled" PROVE InStep(R) /\ Counters(R) /\ Loaded(b, R) /\ Sums(b, R)
  <2>1. /\ ThreadsOf = Thread /\ t \in Thread /\ InStep(r) /\ Counters(r) /\ Loaded(b, r) /\ Sums(b, r)
    BY <1>1, <1>6 DEF BlockInv, ThreadsOf
  <2>2. r.pc[t] = "store"
    BY <1>3, <2>1 DEF Counters, Loading, Multiplying, Storing
  <2>3. /\ R.pc[t] = "ended" /\ \A u \in Thread : u # t => R.pc[u] = r.pc[u]
    BY <1>1, <1>4, <2>1 DEF Registers
  <2>4. InStep(R)
    BY <1>4, <2>1, <2>2, <2>3 DEF InStep, Loading, Multiplying, Storing
  <2>5. Counters(R)
    BY <1>4, <2>1, <2>2, <2>3 DEF Counters, Loading, Multiplying, Storing
  <2>6. Loaded(b, R)
    BY <1>4, <2>1, <2>3 DEF Loaded, Multiplying
  <2>7. Sums(b, R)
    BY <1>4, <2>1 DEF Sums
  <2> QED BY <2>4, <2>5, <2>6, <2>7
<1>7. ASSUME op # "tiled"
      PROVE  \A u \in PlainThread : R.pc[u] \in {"plain", "ended"} /\ R.slide[u] = 0 /\ R.kIdx[u] = 0
  BY <1>1, <1>4, <1>7 DEF BlockInv, ThreadsOf, Registers
<1>8. BlockInv(b, R)
  BY <1>5, <1>6, <1>7 DEF BlockInv
<1>9. C \in [0 .. m * n - 1 -> Int \cup {NaN}] /\ (op = "tiled" => \A a \in 0 .. m * n - 1 : C[a] \in Int)
  BY DEF IInv, Shape, Progress
<1>10. ASSUME NEW N, N = 0 .. m * n - 1
       PROVE  /\ C' \in [N -> Int \cup {NaN}]
              /\ \A a \in N : C'[a] = IF a \in DOMAIN values THEN Expected(a) ELSE C[a]
  <2>1. DOMAIN C = N /\ DOMAIN C \cup DOMAIN values = N
    BY <1>9, <1>10
  <2> QED BY <1>9, <1>10, <2>1 DEF Overwritten
<1>11. C' \in [0 .. m * n - 1 -> Int \cup {NaN}]
  BY <1>10
<1>12. \A a \in 0 .. m * n - 1 :
          /\ C'[a] = C[a] \/ C'[a] = Expected(a)
          /\ op = "tiled" => C'[a] \in Int
  BY <1>9, <1>10
<1>13. \A u \in ThreadsOf : R.pc[u] = "ended" =>
          \/ r.pc[u] = "ended"
          \/ \A a \in 0 .. m * n - 1 : Due(b, u, a) => C'[a] = Expected(a)
  <2> SUFFICES ASSUME NEW u \in ThreadsOf, R.pc[u] = "ended", r.pc[u] # "ended"
               PROVE  \A a \in 0 .. m * n - 1 : Due(b, u, a) => C'[a] = Expected(a)
    OBVIOUS
  <2>1. u = t
    BY <1>1, <1>4 DEF Registers
  <2> QED BY <1>10, <2>1
<1> QED BY <1>2, <1>8, <1>11, <1>12, <1>13, BlockStep DEF r

LEMMA StorePartIInv ==
    ASSUME IInv, NEW b \in DOMAIN run, NEW t \in ThreadsOf, StorePart(b, t)
    PROVE  IInv'
<1> DEFINE r == run[b]
           x(p) == ResIdx(b, t, p)[1]
           y(p) == ResIdx(b, t, p)[2]
           inside == {p \in Part : x(p) < m /\ y(p) < n}
           address(p) == x(p) * n + y(p)
           stored == [a \in {address(p) : p \in inside} |->
                         LET p == CHOOSE p \in inside : address(p) = a
                         IN  Scaled(r.tmp[t][p], (IF a \in DOMAIN C THEN C[a] ELSE NaN))]
<1>1. /\ BlockInv(b, r) /\ b \in Nat \X Nat /\ fault = FALSE /\ r.pc[t] = "store"
      /\ m \in Nat /\ n \in Nat /\ k \in Nat /\ C \in [0 .. m * n - 1 -> Int \cup {NaN}]
  BY Extents DEF IInv, Shape, StorePart
<1>2. op = "tiled" /\ t \in Thread
  BY <1>1 DEF BlockInv, ThreadsOf
<1>3. r \in Registers /\ Counters(r) /\ Sums(b, r) /\ ThreadsOf = Thread
  BY <1>1, <1>2 DEF BlockInv, ThreadsOf
<1>4. \A a \in 0 .. m * n - 1 : C[a] \in Int
  BY <1>2 DEF IInv, Progress
<1>5. ASSUME NEW p \in Part PROVE x(p) \in Nat /\ y(p) \in Nat
  <2>1. t[1] * kT \in Nat /\ t[2] * kT \in Nat /\ b[1] * kChD \in Nat /\ b[2] * kChD \in Nat
    <3>1. t[1] \in Nat /\ t[2] \in Nat /\ b[1] \in Nat /\ b[2] \in Nat
      BY <1>1, <1>2 DEF Thread
    <3>2. kT \in Nat /\ kChD \in Nat
      BY Parameters
    <3>3. \A i, j \in Nat : i * j \in Nat
      OBVIOUS
    <3> QED BY <3>1, <3>2, <3>3
  <2> QED BY <2>1 DEF Part, ResIdx
<1>6. ASSUME NEW p \in inside
      PROVE  /\ address(p) \in 0 .. m * n - 1
             /\ r.tmp[t][p] = Expected(address(p)) /\ r.tmp[t][p] \in Int
  <2>1. x(p) \in 0 .. m - 1 /\ y(p) \in 0 .. n - 1 /\ p \in Part
    BY <1>1, <1>5
  <2>2. address(p) \in 0 .. m * n - 1
    BY <1>1, <2>1, Position
  <2>3. r.slide[t] + r.kIdx[t] \in Nat /\ r.slide[t] + r.kIdx[t] >= k
    BY <1>1, <1>2, <1>3 DEF Counters, Storing, Registers
  <2>4. r.tmp[t][p] = PartialDot(x(p), y(p), r.slide[t] + r.kIdx[t])
    BY <1>2, <1>3, <2>1 DEF Sums
  <2> HIDE DEF x, y, r
  <2>5. r.tmp[t][p] = PartialDot(x(p), y(p), k)
    BY <1>1, <2>1, <2>3, <2>4, PartialDotEnd
  <2>6. PartialDot(x(p), y(p), k) = Expected(x(p) * n + y(p)) /\ PartialDot(x(p), y(p), k) \in Int
    <3>1. op # "transpose" /\ x(p) \in Nat /\ y(p) \in Nat
      BY <1>2, <2>1
    <3>2. PartialDot(x(p), y(p), k) \in Int
      BY <1>1, <3>1, PartialDotNext
    <3>3. PartialDot(x(p), y(p), k) = Expected(x(p) * n + y(p))
      BY <1>1, <2>1, <3>1, FullDot, Zenon
    <3> QED BY <3>2, <3>3
  <2> QED BY <2>2, <2>5, <2>6
<1>7. ASSUME NEW a \in DOMAIN stored
      PROVE  a \in 0 .. m * n - 1 /\ stored[a] = Expected(a) /\ stored[a] \in Int
  <2>1. \E p \in inside : address(p) = a
    OBVIOUS
  <2>2. PICK p \in inside : p = CHOOSE q \in inside : address(q) = a
    BY <2>1
  <2>3. address(p) = a
    BY <2>1, <2>2
  <2>4. a \in 0 .. m * n - 1 /\ r.tmp[t][p] = Expected(a) /\ r.tmp[t][p] \in Int /\ C[a] \in Int /\ a \in DOMAIN C
    BY <1>1, <1>4, <1>6, <2>3
  <2>5. stored[a] = Scaled(r.tmp[t][p], C[a])
    BY <2>2, <2>4
  <2> HIDE DEF stored, address, inside, r
  <2>6. ASSUME NEW u \in Int, NEW v \in Int PROVE Scaled(u, v) = u
    BY KernelAssumption DEF Scaled, Plus, Times
  <2> QED BY <2>4, <2>5, <2>6
<1>8. \A a \in 0 .. m * n - 1 : Due(b, t, a) => a \in DOMAIN stored
  BY <1>2 DEF Due
<1>9. fault' = FALSE
  <2> SUFFICES ASSUME NEW p \in inside, p[2] % Packet = 0 PROVE ~ Misaligned(x(p), y(p))
    BY <1>1 DEF StorePart
  <2>1. y(p) = b[2] * kChD + t[2] * kT + p[2] /\ x(p) \in Nat
    BY <1>5 DEF ResIdx
  <2>2. b[2] \in Nat /\ t[2] \in Nat /\ p[2] \in Nat
    BY <1>1, <1>2 DEF Thread, Part
  <2>3. y(p) % Packet = 0 /\ y(p) \in Nat
    <3>1. (b[2] * kChD + t[2] * kT + p[2]) % Packet = 0 /\ b[2] * kChD + t[2] * kT + p[2] \in Nat
      BY <2>2, PartAligned, Zenon
    <3> HIDE DEF y
    <3> QED BY <2>1, <3>1
  <2> HIDE DEF x, y
  <2> QED BY <1>1, <2>1, <2>3, Aligned
<1>10. C' = Overwritten(stored)
  BY DEF StorePart
<1>11. run' = [run EXCEPT ![b].pc[t] = "ended"] /\ UNCHANGED <<op, shape, todo>> /\ fault' = fault
  BY <1>1, <1>9 DEF StorePart
<1> HIDE DEF stored
<1> QED BY <1>1, <1>7, <1>8, <1>10, <1>11, LastStep

LEMMA DotExact ==
    ASSUME m \in Nat, n \in Nat, k \in Nat, op # "transpose",
           NEW x \in 0 .. m - 1, NEW y \in 0 .. n - 1
    PROVE  Dot(x, y) = Expected(x * n + y) /\ Dot(x, y) \in Int
<1>1. ASSUME NEW q \in 0 .. k - 1
      PROVE  Times(A(x * k + q), B(n * q + y)) = AElement(x, q) * BElement(q, y)
  <2>1. AElement(x, q) = A(x * k + q) /\ BElement(q, y) = B(q * n + y)
        /\ AElement(x, q) \in Int /\ BElement(q, y) \in Int
    BY Elements
  <2>2. n * q + y = q * n + y
    OBVIOUS
  <2>3. PICK u \in Int, v \in Int : u = A(x * k + q) /\ v = B(n * q + y)
    BY <2>1, <2>2
  <2>4. Times(u, v) = u * v
    BY KernelAssumption DEF Times
  <2> QED BY <2>1, <2>2, <2>3, <2>4
<1>2. Dot(x, y) = PartialDot(x, y, k)
  <2>1. [q \in 0 .. k - 1 |-> Times(A(x * k + q), B(n * q + y))] =
        [q \in 0 .. k - 1 |-> AElement(x, q) * BElement(q, y)]
    BY <1>1
  <2> QED BY <2>1 DEF Dot, PartialDot
<1>3. PartialDot(x, y, k) = Expected(x * n + y)
  BY FullDot, Zenon
<1>4. PartialDot(x, y, k) \in Int
  BY PartialDotNext
<1> QED BY <1>2, <1>3, <1>4

\* A walk starts where it says and stays within the extent.
LEMMA WalkInside ==
    ASSUME NEW first, NEW extent \in Nat
    PROVE  /\ Walk(first, extent) \subseteq 0 .. extent - 1
           /\ first \in 0 .. extent - 1 => first \in Walk(first, extent)
<1> SUFFICES ASSUME first \in 0 .. extent - 1
             PROVE  (first - first) % (CeilDiv(extent, Dim) * Dim) = 0
  BY DEF Walk
<1>1. CeilDiv(extent, Dim) \in Nat /\ CeilDiv(extent, Dim) > 0
  BY Parameters DEF CeilDiv
<1>2. CeilDiv(extent, Dim) * Dim \in Nat /\ CeilDiv(extent, Dim) * Dim > 0
  <2> DEFINE c == CeilDiv(extent, Dim)
  <2> HIDE DEF c
  <2>1. c \in Nat /\ c > 0
    BY <1>1 DEF c
  <2>2. c * Dim \in Nat /\ c * Dim > 0
    BY <2>1, Parameters
  <2> QED BY <2>2 DEF c
<1>3. ASSUME NEW d \in Nat, d > 0 PROVE 0 % d = 0
  BY <1>3
<1>4. first - first = 0
  OBVIOUS
<1> QED BY <1>2, <1>3, <1>4, Zenon

LEMMA MultiplyPlainIInv ==
    ASSUME IInv, NEW b \in DOMAIN run, NEW t \in ThreadsOf, MultiplyPlain(b, t)
    PROVE  IInv'
<1> DEFINE address(v) == v[1] * n + v[2]
           values == [a \in {address(v) : v \in Visits(b, t)} |-> Dot(a \div n, a % n)]
<1>1. m \in Nat /\ n \in Nat /\ k \in Nat /\ op = "plain"
  BY Extents DEF IInv, Shape, MultiplyPlain
<1>2. ASSUME NEW v \in Visits(b, t) PROVE v[1] \in 0 .. m - 1 /\ v[2] \in 0 .. n - 1
  BY <1>1, WalkInside DEF Visits
<1>3. ASSUME NEW a \in DOMAIN values
      PROVE  a \in 0 .. m * n - 1 /\ values[a] = Expected(a) /\ values[a] \in Int
  <2>1. PICK v \in Visits(b, t) : address(v) = a
    OBVIOUS
  <2>2. PICK x \in 0 .. m - 1, y \in 0 .. n - 1 : x = v[1] /\ y = v[2]
    BY <1>2
  <2>3. x * n + y = a
    BY <2>1, <2>2
  <2>4. a \in 0 .. m * n - 1
    BY <1>1, <2>3, Position
  <2>5. a \div n = x /\ a % n = y
    BY <1>1, <2>3, QuotientOf
  <2>6. values[a] = Dot(x, y)
    BY <2>5
  <2>7. Dot(x, y) = Expected(x * n + y) /\ Dot(x, y) \in Int
    BY <1>1, DotExact, Zenon
  <2> HIDE DEF values
  <2> QED BY <2>3, <2>4, <2>6, <2>7
<1>4. ASSUME NEW a \in 0 .. m * n - 1, Due(b, t, a) PROVE a \in DOMAIN values
  <2>1. PICK i \in 0 .. m - 1, j \in 0 .. n - 1 :
           i = b[1] * Dim + t[1] /\ j = b[2] * Dim + t[2] /\ a = i * n + j
    BY <1>1, <1>4 DEF Due
  <2>2. <<i, j>> \in Visits(b, t)
    BY <1>1, <2>1, WalkInside DEF Visits
  <2>3. address(<<i, j>>) = a
    BY <2>1
  <2> HIDE DEF address
  <2> QED BY <2>2, <2>3
<1>5. /\ C' = Overwritten(values) /\ run' = [run EXCEPT ![b].pc[t] = "ended"]
      /\ UNCHANGED <<op, shape, todo, fault>> /\ run[b].pc[t] = "plain"
  BY DEF MultiplyPlain
<1> HIDE DEF values
<1> QED BY <1>3, <1>4, <1>5, LastStep

LEMMA TransposePlainIInv ==
    ASSUME IInv, NEW b \in DOMAIN run, NEW t \in ThreadsOf, TransposePlain(b, t)
    PROVE  IInv'
<1> DEFINE address(v) == v[2] * m + v[1]
           values == [a \in {address(v) : v \in Visits(b, t)} |-> (a % m) * n + (a \div m)]
<1>1. m \in Nat /\ n \in Nat /\ k \in Nat /\ op = "transpose"
  BY Extents DEF IInv, Shape, TransposePlain
<1>2. ASSUME NEW v \in Visits(b, t) PROVE v[1] \in 0 .. m - 1 /\ v[2] \in 0 .. n - 1
  BY <1>1, WalkInside DEF Visits
<1>3. ASSUME NEW a \in DOMAIN values
      PROVE  a \in 0 .. m * n - 1 /\ values[a] = Expected(a) /\ values[a] \in Int
  <2>1. PICK v \in Visits(b, t) : address(v) = a
    OBVIOUS
  <2>2. PICK x \in 0 .. m - 1, y \in 0 .. n - 1 : x = v[1] /\ y = v[2]
    BY <1>2
  <2>3. y * m + x = a
    BY <2>1, <2>2
  <2>4. a \in 0 .. m * n - 1
    <3>1. a \in 0 .. n * m - 1
      BY <1>1, <2>3, Position
    <3>2. n * m = m * n
      BY <1>1
    <3> QED BY <3>1, <3>2
  <2>5. a \div m = y /\ a % m = x
    BY <1>1, <2>3, QuotientOf
  <2>6. values[a] = x * n + y /\ Expected(a) = x * n + y
    BY <1>1, <2>5 DEF Expected
  <2>7. x * n + y \in Int
    BY <1>1
  <2> HIDE DEF values
  <2> QED BY <2>4, <2>6, <2>7
<1>4. ASSUME NEW a \in 0 .. m * n - 1, Due(b, t, a) PROVE a \in DOMAIN values
  <2>1. PICK i \in 0 .. m - 1, j \in 0 .. n - 1 :
           i = b[1] * Dim + t[1] /\ j = b[2] * Dim + t[2] /\ a = j * m + i
    BY <1>1, <1>4 DEF Due
  <2>2. <<i, j>> \in Visits(b, t)
    BY <1>1, <2>1, WalkInside DEF Visits
  <2>3. address(<<i, j>>) = a
    BY <2>1
  <2> HIDE DEF address
  <2> QED BY <2>2, <2>3
<1>5. /\ C' = Overwritten(values) /\ run' = [run EXCEPT ![b].pc[t] = "ended"]
      /\ UNCHANGED <<op, shape, todo, fault>> /\ run[b].pc[t] = "plain"
  BY DEF TransposePlain
<1> HIDE DEF values
<1> QED BY <1>3, <1>4, <1>5, LastStep

-----------------------------------------------------------------------------
(* Launches.                                                               *)

\* Every position is for some thread of some block.
LEMMA TiledCover ==
    ASSUME NEW M \in Nat, NEW N \in Nat, NEW x \in 0 .. M - 1, NEW y \in 0 .. N - 1
    PROVE  \E b \in GridOf(M, N, kChD), t \in Thread, p \in Part :
              x = b[1] * kChD + t[1] * kT + p[1] /\ y = b[2] * kChD + t[2] * kT + p[2]
<1>1. ASSUME NEW e \in Nat, NEW z \in 0 .. e - 1
      PROVE  \E c \in Nat, d \in 0 .. kChK - 1, q \in 0 .. kT - 1 :
                c = z \div kChD /\ z = c * kChD + d * kT + q
  <2>1. z \div kChD \in Nat /\ z % kChD \in 0 .. kChD - 1 /\ z = (z \div kChD) * kChD + (z % kChD)
    BY Parameters, Quotient
  <2>2. PICK c \in Nat, r \in 0 .. kChK * kT - 1 : c = z \div kChD /\ z = c * kChD + r
    BY <2>1 DEF kChD
  <2>3. r \div kT \in 0 .. kChK - 1 /\ r % kT \in 0 .. kT - 1 /\ r = (r \div kT) * kT + (r % kT)
    BY Parameters, RowAndColumn
  <2>4. PICK d \in 0 .. kChK - 1, q \in 0 .. kT - 1 : r = d * kT + q
    BY <2>3
  <2>5. c * kChD \in Nat /\ d * kT \in Nat
    BY Parameters
  <2>6. z = c * kChD + d * kT + q
    BY <2>2, <2>4, <2>5
  <2> QED BY <2>2, <2>6
<1>2. PICK c1 \in Nat, d1 \in 0 .. kChK - 1, q1 \in 0 .. kT - 1 :
         c1 = x \div kChD /\ x = c1 * kChD + d1 * kT + q1
  BY <1>1
<1>3. PICK c2 \in Nat, d2 \in 0 .. kChK - 1, q2 \in 0 .. kT - 1 :
         c2 = y \div kChD /\ y = c2 * kChD + d2 * kT + q2
  BY <1>1
<1>4. <<c1, c2>> \in GridOf(M, N, kChD)
  BY <1>2, <1>3, Parameters, InGrid
<1>5. <<d1, d2>> \in Thread /\ <<q1, q2>> \in Part
  BY DEF Thread, Part
<1>6. /\ <<c1, c2>>[1] = c1 /\ <<c1, c2>>[2] = c2 /\ <<d1, d2>>[1] = d1 /\ <<d1, d2>>[2] = d2
      /\ <<q1, q2>>[1] = q1 /\ <<q1, q2>>[2] = q2
  OBVIOUS
<1>7. PICK b \in GridOf(M, N, kChD), t \in Thread, p \in Part :
         b[1] = c1 /\ b[2] = c2 /\ t[1] = d1 /\ t[2] = d2 /\ p[1] = q1 /\ p[2] = q2
  BY <1>4, <1>5, <1>6
<1> QED BY <1>2, <1>3, <1>7

LEMMA PlainCover ==
    ASSUME NEW M \in Nat, NEW N \in Nat, NEW x \in 0 .. M - 1, NEW y \in 0 .. N - 1
    PROVE  \E b \in GridOf(M, N, Dim), t \in PlainThread :
              x = b[1] * Dim + t[1] /\ y = b[2] * Dim + t[2]
<1>1. /\ x % Dim \in 0 .. Dim - 1 /\ x = (x \div Dim) * Dim + (x % Dim)
      /\ y % Dim \in 0 .. Dim - 1 /\ y = (y \div Dim) * Dim + (y % Dim)
  BY Parameters, Quotient
<1>2. <<x \div Dim, y \div Dim>> \in GridOf(M, N, Dim)
  BY Parameters, InGrid
<1>3. <<x % Dim, y % Dim>> \in PlainThread
  BY <1>1 DEF PlainThread
<1> QED BY <1>1, <1>2, <1>3

LEMMA GridType ==
    ASSUME NEW M \in Nat, NEW N \in Nat, NEW d \in Nat, d > 0
    PROVE  GridOf(M, N, d) \subseteq Nat \X Nat
BY DEF GridOf, CeilDiv

LEMMA InitIInv == Init => IInv
<1> SUFFICES ASSUME Init PROVE IInv
  OBVIOUS
<1>1. DOMAIN run = {} /\ IsFiniteSet({}) /\ Cardinality({}) = 0
  BY FS_EmptySet DEF Init
<1>2. m = 0 /\ n = 0
  BY DEF Init, m, n
<1>3. C \in [0 .. m * n - 1 -> Int \cup {NaN}]
  BY <1>2 DEF Init
<1> QED BY <1>1, <1>3, Parameters DEF IInv, Init, Shape, Progress

LEMMA MatmulIInv ==
    ASSUME IInv, NEW s \in Products, Matmul(s)
    PROVE  IInv'
<1>1. s[1] \in Nat /\ s[2] \in Nat /\ s[3] \in Nat /\ m' = s[1] /\ n' = s[2] /\ k' = s[3]
  BY KernelAssumption DEF Matmul, m, n, k
<1>2. /\ DOMAIN run' = {} /\ run' = run /\ fault' = FALSE /\ run = [b \in DOMAIN run |-> run[b]]
      /\ IsFiniteSet(DOMAIN run) /\ Cardinality(DOMAIN run) <= Resident
  BY DEF Matmul, IInv, Shape
<1>3. op' = IF UsesTiles(s) THEN "tiled" ELSE "plain"
  BY DEF Matmul
<1> DEFINE N == 0 .. s[1] * s[2] - 1
<1>4. C' = [a \in N |-> IF UsesTiles(s) THEN 0 ELSE NaN]
  BY DEF Matmul
<1>5. todo' = GridOf(s[1], s[2], IF UsesTiles(s) THEN kChD ELSE Dim) /\ shape' = s
  BY DEF Matmul
<1>6. Shape'
  <2>1. C' \in [0 .. m' * n' - 1 -> Int \cup {NaN}]
    BY <1>1, <1>4
  <2>2. todo' \subseteq Nat \X Nat
    BY <1>1, <1>5, GridType, Parameters
  <2>3. UsesTiles(shape)' <=> UsesTiles(s)
    BY <1>5 DEF UsesTiles
  <2> QED BY <1>2, <1>3, <1>5, <2>1, <2>2, <2>3 DEF Shape
<1>7. Progress'
  <2>1. op' = "tiled" => \A a \in N : C'[a] \in Int
    BY <1>3, <1>4
  <2>2. ASSUME NEW a \in N PROVE \E b \in todo', t \in ThreadsOf' : Due(b, t, a)'
    <3>1. PICK x \in 0 .. s[1] - 1, y \in 0 .. s[2] - 1 : a = x * s[2] + y
      BY <1>1, RowAndColumn
    <3>2. CASE UsesTiles(s)
      <4>1. PICK b \in GridOf(s[1], s[2], kChD), t \in Thread, p \in Part :
                x = b[1] * kChD + t[1] * kT + p[1] /\ y = b[2] * kChD + t[2] * kT + p[2]
        BY <1>1, TiledCover
      <4>2. Due(b, t, a)'
        <5>1. ResIdx(b, t, p)[1] = x /\ ResIdx(b, t, p)[2] = y
          BY <4>1 DEF ResIdx
        <5>2. op' = "tiled"
          BY <1>3, <3>2
        <5> QED BY <1>1, <3>1, <5>1, <5>2 DEF Due
      <4>3. b \in todo' /\ t \in ThreadsOf'
        BY <1>3, <1>5, <3>2 DEF ThreadsOf
      <4> QED BY <4>2, <4>3
    <3>3. CASE ~ UsesTiles(s)
      <4>1. PICK b \in GridOf(s[1], s[2], Dim), t \in PlainThread :
                x = b[1] * Dim + t[1] /\ y = b[2] * Dim + t[2]
        BY <1>1, PlainCover
      <4>2. op' = "plain"
        BY <1>3, <3>3
      <4>3. Due(b, t, a)'
        BY <1>1, <3>1, <4>1, <4>2 DEF Due
      <4>4. b \in todo' /\ t \in ThreadsOf'
        BY <1>5, <3>3, <4>2 DEF ThreadsOf
      <4> QED BY <4>3, <4>4
    <3> QED BY <3>2, <3>3
  <2>3. 0 .. m' * n' - 1 = N
    BY <1>1
  <2> HIDE DEF N
  <2> QED BY <2>1, <2>2, <2>3 DEF Progress
<1>8. \A b \in DOMAIN run' : BlockInv(b, run[b])'
  BY <1>2
<1> QED BY <1>6, <1>7, <1>8 DEF IInv

LEMMA TransposeIInv ==
    ASSUME IInv, NEW s \in Flips, Transpose(s)
    PROVE  IInv'
<1>1. s[1] \in Nat /\ s[2] \in Nat /\ s[3] \in Nat /\ m' = s[1] /\ n' = s[2] /\ k' = s[3]
  BY KernelAssumption DEF Transpose, m, n, k
<1>2. /\ DOMAIN run' = {} /\ run' = run /\ fault' = FALSE /\ run = [b \in DOMAIN run |-> run[b]]
      /\ IsFiniteSet(DOMAIN run) /\ Cardinality(DOMAIN run) <= Resident
  BY DEF Transpose, IInv, Shape
<1> DEFINE N == 0 .. s[1] * s[2] - 1
<1>3. C' = [a \in N |-> NaN]
  BY DEF Transpose
<1>4. todo' = GridOf(s[1], s[2], Dim) /\ shape' = s /\ op' = "transpose"
  BY DEF Transpose
<1>5. Shape'
  <2>1. C' \in [0 .. m' * n' - 1 -> Int \cup {NaN}]
    BY <1>1, <1>3
  <2>2. todo' \subseteq Nat \X Nat
    BY <1>1, <1>4, GridType, Parameters
  <2> QED BY <1>2, <1>4, <2>1, <2>2 DEF Shape
<1>6. Progress'
  <2>1. ASSUME NEW a \in N PROVE \E b \in todo', t \in ThreadsOf' : Due(b, t, a)'
    <3>1. PICK x \in 0 .. s[1] - 1, y \in 0 .. s[2] - 1 : a = y * s[1] + x
      <4>1. a \in 0 .. s[2] * s[1] - 1
        <5>1. s[2] * s[1] = s[1] * s[2]
          BY <1>1
        <5> QED BY <5>1
      <4> QED BY <1>1, <4>1, RowAndColumn
    <3>2. PICK b \in GridOf(s[1], s[2], Dim), t \in PlainThread :
              x = b[1] * Dim + t[1] /\ y = b[2] * Dim + t[2]
      BY <1>1, PlainCover
    <3>3. Due(b, t, a)'
      BY <1>1, <1>4, <3>1, <3>2 DEF Due
    <3>4. b \in todo' /\ t \in ThreadsOf'
      BY <1>4 DEF ThreadsOf
    <3> QED BY <3>3, <3>4
  <2>2. 0 .. m' * n' - 1 = N
    BY <1>1
  <2> HIDE DEF N
  <2> QED BY <1>4, <2>1, <2>2 DEF Progress
<1>7. \A b \in DOMAIN run' : BlockInv(b, run[b])'
  BY <1>2
<1> QED BY <1>5, <1>6, <1>7 DEF IInv

LEMMA StartBlockIInv ==
    ASSUME IInv, NEW b \in todo, StartBlock(b)
    PROVE  IInv'
<1>1. /\ UNCHANGED <<op, shape>> /\ todo' = todo \ {b} /\ C' = C /\ fault' = fault
      /\ run' = [c \in DOMAIN run \cup {b} |-> IF c = b THEN Started ELSE run[c]]
      /\ Cardinality(DOMAIN run) < Resident
  BY DEF StartBlock
<1>2. /\ DOMAIN run' = DOMAIN run \cup {b} /\ run'[b] = Started
      /\ \A c \in DOMAIN run : run'[c] = run[c]
      /\ b \in Nat \X Nat /\ b \notin DOMAIN run /\ run' = [c \in DOMAIN run' |-> run'[c]]
  BY <1>1 DEF IInv, Shape
<1>3. m \in Nat /\ n \in Nat /\ k \in Nat /\ op \in {"tiled", "plain", "transpose"}
      /\ (op = "tiled" => k > 0)
  <2>1. m \in Nat /\ n \in Nat /\ k \in Nat
    BY Extents DEF IInv, Shape
  <2>2. op \in {"tiled", "plain", "transpose"} /\ (op = "tiled" => UsesTiles(shape))
    BY DEF IInv, Shape
  <2>3. UsesTiles(shape) => k > kChK
    BY DEF UsesTiles, k
  <2> QED BY <2>1, <2>2, <2>3, Parameters
<1>4. Shape'
  <2>1. IsFiniteSet(DOMAIN run') /\ Cardinality(DOMAIN run') = Cardinality(DOMAIN run) + 1
    BY <1>2, FS_AddElement DEF IInv, Shape
  <2>2. Cardinality(DOMAIN run) \in Nat
    BY FS_CardinalityType DEF IInv, Shape
  <2>3. Cardinality(DOMAIN run') <= Resident
    BY <1>1, <2>1, <2>2, Parameters
  <2>4. todo' \cap DOMAIN run' = {}
    BY <1>1, <1>2 DEF IInv, Shape
  <2>5. UsesTiles(shape)' <=> UsesTiles(shape)
    BY <1>1 DEF UsesTiles
  <2>6. op # "none"
    BY <1>3
  <2> QED BY <1>1, <1>2, <2>1, <2>3, <2>4, <2>5, <2>6, DueFrame DEF IInv, Shape
<1>5. BlockInv(b, Started)
  <2>1. Started \in Registers
    BY <1>3 DEF Started, Registers, Loading, Multiplying, Storing
  <2>2. ASSUME op = "tiled"
        PROVE  InStep(Started) /\ Counters(Started) /\ Loaded(b, Started) /\ Sums(b, Started)
    <3>1. \A t \in Thread : /\ Started.pc[t] = "load" /\ Started.slide[t] = 0 /\ Started.kIdx[t] = 0
                            /\ \A p \in Part : Started.tmp[t][p] = 0
      BY <2>2 DEF Started, ThreadsOf
    <3>2. InStep(Started)
      BY <3>1 DEF InStep, Loading, Multiplying, Storing
    <3>3. Counters(Started)
      BY <1>3, <2>2, <3>1, Parameters DEF Counters, Loading, Multiplying, Storing
    <3>4. Loaded(b, Started)
      BY <3>1 DEF Loaded, Multiplying
    <3>5. Sums(b, Started)
      <4> SUFFICES ASSUME NEW t \in Thread, NEW p \in Part
                   PROVE  PartialDot(ResIdx(b, t, p)[1], ResIdx(b, t, p)[2], 0) = 0
        BY <3>1 DEF Sums
      <4>1. t[1] * kT \in Nat /\ t[2] * kT \in Nat /\ b[1] * kChD \in Nat /\ b[2] * kChD \in Nat
        BY <1>2, Parameters DEF Thread
      <4>2. ResIdx(b, t, p)[1] \in Nat /\ ResIdx(b, t, p)[2] \in Nat
        BY <4>1 DEF Part, ResIdx
      <4> QED BY <1>3, <4>2, PartialDotNext
    <3> QED BY <3>2, <3>3, <3>4, <3>5
  <2>3. ASSUME op # "tiled"
        PROVE  \A t \in PlainThread : Started.pc[t] \in {"plain", "ended"}
                                      /\ Started.slide[t] = 0 /\ Started.kIdx[t] = 0
    BY <2>3 DEF Started, ThreadsOf
  <2> QED BY <2>1, <2>2, <2>3 DEF BlockInv
<1>6. ASSUME NEW c \in DOMAIN run' PROVE BlockInv(c, run[c])'
  <2>1. PICK r : r = run'[c]
    OBVIOUS
  <2>2. BlockInv(c, r)
    BY <1>2, <1>5, <2>1 DEF IInv
  <2>3. BlockInv(c, r)'
    BY <1>1, <2>2, BlockInvFrame
  <2> QED BY <2>1, <2>3
<1>7. Progress'
  <2>1. \A t \in ThreadsOf : Started.pc[t] # "ended"
    BY DEF Started
  <2>2. ASSUME NEW a \in 0 .. m * n - 1
        PROVE  \/ C[a] = Expected(a)
               \/ \E c \in todo', t \in ThreadsOf : Due(c, t, a)
               \/ \E c \in DOMAIN run', t \in ThreadsOf : Due(c, t, a) /\ run'[c].pc[t] # "ended"
    <3>1. ASSUME NEW c \in todo, NEW t \in ThreadsOf, Due(c, t, a)
          PROVE  \/ c \in todo' /\ Due(c, t, a)
                 \/ c \in DOMAIN run' /\ Due(c, t, a) /\ run'[c].pc[t] # "ended"
      BY <1>1, <1>2, <2>1, <3>1
    <3>2. ASSUME NEW c \in DOMAIN run, NEW t \in ThreadsOf, Due(c, t, a), run[c].pc[t] # "ended"
          PROVE  c \in DOMAIN run' /\ Due(c, t, a) /\ run'[c].pc[t] # "ended"
      BY <1>2, <3>2
    <3>3. \/ C[a] = Expected(a)
          \/ \E c \in todo, t \in ThreadsOf : Due(c, t, a)
          \/ \E c \in DOMAIN run, t \in ThreadsOf : Due(c, t, a) /\ run[c].pc[t] # "ended"
      BY <1>3 DEF IInv, Progress
    <3> QED BY <3>1, <3>2, <3>3
  <2>3. op = "tiled" => \A a \in 0 .. m * n - 1 : C[a] \in Int
    BY DEF IInv, Progress
  <2>4. /\ \A c, t, a : Due(c, t, a)' <=> Due(c, t, a)
        /\ \A a : Expected(a)' = Expected(a)
        /\ ThreadsOf' = ThreadsOf /\ m' = m /\ n' = n /\ op' = op /\ C' = C
    BY <1>1, DueFrame
  <2> DEFINE N == 0 .. m * n - 1
  <2>5. 0 .. m' * n' - 1 = N
    BY <2>4
  <2>6. ASSUME NEW a \in N
        PROVE  \/ C'[a] = Expected(a)'
               \/ \E c \in todo', t \in ThreadsOf' : Due(c, t, a)'
               \/ \E c \in DOMAIN run', t \in ThreadsOf' : Due(c, t, a)' /\ run'[c].pc[t] # "ended"
    BY <2>2, <2>4
  <2>7. op' = "tiled" => \A a \in N : C'[a] \in Int
    BY <2>3, <2>4
  <2> HIDE DEF N
  <2> QED BY <2>5, <2>6, <2>7 DEF Progress
<1> QED BY <1>4, <1>6, <1>7 DEF IInv

LEMMA EndBlockIInv ==
    ASSUME IInv, NEW b \in DOMAIN run, EndBlock(b)
    PROVE  IInv'
<1>1. /\ UNCHANGED <<op, shape, todo, C, fault>> /\ \A t \in ThreadsOf : run[b].pc[t] = "ended"
      /\ run' = [c \in DOMAIN run \ {b} |-> run[c]]
  BY DEF EndBlock
<1>2. /\ DOMAIN run' = DOMAIN run \ {b} /\ \A c \in DOMAIN run' : run'[c] = run[c]
      /\ run' = [c \in DOMAIN run' |-> run'[c]]
  BY <1>1
<1>3. Shape'
  <2>1. IsFiniteSet(DOMAIN run') /\ Cardinality(DOMAIN run') = Cardinality(DOMAIN run) - 1
    BY <1>2, FS_RemoveElement DEF IInv, Shape
  <2>2. Cardinality(DOMAIN run) \in Nat
    BY FS_CardinalityType DEF IInv, Shape
  <2>3. Cardinality(DOMAIN run') <= Resident
    BY <2>1, <2>2, Parameters DEF IInv, Shape
  <2>4. todo' \cap DOMAIN run' = {} /\ op # "none"
    BY <1>1, <1>2 DEF IInv, Shape
  <2>5. UsesTiles(shape)' <=> UsesTiles(shape)
    BY <1>1 DEF UsesTiles
  <2> QED BY <1>1, <1>2, <2>1, <2>3, <2>4, <2>5, DueFrame DEF IInv, Shape
<1>4. ASSUME NEW c \in DOMAIN run' PROVE BlockInv(c, run[c])'
  <2>1. PICK r : r = run'[c]
    OBVIOUS
  <2>2. BlockInv(c, r)
    BY <1>2, <2>1 DEF IInv
  <2>3. BlockInv(c, r)'
    BY <1>1, <2>2, BlockInvFrame
  <2> QED BY <2>1, <2>3
<1>5. Progress'
  <2>1. ASSUME NEW c \in DOMAIN run, NEW t \in ThreadsOf, run[c].pc[t] # "ended"
        PROVE  c \in DOMAIN run' /\ run'[c].pc[t] # "ended"
    BY <1>1, <1>2, <2>1
  <2>2. op # "none" => \A a \in 0 .. m * n - 1 :
           \/ C[a] = Expected(a)
           \/ \E c \in todo, t \in ThreadsOf : Due(c, t, a)
           \/ \E c \in DOMAIN run', t \in ThreadsOf : Due(c, t, a) /\ run'[c].pc[t] # "ended"
    BY <2>1 DEF IInv, Progress
  <2>3. op = "tiled" => \A a \in 0 .. m * n - 1 : C[a] \in Int
    BY DEF IInv, Progress
  <2> QED BY <1>1, <2>2, <2>3, DueFrame DEF Progress
<1> QED BY <1>3, <1>4, <1>5 DEF IInv

-----------------------------------------------------------------------------
(* The theorems.                                                           *)

\* Every step of the device keeps the inductive invariant.
THEOREM NextIInv == IInv /\ [Next]_vars => IInv'
<1> SUFFICES ASSUME IInv, [Next]_vars PROVE IInv'
  OBVIOUS
<1>1. ASSUME NEW s \in Products, Matmul(s) PROVE IInv'
  BY <1>1, MatmulIInv
<1>2. ASSUME NEW s \in Flips, Transpose(s) PROVE IInv'
  BY <1>2, TransposeIInv
<1>3. ASSUME NEW b \in todo, StartBlock(b) PROVE IInv'
  BY <1>3, StartBlockIInv
<1>4. ASSUME NEW b \in DOMAIN run, Sync(b) PROVE IInv'
  BY <1>4, SyncIInv
<1>5. ASSUME NEW b \in DOMAIN run, EndBlock(b) PROVE IInv'
  BY <1>5, EndBlockIInv
<1>6. ASSUME NEW b \in DOMAIN run, NEW t \in ThreadsOf, ThreadStep(b, t) PROVE IInv'
  <2>1. CASE LoadTiles(b, t)
    BY <2>1, LoadTilesIInv
  <2>2. CASE Accumulate(b, t)
    BY <2>2, AccumulateIInv
  <2>3. CASE StorePart(b, t)
    BY <2>3, StorePartIInv
  <2>4. CASE MultiplyPlain(b, t)
    BY <2>4, MultiplyPlainIInv
  <2>5. CASE TransposePlain(b, t)
    BY <2>5, TransposePlainIInv
  <2> QED BY <1>6, <2>1, <2>2, <2>3, <2>4, <2>5 DEF ThreadStep
<1>7. CASE UNCHANGED vars
  <2>1. UNCHANGED <<op, shape, todo, run, C, fault>>
    BY <1>7 DEF vars
  <2>2. Shape'
    BY <2>1, DueFrame DEF IInv, Shape, UsesTiles
  <2>3. ASSUME NEW b \in DOMAIN run' PROVE BlockInv(b, run[b])'
    <3>1. PICK r : r = run'[b]
      OBVIOUS
    <3>2. BlockInv(b, r)'
      BY <2>1, <3>1, BlockInvFrame DEF IInv
    <3> QED BY <3>1, <3>2
  <2>4. Progress'
    BY <2>1, DueFrame DEF IInv, Progress
  <2> QED BY <2>2, <2>3, <2>4 DEF IInv
<1>8. CASE Rest
  BY <1>7, <1>8 DEF Rest
<1> QED BY <1>1, <1>2, <1>3, <1>4, <1>5, <1>6, <1>7, <1>8 DEF Next

THEOREM SpecIInv == Spec => []IInv
<1> QED BY InitIInv, NextIInv, PTL DEF Spec

\* The state is of its types, for blocks and tiles of any size.
THEOREM SpecTypeOK == Spec => []TypeOK
<1>1. IInv => TypeOK
  <2> SUFFICES ASSUME IInv PROVE TypeOK
    OBVIOUS
  <2>1. m \in Nat /\ n \in Nat /\ k \in Nat
    BY Extents DEF IInv, Shape
  <2>2. ASSUME NEW b \in DOMAIN run
        PROVE  /\ DOMAIN run[b].sA = Cells /\ DOMAIN run[b].sB = Cells
               /\ \A t \in ThreadsOf :
                     /\ run[b].pc[t] \in {"load", "sync_loaded", "multiply",
                                          "sync_read", "store", "plain", "ended"}
                     /\ run[b].slide[t] \in 0 .. k + kChK - 1
                     /\ run[b].kIdx[t] \in 0 .. kChK
    <3> DEFINE r == run[b]
    <3>1. BlockInv(b, r)
      BY DEF IInv
    <3> HIDE DEF r
    <3>2. r \in Registers
      BY <3>1 DEF BlockInv
    <3>3. DOMAIN r.sA = Cells /\ DOMAIN r.sB = Cells
      BY <3>2 DEF Registers
    <3>4. \A t \in ThreadsOf :
             /\ r.pc[t] \in {"load", "sync_loaded", "multiply", "sync_read", "store", "plain", "ended"}
             /\ r.slide[t] \in Nat /\ r.kIdx[t] \in Nat
      BY <3>2 DEF Registers, Loading, Multiplying, Storing
    <3>5. CASE op = "tiled"
      <4>1. \A t \in ThreadsOf : r.slide[t] < k + kChK /\ r.kIdx[t] <= kChK
        BY <3>1, <3>2, <3>4, <3>5, Parameters
           DEF BlockInv, Counters, ThreadsOf, Loading, Multiplying, Storing
      <4> QED BY <2>1, <3>3, <3>4, <4>1, Parameters DEF r
    <3>6. CASE op # "tiled"
      <4>1. \A t \in ThreadsOf : r.slide[t] = 0 /\ r.kIdx[t] = 0
        BY <3>1, <3>6 DEF BlockInv, ThreadsOf
      <4> QED BY <2>1, <3>3, <3>4, <4>1, Parameters DEF r
    <3> QED BY <3>5, <3>6
  <2> QED BY <2>2 DEF IInv, Shape, TypeOK
<1> QED BY <1>1, SpecIInv, PTL

\* While a thread has rows of the tiles to read, they hold the elements of its
\* slide: the two barriers of the loop are enough, whatever the order in which
\* the threads of a block and the blocks of a grid run.
THEOREM SpecTilesStable == Spec => []TilesStable
<1>1. IInv => TilesStable
  <2> SUFFICES ASSUME IInv, NEW b \in DOMAIN run, NEW t \in ThreadsOf, run[b].pc[t] = "multiply",
                      NEW row \in run[b].kIdx[t] .. kChK - 1, NEW i \in 0 .. kT - 1
               PROVE  LET inner == run[b].slide[t] + row
                          x == ResIdx(b, t, <<i, 0>>)[1]
                          y == ResIdx(b, t, <<0, i>>)[2]
                      IN  /\ run[b].sA[row * kChD + t[1] * kT + i]
                                = IF x < m /\ inner < k THEN A(x * k + inner) ELSE 0
                          /\ run[b].sB[row * kChD + t[2] * kT + i]
                                = IF inner < k /\ y < n THEN B(inner * n + y) ELSE 0
    BY DEF TilesStable
  <2> DEFINE r == run[b]
             inner == r.slide[t] + row
             x == b[1] * kChD + t[1] * kT + i
             y == b[2] * kChD + t[2] * kT + i
  <2>1. /\ BlockInv(b, r) /\ b \in Nat \X Nat /\ m \in Nat /\ n \in Nat /\ k \in Nat
    BY Extents DEF IInv, Shape
  <2>2. op = "tiled" /\ t \in Thread
    BY <2>1 DEF BlockInv, ThreadsOf
  <2>3. r \in Registers /\ InStep(r) /\ Counters(r) /\ Loaded(b, r) /\ ThreadsOf = Thread
    BY <2>1, <2>2 DEF BlockInv, ThreadsOf
  <2>4. r.slide[t] \in Nat /\ r.kIdx[t] \in Nat /\ row \in 0 .. kChK - 1 /\ r.pc[t] = "multiply"
    <3>1. r.slide[t] \in Nat /\ r.kIdx[t] \in Nat
      BY <2>2, <2>3 DEF Registers
    <3> QED BY <3>1, Parameters
  <2>5. ResIdx(b, t, <<i, 0>>)[1] = x /\ ResIdx(b, t, <<0, i>>)[2] = y
    BY DEF ResIdx
  <2> HIDE DEF r, inner, x, y
  <2>6. r.sA[row * kChD + t[1] * kT + i] = AElement(x, inner)
        /\ r.sB[row * kChD + t[2] * kT + i] = BElement(inner, y)
    BY <2>1, <2>2, <2>3, <2>4, TileRow DEF inner, x, y
  <2>7. AElement(x, inner) = (IF x < m /\ inner < k THEN A(x * k + inner) ELSE 0)
        /\ BElement(inner, y) = (IF inner < k /\ y < n THEN B(inner * n + y) ELSE 0)
    BY DEF AElement, BElement
  <2> QED BY <2>5, <2>6, <2>7 DEF r, inner
<1> QED BY <1>1, SpecIInv, PTL

\* A launch that has ended leaves the product, or the transposed matrix.
THEOREM SpecResultExact == Spec => []ResultExact
<1>1. IInv => ResultExact
  <2> SUFFICES ASSUME IInv, Ended PROVE C = [a \in 0 .. m * n - 1 |-> Expected(a)]
    BY DEF ResultExact
  <2>1. C \in [0 .. m * n - 1 -> Int \cup {NaN}]
    BY DEF IInv, Shape
  <2>2. \A a \in 0 .. m * n - 1 : C[a] = Expected(a)
    BY DEF IInv, Progress, Ended
  <2> DEFINE N == 0 .. m * n - 1
  <2> HIDE DEF N
  <2>3. C = [a \in N |-> Expected(a)]
    BY <2>1, <2>2 DEF N
  <2> QED BY <2>3 DEF N
<1> QED BY <1>1, SpecIInv, PTL

\* No vector access of a kernel is misaligned: what LaunchEnds says of faults.
THEOREM SpecNoFault == Spec => []~fault
<1>1. IInv => ~fault
  BY DEF IInv, Shape
<1> QED BY <1>1, SpecIInv, PTL

==============================================================================
