------------------------- MODULE TensorMemoryProofs -------------------------
(***************************************************************************)
(* Proofs about TensorMemory, for programs of any length on any number of  *)
(* tensors, sizes, blocks, threads and packets: what the device has been   *)
(* asked leaves in every tensor what the operations, done one at a time,   *)
(* would have left, and the host reads nothing that the device is still to *)
(* write.                                                                  *)
(***************************************************************************)
EXTENDS TensorMemory, Induction, FiniteSetTheorems

-----------------------------------------------------------------------------
(* The inductive invariant.                                                *)

Values == [Element -> Int]
Memories == [Block -> Values]

\* What the device can be asked.
Command ==
    [do : {"copy_kernel"}, src : Block, dst : Block, n : Sizes, type : DataType]
    \cup [do : {"memcpy"}, src : Block, dst : Block, n : Sizes]
    \cup [do : {"upload"}, data : Values, dst : Block, n : Sizes]
    \cup [do : {"fill"}, dst : Block, n : Sizes, v : Int]
    \cup [do : {"add"}, src : Block, dst : Block, n : Sizes]

Tensor == [storage : Nat \ {0}, n : Sizes, type : DataType]

Types ==
    /\ tensor \in [Handles -> Tensor \cup {None}]
    /\ storage \in [DOMAIN storage -> Block]
    /\ promised \in [DOMAIN storage -> Values]
    /\ memory \in Memories
    /\ queue \in Seq(Command)
    /\ waiting \in BOOLEAN /\ ops \in 0 .. MaxOps

\* Storages are those of the tensors, and each has a block of its own.
Names ==
    /\ DOMAIN storage = {tensor[h].storage : h \in Live}
    /\ \A r, s \in DOMAIN storage : storage[r] = storage[s] => r = s

\* Views of a Storage differ in their shapes at most.
Alike == \A g, h \in Live : tensor[g].storage = tensor[h].storage => tensor[g] = tensor[h]

\* Elements are of the type of their tensor.
Converted ==
    \A h \in Live, i \in Element :
        i < tensor[h].n =>
            LET value == promised[tensor[h].storage][i] IN Cast(value, tensor[h].type) = value

Reads(c) == IF c.do \in {"copy_kernel", "memcpy", "add"} THEN {c.src} ELSE {}

\* A command works on memory of the device alone.
OnDevice(c) == \A d \in Reads(c) \cup {c.dst} : d[1] = "CUDA"

\* Unless the host waits, nothing that is queued touches its memory.
DeviceOnly == ~ waiting => \A i \in DOMAIN queue : OnDevice(queue[i])

IInv == Types /\ Names /\ Alike /\ Converted /\ DeviceOnly /\ QueueDelivers

-----------------------------------------------------------------------------
(* Launches: each element is visited by one thread.                        *)

LEMMA Parameters ==
    /\ Blocks \in Nat /\ Threads \in Nat /\ MaxBlocks \in Nat /\ VecWidth \in Nat
    /\ Blocks > 0 /\ Threads > 0 /\ MaxBlocks > 0 /\ VecWidth > 0
    /\ MaxOps \in Nat /\ IsFiniteSet(Handles) /\ Sizes \subseteq Nat
BY MemoryAssumption

LEMMA Elements == \E len \in Nat : Element = 0 .. len - 1 /\ \A n \in Sizes : n <= len
<1>1. PICK len \in Sizes : \A i \in Sizes : i <= len
  BY MemoryAssumption
<1> DEFINE top == CHOOSE n \in Sizes : \A i \in Sizes : i <= n
<1>2. top \in Sizes /\ \A i \in Sizes : i <= top
  BY <1>1
<1>3. Element = 0 .. top - 1
  BY DEF Element
<1> QED BY <1>2, <1>3, Parameters

LEMMA ElementType == Element \subseteq Nat
BY Elements

LEMMA Quotient ==
    ASSUME NEW d \in Nat, d > 0, NEW x \in Nat
    PROVE  x \div d \in Nat /\ x % d \in 0 .. d - 1 /\ x = (x \div d) * d + (x % d)
OBVIOUS

LEMMA Remainder ==
    ASSUME NEW d \in Nat, d > 0, NEW q \in Nat, NEW r \in 0 .. d - 1
    PROVE  (q * d + r) % d = r
OBVIOUS

\* The thread of a launch that visits a position, and no other one does.
LEMMA Visited ==
    ASSUME NEW i \in Nat, NEW first \in Nat, NEW n \in Nat, NEW blocks \in Nat,
           blocks > 0 \/ n = 0
    PROVE  Visits(i, first, n, blocks) = IF first <= i /\ i < n THEN 1 ELSE 0
<1> DEFINE S == {t \in 0 .. blocks * Threads - 1 :
                    i >= first + t /\ i < n /\ (i - first - t) % (blocks * Threads) = 0}
<1>1. Visits(i, first, n, blocks) = Cardinality(S)
  BY DEF Visits
<1>2. CASE first <= i /\ i < n
  <2>1. PICK w \in Nat : w = blocks * Threads /\ w > 0
    <3>1. blocks > 0
      BY <1>2
    <3> QED BY <3>1, Parameters
  <2>2. PICK z \in Nat : z = i - first
    BY <1>2
  <2>3. z \div w \in Nat /\ z % w \in 0 .. w - 1 /\ z = (z \div w) * w + (z % w)
    BY <2>1, Quotient
  <2>4. PICK q \in Nat, r \in 0 .. w - 1 : z = q * w + r
    BY <2>3
  <2>5. S = {t \in 0 .. w - 1 : z >= t /\ (z - t) % w = 0}
    BY <1>2, <2>1, <2>2
  <2>6. r \in S
    <3>1. q * w \in Nat /\ 0 \in 0 .. w - 1
      BY <2>1
    <3>2. (q * w + 0) % w = 0
      BY <2>1, <3>1, Remainder, Zenon
    <3>3. z - r = q * w + 0 /\ z >= r
      BY <2>4, <3>1
    <3>4. (z - r) % w = 0
      BY <3>2, <3>3, Zenon
    <3> QED BY <2>5, <3>3, <3>4, Zenon
  <2>7. ASSUME NEW t \in S PROVE t = r
    <3>1. t \in 0 .. w - 1 /\ z - t \in Nat /\ (z - t) % w = 0
      BY <2>5, <2>7
    <3>2. PICK y \in Nat : y = z - t /\ y % w = 0
      BY <3>1
    <3>3. y \div w \in Nat /\ y = (y \div w) * w + (y % w)
      BY <2>1, Quotient
    <3>4. PICK p \in Nat : y = p * w + 0
      BY <3>2, <3>3
    <3>5. p * w \in Nat /\ z = p * w + t
      <4>1. p * w \in Nat
        BY <2>1
      <4> QED BY <3>1, <3>2, <3>4, <4>1
    <3>6. (p * w + t) % w = t
      BY <2>1, <3>1, Remainder, Zenon
    <3>7. (q * w + r) % w = r
      BY <2>1, Remainder, Zenon
    <3> QED BY <2>4, <3>5, <3>6, <3>7, Zenon
  <2>8. S = {r}
    <3> HIDE DEF S
    <3> QED BY <2>6, <2>7
  <2> QED BY <1>1, <1>2, <2>8, FS_Singleton
<1>3. CASE ~ (first <= i /\ i < n)
  <2>1. S = {}
    <3> SUFFICES ASSUME NEW t \in S PROVE FALSE
      OBVIOUS
    <3>1. t \in Nat /\ i >= first + t /\ i < n
      <4>1. PICK w \in Int : w = blocks * Threads
        BY Parameters
      <4> QED BY <4>1
    <3> QED BY <1>3, <3>1
  <2> QED BY <1>1, <1>3, <2>1, FS_EmptySet
<1> QED BY <1>2, <1>3

LEMMA Launched ==
    ASSUME NEW n \in Nat
    PROVE  CeilBlocks(n) \in Nat /\ (n > 0 => CeilBlocks(n) > 0)
<1>1. PICK d \in Nat : d = Threads /\ d > 0
  BY Parameters
<1>2. PICK b \in Int : b = (n + d - 1) \div d
  BY <1>1
<1>3. n + d - 1 \in Nat
  BY <1>1
<1>4. b \in Nat /\ n + d - 1 = b * d + ((n + d - 1) % d) /\ (n + d - 1) % d \in 0 .. d - 1
  BY <1>1, <1>2, <1>3, Quotient
<1>5. n > 0 => b > 0
  <2> SUFFICES ASSUME n > 0, b = 0 PROVE FALSE
    BY <1>4
  <2>1. b * d = 0
    BY <1>1
  <2> QED BY <1>1, <1>4, <2>1
<1>6. CeilBlocks(n) = IF b > MaxBlocks THEN MaxBlocks ELSE b
  BY <1>1, <1>2 DEF CeilBlocks
<1> QED BY <1>4, <1>5, <1>6, Parameters

\* The threads of a copy or of a fill write the first n elements.
LEMMA WalkedAll ==
    ASSUME NEW i \in Nat, NEW n \in Nat
    PROVE  Walked(i, n) <=> i < n
<1>1. Visits(i, 0, n, CeilBlocks(n)) = IF 0 <= i /\ i < n THEN 1 ELSE 0
  <2>1. CeilBlocks(n) \in Nat /\ (CeilBlocks(n) > 0 \/ n = 0)
    BY Launched
  <2> QED BY <2>1, Visited
<1> QED BY <1>1 DEF Walked

\* The threads of an addition add once to each of the first n elements: the
\* packets, and the elements that make no packet, do not overlap.
LEMMA AddsOnce ==
    ASSUME NEW i \in Nat, NEW n \in Nat
    PROVE  Adds(i, n) = IF i < n THEN 1 ELSE 0
<1>1. PICK v \in Nat : v = VecWidth /\ v > 0
  BY Parameters
<1>2. PICK p \in Nat, e \in 0 .. v - 1 : p = n \div v /\ n = p * v + e
  <2>1. n \div v \in Nat /\ n % v \in 0 .. v - 1 /\ n = (n \div v) * v + (n % v)
    BY <1>1, Quotient
  <2> QED BY <2>1
<1>3. PICK b \in Nat : b = elemwise_blocks(p) /\ b > 0
  BY Launched DEF elemwise_blocks
<1>4. PICK j \in Nat, r \in 0 .. v - 1 : j = i \div v /\ i = j * v + r
  <2>1. i \div v \in Nat /\ i % v \in 0 .. v - 1 /\ i = (i \div v) * v + (i % v)
    BY <1>1, Quotient
  <2> QED BY <2>1
<1>5. PICK x \in Nat : x = p * v
  BY <1>1
<1>6. Adds(i, n) = Visits(j, 0, p, b) + Visits(i, x, n, b)
  BY <1>1, <1>2, <1>3, <1>4, <1>5 DEF Adds
<1>7. Visits(j, 0, p, b) = IF 0 <= j /\ j < p THEN 1 ELSE 0
  BY <1>3, Visited
<1>8. Visits(i, x, n, b) = IF x <= i /\ i < n THEN 1 ELSE 0
  BY <1>3, Visited
<1>9. j < p <=> i < x
  <2>1. CASE j < p
    <3>1. (j + 1) * v <= p * v
      BY <1>1, <2>1
    <3>2. (j + 1) * v = j * v + v
      BY <1>1
    <3>3. j * v \in Nat
      BY <1>1
    <3> QED BY <1>1, <1>4, <1>5, <2>1, <3>1, <3>2, <3>3
  <2>2. CASE ~ (j < p)
    <3>1. p * v <= j * v
      BY <1>1, <2>2
    <3>2. j * v \in Nat
      BY <1>1
    <3> QED BY <1>1, <1>4, <1>5, <2>2, <3>1, <3>2
  <2> QED BY <2>1, <2>2
<1>10. x <= n
  BY <1>1, <1>2, <1>5
<1> QED BY <1>6, <1>7, <1>8, <1>9, <1>10

LEMMA Kernels ==
    ASSUME NEW from, NEW to, NEW n \in Nat, NEW type, NEW v
    PROVE  /\ CopiedByThreads(from, to, n, type) = Copied(from, to, n, type)
           /\ FilledByThreads(to, n, v) = Filled(to, n, v)
           /\ AddedByThreads(from, to, n) = Added(from, to, n)
<1>1. \A i \in Element : Walked(i, n) <=> i < n
  BY ElementType, WalkedAll
<1>2. \A i \in Element : Adds(i, n) = IF i < n THEN 1 ELSE 0
  BY ElementType, AddsOnce
<1>3. CopiedByThreads(from, to, n, type) = Copied(from, to, n, type)
  BY <1>1 DEF CopiedByThreads, Copied
<1>4. FilledByThreads(to, n, v) = Filled(to, n, v)
  BY <1>1 DEF FilledByThreads, Filled
<1>5. AddedByThreads(from, to, n) = Added(from, to, n)
  <2>1. \A i \in Element :
          (IF Adds(i, n) = 0 THEN to[i]
           ELSE IF Adds(i, n) = 1 THEN Plus(to[i], from[i]) ELSE Junk)
            = (IF i < n THEN Plus(to[i], from[i]) ELSE to[i])
    BY <1>2
  <2> QED BY <2>1 DEF AddedByThreads, Added
<1> QED BY <1>3, <1>4, <1>5

-----------------------------------------------------------------------------
(* Values.                                                                 *)

LEMMA CastType ==
    ASSUME NEW v \in Int, NEW type
    PROVE  /\ Cast(v, type) \in Int
           /\ Cast(Cast(v, type), type) = Cast(v, type)
           /\ Cast(v, "double") = v
<1>1. v - (v % 2) \in Int /\ (v - (v % 2)) % 2 = 0
  OBVIOUS
<1> QED BY <1>1 DEF Cast, Junk

LEMMA PlusType ==
    ASSUME NEW v \in Int, NEW w \in Int
    PROVE  Plus(v, w) \in Int
BY DEF Plus, Junk

\* The sum of two integers is one.
LEMMA PlusCast ==
    ASSUME NEW v \in Int, NEW w \in Int, NEW type,
           Cast(v, type) = v, Cast(w, type) = w
    PROVE  Cast(Plus(v, w), type) = Plus(v, w)
BY DEF Plus, Cast, Junk

LEMMA CopiedType ==
    ASSUME NEW from \in Values, NEW to \in Values, NEW n \in Nat, NEW type
    PROVE  Copied(from, to, n, type) \in Values
<1>1. \A i \in Element : Cast(from[i], type) \in Int
  BY CastType DEF Values
<1> QED BY <1>1 DEF Copied, Values

LEMMA FilledType ==
    ASSUME NEW to \in Values, NEW n \in Nat, NEW v \in Int
    PROVE  Filled(to, n, v) \in Values
BY DEF Filled, Values

LEMMA AddedType ==
    ASSUME NEW from \in Values, NEW to \in Values, NEW n \in Nat
    PROVE  Added(from, to, n) \in Values
<1>1. \A i \in Element : Plus(to[i], from[i]) \in Int
  BY PlusType DEF Values
<1> QED BY <1>1 DEF Added, Values

\* A conversion on the way to a temporary or back from it.
LEMMA CopiedTwice ==
    ASSUME NEW from \in Values, NEW tmp \in Values, NEW to \in Values, NEW n \in Nat, NEW type
    PROVE  /\ Copied(Copied(from, tmp, n, "double"), to, n, type) = Copied(from, to, n, type)
           /\ Copied(Copied(from, tmp, n, type), to, n, "double") = Copied(from, to, n, type)
<1>1. \A i \in Element : /\ from[i] \in Int /\ Cast(from[i], "double") = from[i]
                         /\ Cast(Cast(from[i], type), "double") = Cast(from[i], type)
  BY CastType DEF Values
<1>2. PICK up : up = Copied(from, tmp, n, "double")
  OBVIOUS
<1>3. PICK down : down = Copied(from, tmp, n, type)
  OBVIOUS
<1>4. \A i \in Element : i < n => up[i] = from[i] /\ down[i] = Cast(from[i], type)
  BY <1>1, <1>2, <1>3 DEF Copied
<1>5. Copied(up, to, n, type) = Copied(from, to, n, type)
  BY <1>4 DEF Copied
<1>6. Copied(down, to, n, "double") = Copied(from, to, n, type)
  <2>1. \A i \in Element : i < n => Cast(down[i], "double") = Cast(from[i], type)
    BY <1>1, <1>4
  <2> QED BY <2>1 DEF Copied
<1> QED BY <1>2, <1>3, <1>5, <1>6

-----------------------------------------------------------------------------
(* The device: what a sequence of commands leaves in memory.               *)

LEMMA CommandIs ==
    ASSUME NEW src \in Block, NEW dst \in Block, NEW n \in Sizes, NEW type \in DataType,
           NEW data \in Values, NEW v \in Int
    PROVE  /\ CopyKernel(src, dst, n, type) \in Command
           /\ Memcpy(src, dst, n) \in Command
           /\ Upload(data, dst, n) \in Command
           /\ FillKernel(dst, n, v) \in Command
           /\ AddKernel(src, dst, n) \in Command
BY DEF Command, CopyKernel, Memcpy, Upload, FillKernel, AddKernel

\* What a command leaves in the block it writes.
Left(mem, c) ==
    CASE c.do = "copy_kernel" -> Copied(mem[c.src], mem[c.dst], c.n, c.type)
      [] c.do = "memcpy"      -> Copied(mem[c.src], mem[c.dst], c.n, "double")
      [] c.do = "upload"      -> Copied(c.data, mem[c.dst], c.n, "double")
      [] c.do = "fill"        -> Filled(mem[c.dst], c.n, c.v)
      [] c.do = "add"         -> Added(mem[c.src], mem[c.dst], c.n)

LEMMA AfterIs ==
    ASSUME NEW mem \in Memories, NEW c \in Command
    PROVE  After(mem, c) = [mem EXCEPT ![c.dst] = Left(mem, c)]
<1>1. c.n \in Nat
  BY Parameters DEF Command
<1>2. /\ CopiedByThreads(mem[c.src], mem[c.dst], c.n, c.type)
           = Copied(mem[c.src], mem[c.dst], c.n, c.type)
      /\ FilledByThreads(mem[c.dst], c.n, c.v) = Filled(mem[c.dst], c.n, c.v)
      /\ AddedByThreads(mem[c.src], mem[c.dst], c.n) = Added(mem[c.src], mem[c.dst], c.n)
  BY <1>1, Kernels
<1> QED BY <1>2 DEF After, Left

LEMMA LeftType ==
    ASSUME NEW mem \in Memories, NEW c \in Command
    PROVE  Left(mem, c) \in Values /\ c.dst \in Block /\ mem[c.dst] \in Values
<1>1. c.n \in Nat
  BY Parameters DEF Command
<1>2. c.dst \in Block /\ mem[c.dst] \in Values
  BY DEF Command, Memories
<1>3. CASE c.do \in {"copy_kernel", "memcpy", "add"}
  <2>1. mem[c.src] \in Values
    BY <1>3 DEF Command, Memories
  <2>2. /\ Copied(mem[c.src], mem[c.dst], c.n, c.type) \in Values
        /\ Copied(mem[c.src], mem[c.dst], c.n, "double") \in Values
        /\ Added(mem[c.src], mem[c.dst], c.n) \in Values
    BY <1>1, <1>2, <2>1, CopiedType, AddedType
  <2> QED BY <1>2, <1>3, <2>2 DEF Left
<1>4. CASE c.do = "upload"
  <2>1. c.data \in Values
    BY <1>4 DEF Command
  <2>2. Copied(c.data, mem[c.dst], c.n, "double") \in Values
    BY <1>1, <1>2, <2>1, CopiedType
  <2> QED BY <1>2, <1>4, <2>2 DEF Left
<1>5. CASE c.do = "fill"
  <2>1. c.v \in Int
    BY <1>5 DEF Command
  <2>2. Filled(mem[c.dst], c.n, c.v) \in Values
    BY <1>1, <1>2, <2>1, FilledType
  <2> QED BY <1>2, <1>5, <2>2 DEF Left
<1>6. c.do \in {"copy_kernel", "memcpy", "add", "upload", "fill"}
  BY DEF Command
<1> QED BY <1>3, <1>4, <1>5, <1>6

LEMMA AfterType ==
    ASSUME NEW mem \in Memories, NEW c \in Command
    PROVE  /\ After(mem, c) \in Memories
           /\ After(mem, c)[c.dst] = Left(mem, c)
           /\ \A b \in Block : b # c.dst => After(mem, c)[b] = mem[b]
BY AfterIs, LeftType DEF Memories

\* Another block does not matter to a command.
LEMMA AfterElsewhere ==
    ASSUME NEW mem \in Memories, NEW c \in Command, NEW d \in Block, NEW v \in Values,
           d \notin Reads(c) \cup {c.dst}
    PROVE  After([mem EXCEPT ![d] = v], c) = [After(mem, c) EXCEPT ![d] = v]
<1> DEFINE other == [mem EXCEPT ![d] = v]
<1>1. other \in Memories /\ other[c.dst] = mem[c.dst]
  BY LeftType DEF Memories
<1>2. Left(other, c) = Left(mem, c)
  <2>1. c.do \in {"copy_kernel", "memcpy", "add"} => other[c.src] = mem[c.src]
    <3> SUFFICES ASSUME c.do \in {"copy_kernel", "memcpy", "add"}
                 PROVE  other[c.src] = mem[c.src]
      OBVIOUS
    <3>1. c.src # d /\ c.src \in Block
      BY DEF Reads, Command
    <3> QED BY <3>1 DEF Memories
  <2> HIDE DEF other
  <2>2. c.do \in {"copy_kernel", "memcpy", "add", "upload", "fill"}
    BY DEF Command
  <2> QED BY <1>1, <2>1, <2>2 DEF Left
<1>3. After(other, c) = [other EXCEPT ![c.dst] = Left(mem, c)]
  <2> HIDE DEF other
  <2> QED BY <1>1, <1>2, AfterIs
<1>4. After(mem, c) = [mem EXCEPT ![c.dst] = Left(mem, c)] /\ d # c.dst /\ c.dst \in Block
  BY AfterIs, LeftType
<1> QED BY <1>3, <1>4 DEF Memories

\* r gives the memory after each number of commands.
Steps(r, mem, commands) ==
    /\ r \in [0 .. Len(commands) -> Memories]
    /\ r[0] = mem
    /\ \A i \in 1 .. Len(commands) : r[i] = After(r[i - 1], commands[i])

LEMMA AfterAllSteps ==
    ASSUME NEW mem \in Memories, NEW commands \in Seq(Command)
    PROVE  \E r : Steps(r, mem, commands) /\ AfterAll(mem, commands) = r[Len(commands)]
<1> DEFINE len == Len(commands)
           F == [i \in 1 .. len |-> [x \in Memories |-> After(x, commands[i])]]
           Def(s) == [i \in 0 .. len |-> IF i = 0 THEN mem ELSE After(s[i - 1], commands[i])]
           done == CHOOSE s : s = Def(s)
<1>0. len \in Nat
  OBVIOUS
<1>1. F \in [1 .. len -> [Memories -> Memories]]
  <2>1. \A i \in 1 .. len : commands[i] \in Command
    OBVIOUS
  <2> QED BY <2>1, AfterType
<1>2. PICK r : Recursion(r, len, Memories, mem, F)
  <2> HIDE DEF F, len
  <2> QED BY <1>0, <1>1, IntervalRecursion, Zenon
<1>3. \A i \in 1 .. len : F[i][r[i - 1]] = After(r[i - 1], commands[i])
  BY <1>2 DEF Recursion
<1>4. Steps(r, mem, commands)
  <2> HIDE DEF F
  <2> QED BY <1>2, <1>3 DEF Recursion, Steps
<1>5. r = Def(r)
  <2> HIDE DEF F
  <2>1. ASSUME NEW i \in 0 .. len
        PROVE  r[i] = IF i = 0 THEN mem ELSE After(r[i - 1], commands[i])
    <3>1. CASE i = 0
      BY <3>1, <1>4 DEF Steps
    <3>2. CASE i # 0
      <4>1. i \in 1 .. len
        BY <1>0, <3>2
      <4> QED BY <3>2, <4>1, <1>4 DEF Steps
    <3> QED BY <3>1, <3>2
  <2> QED BY <2>1, <1>4 DEF Steps
<1>6. done = Def(done)
  <2> HIDE DEF Def
  <2> QED BY <1>5
<1>7. \A i \in 0 .. len : done[i] = IF i = 0 THEN mem ELSE After(done[i - 1], commands[i])
  <2> HIDE DEF done
  <2> QED BY <1>6
<1> DEFINE T == {i \in 0 .. len : done[i] = r[i]}
<1>8. 0 \in T
  <2> HIDE DEF done
  <2> QED BY <1>0, <1>4, <1>7 DEF Steps
<1>9. ASSUME NEW i \in 1 .. len, i - 1 \in T PROVE i \in T
  <2> HIDE DEF done
  <2>1. i \in 0 .. len /\ i # 0
    BY <1>0
  <2>2. done[i] = After(done[i - 1], commands[i])
    BY <1>7, <2>1
  <2>3. r[i] = After(r[i - 1], commands[i]) /\ done[i - 1] = r[i - 1]
    BY <1>4, <1>9 DEF Steps
  <2> QED BY <2>1, <2>2, <2>3
<1>10. 0 .. len \subseteq T
  <2> HIDE DEF T, len
  <2> QED BY <1>0, <1>8, <1>9, IntervalInduction
<1>11. done[len] = r[len]
  <2> HIDE DEF done
  <2> QED BY <1>0, <1>10
<1>12. AfterAll(mem, commands) = done[len]
  BY DEF AfterAll
<1> QED BY <1>4, <1>11, <1>12

\* Two such functions agree where their commands do.
LEMMA StepsAgree ==
    ASSUME NEW mem \in Memories, NEW c, NEW d, NEW r, NEW s, NEW len \in Nat,
           len <= Len(c), len <= Len(d), Len(c) \in Nat, Len(d) \in Nat,
           Steps(r, mem, c), Steps(s, mem, d),
           \A i \in 1 .. len : c[i] = d[i]
    PROVE  r[len] = s[len]
<1> DEFINE T == {i \in 0 .. len : r[i] = s[i]}
<1>1. 0 \in T
  BY DEF Steps
<1>2. ASSUME NEW i \in 1 .. len, i - 1 \in T PROVE i \in T
  <2>1. i \in 1 .. Len(c) /\ i \in 1 .. Len(d) /\ i \in 0 .. len
    OBVIOUS
  <2>2. r[i] = After(r[i - 1], c[i]) /\ s[i] = After(s[i - 1], d[i])
    BY <2>1 DEF Steps
  <2> QED BY <1>2, <2>1, <2>2
<1>3. 0 .. len \subseteq T
  <2> HIDE DEF T
  <2> QED BY <1>1, <1>2, IntervalInduction
<1> QED BY <1>3

LEMMA AfterAllType ==
    ASSUME NEW mem \in Memories, NEW commands \in Seq(Command)
    PROVE  AfterAll(mem, commands) \in Memories /\ (commands = <<>> => AfterAll(mem, commands) = mem)
<1>1. PICK r : Steps(r, mem, commands) /\ AfterAll(mem, commands) = r[Len(commands)]
  BY AfterAllSteps
<1> QED BY <1>1 DEF Steps

\* One command more.
LEMMA AfterAllAppend ==
    ASSUME NEW mem \in Memories, NEW commands \in Seq(Command), NEW c \in Command
    PROVE  AfterAll(mem, Append(commands, c)) = After(AfterAll(mem, commands), c)
<1> DEFINE more == Append(commands, c)
           len == Len(commands)
<1>1. /\ more \in Seq(Command) /\ Len(more) = len + 1 /\ len \in Nat /\ more[len + 1] = c
      /\ \A i \in 1 .. len : commands[i] = more[i]
  OBVIOUS
<1>2. PICK r : Steps(r, mem, commands) /\ AfterAll(mem, commands) = r[len]
  BY AfterAllSteps
<1> HIDE DEF more, len
<1>3. PICK s : Steps(s, mem, more) /\ AfterAll(mem, more) = s[len + 1]
  BY <1>1, AfterAllSteps
<1>4. r[len] = s[len]
  <2>1. len <= Len(more) /\ Len(more) \in Nat /\ len <= Len(commands) /\ Len(commands) \in Nat
    BY <1>1 DEF len
  <2>2. \A i \in 1 .. len : commands[i] = more[i]
    BY <1>1
  <2>3. Steps(r, mem, commands) /\ Steps(s, mem, more) /\ len \in Nat
    BY <1>1, <1>2, <1>3
  <2> QED BY <2>1, <2>2, <2>3, StepsAgree, SMTT(20)
<1>5. s[len + 1] = After(s[len], c)
  <2>1. len + 1 \in 1 .. Len(more) /\ (len + 1) - 1 = len
    BY <1>1
  <2> QED BY <1>1, <1>3, <2>1 DEF Steps
<1> QED BY <1>2, <1>3, <1>4, <1>5 DEF more

\* The first command done.
LEMMA AfterAllTail ==
    ASSUME NEW mem \in Memories, NEW commands \in Seq(Command), commands # <<>>
    PROVE  AfterAll(After(mem, Head(commands)), Tail(commands)) = AfterAll(mem, commands)
<1> DEFINE rest == Tail(commands)
           len == Len(rest)
           mem1 == After(mem, Head(commands))
<1>1. /\ rest \in Seq(Command) /\ len \in Nat /\ Len(commands) = len + 1
      /\ \A i \in 1 .. len : rest[i] = commands[i + 1]
      /\ Head(commands) = commands[1] /\ Head(commands) \in Command
  OBVIOUS
<1>2. mem1 \in Memories
  BY <1>1, AfterType
<1>3. PICK r : Steps(r, mem, commands) /\ AfterAll(mem, commands) = r[len + 1]
  BY <1>1, AfterAllSteps
<1> HIDE DEF rest, len
<1>4. PICK s : Steps(s, mem1, rest) /\ AfterAll(mem1, rest) = s[len]
  <2> HIDE DEF mem1
  <2> QED BY <1>1, <1>2, AfterAllSteps DEF len
<1> DEFINE T == {i \in 0 .. len : s[i] = r[i + 1]}
<1>5. 0 \in T
  <2>1. 1 \in 1 .. Len(commands) /\ 1 - 1 = 0
    BY <1>1
  <2>2. r[1] = After(r[0], commands[1]) /\ r[0] = mem
    BY <1>3, <2>1 DEF Steps
  <2>3. s[0] = mem1
    BY <1>4 DEF Steps
  <2> QED BY <1>1, <2>2, <2>3
<1>6. ASSUME NEW i \in 1 .. len, i - 1 \in T PROVE i \in T
  <2>1. /\ i + 1 \in 1 .. Len(commands) /\ (i + 1) - 1 = i /\ i \in 0 .. len
        /\ i \in 1 .. Len(rest) /\ (i - 1) + 1 = i
    BY <1>1 DEF len
  <2>2. r[i + 1] = After(r[i], commands[i + 1])
    BY <1>3, <2>1 DEF Steps
  <2>3. s[i] = After(s[i - 1], rest[i])
    BY <1>4, <2>1 DEF Steps
  <2>4. s[i - 1] = r[i]
    BY <1>6, <2>1
  <2> QED BY <1>1, <2>1, <2>2, <2>3, <2>4
<1>7. 0 .. len \subseteq T
  <2> HIDE DEF T
  <2> QED BY <1>1, <1>5, <1>6, IntervalInduction
<1>8. s[len] = r[len + 1]
  BY <1>1, <1>7
<1> QED BY <1>3, <1>4, <1>8 DEF rest

With(mem, d, v) == [mem EXCEPT ![d] = v]

\* No command reads or writes block d.
LeftAlone(d, commands) ==
    \A i \in DOMAIN commands : d \notin Reads(commands[i]) \cup {commands[i].dst}

\* Commands that leave a block alone do not see what the host writes there.
LEMMA AfterAllElsewhere ==
    ASSUME NEW mem \in Memories, NEW commands \in Seq(Command), NEW d \in Block, NEW v \in Values,
           LeftAlone(d, commands)
    PROVE  /\ AfterAll(With(mem, d, v), commands) = With(AfterAll(mem, commands), d, v)
           /\ AfterAll(mem, commands)[d] = mem[d]
<1> DEFINE len == Len(commands)
           other == [mem EXCEPT ![d] = v]
<1>1. /\ len \in Nat
      /\ \A i \in 1 .. len : /\ commands[i] \in Command
                            /\ d \notin Reads(commands[i]) \cup {commands[i].dst}
  BY DEF LeftAlone
<1>2. other \in Memories
  BY DEF Memories
<1>3. PICK r : Steps(r, mem, commands) /\ AfterAll(mem, commands) = r[len]
  BY AfterAllSteps
<1>4. PICK s : Steps(s, other, commands) /\ AfterAll(other, commands) = s[len]
  <2> HIDE DEF other
  <2> QED BY <1>2, AfterAllSteps
<1> HIDE DEF len
<1> DEFINE T == {i \in 0 .. len : s[i] = [r[i] EXCEPT ![d] = v] /\ r[i][d] = mem[d]}
<1>5. 0 \in T
  <2>1. r[0] = mem /\ s[0] = [mem EXCEPT ![d] = v]
    BY <1>3, <1>4 DEF Steps
  <2>2. s[0] = [r[0] EXCEPT ![d] = v] /\ r[0][d] = mem[d]
    BY <2>1, Zenon
  <2> QED BY <1>1, <2>2
<1>6. ASSUME NEW i \in 1 .. len, i - 1 \in T PROVE i \in T
  <2>1. i \in 0 .. len /\ i - 1 \in 0 .. len
    BY <1>1
  <2>2. PICK x \in Memories : x = r[i - 1]
    BY <1>3, <2>1 DEF Steps, len
  <2>3. PICK c \in Command : c = commands[i] /\ d \notin Reads(c) \cup {c.dst}
    BY <1>1
  <2>4. r[i] = After(x, c) /\ s[i] = After(s[i - 1], c)
    BY <1>3, <1>4, <2>2, <2>3 DEF Steps, len
  <2>5. s[i - 1] = [x EXCEPT ![d] = v] /\ x[d] = mem[d]
    BY <1>6, <2>2
  <2>6. s[i] = [r[i] EXCEPT ![d] = v]
    BY <2>3, <2>4, <2>5, AfterElsewhere
  <2>7. r[i][d] = mem[d]
    <3>1. d # c.dst
      BY <2>3
    <3>2. After(x, c)[d] = x[d]
      BY <3>1, AfterType
    <3> QED BY <2>4, <2>5, <3>2
  <2> QED BY <2>1, <2>6, <2>7, Zenon
<1>7. 0 .. len \subseteq T
  <2> HIDE DEF T
  <2> QED BY <1>1, <1>5, <1>6, IntervalInduction
<1>8. s[len] = [r[len] EXCEPT ![d] = v] /\ r[len][d] = mem[d]
  BY <1>1, <1>7
<1> QED BY <1>3, <1>4, <1>8 DEF With

-----------------------------------------------------------------------------
(* Tensors, storages and blocks.                                           *)

\* What memory will hold when the device has done what it was asked.
Final == AfterAll(memory, queue)

LEMMA NoTensor == None \notin Tensor
BY MemoryAssumption DEF Tensor, DataType

LEMMA LiveTensor ==
    ASSUME Types, Names, NEW h \in Live
    PROVE  /\ h \in Handles /\ tensor[h] \in Tensor
           /\ tensor[h].storage \in DOMAIN storage /\ MemoryOf(h) \in Block
           /\ tensor[h].n \in Sizes /\ tensor[h].n \in Nat /\ tensor[h].type \in DataType
           /\ MemoryOf(h) \in InUse
           /\ promised[tensor[h].storage] \in Values
<1>1. h \in Handles /\ tensor[h] \in Tensor
  BY DEF Types, Live
<1>2. tensor[h].storage \in DOMAIN storage
  BY DEF Names
<1>3. MemoryOf(h) \in Block /\ MemoryOf(h) \in InUse /\ promised[tensor[h].storage] \in Values
  BY <1>2 DEF Types, MemoryOf, InUse
<1> QED BY <1>1, <1>2, <1>3, Parameters DEF Tensor

\* There are fewer storages than names for them.
LEMMA NewName ==
    ASSUME Types, Names
    PROVE  NewStorage \in Nat \ {0} /\ NewStorage \notin DOMAIN storage
<1> DEFINE many == Cardinality(Handles) + 1
           f == [h \in Live |-> tensor[h].storage]
<1>1. IsFiniteSet(Live) /\ Cardinality(Live) <= Cardinality(Handles)
      /\ Cardinality(Live) \in Nat /\ Cardinality(Handles) \in Nat
  <2>1. Live \in SUBSET Handles
    BY DEF Live
  <2> QED BY <2>1, Parameters, FS_Subset, FS_CardinalityType
<1>2. IsFiniteSet(DOMAIN storage) /\ Cardinality(DOMAIN storage) <= Cardinality(Live)
  <2>1. f \in Surjection(Live, DOMAIN storage)
    BY DEF Names, Surjection
  <2> QED BY <1>1, <2>1, FS_Surjection
<1>3. IsFiniteSet(1 .. many) /\ Cardinality(1 .. many) = many
  <2>1. many \in Int /\ 1 \in Int /\ ~ (1 > many) /\ many - 1 + 1 = many
    BY <1>1
  <2> HIDE DEF many
  <2> QED BY <2>1, FS_Interval
<1>4. \E s \in 1 .. many : s \notin DOMAIN storage
  <2> SUFFICES ASSUME 1 .. many \subseteq DOMAIN storage PROVE FALSE
    OBVIOUS
  <2>1. Cardinality(1 .. many) <= Cardinality(DOMAIN storage)
    BY <1>2, FS_Subset
  <2>2. Cardinality(DOMAIN storage) \in Nat
    BY <1>2, FS_CardinalityType
  <2> QED BY <1>1, <1>2, <1>3, <2>1, <2>2
<1>5. NewStorage \in 1 .. many /\ NewStorage \notin DOMAIN storage
  BY <1>4 DEF NewStorage
<1> QED BY <1>1, <1>5

LEMMA AllocatedIs ==
    ASSUME NEW device \in DeviceType, NEW taken, NEW d \in Allocated(device, taken)
    PROVE  d \in Block /\ d[1] = device /\ d \notin InUse /\ d \notin taken
<1>1. PICK i \in 1 .. Blocks : d = <<device, i>> /\ d \notin InUse \cup taken
  BY DEF Allocated
<1> QED BY <1>1 DEF Block

\* What is left of the storages when h holds something else.
LEMMA WithoutIs ==
    ASSUME Types, Names, NEW h \in Handles
    PROVE  /\ Without(h) = {tensor[g].storage : g \in Live \ {h}}
           /\ Without(h) \subseteq DOMAIN storage
<1>1. CASE h \in Live
  <2>1. PICK s : s = tensor[h].storage
    OBVIOUS
  <2>2. Without(h) = IF SharedBy(s) \subseteq {h} THEN DOMAIN storage \ {s} ELSE DOMAIN storage
    BY <1>1, <2>1 DEF Without
  <2>3. CASE SharedBy(s) \subseteq {h}
    <3>1. \A g \in Live : tensor[g].storage = s => g = h
      BY <2>3 DEF SharedBy
    <3> QED BY <2>1, <2>2, <2>3, <3>1 DEF Names
  <2>4. CASE ~ (SharedBy(s) \subseteq {h})
    <3>1. PICK g \in Live : tensor[g].storage = s /\ g # h
      BY <2>4 DEF SharedBy
    <3> QED BY <2>1, <2>2, <2>4, <3>1 DEF Names
  <2> QED BY <2>3, <2>4
<1>2. CASE h \notin Live
  <2>1. 0 \notin DOMAIN storage
    BY LiveTensor DEF Names, Tensor
  <2>2. Without(h) = DOMAIN storage
    BY <1>2, <2>1 DEF Without
  <2> QED BY <1>2, <2>2 DEF Names
<1> QED BY <1>1, <1>2

-----------------------------------------------------------------------------
(* What an operation changes in what memory will hold.                     *)

\* Block d holds v, and the blocks of the other storages hold what they held.
Writes(F, G, d, v) ==
    /\ G \in Memories
    /\ G[d] = v
    /\ \A s \in DOMAIN storage : storage[s] # d => G[storage[s]] = F[storage[s]]

LEMMA FinalType == ASSUME Types PROVE Final \in Memories
BY AfterAllType DEF Types, Final

\* The host reads memory of its own as it will be.
LEMMA HostSees ==
    ASSUME Types, DeviceOnly, ~ waiting, NEW d \in Block, d[1] = "CPU"
    PROVE  Final[d] = memory[d]
<1>1. LeftAlone(d, queue)
  BY DEF DeviceOnly, OnDevice, LeftAlone
<1>2. memory \in Memories /\ queue \in Seq(Command)
  BY DEF Types
<1>3. memory[d] \in Values
  BY <1>2 DEF Memories
<1> QED BY <1>1, <1>2, <1>3, AfterAllElsewhere DEF Final

\* The host writes memory of its own.
LEMMA HostWrites ==
    ASSUME Types, DeviceOnly, ~ waiting, NEW d \in Block, d[1] = "CPU", NEW v \in Values,
           memory' = [memory EXCEPT ![d] = v], queue' = queue
    PROVE  memory' \in Memories /\ Writes(Final, Final', d, v)
<1>1. LeftAlone(d, queue)
  BY DEF DeviceOnly, OnDevice, LeftAlone
<1>2. memory \in Memories /\ queue \in Seq(Command)
  BY DEF Types
<1>3. PICK F \in Memories : F = Final
  BY FinalType
<1>4. Final' = [F EXCEPT ![d] = v]
  <2>1. Final' = AfterAll(With(memory, d, v), queue)
    BY DEF Final, With
  <2>2. AfterAll(With(memory, d, v), queue) = With(AfterAll(memory, queue), d, v)
    BY <1>1, <1>2, AfterAllElsewhere
  <2>3. AfterAll(memory, queue) = F
    BY <1>3 DEF Final
  <2> QED BY <2>1, <2>2, <2>3 DEF With
<1>5. Final' \in Memories /\ Final'[d] = v
  BY <1>4 DEF Memories
<1>6. \A s \in DOMAIN storage : storage[s] # d => Final'[storage[s]] = F[storage[s]]
  BY <1>4 DEF Memories, Types
<1>7. memory' \in Memories
  BY <1>2 DEF Memories
<1> QED BY <1>3, <1>5, <1>6, <1>7 DEF Writes

\* The device is asked for one thing.
LEMMA Asked ==
    ASSUME Types, NEW c \in Command, memory' = memory, queue' = Append(queue, c)
    PROVE  /\ queue' \in Seq(Command) /\ Final' = After(Final, c)
           /\ Writes(Final, Final', c.dst, Left(Final, c))
<1>1. memory \in Memories /\ queue \in Seq(Command)
  BY DEF Types
<1>2. queue' \in Seq(Command)
  BY <1>1
<1>3. Final' = After(Final, c)
  BY <1>1, AfterAllAppend DEF Final
<1>4. Final \in Memories
  BY FinalType
<1>5. \A s \in DOMAIN storage : storage[s] \in Block
  BY DEF Types
<1> QED BY <1>2, <1>3, <1>4, <1>5, AfterType DEF Writes

\* The device is asked for two things, of which the first uses a temporary.
LEMMA AskedTwice ==
    ASSUME Types, NEW b \in Command, NEW c \in Command, b.dst \notin InUse,
           memory' = memory, queue' = queue \o <<b, c>>
    PROVE  /\ queue' \in Seq(Command)
           /\ Writes(Final, Final', c.dst, Left(After(Final, b), c))
<1>1. memory \in Memories /\ queue \in Seq(Command)
  BY DEF Types
<1>2. Append(queue, b) \in Seq(Command) /\ queue' = Append(Append(queue, b), c)
  BY <1>1
<1>3. queue' \in Seq(Command)
  BY <1>2
<1>4. PICK F \in Memories : F = Final
  BY FinalType
<1>5. PICK G \in Memories : G = After(F, b)
  BY <1>4, AfterType
<1>6. AfterAll(memory, Append(queue, b)) = G
  BY <1>1, <1>4, <1>5, AfterAllAppend DEF Final
<1>7. Final' = After(G, c)
  <2>1. Final' = AfterAll(memory, Append(Append(queue, b), c))
    BY <1>2 DEF Final
  <2>2. AfterAll(memory, Append(Append(queue, b), c)) = After(AfterAll(memory, Append(queue, b)), c)
    BY <1>1, <1>2, AfterAllAppend
  <2> QED BY <1>6, <2>1, <2>2
<1>8. \A s \in DOMAIN storage : storage[s] \in Block /\ G[storage[s]] = F[storage[s]]
  <2>1. \A s \in DOMAIN storage : storage[s] \in Block /\ storage[s] # b.dst
    BY DEF Types, InUse
  <2> QED BY <1>4, <1>5, <2>1, AfterType
<1>9. Writes(F, After(G, c), c.dst, Left(G, c))
  BY <1>5, <1>8, AfterType DEF Writes
<1> QED BY <1>3, <1>4, <1>5, <1>7, <1>9

LEMMA AskedOnDevice ==
    ASSUME Types, DeviceOnly, ~ waiting, NEW b \in Command, NEW c \in Command,
           queue' = queue \/ queue' = Append(queue, c) \/ queue' = queue \o <<b, c>>,
           ~ waiting' => OnDevice(b) /\ OnDevice(c)
    PROVE  DeviceOnly'
<1> SUFFICES ASSUME ~ waiting', NEW i \in DOMAIN queue' PROVE OnDevice(queue'[i])
  BY DEF DeviceOnly
<1>1. OnDevice(b) /\ OnDevice(c) /\ queue \in Seq(Command)
  BY DEF Types
<1>2. queue'[i] \in {queue[j] : j \in DOMAIN queue} \cup {b, c}
  <2>1. CASE queue' = queue
    BY <2>1
  <2>2. CASE queue' = Append(queue, c)
    BY <1>1, <2>2
  <2>3. CASE queue' = queue \o <<b, c>>
    BY <1>1, <2>3
  <2> QED BY <2>1, <2>2, <2>3
<1> QED BY <1>1, <1>2 DEF DeviceOnly

\* A copy between blocks, on any devices, leaves the converted elements in the
\* destination and changes nothing else that is in use.
LEMMA CopyWrites ==
    ASSUME Types, DeviceOnly, ~ waiting, NEW src \in Block, src \in InUse, NEW dst \in Block,
           NEW n \in Sizes, NEW type \in DataType, copy_stub(src, dst, n, type)
    PROVE  /\ memory' \in Memories /\ queue' \in Seq(Command) /\ waiting' \in BOOLEAN
           /\ DeviceOnly'
           /\ Writes(Final, Final', dst, Copied(Final[src], Final[dst], n, type))
<1>1. n \in Nat /\ memory \in Memories /\ queue \in Seq(Command)
  BY Parameters DEF Types
<1>2. PICK F \in Memories : F = Final
  BY FinalType
<1>3. F[src] \in Values /\ F[dst] \in Values /\ memory[src] \in Values
  BY <1>1, <1>2 DEF Memories
<1>4. PICK w \in Values : w = Copied(F[src], F[dst], n, type)
  BY <1>1, <1>3, CopiedType
<1>5. CASE src[1] = "CPU" /\ dst[1] = "CPU"
  <2>1. /\ memory' = [memory EXCEPT ![dst] = Copied(memory[src], memory[dst], n, type)]
        /\ queue' = queue /\ waiting' = waiting
    BY <1>5 DEF copy_stub
  <2>2. memory[src] = F[src] /\ memory[dst] = F[dst]
    BY <1>2, <1>5, HostSees
  <2>3. memory' = [memory EXCEPT ![dst] = w]
    BY <1>4, <2>1, <2>2
  <2>4. memory' \in Memories /\ Writes(Final, Final', dst, w)
    BY <1>5, <2>1, <2>3, HostWrites
  <2>5. DeviceOnly'
    BY <2>1 DEF DeviceOnly
  <2>6. queue' \in Seq(Command) /\ waiting' \in BOOLEAN
    BY <2>1 DEF Types
  <2> QED BY <1>2, <1>4, <2>4, <2>5, <2>6
<1>6. CASE ~ (src[1] = "CPU" /\ dst[1] = "CPU")
  <2>1. PICK tmp \in Allocated("CUDA", {dst}) :
          /\ queue' = queue \o IF src[1] = "CPU"
                                THEN vecCopyHostToDevice(memory[src], dst, tmp, n, type)
                                ELSE copy_cuda(src, dst, tmp, n, type)
          /\ waiting' = HostWaits(dst)
          /\ memory' = memory
    BY <1>6 DEF copy_stub
  <2>2. tmp \in Block /\ tmp[1] = "CUDA" /\ tmp \notin InUse /\ tmp # dst
    BY AllocatedIs DEF DeviceType
  <2>3. waiting' \in BOOLEAN /\ (~ waiting' => dst[1] = "CUDA")
    BY <2>1 DEF HostWaits, Block, DeviceType
  <2>4. F[tmp] \in Values
    BY <1>2, <2>2 DEF Memories
  <2>5. CASE src[1] = "CPU"
    <3>1. PICK b \in Command : b = Upload(memory[src], tmp, n)
      BY <1>3, <2>2, CommandIs
    <3>2. PICK c \in Command : c = CopyKernel(tmp, dst, n, type)
      BY <1>3, <2>2, CommandIs
    <3>3. queue' = queue \o <<b, c>>
      BY <2>1, <2>5, <3>1, <3>2 DEF vecCopyHostToDevice
    <3>4. b.dst = tmp /\ c.dst = dst
      BY <3>1, <3>2 DEF Upload, CopyKernel
    <3>5. Left(F, b) = Copied(memory[src], F[tmp], n, "double")
      BY <3>1 DEF Left, Upload
    <3>6. PICK G \in Memories : G = After(F, b)
      BY AfterType
    <3>7. G[tmp] = Left(F, b) /\ G[dst] = F[dst]
      BY <2>2, <3>4, <3>6, AfterType
    <3>8. Left(G, c) = Copied(G[tmp], G[dst], n, type)
      BY <3>2 DEF Left, CopyKernel
    <3>9. memory[src] = F[src]
      BY <1>2, <2>5, HostSees
    <3>10. Left(G, c) = w
      BY <1>1, <1>3, <1>4, <2>4, <3>5, <3>7, <3>8, <3>9, CopiedTwice
    <3>11. queue' \in Seq(Command) /\ Writes(Final, Final', dst, w)
      BY <1>2, <2>1, <2>2, <3>3, <3>4, <3>6, <3>10, AskedTwice
    <3>12. dst[1] = "CUDA" => OnDevice(b) /\ OnDevice(c)
      BY <2>2, <3>1, <3>2 DEF OnDevice, Reads, Upload, CopyKernel
    <3>13. DeviceOnly'
      BY <2>3, <3>3, <3>12, AskedOnDevice
    <3> QED BY <1>1, <1>2, <1>4, <2>1, <2>3, <3>11, <3>13
  <2>6. CASE src[1] # "CPU"
    <3>1. PICK b \in Command : b = CopyKernel(src, tmp, n, type)
      BY <1>3, <2>2, CommandIs
    <3>2. PICK c \in Command : c = Memcpy(tmp, dst, n)
      BY <1>3, <2>2, CommandIs
    <3>3. queue' = queue \o <<b, c>>
      BY <2>1, <2>6, <3>1, <3>2 DEF copy_cuda
    <3>4. b.dst = tmp /\ c.dst = dst
      BY <3>1, <3>2 DEF Memcpy, CopyKernel
    <3>5. Left(F, b) = Copied(F[src], F[tmp], n, type)
      BY <3>1 DEF Left, CopyKernel
    <3>6. PICK G \in Memories : G = After(F, b)
      BY AfterType
    <3>7. G[tmp] = Left(F, b) /\ G[dst] = F[dst]
      BY <2>2, <3>4, <3>6, AfterType
    <3>8. Left(G, c) = Copied(G[tmp], G[dst], n, "double")
      BY <3>2 DEF Left, Memcpy
    <3>9. Left(G, c) = w
      BY <1>1, <1>3, <1>4, <2>4, <3>5, <3>7, <3>8, CopiedTwice
    <3>10. queue' \in Seq(Command) /\ Writes(Final, Final', dst, w)
      BY <1>2, <2>1, <2>2, <3>3, <3>4, <3>6, <3>9, AskedTwice
    <3>11. src[1] = "CUDA"
      BY <2>6 DEF Block, DeviceType
    <3>12. dst[1] = "CUDA" => OnDevice(b) /\ OnDevice(c)
      BY <2>2, <3>1, <3>2, <3>11 DEF OnDevice, Reads, Memcpy, CopyKernel
    <3>13. DeviceOnly'
      BY <2>3, <3>3, <3>12, AskedOnDevice
    <3> QED BY <1>1, <1>2, <1>4, <2>1, <2>3, <3>10, <3>13
  <2> QED BY <2>5, <2>6
<1> QED BY <1>5, <1>6

-----------------------------------------------------------------------------
(* What an operation changes in the tensors.                               *)

\* A block holds what is due to a tensor, and what is due is of its type.
Holding(t, found, due) ==
    \A i \in Element : i < t.n => found[i] = due[i] /\ Cast(due[i], t.type) = due[i]

LEMMA EachHolds ==
    ASSUME Converted, QueueDelivers, NEW h \in Live
    PROVE  Holding(tensor[h], Final[MemoryOf(h)], promised[tensor[h].storage])
BY DEF Converted, QueueDelivers, Final, Holding

LEMMA AllHold ==
    ASSUME \A h \in Live' :
               Holding(tensor'[h], Final'[MemoryOf(h)'], promised'[tensor'[h].storage])
    PROVE  Converted' /\ QueueDelivers'
<1>1. Converted'
  BY DEF Converted, Holding
<1>2. QueueDelivers'
  BY DEF QueueDelivers, Final, Holding
<1> QED BY <1>1, <1>2

\* An operation that writes a tensor in place, and all its views.
LEMMA Overwritten ==
    ASSUME IInv, NEW h \in Live, tensor' = tensor, storage' = storage,
           NEW v, NEW w \in Values,
           promised' = [promised EXCEPT ![tensor[h].storage] = w],
           Writes(Final, Final', MemoryOf(h), v), Holding(tensor[h], v, w)
    PROVE  /\ promised' \in [DOMAIN storage' -> Values]
           /\ Names' /\ Alike' /\ Converted' /\ QueueDelivers'
<1>1. /\ promised' \in [DOMAIN storage -> Values] /\ promised'[tensor[h].storage] = w
      /\ \A s \in DOMAIN storage : s # tensor[h].storage => promised'[s] = promised[s]
  BY LiveTensor DEF IInv, Types
<1>2. Names' /\ Alike' /\ Live' = Live
  BY DEF IInv, Names, Alike, Live
<1>3. ASSUME NEW g \in Live
      PROVE  Holding(tensor[g], Final'[MemoryOf(g)], promised'[tensor[g].storage])
  <2>1. CASE tensor[g].storage = tensor[h].storage
    <3>1. tensor[g] = tensor[h] /\ MemoryOf(g) = MemoryOf(h)
      BY <2>1 DEF IInv, Alike, MemoryOf
    <3> QED BY <1>1, <3>1 DEF Writes
  <2>2. CASE tensor[g].storage # tensor[h].storage
    <3>1. /\ tensor[g].storage \in DOMAIN storage /\ tensor[h].storage \in DOMAIN storage
          /\ MemoryOf(g) # MemoryOf(h)
      BY <2>2, LiveTensor DEF IInv, Names, MemoryOf
    <3>2. Final'[MemoryOf(g)] = Final[MemoryOf(g)]
      BY <3>1 DEF Writes, MemoryOf
    <3>3. promised'[tensor[g].storage] = promised[tensor[g].storage]
      BY <1>1, <2>2, <3>1
    <3>4. Holding(tensor[g], Final[MemoryOf(g)], promised[tensor[g].storage])
      BY EachHolds DEF IInv
    <3> QED BY <3>2, <3>3, <3>4
  <2> QED BY <2>1, <2>2
<1>4. Converted' /\ QueueDelivers'
  <2>1. \A g \in Live : MemoryOf(g)' = MemoryOf(g)
    BY DEF MemoryOf
  <2> QED BY <1>2, <1>3, <2>1, AllHold
<1> QED BY <1>1, <1>2, <1>4

\* h is made a tensor of its own, on a block that was not in use.
LEMMA Replaced ==
    ASSUME IInv, NEW h \in Handles, NEW d \in Block, d \notin InUse,
           NEW n \in Sizes, NEW type \in DataType, NEW w \in Values, Holds(h, d, n, type, w),
           NEW v, Writes(Final, Final', d, v),
           \A i \in Element : i < n => v[i] = w[i] /\ Cast(w[i], type) = w[i]
    PROVE  /\ tensor' \in [Handles -> Tensor \cup {None}]
           /\ storage' \in [DOMAIN storage' -> Block]
           /\ promised' \in [DOMAIN storage' -> Values]
           /\ Names' /\ Alike' /\ Converted' /\ QueueDelivers'
<1>1. PICK s \in Nat \ {0} : s = NewStorage /\ s \notin DOMAIN storage
  BY NewName DEF IInv
<1>2. PICK t \in Tensor : t = [storage |-> s, n |-> n, type |-> type]
  BY DEF Tensor
<1>3. PICK left : left = Without(h)
  OBVIOUS
<1>4. left \subseteq DOMAIN storage /\ left = {tensor[g].storage : g \in Live \ {h}}
  BY <1>3, WithoutIs DEF IInv
<1>5. tensor' = [tensor EXCEPT ![h] = t]
  BY <1>1, <1>2 DEF Holds
<1>6. /\ DOMAIN storage' = left \cup {s} /\ storage' = [r \in left \cup {s} |-> storage'[r]]
      /\ storage'[s] = d /\ \A r \in left : storage'[r] = storage[r]
  BY <1>1, <1>3, <1>4 DEF Holds, Extended
<1>7. /\ promised' = [r \in left \cup {s} |-> promised'[r]]
      /\ promised'[s] = w /\ \A r \in left : promised'[r] = promised[r]
  BY <1>1, <1>3, <1>4 DEF Holds, Extended
<1>8. tensor' \in [Handles -> Tensor \cup {None}] /\ tensor'[h] = t
      /\ \A g \in Handles \ {h} : tensor'[g] = tensor[g]
  BY <1>5 DEF IInv, Types
<1>9. Live' = (Live \ {h}) \cup {h}
  <2>1. t # None
    BY NoTensor
  <2> QED BY <1>8, <2>1 DEF Live
<1>10. \A r \in left : storage[r] \in Block /\ storage[r] # d /\ promised[r] \in Values
  BY <1>4 DEF IInv, Types, InUse
<1>11. storage' \in [DOMAIN storage' -> Block] /\ promised' \in [DOMAIN storage' -> Values]
  BY <1>6, <1>7, <1>10
<1>12. \A g \in Live \ {h} : tensor[g].storage \in left /\ g \in Handles
  BY <1>4 DEF Live
<1>13. t.storage = s /\ t.n = n /\ t.type = type
  BY <1>2
<1>14. Names'
  <2>1. DOMAIN storage' = {tensor'[g].storage : g \in Live'}
    BY <1>4, <1>6, <1>8, <1>9, <1>12, <1>13
  <2>2. ASSUME NEW p \in DOMAIN storage', NEW q \in DOMAIN storage', storage'[p] = storage'[q]
        PROVE  p = q
    <3>1. \A r \in left : storage'[r] # storage'[s] /\ r # s
      BY <1>1, <1>4, <1>6, <1>10
    <3>2. CASE p \in left /\ q \in left
      BY <1>4, <1>6, <2>2, <3>2 DEF IInv, Names
    <3>3. CASE p = s \/ q = s
      BY <1>6, <2>2, <3>1, <3>3
    <3> QED BY <1>6, <3>2, <3>3
  <2> QED BY <2>1, <2>2 DEF Names
<1>15. Alike'
  <2> SUFFICES ASSUME NEW f \in Live', NEW g \in Live', tensor'[f].storage = tensor'[g].storage
               PROVE  tensor'[f] = tensor'[g]
    BY DEF Alike
  <2>1. CASE f # h /\ g # h
    BY <1>8, <1>9, <1>12, <2>1 DEF IInv, Alike
  <2>2. CASE f = h \/ g = h
    <3>1. \A e \in Live \ {h} : tensor'[e].storage # s
      BY <1>1, <1>4, <1>8, <1>12
    <3> QED BY <1>8, <1>9, <1>13, <2>2, <3>1
  <2> QED BY <2>1, <2>2
<1>16. ASSUME NEW g \in Live'
       PROVE  Holding(tensor'[g], Final'[MemoryOf(g)'], promised'[tensor'[g].storage])
  <2>1. CASE g = h
    <3>1. MemoryOf(g)' = d
      BY <1>6, <1>8, <1>13, <2>1 DEF MemoryOf
    <3>2. Final'[d] = v
      BY DEF Writes
    <3> QED BY <1>7, <1>8, <1>13, <2>1, <3>1, <3>2 DEF Holding
  <2>2. CASE g # h
    <3>1. g \in Live /\ tensor'[g] = tensor[g] /\ tensor[g].storage \in left
      BY <1>8, <1>9, <1>12, <2>2
    <3>2. MemoryOf(g)' = MemoryOf(g) /\ promised'[tensor[g].storage] = promised[tensor[g].storage]
      BY <1>6, <1>7, <3>1 DEF MemoryOf
    <3>3. Final'[MemoryOf(g)] = Final[MemoryOf(g)]
      BY <1>4, <1>10, <3>1 DEF Writes, MemoryOf
    <3>4. Holding(tensor[g], Final[MemoryOf(g)], promised[tensor[g].storage])
      BY <3>1, EachHolds DEF IInv
    <3> QED BY <3>1, <3>2, <3>3, <3>4
  <2> QED BY <2>1, <2>2
<1>17. Converted' /\ QueueDelivers'
  BY <1>16, AllHold
<1> QED BY <1>8, <1>11, <1>14, <1>15, <1>17

\* h holds what another variable holds, or nothing; no memory changes.
LEMMA Forgotten ==
    ASSUME IInv, NEW h \in Handles, NEW t,
           t = None \/ \E g \in Live \ {h} : t = tensor[g],
           tensor' = [tensor EXCEPT ![h] = t],
           storage' = Restricted(storage, Without(h)),
           promised' = Restricted(promised, Without(h)),
           memory' = memory, queue' = queue
    PROVE  /\ tensor' \in [Handles -> Tensor \cup {None}]
           /\ storage' \in [DOMAIN storage' -> Block]
           /\ promised' \in [DOMAIN storage' -> Values]
           /\ Names' /\ Alike' /\ Converted' /\ QueueDelivers'
<1>1. PICK left : left = Without(h)
  OBVIOUS
<1>2. left \subseteq DOMAIN storage /\ left = {tensor[g].storage : g \in Live \ {h}}
  BY <1>1, WithoutIs DEF IInv
<1>3. DOMAIN storage' = left /\ storage' = [r \in left |-> storage[r]]
      /\ promised' = [r \in left |-> promised[r]]
  BY <1>1 DEF Restricted
<1>4. \A g \in Live \ {h} : tensor[g].storage \in left /\ g \in Handles /\ tensor[g] \in Tensor
  BY <1>2 DEF Live, IInv, Types
<1>5. /\ tensor' \in [Handles -> Tensor \cup {None}] /\ tensor'[h] = t
      /\ \A g \in Handles \ {h} : tensor'[g] = tensor[g]
  BY <1>4 DEF IInv, Types
<1>6. storage' \in [DOMAIN storage' -> Block] /\ promised' \in [DOMAIN storage' -> Values]
  BY <1>2, <1>3 DEF IInv, Types
\* Each tensor afterwards is one of another variable before.
<1>7. \A g \in Live' : \E f \in Live \ {h} : tensor'[g] = tensor[f]
  <2>1. \A g \in Live' : g \in Handles /\ tensor'[g] # None
    BY DEF Live
  <2>2. \A g \in Handles \ {h} : tensor[g] # None => g \in Live
    BY DEF Live
  <2> QED BY <1>5, <2>1, <2>2
<1>8. \A f \in Live \ {h} : f \in Live' /\ tensor'[f] = tensor[f]
  BY <1>5 DEF Live
<1>9. Names'
  <2>1. DOMAIN storage' = {tensor'[g].storage : g \in Live'}
    BY <1>2, <1>3, <1>7, <1>8
  <2>2. \A p, q \in DOMAIN storage' : storage'[p] = storage'[q] => p = q
    BY <1>2, <1>3 DEF IInv, Names
  <2> QED BY <2>1, <2>2 DEF Names
<1>10. Alike'
  <2>1. \A f, g \in Live : tensor[f].storage = tensor[g].storage => tensor[f] = tensor[g]
    BY DEF IInv, Alike
  <2>2. \A f, g \in Live' : tensor'[f].storage = tensor'[g].storage => tensor'[f] = tensor'[g]
    BY <1>7, <2>1
  <2> QED BY <2>2 DEF Alike
<1>11. ASSUME NEW g \in Live'
       PROVE  Holding(tensor'[g], Final'[MemoryOf(g)'], promised'[tensor'[g].storage])
  <2>1. PICK f \in Live \ {h} : tensor'[g] = tensor[f]
    BY <1>7
  <2>2. tensor[f].storage \in left
    BY <1>4
  <2>3. MemoryOf(g)' = MemoryOf(f) /\ promised'[tensor[f].storage] = promised[tensor[f].storage]
    BY <1>3, <2>1, <2>2 DEF MemoryOf
  <2>4. Final' = Final
    BY DEF Final
  <2>5. Holding(tensor[f], Final[MemoryOf(f)], promised[tensor[f].storage])
    BY EachHolds DEF IInv
  <2> QED BY <2>1, <2>3, <2>4, <2>5
<1>12. Converted' /\ QueueDelivers'
  BY <1>11, AllHold
<1> QED BY <1>5, <1>6, <1>9, <1>10, <1>12

LEMMA FreshIs ==
    ASSUME NEW values \in Values, NEW n \in Nat
    PROVE  /\ Fresh(values, n) \in Values
           /\ \A i \in Element : i < n => Fresh(values, n)[i] = values[i]
<1>1. PICK none \in Values : none = [i \in Element |-> Junk]
  <2>1. Junk \in Int
    BY DEF Junk
  <2>2. [i \in Element |-> Junk] \in Values
    BY <2>1 DEF Values
  <2> QED BY <2>2, Zenon
<1>2. Fresh(values, n) = Copied(values, none, n, "double")
  BY <1>1 DEF Fresh
<1>3. \A i \in Element : Cast(values[i], "double") = values[i]
  BY CastType DEF Values
<1> QED BY <1>2, <1>3, CopiedType DEF Copied

LEMMA InitialType == Initial \in Values
<1>1. \A i \in Element : 2 * i + 3 \in Int
  BY ElementType
<1> QED BY <1>1 DEF Initial, Values

-----------------------------------------------------------------------------
(* The inductive invariant holds.                                          *)

LEMMA OpIs ==
    ASSUME IInv, Op
    PROVE  ~ waiting /\ ops' \in 0 .. MaxOps /\ waiting \in BOOLEAN
BY Parameters DEF IInv, Types, Op

LEMMA MakeIInv ==
    ASSUME IInv, NEW h \in Handles, NEW device \in DeviceType, NEW n \in Sizes,
           NEW type \in DataType, Make(h, device, n, type)
    PROVE  IInv'
<1> USE DEF IInv
<1>1. Op /\ waiting' = waiting /\ n \in Nat
  BY Parameters DEF Make
<1>2. PICK data \in Values : data = [i \in Element |-> Cast(Initial[i], type)]
  <2>1. \A i \in Element : Cast(Initial[i], type) \in Int
    BY InitialType, CastType DEF Values
  <2> QED BY <2>1 DEF Values
<1>3. PICK m \in Allocated(device, {}) :
        /\ Holds(h, m, n, type, Fresh(data, n))
        /\ IF device = "CPU"
           THEN /\ memory' = [memory EXCEPT ![m] = Copied(Initial, memory[m], n, type)]
                /\ UNCHANGED queue
           ELSE \E tmp \in Allocated(device, {m}) :
                /\ queue' = queue \o vecCopyHostToDevice(Initial, m, tmp, n, type)
                /\ UNCHANGED memory
  BY <1>2 DEF Make
<1>4. m \in Block /\ m[1] = device /\ m \notin InUse
  BY AllocatedIs
<1>5. PICK F \in Memories : F = Final
  BY FinalType
<1>6. F[m] \in Values /\ memory[m] \in Values
  BY <1>4, <1>5 DEF Memories, Types
<1>7. PICK v \in Values : v = Copied(Initial, F[m], n, type)
  BY <1>1, <1>6, InitialType, CopiedType
<1>8. /\ memory' \in Memories /\ queue' \in Seq(Command) /\ DeviceOnly'
      /\ Writes(Final, Final', m, v)
  <2>1. CASE device = "CPU"
    <3>1. memory[m] = F[m]
      BY <1>1, <1>4, <1>5, <2>1, OpIs, HostSees
    <3>2. memory' = [memory EXCEPT ![m] = v] /\ queue' = queue
      BY <1>3, <1>7, <2>1, <3>1
    <3>3. memory' \in Memories /\ Writes(Final, Final', m, v)
      BY <1>1, <1>4, <2>1, <3>2, OpIs, HostWrites
    <3> QED BY <1>1, <3>2, <3>3 DEF Types, DeviceOnly
  <2>2. CASE device # "CPU"
    <3>1. PICK tmp \in Allocated(device, {m}) :
            queue' = queue \o vecCopyHostToDevice(Initial, m, tmp, n, type) /\ memory' = memory
      BY <1>3, <2>2
    <3>2. tmp \in Block /\ tmp[1] = "CUDA" /\ tmp \notin InUse /\ tmp # m /\ m[1] = "CUDA"
      BY <1>4, <2>2, AllocatedIs DEF DeviceType
    <3>3. PICK b \in Command : b = Upload(Initial, tmp, n)
      BY <3>2, InitialType, CommandIs
    <3>4. PICK c \in Command : c = CopyKernel(tmp, m, n, type)
      BY <1>4, <3>2, InitialType, CommandIs
    <3>5. queue' = queue \o <<b, c>>
      BY <3>1, <3>3, <3>4 DEF vecCopyHostToDevice
    <3>6. b.dst = tmp /\ c.dst = m /\ OnDevice(b) /\ OnDevice(c)
      BY <3>2, <3>3, <3>4 DEF Upload, CopyKernel, OnDevice, Reads
    <3>7. PICK G \in Memories : G = After(F, b)
      BY AfterType
    <3>8. G[tmp] = Left(F, b) /\ G[m] = F[m]
      BY <1>4, <3>2, <3>6, <3>7, AfterType
    <3>9. Left(F, b) = Copied(Initial, F[tmp], n, "double") /\ F[tmp] \in Values
      BY <3>2, <3>3 DEF Left, Upload, Memories
    <3>10. Left(G, c) = Copied(G[tmp], G[m], n, type)
      BY <3>4 DEF Left, CopyKernel
    <3>11. Left(G, c) = v
      BY <1>1, <1>6, <1>7, <3>8, <3>9, <3>10, InitialType, CopiedTwice
    <3>12. queue' \in Seq(Command) /\ Writes(Final, Final', m, v)
      BY <1>5, <3>1, <3>2, <3>5, <3>6, <3>7, <3>11, AskedTwice
    <3>13. DeviceOnly'
      BY <1>1, <3>5, <3>6, OpIs, AskedOnDevice
    <3> QED BY <3>1, <3>12, <3>13 DEF Types
  <2> QED BY <2>1, <2>2
<1>9. PICK w \in Values : w = Fresh(data, n)
  BY <1>1, FreshIs
<1>10. \A i \in Element : i < n => v[i] = w[i] /\ Cast(w[i], type) = w[i]
  <2>1. ASSUME NEW i \in Element, i < n PROVE v[i] = w[i] /\ Cast(w[i], type) = w[i]
    <3>1. w[i] = Cast(Initial[i], type) /\ v[i] = Cast(Initial[i], type)
      BY <1>1, <1>2, <1>7, <1>9, <2>1, FreshIs DEF Copied
    <3>2. Initial[i] \in Int
      BY InitialType DEF Values
    <3> QED BY <3>1, <3>2, CastType
  <2> QED BY <2>1
<1>11. Holds(h, m, n, type, w)
  BY <1>3, <1>9
<1>12. /\ tensor' \in [Handles -> Tensor \cup {None}]
       /\ storage' \in [DOMAIN storage' -> Block]
       /\ promised' \in [DOMAIN storage' -> Values]
       /\ Names' /\ Alike' /\ Converted' /\ QueueDelivers'
  BY <1>4, <1>8, <1>10, <1>11, Replaced
<1>13. waiting' \in BOOLEAN /\ ops' \in 0 .. MaxOps
  BY <1>1, OpIs
<1> QED BY <1>8, <1>12, <1>13 DEF Types

LEMMA FullLikeIInv ==
    ASSUME IInv, NEW h \in Handles, NEW g \in Handles, FullLike(h, g, 7)
    PROVE  IInv'
<1> USE DEF IInv
<1>1. Op /\ g \in Live /\ waiting' = waiting
  BY DEF FullLike
<1>2. PICK n \in Sizes, type \in DataType : n = tensor[g].n /\ type = tensor[g].type /\ n \in Nat
  BY <1>1, LiveTensor
<1>3. PICK x \in Int : x = Cast(7, type) /\ Cast(x, type) = x
  BY CastType
<1>4. PICK data \in Values : data = [i \in Element |-> x]
  BY DEF Values
<1>5. PICK m \in Allocated(DeviceOf(g), {}) :
        /\ Holds(h, m, n, type, Fresh(data, n))
        /\ IF m[1] = "CPU"
           THEN memory' = [memory EXCEPT ![m] = Filled(memory[m], n, x)] /\ UNCHANGED queue
           ELSE queue' = Append(queue, FillKernel(m, n, x)) /\ UNCHANGED memory
  BY <1>2, <1>3, <1>4 DEF FullLike
<1>6. m \in Block /\ m \notin InUse
  <2>1. DeviceOf(g) \in DeviceType
    BY <1>1, LiveTensor DEF DeviceOf, Block
  <2> QED BY <2>1, AllocatedIs
<1>7. PICK F \in Memories : F = Final
  BY FinalType
<1>8. F[m] \in Values /\ memory[m] \in Values
  BY <1>6, <1>7 DEF Memories, Types
<1>9. PICK v \in Values : v = Filled(F[m], n, x)
  BY <1>2, <1>8, FilledType
<1>10. /\ memory' \in Memories /\ queue' \in Seq(Command) /\ DeviceOnly'
       /\ Writes(Final, Final', m, v)
  <2>1. CASE m[1] = "CPU"
    <3>1. memory[m] = F[m]
      BY <1>1, <1>6, <1>7, <2>1, OpIs, HostSees
    <3>2. memory' = [memory EXCEPT ![m] = v] /\ queue' = queue
      BY <1>5, <1>9, <2>1, <3>1
    <3>3. memory' \in Memories /\ Writes(Final, Final', m, v)
      BY <1>1, <1>6, <2>1, <3>2, OpIs, HostWrites
    <3> QED BY <1>1, <3>2, <3>3 DEF Types, DeviceOnly
  <2>2. CASE m[1] # "CPU"
    <3>1. PICK c \in Command : c = FillKernel(m, n, x)
      BY <1>6, CommandIs, InitialType
    <3>2. queue' = Append(queue, c) /\ memory' = memory
      BY <1>5, <2>2, <3>1
    <3>3. c.dst = m /\ Left(F, c) = v
      BY <1>9, <3>1 DEF FillKernel, Left
    <3>4. m[1] = "CUDA"
      BY <1>6, <2>2 DEF Block, DeviceType
    <3>5. OnDevice(c)
      BY <3>1, <3>4 DEF OnDevice, Reads, FillKernel
    <3>6. queue' \in Seq(Command) /\ Writes(Final, Final', m, v)
      BY <1>7, <3>2, <3>3, Asked
    <3>7. DeviceOnly'
      BY <1>1, <3>2, <3>5, OpIs, AskedOnDevice
    <3> QED BY <3>2, <3>6, <3>7 DEF Types
  <2> QED BY <2>1, <2>2
<1>11. PICK w \in Values : w = Fresh(data, n)
  BY <1>2, FreshIs
<1>12. \A i \in Element : i < n => v[i] = w[i] /\ Cast(w[i], type) = w[i]
  BY <1>2, <1>3, <1>4, <1>9, <1>11, FreshIs DEF Filled
<1>13. Holds(h, m, n, type, w)
  BY <1>5, <1>11
<1>14. /\ tensor' \in [Handles -> Tensor \cup {None}]
       /\ storage' \in [DOMAIN storage' -> Block]
       /\ promised' \in [DOMAIN storage' -> Values]
       /\ Names' /\ Alike' /\ Converted' /\ QueueDelivers'
  BY <1>6, <1>10, <1>12, <1>13, Replaced
<1>15. waiting' \in BOOLEAN /\ ops' \in 0 .. MaxOps
  BY <1>1, OpIs
<1> QED BY <1>10, <1>14, <1>15 DEF Types

LEMMA ToIInv ==
    ASSUME IInv, NEW h \in Handles, NEW g \in Handles, NEW device \in DeviceType, To(h, g, device)
    PROVE  IInv'
<1> USE DEF IInv
<1>1. Op /\ g \in Live
  BY DEF To
<1>2. PICK n \in Sizes, type \in DataType : n = tensor[g].n /\ type = tensor[g].type /\ n \in Nat
  BY <1>1, LiveTensor
<1>3. PICK src \in Block : src = MemoryOf(g) /\ src \in InUse
  BY <1>1, LiveTensor
<1>4. PICK data \in Values : data = promised[tensor[g].storage]
  BY <1>1, LiveTensor
<1>5. PICK m \in Allocated(device, {}) :
        /\ Holds(h, m, n, type, Fresh(data, n))
        /\ copy_stub(src, m, n, type)
  BY <1>2, <1>3, <1>4 DEF To
<1>6. m \in Block /\ m \notin InUse
  BY AllocatedIs
<1>7. PICK F \in Memories : F = Final
  BY FinalType
<1>8. PICK v \in Values : v = Copied(F[src], F[m], n, type)
  <2>1. F[src] \in Values /\ F[m] \in Values
    BY <1>6 DEF Memories
  <2> QED BY <1>2, <2>1, CopiedType
<1>9. /\ memory' \in Memories /\ queue' \in Seq(Command) /\ waiting' \in BOOLEAN
      /\ DeviceOnly' /\ Writes(Final, Final', m, v)
  BY <1>1, <1>3, <1>5, <1>6, <1>7, <1>8, OpIs, CopyWrites
<1>10. PICK w \in Values : w = Fresh(data, n)
  BY <1>2, FreshIs
<1>11. \A i \in Element : i < n => v[i] = w[i] /\ Cast(w[i], type) = w[i]
  <2>1. Holding(tensor[g], F[src], data)
    BY <1>1, <1>3, <1>4, <1>7, EachHolds
  <2> QED BY <1>2, <1>8, <1>10, <2>1, FreshIs DEF Copied, Holding
<1>12. Holds(h, m, n, type, w)
  BY <1>5, <1>10
<1>13. /\ tensor' \in [Handles -> Tensor \cup {None}]
       /\ storage' \in [DOMAIN storage' -> Block]
       /\ promised' \in [DOMAIN storage' -> Values]
       /\ Names' /\ Alike' /\ Converted' /\ QueueDelivers'
  BY <1>6, <1>9, <1>11, <1>12, Replaced
<1>14. ops' \in 0 .. MaxOps
  BY <1>1, OpIs
<1> QED BY <1>9, <1>13, <1>14 DEF Types

LEMMA ForgetIInv ==
    ASSUME IInv, NEW h \in Handles, NEW g \in Handles, View(h, g) \/ Drop(h)
    PROVE  IInv'
<1> USE DEF IInv
<1>1. PICK t : /\ t = None \/ \E f \in Live \ {h} : t = tensor[f]
               /\ tensor' = [tensor EXCEPT ![h] = t]
               /\ storage' = Restricted(storage, Without(h))
               /\ promised' = Restricted(promised, Without(h))
               /\ memory' = memory /\ queue' = queue /\ waiting' = waiting /\ Op
  BY DEF View, Drop
<1>2. /\ tensor' \in [Handles -> Tensor \cup {None}]
      /\ storage' \in [DOMAIN storage' -> Block]
      /\ promised' \in [DOMAIN storage' -> Values]
      /\ Names' /\ Alike' /\ Converted' /\ QueueDelivers'
  BY <1>1, Forgotten
<1>3. waiting' \in BOOLEAN /\ ops' \in 0 .. MaxOps
  BY <1>1, OpIs
<1>4. DeviceOnly'
  BY <1>1 DEF DeviceOnly
<1> QED BY <1>1, <1>2, <1>3, <1>4 DEF Types

LEMMA FillIInv ==
    ASSUME IInv, NEW h \in Handles, Fill(h, 9)
    PROVE  IInv'
<1> USE DEF IInv
<1>1. Op /\ h \in Live /\ tensor' = tensor /\ storage' = storage /\ waiting' = waiting
  BY DEF Fill
<1>2. PICK n \in Sizes, type \in DataType : n = tensor[h].n /\ type = tensor[h].type /\ n \in Nat
  BY <1>1, LiveTensor
<1>3. PICK x \in Int : x = Cast(9, type) /\ Cast(x, type) = x
  BY CastType
<1>4. PICK d \in Block, s \in DOMAIN storage : d = MemoryOf(h) /\ s = tensor[h].storage
  BY <1>1, LiveTensor
<1>5. PICK c \in Command : c = FillKernel(d, n, x)
  BY CommandIs, InitialType
<1>6. /\ promised' = [promised EXCEPT ![s] = Filled(promised[s], n, x)]
      /\ IF d[1] = "CPU"
         THEN memory' = [memory EXCEPT ![d] = Filled(memory[d], n, x)] /\ UNCHANGED queue
         ELSE queue' = Append(queue, c) /\ UNCHANGED memory
  BY <1>2, <1>3, <1>4, <1>5 DEF Fill, FillKernel, DeviceOf
<1>7. PICK F \in Memories : F = Final
  BY FinalType
<1>8. F[d] \in Values /\ promised[s] \in Values
  BY <1>7 DEF Memories, Types
<1>9. PICK v \in Values, w \in Values : v = Filled(F[d], n, x) /\ w = Filled(promised[s], n, x)
  BY <1>2, <1>8, FilledType
<1>10. /\ memory' \in Memories /\ queue' \in Seq(Command) /\ DeviceOnly'
       /\ Writes(Final, Final', d, v)
  <2>1. CASE d[1] = "CPU"
    <3>1. memory[d] = F[d]
      BY <1>1, <1>7, <2>1, OpIs, HostSees
    <3>2. memory' = [memory EXCEPT ![d] = v] /\ queue' = queue
      BY <1>6, <1>9, <2>1, <3>1
    <3>3. memory' \in Memories /\ Writes(Final, Final', d, v)
      BY <1>1, <2>1, <3>2, OpIs, HostWrites
    <3> QED BY <1>1, <3>2, <3>3 DEF Types, DeviceOnly
  <2>2. CASE d[1] # "CPU"
    <3>1. queue' = Append(queue, c) /\ memory' = memory
      BY <1>6, <2>2
    <3>2. c.dst = d /\ Left(F, c) = v
      BY <1>5, <1>9 DEF FillKernel, Left
    <3>3. d[1] = "CUDA"
      BY <2>2 DEF Block, DeviceType
    <3>4. OnDevice(c)
      BY <1>5, <3>3 DEF OnDevice, Reads, FillKernel
    <3>5. queue' \in Seq(Command) /\ Writes(Final, Final', d, v)
      BY <1>7, <3>1, <3>2, Asked
    <3>6. DeviceOnly'
      BY <1>1, <3>1, <3>4, OpIs, AskedOnDevice
    <3> QED BY <3>1, <3>5, <3>6 DEF Types
  <2> QED BY <2>1, <2>2
<1>11. Holding(tensor[h], v, w)
  BY <1>2, <1>3, <1>7, <1>9, <1>4, <1>1, EachHolds DEF Filled, Holding
<1>12. /\ promised' \in [DOMAIN storage' -> Values]
       /\ Names' /\ Alike' /\ Converted' /\ QueueDelivers'
  BY <1>1, <1>4, <1>6, <1>9, <1>10, <1>11, Overwritten
<1>13. waiting' \in BOOLEAN /\ ops' \in 0 .. MaxOps
  BY <1>1, OpIs
<1> QED BY <1>1, <1>10, <1>12, <1>13 DEF Types

LEMMA AddInplaceIInv ==
    ASSUME IInv, NEW h \in Handles, NEW g \in Handles, AddInplace(h, g)
    PROVE  IInv'
<1> USE DEF IInv
<1>1. /\ Op /\ h \in Live /\ g \in Live
      /\ tensor' = tensor /\ storage' = storage /\ waiting' = waiting
      /\ DeviceOf(h) = DeviceOf(g)
  BY DEF AddInplace
<1>2. PICK n \in Sizes, type \in DataType :
        /\ n = tensor[h].n /\ type = tensor[h].type /\ n \in Nat
        /\ n = tensor[g].n /\ type = tensor[g].type
  BY <1>1, LiveTensor DEF AddInplace
<1>3. PICK d \in Block, s \in DOMAIN storage : d = MemoryOf(h) /\ s = tensor[h].storage
  BY <1>1, LiveTensor
<1>4. PICK src \in Block, r \in DOMAIN storage : src = MemoryOf(g) /\ r = tensor[g].storage
  BY <1>1, LiveTensor
<1>5. PICK c \in Command : c = AddKernel(src, d, n)
  BY CommandIs, InitialType
<1>6. /\ promised' = [promised EXCEPT ![s] = Added(promised[r], promised[s], n)]
      /\ IF d[1] = "CPU"
         THEN memory' = [memory EXCEPT ![d] = Added(memory[src], memory[d], n)] /\ UNCHANGED queue
         ELSE queue' = Append(queue, c) /\ UNCHANGED memory
  BY <1>2, <1>3, <1>4, <1>5 DEF AddInplace, AddKernel, DeviceOf
<1>7. PICK F \in Memories : F = Final
  BY FinalType
<1>8. F[d] \in Values /\ F[src] \in Values /\ promised[s] \in Values /\ promised[r] \in Values
  BY <1>7 DEF Memories, Types
<1>9. PICK v \in Values, w \in Values :
        v = Added(F[src], F[d], n) /\ w = Added(promised[r], promised[s], n)
  BY <1>2, <1>8, AddedType
<1>10. /\ memory' \in Memories /\ queue' \in Seq(Command) /\ DeviceOnly'
       /\ Writes(Final, Final', d, v)
  <2>0. src[1] = d[1]
    BY <1>1, <1>3, <1>4 DEF DeviceOf
  <2>1. CASE d[1] = "CPU"
    <3>1. memory[d] = F[d] /\ memory[src] = F[src]
      BY <1>1, <1>7, <2>0, <2>1, OpIs, HostSees
    <3>2. memory' = [memory EXCEPT ![d] = v] /\ queue' = queue
      BY <1>6, <1>9, <2>1, <3>1
    <3>3. memory' \in Memories /\ Writes(Final, Final', d, v)
      BY <1>1, <2>1, <3>2, OpIs, HostWrites
    <3> QED BY <1>1, <3>2, <3>3 DEF Types, DeviceOnly
  <2>2. CASE d[1] # "CPU"
    <3>1. queue' = Append(queue, c) /\ memory' = memory
      BY <1>6, <2>2
    <3>2. c.dst = d /\ Left(F, c) = v
      BY <1>5, <1>9 DEF AddKernel, Left
    <3>3. d[1] = "CUDA"
      BY <2>2 DEF Block, DeviceType
    <3>4. OnDevice(c)
      BY <1>5, <2>0, <3>3 DEF OnDevice, Reads, AddKernel
    <3>5. queue' \in Seq(Command) /\ Writes(Final, Final', d, v)
      BY <1>7, <3>1, <3>2, Asked
    <3>6. DeviceOnly'
      BY <1>1, <3>1, <3>4, OpIs, AskedOnDevice
    <3> QED BY <3>1, <3>5, <3>6 DEF Types
  <2> QED BY <2>1, <2>2
<1>11. Holding(tensor[h], v, w)
  <2>1. Holding(tensor[h], F[d], promised[s]) /\ Holding(tensor[g], F[src], promised[r])
    BY <1>1, <1>3, <1>4, <1>7, EachHolds
  <2>2. ASSUME NEW i \in Element, i < n PROVE v[i] = w[i] /\ Cast(w[i], type) = w[i]
    <3>1. /\ F[d][i] = promised[s][i] /\ Cast(promised[s][i], type) = promised[s][i]
          /\ F[src][i] = promised[r][i] /\ Cast(promised[r][i], type) = promised[r][i]
      BY <1>2, <2>1, <2>2 DEF Holding
    <3>2. promised[s][i] \in Int /\ promised[r][i] \in Int
      BY <1>8 DEF Values
    <3>3. v[i] = Plus(F[d][i], F[src][i]) /\ w[i] = Plus(promised[s][i], promised[r][i])
      BY <1>9, <2>2 DEF Added
    <3> QED BY <3>1, <3>2, <3>3, PlusCast
  <2> QED BY <1>2, <2>2 DEF Holding
<1>12. /\ promised' \in [DOMAIN storage' -> Values]
       /\ Names' /\ Alike' /\ Converted' /\ QueueDelivers'
  BY <1>1, <1>3, <1>6, <1>9, <1>10, <1>11, Overwritten
<1>13. waiting' \in BOOLEAN /\ ops' \in 0 .. MaxOps
  BY <1>1, OpIs
<1> QED BY <1>1, <1>10, <1>12, <1>13 DEF Types

LEMMA CopyFromIInv ==
    ASSUME IInv, NEW h \in Handles, NEW g \in Handles, CopyFrom(h, g)
    PROVE  IInv'
<1> USE DEF IInv
<1>1. Op /\ h \in Live /\ g \in Live /\ tensor' = tensor /\ storage' = storage
  BY DEF CopyFrom
<1>2. PICK n \in Sizes, type \in DataType :
        n = tensor[g].n /\ type = tensor[h].type /\ n \in Nat /\ n <= tensor[h].n
  BY <1>1, LiveTensor DEF CopyFrom
<1>3. PICK d \in Block, s \in DOMAIN storage : d = MemoryOf(h) /\ s = tensor[h].storage
  BY <1>1, LiveTensor
<1>4. PICK src \in Block, r \in DOMAIN storage :
        src = MemoryOf(g) /\ r = tensor[g].storage /\ src \in InUse
  BY <1>1, LiveTensor
<1>5. /\ promised' = [promised EXCEPT ![s] = Copied(promised[r], promised[s], n, type)]
      /\ copy_stub(src, d, n, type)
  BY <1>2, <1>3, <1>4 DEF CopyFrom
<1>6. PICK F \in Memories : F = Final
  BY FinalType
<1>7. F[d] \in Values /\ F[src] \in Values /\ promised[s] \in Values /\ promised[r] \in Values
  BY <1>6 DEF Memories, Types
<1>8. PICK v \in Values, w \in Values :
        v = Copied(F[src], F[d], n, type) /\ w = Copied(promised[r], promised[s], n, type)
  BY <1>2, <1>7, CopiedType
<1>9. /\ memory' \in Memories /\ queue' \in Seq(Command) /\ waiting' \in BOOLEAN
      /\ DeviceOnly' /\ Writes(Final, Final', d, v)
  BY <1>1, <1>4, <1>5, <1>6, <1>8, OpIs, CopyWrites
<1>10. Holding(tensor[h], v, w)
  <2>1. Holding(tensor[h], F[d], promised[s]) /\ Holding(tensor[g], F[src], promised[r])
    BY <1>1, <1>3, <1>4, <1>6, EachHolds
  <2>2. \A i \in Element : Cast(Cast(promised[r][i], type), type) = Cast(promised[r][i], type)
    BY <1>7, CastType DEF Values
  <2> QED BY <1>2, <1>8, <2>1, <2>2 DEF Copied, Holding
<1>11. /\ promised' \in [DOMAIN storage' -> Values]
       /\ Names' /\ Alike' /\ Converted' /\ QueueDelivers'
  BY <1>1, <1>3, <1>5, <1>8, <1>9, <1>10, Overwritten
<1>12. ops' \in 0 .. MaxOps
  BY <1>1, OpIs
<1> QED BY <1>1, <1>9, <1>11, <1>12 DEF Types

\* What the device does brings memory closer to what it will hold.
LEMMA DeviceIInv ==
    ASSUME IInv, Execute \/ WaitEnds
    PROVE  IInv'
<1> USE DEF IInv
<1>1. CASE Execute
  <2>1. /\ queue # <<>> /\ queue \in Seq(Command) /\ memory \in Memories
        /\ memory' = After(memory, Head(queue)) /\ queue' = Tail(queue)
        /\ tensor' = tensor /\ storage' = storage /\ waiting' = waiting
        /\ promised' = promised /\ ops' = ops
    BY <1>1 DEF Execute, Types
  <2>2. Head(queue) \in Command /\ queue' \in Seq(Command)
    BY <2>1
  <2>3. memory' \in Memories
    BY <2>1, <2>2, AfterType
  <2>4. Final' = Final
    BY <2>1, AfterAllTail DEF Final
  <2>5. DeviceOnly'
    <3>1. \A i \in DOMAIN queue' : i + 1 \in DOMAIN queue /\ queue'[i] = queue[i + 1]
      BY <2>1
    <3> QED BY <2>1, <3>1 DEF DeviceOnly
  <2>6. QueueDelivers'
    <3>1. \A h \in Live : MemoryOf(h)' = MemoryOf(h)
      BY <2>1 DEF MemoryOf
    <3>2. Live' = Live
      BY <2>1 DEF Live
    <3> QED BY <2>1, <2>4, <3>1, <3>2 DEF QueueDelivers, Final
  <2> QED BY <2>1, <2>2, <2>3, <2>5, <2>6 DEF Types, Names, Alike, Converted, Live
<1>2. CASE WaitEnds
  <2>1. /\ queue = <<>> /\ waiting' = FALSE
        /\ UNCHANGED <<tensor, storage, memory, queue, promised, ops>>
    BY <1>2 DEF WaitEnds
  <2>2. DeviceOnly'
    BY <2>1 DEF DeviceOnly
  <2>3. QueueDelivers'
    BY <2>1 DEF QueueDelivers, Live, MemoryOf
  <2>4. waiting' \in BOOLEAN
    BY <2>1
  <2>5. Types'
    BY <2>1, <2>4 DEF Types
  <2>6. Names' /\ Alike' /\ Converted'
    BY <2>1 DEF Names, Alike, Converted, Live
  <2> QED BY <2>2, <2>3, <2>5, <2>6
<1> QED BY <1>1, <1>2

LEMMA InitIInv == Init => IInv
<1> SUFFICES ASSUME Init PROVE IInv
  OBVIOUS
<1>1. Live = {}
  BY DEF Init, Live
<1>2. Types
  <2>1. DOMAIN storage = {} /\ storage \in [{} -> Block] /\ promised \in [{} -> Values]
    BY DEF Init
  <2>2. memory \in Memories
    BY DEF Init, Memories, Values, Junk
  <2>3. tensor \in [Handles -> Tensor \cup {None}] /\ queue \in Seq(Command)
    BY DEF Init
  <2>4. waiting \in BOOLEAN /\ ops \in 0 .. MaxOps
    <3>1. ops \in 0 .. MaxOps
      BY Parameters DEF Init
    <3>2. waiting = FALSE
      BY DEF Init
    <3> QED BY <3>1, <3>2
  <2> QED BY <2>1, <2>2, <2>3, <2>4 DEF Types
<1>3. Names /\ Alike /\ Converted /\ QueueDelivers
  BY <1>1 DEF Init, Names, Alike, Converted, QueueDelivers
<1>4. DeviceOnly
  BY DEF Init, DeviceOnly
<1> QED BY <1>2, <1>3, <1>4 DEF IInv

\* Whatever the host asks for and whenever the device does it, what is queued
\* leaves in every tensor what the operations done in turn would have left.
THEOREM NextIInv == IInv /\ [Next]_vars => IInv'
<1> SUFFICES ASSUME IInv, [Next]_vars PROVE IInv'
  OBVIOUS
<1>1. CASE HostStep
  <2>1. PICK h \in Handles :
        \/ \E device \in DeviceType, n \in Sizes, type \in DataType : Make(h, device, n, type)
        \/ Drop(h)
        \/ Fill(h, 9)
        \/ \E g \in Handles :
              \/ FullLike(h, g, 7)
              \/ View(h, g)
              \/ AddInplace(h, g)
              \/ CopyFrom(h, g)
              \/ \E device \in DeviceType : To(h, g, device)
    BY <1>1 DEF HostStep
  <2> QED BY <2>1, MakeIInv, ForgetIInv, FillIInv, FullLikeIInv, AddInplaceIInv,
             CopyFromIInv, ToIInv
<1>2. CASE Execute \/ WaitEnds
  BY <1>2, DeviceIInv
<1>3. CASE UNCHANGED vars
  BY <1>3 DEF vars, IInv, Types, Names, Alike, Converted, DeviceOnly, QueueDelivers,
              Live, MemoryOf
<1>4. CASE Rest
  BY <1>3, <1>4 DEF Rest
<1> QED BY <1>1, <1>2, <1>3, <1>4 DEF Next

THEOREM SpecIInv == Spec => []IInv
BY InitIInv, NextIInv, PTL DEF Spec

\* The state is of its types, every storage is of a tensor, and no two
\* storages share a block of memory.
THEOREM SpecTypeOK == Spec => []TypeOK
<1>1. IInv => TypeOK
  <2> SUFFICES ASSUME IInv PROVE TypeOK
    OBVIOUS
  <2> USE DEF IInv
  <2>1. DOMAIN promised = DOMAIN storage
    BY DEF Types
  <2>2. \A h \in Live : tensor[h].n \in Sizes /\ tensor[h].type \in DataType
    BY LiveTensor
  <2>3. \A m \in Block, i \in Element : memory[m][i] \in Int
    BY DEF Types, Memories, Values
  <2> QED BY <2>1, <2>2, <2>3 DEF TypeOK, Types, Names
<1> QED BY <1>1, SpecIInv, PTL

\* Once the device has done what it has been asked, every tensor holds what
\* the operations, done one at a time, would have left in it.
THEOREM SpecQueueDelivers == Spec => []QueueDelivers
<1>1. IInv => QueueDelivers
  BY DEF IInv
<1> QED BY <1>1, SpecIInv, PTL

\* When the host goes on, the tensors in its own memory are as the operations
\* before have left them, however far the device is behind.
THEOREM SpecHostReadsAsCalled == Spec => []HostReadsAsCalled
<1>1. IInv => HostReadsAsCalled
  <2> SUFFICES ASSUME IInv, ~ waiting, NEW h \in Live, NEW i \in Element,
                      DeviceOf(h) = "CPU", i < tensor[h].n
               PROVE  memory[MemoryOf(h)][i] = promised[tensor[h].storage][i]
    BY DEF HostReadsAsCalled
  <2>1. MemoryOf(h) \in Block /\ MemoryOf(h)[1] = "CPU"
    BY LiveTensor DEF IInv, DeviceOf
  <2>2. Final[MemoryOf(h)] = memory[MemoryOf(h)]
    BY <2>1, HostSees DEF IInv
  <2> QED BY <2>2 DEF IInv, QueueDelivers, Final
<1> QED BY <1>1, SpecIInv, PTL
==============================================================================
