----------------------------- MODULE TiledMatmul -----------------------------
(***************************************************************************)
(* The matrix kernels of the CUDA device (tensor/cuda/matrix.cu): the      *)
(* tiled product, whose threads share two tiles of a block and meet at two *)
(* barriers per slide, the plain product for small matrices, and the       *)
(* transposition.  Matrices are flat arrays, as in the code, so that an    *)
(* index past the end of a row reads or writes the next one.               *)
(*                                                                         *)
(* A step of a thread is a stretch of the kernel in which it touches no    *)
(* memory that another thread of its block writes before the next barrier  *)
(* -- provided the barriers are where they have to be, which is what       *)
(* TilesStable checks: the reads of a tile are steps of their own, one for *)
(* each row of the tile.                                                   *)
(***************************************************************************)
EXTENDS Integers, FiniteSets

CONSTANTS
    kT,         \* rows and columns of the result one thread computes (8)
    kChK,       \* threads of a block in each direction, inner extent of a tile (16)
    Packet,     \* elements of a vector access (4)
    Dim,        \* threads of a block in each direction, plain kernels (16)
    Products,   \* the extents <<m, n, k>> of the products
    Flips,      \* the extents <<m, n, 0>> of the transpositions
    Resident,   \* bound: blocks of a grid that run at the same time
    NaN         \* what memory nobody has written holds

ASSUME KernelAssumption ==
    /\ {kT, kChK, Packet, Dim, Resident} \subseteq Nat \ {0}
    /\ kT % Packet = 0                                  \* static_assert, l. 25
    /\ Products \cup Flips \subseteq Nat \X Nat \X Nat
    /\ NaN \notin Int

VARIABLES
    op,         \* the kernel of the launch, "none" before it
    shape,      \* its extents
    todo,       \* the blocks of the grid that have not started
    run,        \* run[b], for a block b that runs: the tiles sA and sB in its
                \* shared memory and, for each thread, pc, slideIdx, kIdx and tmp
    C,          \* the result in global memory
    fault       \* whether a vector access was not aligned

vars == <<op, shape, todo, run, C, fault>>

kChD == kChK * kT
m == shape[1]
n == shape[2]
k == shape[3]

\* Elements that tell all positions apart, so that a wrong one shows.
A(p) == IF p < m * k THEN 2 * p + 1 ELSE NaN
B(p) == IF p < k * n THEN p * p + 2 ELSE NaN

Plus(x, y) == IF NaN \in {x, y} THEN NaN ELSE x + y
Times(x, y) == IF NaN \in {x, y} THEN NaN ELSE x * y

\* f[0] + ... + f[len - 1], added up in this order.
SumTo(f, len) ==
    LET sum[i \in 0 .. len] == IF i = 0 THEN 0 ELSE sum[i - 1] + f[i - 1]
    IN  sum[len]

\* The result in memory after the elements of `values` are stored in it.
Overwritten(values) ==
    [a \in DOMAIN C \cup DOMAIN values |->
        IF a \in DOMAIN values THEN values[a] ELSE C[a]]

-----------------------------------------------------------------------------
(* The tiled product: a block of kChK x kChK threads computes a square of  *)
(* kChD x kChD elements of the result, kChK inner positions at a time.     *)

Thread == (0 .. kChK - 1) \X (0 .. kChK - 1)
Cells == 0 .. kChD * kChK - 1
Part == (0 .. kT - 1) \X (0 .. kT - 1)

\* Mistake: vector accesses for rows of any length.
VectorAlways == TRUE

vec_switch == n % Packet = 0

\* The element of A and of B for a cell of the tiles: zero past the edges.
AElement(x, y) == IF x < m /\ y < k THEN A(x * k + y) ELSE 0
BElement(x, y) == IF x < k /\ y < n THEN B(x * n + y) ELSE 0

\* The packet at column y of row x is accessed as a vector when it lies
\* within a row of n columns; its address has to be a multiple of its size.
AsVector(y) == vec_switch /\ y + Packet - 1 < n
Misaligned(x, y) == AsVector(y) /\ (x * n + y) % Packet # 0

\* Copies kT elements of a column of A to row t[2] of sA, and kT elements of a
\* row of B to row t[1] of sB.
LoadTiles(b, t) ==
    LET Aidx_x == t[1] * kT + b[1] * kChK * kT
        Aidx_y == run[b].slide[t] + t[2]
        Bidx_x == t[1] + run[b].slide[t]
        Bidx_y == t[2] * kT + b[2] * kChK * kT
        i(c, first) == (c % kChD) - first * kT
        packets == {j \in 0 .. kT - 1 : j % Packet = 0}
    IN  /\ run[b].pc[t] = "load"
        /\ run' = [run EXCEPT
              ![b].sA = [c \in Cells |->
                  IF c \div kChD = t[2] /\ i(c, t[1]) \in 0 .. kT - 1
                  THEN AElement(Aidx_x + i(c, t[1]), Aidx_y) ELSE @[c]],
              ![b].sB = [c \in Cells |->
                  IF c \div kChD = t[1] /\ i(c, t[2]) \in 0 .. kT - 1
                  THEN BElement(Bidx_x, Bidx_y + i(c, t[2])) ELSE @[c]],
              ![b].pc[t] = "sync_loaded"]
        /\ fault' = (fault \/ \E j \in packets :
                        Bidx_x < k /\ Misaligned(Bidx_x, Bidx_y + j))
        /\ UNCHANGED <<op, shape, todo, C>>

\* Reads row kIdx of the tiles and adds the products to the thread's part.
Accumulate(b, t) ==
    LET row == run[b].kIdx[t] * kChD
        sA_tmp == [i \in 0 .. kT - 1 |-> run[b].sA[row + t[1] * kT + i]]
        sB_tmp == [j \in 0 .. kT - 1 |-> run[b].sB[row + t[2] * kT + j]]
    IN  /\ run[b].pc[t] = "multiply"
        /\ run' = [run EXCEPT
              ![b].tmp[t] = [p \in Part |->
                                Plus(@[p], Times(sA_tmp[p[1]], sB_tmp[p[2]]))],
              ![b].kIdx[t] = @ + 1,
              ![b].pc[t] = IF run[b].kIdx[t] + 1 < kChK THEN @ ELSE "sync_read"]
        /\ UNCHANGED <<op, shape, todo, C, fault>>

\* Where a thread goes on after a barrier.
AfterSync(b, t) ==
    IF run[b].pc[t] = "sync_loaded" THEN "multiply"
    ELSE IF run[b].slide[t] + kChK < k THEN "load" ELSE "store"

\* The threads of a set go on together, when they have all arrived.
Pass(b, threads) ==
    /\ op = "tiled"
    /\ \A t \in threads : run[b].pc[t] \in {"sync_loaded", "sync_read"}
    /\ run' = [run EXCEPT
          ![b].pc = [t \in Thread |-> IF t \in threads THEN AfterSync(b, t) ELSE @[t]],
          ![b].slide = [t \in Thread |->
              IF t \in threads /\ run[b].pc[t] = "sync_read" THEN @[t] + kChK ELSE @[t]],
          ![b].kIdx = [t \in Thread |-> IF t \in threads THEN 0 ELSE @[t]]]
    /\ UNCHANGED <<op, shape, todo, C, fault>>

\* Mistake: a barrier for the threads of a warp only.
SyncWarp(b) == \E y \in 0 .. kChK - 1 : Pass(b, {t \in Thread : t[2] = y})

\* __syncthreads, either of the two: no thread of the block passes before all
\* have arrived.
Sync(b) == Pass(b, Thread)

\* Row and column of the result for position p of the thread's part.
ResIdx(b, t, p) ==
    <<b[1] * kChD + t[1] * kT + p[1], b[2] * kChD + t[2] * kT + p[2]>>

\* alpha * value + beta * old, for alpha = 1 and beta = 0.
Scaled(value, old) == Plus(value, Times(0, old))

\* Stores the elements of the thread's part that lie within the result.
StorePart(b, t) ==
    LET inside == {p \in Part : ResIdx(b, t, p)[1] < m /\ ResIdx(b, t, p)[2] < n}
        address(p) == ResIdx(b, t, p)[1] * n + ResIdx(b, t, p)[2]
        stored == [a \in {address(p) : p \in inside} |->
                      LET p == CHOOSE p \in inside : address(p) = a
                      IN  Scaled(run[b].tmp[t][p], (IF a \in DOMAIN C THEN C[a] ELSE NaN))]
    IN  /\ run[b].pc[t] = "store"
        /\ C' = Overwritten(stored)
        /\ fault' = (fault \/ \E p \in inside :
                        p[2] % Packet = 0
                        /\ Misaligned(ResIdx(b, t, p)[1], ResIdx(b, t, p)[2]))
        /\ run' = [run EXCEPT ![b].pc[t] = "ended"]
        /\ UNCHANGED <<op, shape, todo>>

-----------------------------------------------------------------------------
(* The plain kernels: every thread walks the matrix with the size of the   *)
(* grid as its step.                                                       *)

PlainThread == (0 .. Dim - 1) \X (0 .. Dim - 1)

CeilDiv(x, y) == (x + y - 1) \div y
GridOf(rows, cols, dim) == (0 .. CeilDiv(rows, dim) - 1) \X (0 .. CeilDiv(cols, dim) - 1)

\* Mistake: the position after the last is visited too.
WalkPast(first, extent) ==
    {i \in 0 .. extent :
        i >= first /\ (i - first) % (CeilDiv(extent, Dim) * Dim) = 0}

\* The positions of an axis that a thread visits, from `first` on.
Walk(first, extent) ==
    {i \in 0 .. extent - 1 :
        i >= first /\ (i - first) % (CeilDiv(extent, Dim) * Dim) = 0}

Visits(b, t) == Walk(b[1] * Dim + t[1], m) \X Walk(b[2] * Dim + t[2], n)

Dot(i, j) == SumTo([q \in 0 .. k - 1 |-> Times(A(i * k + q), B(n * q + j))], k)

\* cudaMatmulKernel: the thread's elements of the product.
MultiplyPlain(b, t) ==
    /\ op = "plain" /\ run[b].pc[t] = "plain"
    /\ C' = Overwritten([a \in {v[1] * n + v[2] : v \in Visits(b, t)} |-> Dot(a \div n, a % n)])
    /\ run' = [run EXCEPT ![b].pc[t] = "ended"]
    /\ UNCHANGED <<op, shape, todo, fault>>

\* cudaTransposeKernel: what is at the address i * n + j of the input.
TransposePlain(b, t) ==
    /\ op = "transpose" /\ run[b].pc[t] = "plain"
    /\ C' = Overwritten([a \in {v[2] * m + v[1] : v \in Visits(b, t)} |->
                            (a % m) * n + (a \div m)])
    /\ run' = [run EXCEPT ![b].pc[t] = "ended"]
    /\ UNCHANGED <<op, shape, todo, fault>>

-----------------------------------------------------------------------------
(* Launches.  The device starts the blocks of a grid in any order, as many *)
(* at a time as it has room for.                                           *)

UsesTiles(s) == s[1] >= kChD /\ s[2] >= kChD /\ s[3] > kChK

\* Mistake: the result of the tiled kernel is not cleared before.
MatmulUncleared(s) ==
    /\ op = "none"
    /\ shape' = s
    /\ op' = IF UsesTiles(s) THEN "tiled" ELSE "plain"
    /\ todo' = GridOf(s[1], s[2], IF UsesTiles(s) THEN kChD ELSE Dim)
    /\ C' = [a \in 0 .. s[1] * s[2] - 1 |-> NaN]
    /\ UNCHANGED <<run, fault>>

\* cudaMatMul: picks the kernel, and clears the result for the tiled one.
Matmul(s) ==
    /\ op = "none"
    /\ shape' = s
    /\ op' = IF UsesTiles(s) THEN "tiled" ELSE "plain"
    /\ todo' = GridOf(s[1], s[2], IF UsesTiles(s) THEN kChD ELSE Dim)
    /\ C' = [a \in 0 .. s[1] * s[2] - 1 |-> IF UsesTiles(s) THEN 0 ELSE NaN]
    /\ UNCHANGED <<run, fault>>

\* cudaTranspose
Transpose(s) ==
    /\ op = "none"
    /\ shape' = s
    /\ op' = "transpose"
    /\ todo' = GridOf(s[1], s[2], Dim)
    /\ C' = [a \in 0 .. s[1] * s[2] - 1 |-> NaN]
    /\ UNCHANGED <<run, fault>>

ThreadsOf == IF op = "tiled" THEN Thread ELSE PlainThread

\* Shared memory and registers of a block that starts.
Started ==
    [sA |-> [c \in Cells |-> NaN],
     sB |-> [c \in Cells |-> NaN],
     pc |-> [t \in ThreadsOf |-> IF op = "tiled" THEN "load" ELSE "plain"],
     slide |-> [t \in ThreadsOf |-> 0],
     kIdx |-> [t \in ThreadsOf |-> 0],
     tmp |-> [t \in ThreadsOf |-> [p \in Part |-> 0]]]

StartBlock(b) ==
    /\ Cardinality(DOMAIN run) < Resident
    /\ todo' = todo \ {b}
    /\ run' = [c \in DOMAIN run \cup {b} |-> IF c = b THEN Started ELSE run[c]]
    /\ UNCHANGED <<op, shape, C, fault>>

EndBlock(b) ==
    /\ \A t \in ThreadsOf : run[b].pc[t] = "ended"
    /\ run' = [c \in DOMAIN run \ {b} |-> run[c]]
    /\ UNCHANGED <<op, shape, todo, C, fault>>

Ended == op # "none" /\ todo = {} /\ DOMAIN run = {}

\* The program goes on; the model follows one launch.
Rest == Ended /\ UNCHANGED vars

Init ==
    /\ op = "none" /\ shape = <<0, 0, 0>>
    /\ todo = {} /\ fault = FALSE
    /\ run = [b \in {} |-> 0] /\ C = [a \in {} |-> 0]

ThreadStep(b, t) ==
    \/ LoadTiles(b, t)
    \/ Accumulate(b, t)
    \/ StorePart(b, t)
    \/ MultiplyPlain(b, t)
    \/ TransposePlain(b, t)

Next ==
    \/ \E s \in Products : Matmul(s)
    \/ \E s \in Flips : Transpose(s)
    \/ \E b \in todo : StartBlock(b)
    \/ \E b \in DOMAIN run :
          \/ Sync(b)
          \/ EndBlock(b)
          \/ \E t \in ThreadsOf : ThreadStep(b, t)
    \/ Rest

Spec == Init /\ [][Next]_vars

\* The device goes on while some thread of the grid can.
FairSpec == Spec /\ WF_vars(Next)

-----------------------------------------------------------------------------

\* The state is of its types, and shared memory exists for blocks of the grid
\* that run and for no other.
TypeOK ==
    /\ op \in {"none", "tiled", "plain", "transpose"}
    /\ shape \in Products \cup Flips \cup {<<0, 0, 0>>}
    /\ todo \cap DOMAIN run = {}
    /\ Cardinality(DOMAIN run) <= Resident
    /\ DOMAIN C = 0 .. m * n - 1
    /\ \A b \in DOMAIN run :
          /\ DOMAIN run[b].sA = Cells /\ DOMAIN run[b].sB = Cells
          /\ \A t \in ThreadsOf :
                /\ run[b].pc[t] \in {"load", "sync_loaded", "multiply",
                                     "sync_read", "store", "plain", "ended"}
                /\ run[b].slide[t] \in 0 .. k + kChK - 1
                /\ run[b].kIdx[t] \in 0 .. kChK
    /\ fault \in BOOLEAN

\* While a thread has rows of the tiles to read, they hold the elements of the
\* thread's own slide, zeros past the edges: no other thread is still to load
\* them or has begun to load the next slide (the two barriers of the loop).
TilesStable ==
    \A b \in DOMAIN run, t \in ThreadsOf :
        run[b].pc[t] = "multiply" =>
            \A row \in run[b].kIdx[t] .. kChK - 1, i \in 0 .. kT - 1 :
                LET inner == run[b].slide[t] + row
                    x == ResIdx(b, t, <<i, 0>>)[1]
                    y == ResIdx(b, t, <<0, i>>)[2]
                IN  /\ run[b].sA[row * kChD + t[1] * kT + i]
                          = IF x < m /\ inner < k THEN A(x * k + inner) ELSE 0
                    /\ run[b].sB[row * kChD + t[2] * kT + i]
                          = IF inner < k /\ y < n THEN B(inner * n + y) ELSE 0

\* What a launch leaves in memory, whatever kernel and order of the threads:
\* every element of the product, or of the transposed matrix, and nothing
\* past the end of the result.
Expected(a) ==
    IF op = "transpose" THEN (a % m) * n + (a \div m)
    ELSE SumTo([q \in 0 .. k - 1 |-> A((a \div n) * k + q) * B(q * n + (a % n))], k)

ResultExact == Ended => C = [a \in 0 .. m * n - 1 |-> Expected(a)]

\* Every launch ends, without an address error: no thread waits at a barrier
\* that another one of its block does not reach.
LaunchEnds == (op # "none") ~> (Ended /\ ~ fault)
=============================================================================
