---------------------------- MODULE StridedTensor ----------------------------
(***************************************************************************)
(* The index arithmetic of the tensor operations: strides, broadcasting,   *)
(* reductions on either device, matrix kernels and views, each computing   *)
(* flat element numbers (csrc/src/tensor).  TensorAlgebra says what they   *)
(* should compute.                                                         *)
(*                                                                         *)
(* A tensor is a TensorImpl whose values are there: the elements of its    *)
(* Storage, numbered from 0, its shape, strides and numel.  Data types are *)
(* left out (every element is an integer), subtraction stands for the      *)
(* binary functors and addition for the reduction functors.  Axes are      *)
(* numbered from 0, as in the code: axis k is shape[k + 1].                *)
(*                                                                         *)
(* An operation refused by LMP_CHECK throws and makes no tensor: no step.  *)
(* A reduction of an axis of extent 0 divides by zero in infer_reduct and  *)
(* ends the process: no step either.                                       *)
(***************************************************************************)
EXTENDS Integers, Sequences
LOCAL INSTANCE SequencesExt
LOCAL INSTANCE FiniteSetsExt
LOCAL INSTANCE Functions

CONSTANTS
  Shapes,               \* the shapes tensors are made with or reshaped to
  FirstValue(_),        \* the elements of the two tensors a program makes
  SecondValue(_),
  LMP_MAX_DIMS,
  WarpBits,             \* a warp has 2 ^ WarpBits lanes
  Threads,              \* kElemwiseThreads, the threads of a block
  MaxBlocks,            \* the blocks of a scalar element-wise kernel, at most
  kElemwiseMaxBlocks,   \* those of one that works on packets
  kVecWidth,            \* the elements of a packet
  WarpsPerBlock,        \* kWarpsPerBlock, the warps of a block of a reduction
  VectorWidth,          \* kVectorWidth of the vectorized reduction
  MinVectorized,        \* kMinimumVectorizedReductionSize
  MaxSteps              \* bound: operations

ASSUME ShapesAssumption == \A s \in Shapes : s \in Seq(Nat) /\ s # <<>>
ASSUME LimitsAssumption ==
  {LMP_MAX_DIMS, VectorWidth, MinVectorized, Threads, WarpsPerBlock, MaxBlocks,
   kElemwiseMaxBlocks, kVecWidth} \subseteq Nat \ {0}
ASSUME BoundsAssumption == {WarpBits, MaxSteps} \subseteq Nat

VARIABLES
  a,                    \* the tensor the operations replace by their result
  b,                    \* a second operand
  steps                 \* operations so far

vars == <<a, b, steps>>
-----------------------------------------------------------------------------
(* Tensors                                                                 *)

numel(shape) == IF shape = <<>> THEN 0 ELSE FoldLeft(LAMBDA p, e : p * e, 1, shape)

\* Mistake: the running stride grows by the extent before this axis.
StridesOneAxisOff(shape) ==
    LET stride[k \in DOMAIN shape] ==
            IF k = Len(shape) THEN 1 ELSE stride[k + 1] * shape[k]
    IN stride

update_strides(shape) ==
    LET stride[k \in DOMAIN shape] ==
            IF k = Len(shape) THEN 1 ELSE stride[k + 1] * shape[k + 1]
    IN stride

\* The constructor accepts a Storage without elements for every shape.
Fits(size, shape) == size = 0 \/ size = numel(shape)

TensorImpl(data, shape) ==
    [data |-> data, shape |-> shape, strides |-> update_strides(shape),
     numel |-> numel(shape)]

\* Mistake: a view keeps the strides of the tensor it is taken of.
ViewKeepingStrides(t, shape) == [t EXCEPT !.shape = shape]

View(t, shape) == [t EXCEPT !.shape = shape, !.strides = update_strides(shape)]

Kernel(size, At(_)) == [e \in 0 .. size - 1 |-> At(e)]

\* What a loop over cells leaves in its output when cell c is stored at To(c).
Scattered(size, cells, To(_), At(_)) ==
    Kernel(size, LAMBDA e : At(CHOOSE c \in cells : To(c) = e))

\* TensorImpl::index
address(t, i) == MapThenSumSet(LAMBDA k : t.strides[k] * i[k], DOMAIN t.shape)
neg(x) == TensorImpl(Kernel(x.numel, LAMBDA e : -x.data[e]), x.shape)
-----------------------------------------------------------------------------
(* Broadcasting                                                            *)

Aligned(s, rank, i) ==
    LET own == Len(s) - 1 - (rank - 1 - i)
    IN IF own >= 0 THEN s[own + 1] ELSE 1

OutDims(s, t) == Max({Len(s), Len(t)})

Broadcastable(s, t) ==
    /\ OutDims(s, t) <= LMP_MAX_DIMS
    /\ \A i \in 0 .. OutDims(s, t) - 1 :
        LET a_val == Aligned(s, OutDims(s, t), i)
            b_val == Aligned(t, OutDims(s, t), i)
        IN a_val = 1 \/ b_val = 1 \/ a_val = b_val

calc_aligned_shape(s, t) ==
    [k \in 1 .. OutDims(s, t) |->
        LET a_val == Aligned(s, OutDims(s, t), k - 1)
            b_val == Aligned(t, OutDims(s, t), k - 1)
        IN IF a_val # 1 THEN a_val ELSE b_val]

\* Mistake: operands with as many elements are taken for operands of one shape.
ExpandByNumel(x, y) ==
    IF x.numel = y.numel
    THEN [size |-> x.numel, shape |-> x.shape, expand |-> FALSE]
    ELSE LET shape == calc_aligned_shape(x.shape, y.shape)
         IN [size |-> numel(shape), shape |-> shape, expand |-> TRUE]

infer_binary(x, y) ==
    IF x.shape = y.shape
    THEN [size |-> x.numel, shape |-> x.shape, expand |-> FALSE]
    ELSE LET shape == calc_aligned_shape(x.shape, y.shape)
         IN [size |-> numel(shape), shape |-> shape, expand |-> TRUE]

init_padded_strides(ndim, t) ==
    [dst \in 1 .. ndim |->
        LET src == dst - (ndim - Len(t.shape))
        IN IF src >= 1 /\ t.shape[src] # 1 THEN t.strides[src] ELSE 0]

\* The strides of the output and, padded, those of the operands, made before the launch.
OffsetUtil(x, y, shape) ==
    LET ndim == Len(shape)
    IN [out |-> update_strides(shape),
        args |-> <<init_padded_strides(ndim, x), init_padded_strides(ndim, y)>>]

\* The offset in one operand of what goes into element idx of the output.
arg_offset(idx, out_strides, padded) ==
    LET left[k \in 0 .. Len(padded)] ==
            IF k = 0 THEN idx ELSE left[k - 1] % out_strides[k]
    IN MapThenSumSet(LAMBDA k : (left[k - 1] \div out_strides[k]) * padded[k],
                     DOMAIN padded)

get(align, idx) == [j \in DOMAIN align.args |-> arg_offset(idx, align.out, align.args[j])]

vectorized_expand_kernel(e, align, x, y) ==
    LET offsets == get(align, e)
    IN x.data[offsets[1]] - y.data[offsets[2]]

vectorized_binary_kernel(e, x, y) == x.data[e] - y.data[e]

difference(meta, x, y, e) ==
    IF meta.expand
    THEN vectorized_expand_kernel(e, OffsetUtil(x, y, meta.shape), x, y)
    ELSE vectorized_binary_kernel(e, x, y)

sub(x, y) ==
    LET meta == infer_binary(x, y)
    IN TensorImpl(Kernel(meta.size, LAMBDA e : difference(meta, x, y, e)), meta.shape)
-----------------------------------------------------------------------------
(* The element-wise kernels of CUDA: a thread of the grid starts at a work *)
(* item of its own and goes on by the number of threads; the items from    *)
(* first to limit are elements, or packets of kVecWidth elements.          *)

Blocks(items) == (items + Threads - 1) \div Threads

elemwise_blocks(items) == Max({Min({Blocks(items), kElemwiseMaxBlocks}), 1})

\* Without items there is no block, and a launch without blocks runs no thread.
scalar_blocks(items) == Min({Blocks(items), MaxBlocks})

Strided(first, limit, stride) ==
    UNION {{i \in first + idx .. limit - 1 : (i - first - idx) % stride = 0} :
               idx \in 0 .. stride - 1}

GridStride(first, limit, blocks) == Strided(first, limit, blocks * Threads)

\* The elements that are stored by a kernel of scalars, and by one of packets.
StoredByScalars(size) == GridStride(0, size, scalar_blocks(size))

\* Mistake: the elements that fill no packet are counted from the number of packets.
StoredFromNVec(size) ==
    LET n_vec == size \div kVecWidth
        blocks == elemwise_blocks(n_vec)
    IN {i * kVecWidth + lane : i \in GridStride(0, n_vec, blocks), lane \in 0 .. kVecWidth - 1}
         \cup GridStride(n_vec + kVecWidth, size, blocks)

StoredByPackets(size) ==
    LET n_vec == size \div kVecWidth
        blocks == elemwise_blocks(n_vec)
    IN {i * kVecWidth + lane : i \in GridStride(0, n_vec, blocks), lane \in 0 .. kVecWidth - 1}
         \cup GridStride(n_vec * kVecWidth, size, blocks)

\* What memory holds that no thread has stored to: no sum or product below is as large.
Garbage == 10 ^ 9

Launched(size, stored, At(_)) ==
    Kernel(size, LAMBDA e : IF e \in stored THEN At(e) ELSE Garbage)

neg_cuda(x) ==
    TensorImpl(Launched(x.numel, StoredByPackets(x.numel), LAMBDA e : -x.data[e]), x.shape)

\* Packets are for operands of one shape and one type.
sub_cuda(x, y, same_type) ==
    LET meta == infer_binary(x, y)
        stored == IF meta.expand \/ ~same_type
                  THEN StoredByScalars(meta.size)
                  ELSE StoredByPackets(meta.size)
    IN TensorImpl(Launched(meta.size, stored, LAMBDA e : difference(meta, x, y, e)), meta.shape)
-----------------------------------------------------------------------------
(* Reductions: what the elements of one row are is the same arithmetic on  *)
(* both devices, except along the last axis on CUDA; how a row is summed   *)
(* differs.                                                                *)

infer_reduct(x, axis) ==
    [size |-> x.numel \div x.shape[axis + 1], shape |-> [x.shape EXCEPT ![axis + 1] = 1]]

Reducible(x, axis) == axis < Len(x.shape) /\ x.shape[axis + 1] # 0

StridedRow(x, axis, e) ==
    LET outer == x.strides[axis + 1]
        inner == outer * x.shape[axis + 1]
    IN [j \in 0 .. x.shape[axis + 1] - 1 |->
            x.data[((e \div outer) * inner) + (e % outer) + (j * outer)]]

LastAxisRow(x, e) ==
    LET reduction_size == x.shape[Len(x.shape)]
    IN [j \in 0 .. reduction_size - 1 |-> x.data[e * reduction_size + j]]

Warp == 2 ^ WarpBits

\* __shfl_down_sync from half a warp down to one lane: lane 0 ends with the
\* sum, a lane that reads past the warp reads itself.
shfl_down(increment) ==
    LET after[r \in 0 .. WarpBits] ==
            IF r = 0 THEN increment
            ELSE LET offset == 2 ^ (WarpBits - r)
                 IN [lane \in 0 .. Warp - 1 |->
                        after[r - 1][lane]
                          + after[r - 1][IF lane + offset < Warp THEN lane + offset ELSE lane]]
    IN after[WarpBits][0]

OfLane(lane, n) == {c \in 0 .. n - 1 : c % Warp = lane}

WarpSum(row) ==
    shfl_down([lane \in 0 .. Warp - 1 |->
                  SumFunctionOnSet(row, OfLane(lane, Cardinality(DOMAIN row)))])

\* Each lane reads vectors of VectorWidth neighbours and keeps one sum for
\* each place in the vector.
VectorSum(row) ==
    LET vectors_per_row == Cardinality(DOMAIN row) \div VectorWidth
    IN shfl_down([lane \in 0 .. Warp - 1 |->
           MapThenSumSet(LAMBDA place :
               MapThenSumSet(LAMBDA v : row[v * VectorWidth + place],
                             OfLane(lane, vectors_per_row)),
               0 .. VectorWidth - 1)])

sum_cpu(x, axis) ==
    LET meta == infer_reduct(x, axis)
    IN TensorImpl(Kernel(meta.size, LAMBDA e : SumFunction(StridedRow(x, axis, e))),
                  meta.shape)

\* Mistake: a warp makes one row and ends.
RowsOfOneRound(size) == 0 .. Min({size, MaxBlocks * WarpsPerBlock}) - 1

(* The results that are stored: one thread makes each along axis 0, one    *)
(* warp each along the others, and both go round a grid of limited size.   *)
RowsOfWarps(size) ==
    LET blocks == Min({(size + WarpsPerBlock - 1) \div WarpsPerBlock, MaxBlocks})
    IN Strided(0, size, blocks * WarpsPerBlock)

RowsStored(axis, size) == IF axis = 0 THEN StoredByScalars(size) ELSE RowsOfWarps(size)

(* An element of the result on CUDA: reduct_dispatch_handler picks the     *)
(* kernel.  Vectors are for elements of type float; the storage is aligned *)
(* for them.                                                               *)
sum_cuda_element(x, axis, is_float, e) ==
    LET reduction_size == x.shape[axis + 1]
    IN CASE axis = 0 -> SumFunction(StridedRow(x, axis, e))
         [] axis # 0 /\ axis + 1 # Len(x.shape) -> WarpSum(StridedRow(x, axis, e))
         [] axis # 0 /\ axis + 1 = Len(x.shape) ->
              IF is_float /\ reduction_size >= MinVectorized /\ reduction_size % VectorWidth = 0
              THEN VectorSum(LastAxisRow(x, e))
              ELSE WarpSum(LastAxisRow(x, e))

sum_cuda(x, axis, is_float) ==
    LET meta == infer_reduct(x, axis)
    IN TensorImpl(Launched(meta.size, RowsStored(axis, meta.size),
                           LAMBDA e : sum_cuda_element(x, axis, is_float, e)),
                  meta.shape)
-----------------------------------------------------------------------------
(* Views and the gradient of broadcasting                                  *)

squeeze(x, dim) == View(x, RemoveAt(x.shape, dim + 1))

\* The axes sum_broadcast_axis sums, as axes of the gradient it is given.
Summed(grad, orig) ==
    LET extra == Len(grad.shape) - Len(orig)
    IN (0 .. extra - 1)
         \cup {extra + i : i \in {j \in 0 .. Len(orig) - 1 :
                                     j < LMP_MAX_DIMS /\ orig[j + 1] = 1}}

sum_broadcast_axis(grad, orig) ==
    LET extra == Len(grad.shape) - Len(orig)
        dropped[n \in 0 .. extra] ==
            IF n = 0 THEN grad ELSE squeeze(sum_cpu(dropped[n - 1], 0), 0)
        kept[i \in 0 .. Len(orig)] ==
            IF i = 0 THEN dropped[extra]
            ELSE IF i - 1 < LMP_MAX_DIMS /\ orig[i] = 1
                 THEN sum_cpu(kept[i - 1], i - 1)
                 ELSE kept[i - 1]
    IN IF grad.shape = orig THEN grad ELSE kept[Len(orig)]
-----------------------------------------------------------------------------
(* Matrices: m by n tensors                                                *)

Cells(m, n) == (0 .. m - 1) \X (0 .. n - 1)

cpuMatMul(x, y) ==
    LET m == x.shape[1]
        n == y.shape[2]
        k == x.shape[2]
    IN Scattered(m * n, Cells(m, n),
           LAMBDA c : c[1] * n + c[2],
           LAMBDA c : MapThenSumSet(
               LAMBDA t : x.data[c[1] * k + t] * y.data[n * t + c[2]], 0 .. k - 1))

cpuTranspose(x) ==
    LET m == x.shape[1]
        n == x.shape[2]
    IN Scattered(m * n, Cells(m, n),
           LAMBDA c : c[2] * m + c[1],
           LAMBDA c : x.data[c[1] * n + c[2]])
-----------------------------------------------------------------------------
Made(shape, Value(_)) == TensorImpl(Kernel(numel(shape), Value), shape)

Init ==
    /\ \E s \in Shapes : a = Made(s, FirstValue)
    /\ \E s \in Shapes : b = Made(s, SecondValue)
    /\ steps = 0

Becomes(t) ==
    /\ steps < MaxSteps
    /\ a' = t
    /\ steps' = steps + 1
    /\ UNCHANGED b

Neg == Fits(a.numel, a.shape) /\ Becomes(neg(a))

NegCuda == Fits(a.numel, a.shape) /\ Becomes(neg_cuda(a))

\* The operands the meta handler of a binary operation accepts.
Subtractable(x, y) ==
    /\ x.shape # y.shape => Broadcastable(x.shape, y.shape)
    /\ LET meta == infer_binary(x, y) IN Fits(meta.size, meta.shape)

Sub ==
    \E args \in {<<a, b>>, <<b, a>>} :
        Subtractable(args[1], args[2]) /\ Becomes(sub(args[1], args[2]))

\* The types of the operands are left out: they may be the same or not.
SubCuda ==
    \E args \in {<<a, b>>, <<b, a>>}, same_type \in BOOLEAN :
        /\ Subtractable(args[1], args[2])
        /\ Becomes(sub_cuda(args[1], args[2], same_type))

SumCpu ==
    \E axis \in 0 .. Len(a.shape) - 1 :
        Reducible(a, axis) /\ Becomes(sum_cpu(a, axis))

SumCuda ==
    \E axis \in 0 .. Len(a.shape) - 1, is_float \in BOOLEAN :
        Reducible(a, axis) /\ Becomes(sum_cuda(a, axis, is_float))

\* The backward pass of a binary operation, for an operand of shape orig whose
\* gradient has the shape of the result.
SumBroadcastAxis ==
    \E orig \in Shapes :
        /\ Broadcastable(orig, a.shape)
        /\ calc_aligned_shape(orig, a.shape) = a.shape
        /\ a.shape # orig => \A axis \in Summed(a, orig) : a.shape[axis + 1] # 0
        /\ Becomes(sum_broadcast_axis(a, orig))

MatMul ==
    /\ Len(a.shape) = 2 /\ Len(b.shape) = 2
    /\ a.shape[2] = b.shape[1]
    /\ Becomes(TensorImpl(cpuMatMul(a, b), <<a.shape[1], b.shape[2]>>))

Transpose ==
    /\ Len(a.shape) = 2
    /\ Becomes(TensorImpl(cpuTranspose(a), <<a.shape[2], a.shape[1]>>))

Reshape ==
    \E new_shape \in Shapes :
        numel(new_shape) = a.numel /\ Becomes(View(a, new_shape))

Squeeze ==
    \E dim \in 0 .. Len(a.shape) - 1 :
        a.shape[dim + 1] = 1 /\ Becomes(squeeze(a, dim))

ExpandDims ==
    \E dim \in 0 .. Len(a.shape) :
        Becomes(View(a, InsertAt(a.shape, dim + 1, 1)))

\* The program ends.
Ended == steps = MaxSteps /\ UNCHANGED vars

Next ==
    \/ Neg \/ NegCuda \/ Sub \/ SubCuda \/ SumCpu \/ SumCuda \/ SumBroadcastAxis
    \/ MatMul \/ Transpose \/ Reshape \/ Squeeze \/ ExpandDims \/ Ended

Spec == Init /\ [][Next]_vars
-----------------------------------------------------------------------------
Elements(t) == 0 .. Cardinality(DOMAIN t.data) - 1

(* A tensor has as many strides as axes, and integer elements numbered     *)
(* from 0: the views of tensor_impl.cpp recompute their strides.           *)
IsTensor(t) ==
    /\ t.shape \in Seq(Nat)
    /\ t.strides \in [DOMAIN t.shape -> Nat]
    /\ t.numel \in Nat
    /\ t.data \in [Elements(t) -> Int]

TypeOK == IsTensor(a) /\ IsTensor(b) /\ steps \in 0 .. MaxSteps

Coordinates(shape) ==
    {i \in [DOMAIN shape -> 0 .. Max({0} \cup Range(shape))] :
        \A k \in DOMAIN shape : i[k] < shape[k]}

RowMajorTensor(t) ==
    /\ {address(t, i) : i \in Coordinates(t.shape)} = Elements(t)
    /\ Cardinality(Coordinates(t.shape)) = Cardinality(Elements(t))

(* Every coordinate of a tensor has an element of its own and every        *)
(* element a coordinate, whatever views and results the tensor went        *)
(* through: the kernels walk element numbers 0 to numel and TensorImpl's   *)
(* index walks coordinates.                                                *)
RowMajor == RowMajorTensor(a) /\ RowMajorTensor(b)

(* Read by coordinate (TensorImpl::index), the tensors are arrays and      *)
(* every operation does to them what TensorAlgebra says: broadcasting,     *)
(* its gradient, sums on either device, products, transposes and views.    *)
AsArray(t) ==
    [shape |-> t.shape, at |-> [i \in Coordinates(t.shape) |-> t.data[address(t, i)]]]

Algebra == INSTANCE TensorAlgebra WITH a <- AsArray(a), b <- AsArray(b)

ImplementsAlgebra == Algebra!Spec
=============================================================================
