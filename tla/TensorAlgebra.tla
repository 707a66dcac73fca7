---------------------------- MODULE TensorAlgebra ----------------------------
(***************************************************************************)
(* What the shape, broadcasting, reduction and matrix operations promise,  *)
(* said of arrays as functions of coordinates: nothing here knows of       *)
(* storage, strides or flat element numbers.  An array is a record of its  *)
(* shape and of the value `at' each coordinate.  StridedTensor, which      *)
(* translates the code, is shown to implement this specification.          *)
(***************************************************************************)
EXTENDS Integers, Sequences, SequencesExt, FiniteSetsExt, Functions

CONSTANT Shapes          \* the shapes tensors are made with or reshaped to

VARIABLES a, b           \* the array operations replace, and a second operand

Coordinates(shape) ==
    {i \in [DOMAIN shape -> 0 .. Max({0} \cup Range(shape))] :
        \A k \in DOMAIN shape : i[k] < shape[k]}

Array(shape, At(_)) == [shape |-> shape, at |-> [i \in Coordinates(shape) |-> At(i)]]

(***************************************************************************)
(* Broadcasting: shapes are compared from their last axis, a missing axis  *)
(* counts as one of extent 1, and an axis of extent 1 is repeated.         *)
(***************************************************************************)
Extent(shape, rank, k) ==
    LET own == k - (rank - Len(shape))
    IN IF own >= 1 THEN shape[own] ELSE 1

JointRank(s, t) == Max({Len(s), Len(t)})

Compatible(s, t) ==
    \A k \in 1 .. JointRank(s, t) :
        LET both == {Extent(s, JointRank(s, t), k), Extent(t, JointRank(s, t), k)}
        IN 1 \in both \/ \E e \in both : both = {e}

Joint(s, t) ==
    [k \in 1 .. JointRank(s, t) |->
        IF Extent(s, JointRank(s, t), k) = 1
        THEN Extent(t, JointRank(s, t), k)
        ELSE Extent(s, JointRank(s, t), k)]

\* The coordinate of an array of shape s that is repeated at coordinate i.
Source(i, s) == [k \in DOMAIN s |-> IF s[k] = 1 THEN 0 ELSE i[k + Len(i) - Len(s)]]

Difference(x, y) ==
    Array(Joint(x.shape, y.shape),
          LAMBDA i : x.at[Source(i, x.shape)] - y.at[Source(i, y.shape)])

SumAlong(x, axis) ==
    Array([x.shape EXCEPT ![axis] = 1],
          LAMBDA i : MapThenSumSet(LAMBDA j : x.at[[i EXCEPT ![axis] = j]],
                                   0 .. x.shape[axis] - 1))

\* Each element of the result gathers what was repeated from it: the adjoint
\* of broadcasting from `shape' to the shape of x.
SumRepeated(x, shape) ==
    Array(shape,
          LAMBDA i : MapThenSumSet(LAMBDA o : x.at[o],
                                   {o \in Coordinates(x.shape) : Source(o, shape) = i}))

MatrixProduct(x, y) ==
    Array(<<x.shape[1], y.shape[2]>>,
          LAMBDA i : MapThenSumSet(LAMBDA t : x.at[<<i[1], t>>] * y.at[<<t, i[2]>>],
                                   0 .. x.shape[2] - 1))

(***************************************************************************)
(* A reshape keeps the elements in the order of their coordinates.         *)
(***************************************************************************)
Before(i, j) == \E k \in DOMAIN i : i[k] < j[k] /\ \A l \in 1 .. k - 1 : i[l] = j[l]

Place(i, shape) == Cardinality({j \in Coordinates(shape) : Before(j, i)})

Reshaped(x, shape) ==
    Array(shape,
          LAMBDA i : x.at[CHOOSE j \in Coordinates(x.shape) :
                              Place(j, x.shape) = Place(i, shape)])
-----------------------------------------------------------------------------
Init ==
    \E s, t \in Shapes :
        /\ a.shape = s /\ a.at \in [Coordinates(s) -> Int]
        /\ b.shape = t /\ b.at \in [Coordinates(t) -> Int]

Negate ==
    /\ a' = Array(a.shape, LAMBDA i : -a.at[i])
    /\ UNCHANGED b

Subtract ==
    /\ Compatible(a.shape, b.shape)
    /\ a' \in {Difference(a, b), Difference(b, a)}
    /\ UNCHANGED b

Sum ==
    /\ \E axis \in DOMAIN a.shape : a' = SumAlong(a, axis)
    /\ UNCHANGED b

Unbroadcast ==
    /\ \E s \in Shapes :
        /\ Compatible(s, a.shape) /\ Joint(s, a.shape) = a.shape
        /\ a' = SumRepeated(a, s)
    /\ UNCHANGED b

Multiply ==
    /\ Len(a.shape) = 2 /\ Len(b.shape) = 2 /\ a.shape[2] = b.shape[1]
    /\ a' = MatrixProduct(a, b)
    /\ UNCHANGED b

Transpose ==
    /\ Len(a.shape) = 2
    /\ a' = Array(Reverse(a.shape), LAMBDA i : a.at[Reverse(i)])
    /\ UNCHANGED b

Reshape ==
    /\ \E s \in Shapes :
        /\ Cardinality(Coordinates(s)) = Cardinality(Coordinates(a.shape))
        /\ a' = Reshaped(a, s)
    /\ UNCHANGED b

\* An axis of extent 1 leaves or joins the shape and no element moves.
Squeeze ==
    /\ \E k \in DOMAIN a.shape :
        /\ a.shape[k] = 1
        /\ a' = Array(RemoveAt(a.shape, k), LAMBDA i : a.at[InsertAt(i, k, 0)])
    /\ UNCHANGED b

ExpandDims ==
    /\ \E k \in 1 .. Len(a.shape) + 1 :
        a' = Array(InsertAt(a.shape, k, 1), LAMBDA i : a.at[RemoveAt(i, k)])
    /\ UNCHANGED b

Next ==
    \/ Negate \/ Subtract \/ Sum \/ Unbroadcast \/ Multiply
    \/ Transpose \/ Reshape \/ Squeeze \/ ExpandDims

Spec == Init /\ [][Next]_<<a, b>>
=============================================================================
