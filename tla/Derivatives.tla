------------------------------ MODULE Derivatives ------------------------------
(***************************************************************************)
(* The values autograd computes: what each operation on Variables does to  *)
(* the data (autograd/functions, tensor/cpu/kernels.hpp) and what its      *)
(* backward function adds to the gradients of its operands, from data it   *)
(* reads when backward runs and which copy and fill may have overwritten.  *)
(* The graph and the order of the pass are those of Autograd.              *)
(*                                                                         *)
(* Tensors are matrices, given as their rows, on one device and of one     *)
(* floating-point type.  The arithmetic is that of the integers modulo 7,  *)
(* which has exact quotients, roots and powers: the laws of the formulas   *)
(* (of the field, sin ^ 2 + cos ^ 2 = 1, exp and log inverse) hold in it.  *)
(* What is infinite or not a number is one value, NaN.                     *)
(***************************************************************************)
EXTENDS Integers, Sequences, FiniteSets
LOCAL INSTANCE SequencesExt

CONSTANTS
  Starts,         \* the leaves a program may start with: data and requires_grad of each
  FillValues,     \* what fill is called with
  min_val, max_val,     \* the arguments of clamp
  Compared,       \* bound: the comparisons a program applies
  MaxVariables,   \* bound: Variables
  MaxWrites       \* bound: calls of copy and fill

VARIABLES
  variables,      \* the VariableImpls
  writes,         \* calls of copy and fill so far
  call            \* the backward call, once there was one: root and outcome

vars == <<variables, writes, call>>

Graph == INSTANCE Autograd WITH
  grad_enabled <- TRUE, Leaves <- {}, MaxGrad <- 0
-----------------------------------------------------------------------------
(* Numbers                                                                 *)

Number == -3 .. 3
NaN == 4
Value == Number \cup {NaN}

ASSUME StartsAssumption ==
  Starts \subseteq Seq([data : Seq(Seq(Number)), requires_grad : BOOLEAN])
ASSUME ArgumentsAssumption == FillValues \cup {min_val, max_val} \subseteq Number
ASSUME BoundsAssumption == {MaxVariables, MaxWrites} \subseteq Nat

Mod7(n) == ((n + 3) % 7) - 3

Quotient(a, b) == CHOOSE q \in Number : Mod7(q * b) = a

\* 3 generates the numbers other than 0.
Exp3(n) == Mod7(3 ^ (n % 6))
Log3(a) == CHOOSE n \in -2 .. 3 : Exp3(n) = a

\* The circle has eight points, one every 45 degrees.
Sine == <<-2, -1, -2, 0, 2, 1, 2>>
Cosine == <<-2, 0, 2, 1, 2, 0, -2>>
Sin(a) == Sine[a + 4]
Cos(a) == Cosine[a + 4]

\* T{condition}.
Truth(condition) == IF condition THEN 1 ELSE 0

BinaryFunctor ==
  [name \in {"add", "sub", "mul", "div", "pow", "eq", "ne", "le", "lt", "gt", "ge"} |->
     [a, b \in Value |->
        CASE NaN \in {a, b} -> NaN
          [] name = "add" -> Mod7(a + b)
          [] name = "sub" -> Mod7(a - b)
          [] name = "mul" -> Mod7(a * b)
          [] name = "div" -> IF b = 0 THEN NaN ELSE Quotient(a, b)
          [] name = "pow" -> IF a # 0 THEN Exp3(Log3(a) * b) ELSE IF b < 0 THEN NaN ELSE Truth(b = 0)
          [] name = "eq" -> Truth(a = b)
          [] name = "ne" -> Truth(a # b)
          [] name = "le" -> Truth(a <= b)
          [] name = "lt" -> Truth(a < b)
          [] name = "gt" -> Truth(a > b)
          [] name = "ge" -> Truth(a >= b)]]

UnaryFunctor ==
  [name \in {"neg", "log", "exp", "sqrt", "abs", "sin", "cos", "tan"} |->
     [a \in Value |->
        CASE a = NaN -> NaN
          [] name = "neg" -> -a
          [] name = "log" -> IF a = 0 THEN NaN ELSE Log3(a)
          [] name = "exp" -> Exp3(a)
          [] name = "sqrt" -> IF \E r \in 0 .. 3 : Mod7(r * r) = a
                              THEN CHOOSE r \in 0 .. 3 : Mod7(r * r) = a ELSE NaN
          [] name = "abs" -> IF a < 0 THEN -a ELSE a
          [] name = "sin" -> Sin(a)
          [] name = "cos" -> Cos(a)
          [] name = "tan" -> IF Cos(a) = 0 THEN NaN ELSE Quotient(Sin(a), Cos(a))]]

ClampFunctor ==
  [a \in Value |-> IF a < min_val THEN min_val
                   ELSE IF a # NaN /\ a > max_val THEN max_val ELSE a]

\* NaN is neither above 0 nor below.
AbsBackwardFunctor ==
  [input, grad \in Value |-> IF input \in 1 .. 3 THEN grad
                            ELSE IF input < 0 THEN UnaryFunctor.neg[grad] ELSE 0]

ClampBackwardFunctor ==
  [input, grad \in Value |-> IF input > min_val /\ input < max_val THEN grad ELSE 0]

\* The identity and the binary functor of each reduction.
Identity == [sum |-> 0, max |-> -3, min |-> 3, prod |-> 1]

ReductionFunctor ==
  [name \in DOMAIN Identity |->
     [a, b \in Value |->
        CASE NaN \in {a, b} -> NaN
          [] name = "sum" -> Mod7(a + b)
          [] name = "max" -> IF a > b THEN a ELSE b
          [] name = "min" -> IF a < b THEN a ELSE b
          [] name = "prod" -> Mod7(a * b)]]
-----------------------------------------------------------------------------
(* Tensors                                                                 *)

Shape(x) == <<Cardinality(DOMAIN x), Cardinality(DOMAIN x[1])>>

Like(x, value) == [i \in DOMAIN x |-> [j \in DOMAIN x[1] |-> value]]

\* An axis of extent 1 is repeated.
Broadcasts(x, y) == \A k \in 1 .. 2 : 1 \in {Shape(x)[k], Shape(y)[k]} \/ Shape(x)[k] = Shape(y)[k]

Repeated(x, i, j) == x[IF i \in DOMAIN x THEN i ELSE 1][IF j \in DOMAIN x[1] THEN j ELSE 1]

Elementwise(functor, x, y) ==
  LET Extent(k) == IF Shape(x)[k] = 1 THEN Shape(y)[k] ELSE Shape(x)[k]
  IN  [i \in 1 .. Extent(1) |-> [j \in 1 .. Extent(2) |->
         functor[Repeated(x, i, j), Repeated(y, i, j)]]]

Add(x, y) == Elementwise(BinaryFunctor.add, x, y)
Sub(x, y) == Elementwise(BinaryFunctor.sub, x, y)
Mul(x, y) == Elementwise(BinaryFunctor.mul, x, y)
Div(x, y) == Elementwise(BinaryFunctor.div, x, y)
Pow(x, y) == Elementwise(BinaryFunctor.pow, x, y)
Eq(x, y) == Elementwise(BinaryFunctor.eq, x, y)

Map1(functor, x) == [i \in DOMAIN x |-> [j \in DOMAIN x[i] |-> functor[x[i][j]]]]

transpose(x) == [j \in DOMAIN x[1] |-> [i \in DOMAIN x |-> x[i][j]]]

Reduce(name, x, axis) ==
  LET Fold(row) == FoldLeft(LAMBDA s, e : ReductionFunctor[name][s, e], Identity[name], row)
      lane(k) == IF axis = 1 THEN x[k] ELSE transpose(x)[k]
      reduced == [k \in 1 .. Shape(x)[2 - axis] |-> <<Fold(lane(k))>>]
  IN  IF axis = 1 THEN reduced ELSE transpose(reduced)

\* A gradient is summed along the axes that were repeated.
sum_broadcast_axis(g, shape) ==
  LET Along(h, k) == IF shape[k] = 1 THEN Reduce("sum", h, k - 1) ELSE h
  IN  IF Shape(g) = shape THEN g ELSE Along(Along(g, 1), 2)

matmul(x, y) ==
  [i \in DOMAIN x |-> [j \in DOMAIN y[1] |->
     Reduce("sum", Mul(<<x[i]>>, <<transpose(y)[j]>>), 1)[1][1]]]

Flat(x) == FlattenSeq(x)

\* The elements in the order of their storage, as the rows of a matrix.
View(elements, shape) ==
  [i \in 1 .. shape[1] |-> [j \in 1 .. shape[2] |-> elements[(i - 1) * shape[2] + j]]]
-----------------------------------------------------------------------------
(* What the operations compute                                             *)

Arithmetic == {"add", "sub", "mul", "div", "pow"}
Comparisons == {"eq", "ne", "le", "lt", "gt", "ge"}
ASSUME ComparedAssumption == Compared \subseteq Comparisons

UnaryOps == {"neg", "exp", "log", "sqrt", "abs", "sin", "cos", "tan", "clamp"}
Reductions == {"sum", "max", "min", "prod"}

Op(name, axis) == [name |-> name, axis |-> axis]

ExecuteBinary(name, self, other) == Elementwise(BinaryFunctor[name], self, other)

ExecuteUnary(name, self) ==
  Map1(IF name = "clamp" THEN ClampFunctor ELSE UnaryFunctor[name], self)

ExecuteReduction(op, self) == Reduce(op.name, self, op.axis)

ExecuteMatrix(name, operands) ==
  IF name = "matmul" THEN matmul(operands[1], operands[2]) ELSE transpose(operands[1])

\* The other of the two shapes that one row or one column can have.
ExecuteReshape(self) == View(Flat(self), Reverse(Shape(self)))

Execute(op, operands) ==
  CASE op.name \in Arithmetic \cup Comparisons -> ExecuteBinary(op.name, operands[1], operands[2])
    [] op.name \in UnaryOps -> ExecuteUnary(op.name, operands[1])
    [] op.name \in Reductions -> ExecuteReduction(op, operands[1])
    [] op.name \in {"matmul", "transpose"} -> ExecuteMatrix(op.name, operands)
    [] op.name = "reshape" -> ExecuteReshape(operands[1])
-----------------------------------------------------------------------------
(* What the backward functions add to the gradients of the operands        *)

BinaryBackward(name, self, other, out, g) ==
  LET ToSelf(x) == sum_broadcast_axis(x, Shape(self))
      ToOther(x) == sum_broadcast_axis(x, Shape(other))
  IN  CASE name = "add" -> <<ToSelf(g), ToOther(g)>>
        [] name = "sub" -> <<ToSelf(g), ToOther(Map1(UnaryFunctor.neg, g))>>
        [] name = "mul" -> <<ToSelf(Mul(other, g)), ToOther(Mul(self, g))>>
        [] name = "div" -> <<ToSelf(Div(g, other)),
                             ToOther(Mul(<<<<-1>>>>, Div(Mul(out, g), other)))>>
        [] name = "pow" -> <<ToSelf(Mul(Mul(g, other), Pow(self, Sub(other, <<<<1>>>>)))),
                             ToOther(Mul(Mul(g, out), Map1(UnaryFunctor.log, self)))>>

UnaryBackward(name, self, out, g) ==
  CASE name = "neg" -> Map1(UnaryFunctor.neg, g)
    [] name = "exp" -> Mul(out, g)
    [] name = "log" -> Div(g, self)
    [] name = "sqrt" -> Div(g, Add(out, out))
    [] name = "abs" -> Elementwise(AbsBackwardFunctor, self, g)
    [] name = "sin" -> Mul(g, Map1(UnaryFunctor.cos, self))
    [] name = "cos" -> Mul(Map1(UnaryFunctor.neg, Map1(UnaryFunctor.sin, self)), g)
    [] name = "tan" -> Add(g, Mul(Mul(g, out), out))
    [] name = "clamp" -> Elementwise(ClampBackwardFunctor, self, g)

\* Mistake: the gradient of a maximum goes to every element.
ReductionBackwardSum(name, self, out, g) == Mul(Like(self, 1), g)

ReductionBackward(name, self, out, g) ==
  CASE name = "sum" -> Mul(Like(self, 1), g)
    [] name \in {"max", "min"} -> Mul(g, Eq(self, out))
    [] name = "prod" -> Mul(g, Div(out, self))

\* Mistake: the operands of a product are not transposed.
MatrixBackwardUntransposed(name, operands, g) ==
  IF name = "transpose" THEN <<transpose(g)>>
  ELSE <<matmul(g, operands[2]), matmul(operands[1], g)>>

MatrixBackward(name, operands, g) ==
  IF name = "matmul"
  THEN <<matmul(g, transpose(operands[2])), matmul(transpose(operands[1]), g)>>
  ELSE <<transpose(g)>>

ReshapeBackward(self, g) == View(Flat(g), Shape(self))

\* The gradients an operation adds to those of its operands.
Gradients(op, operands, out, g) ==
  CASE op.name \in Arithmetic -> BinaryBackward(op.name, operands[1], operands[2], out, g)
    [] op.name \in UnaryOps -> <<UnaryBackward(op.name, operands[1], out, g)>>
    [] op.name \in Reductions -> <<ReductionBackward(op.name, operands[1], out, g)>>
    [] op.name \in {"matmul", "transpose"} -> MatrixBackward(op.name, operands, g)
    [] op.name = "reshape" -> <<ReshapeBackward(operands[1], g)>>
-----------------------------------------------------------------------------
(* Programs                                                                *)

\* The operation of a leaf.
NoOp == Op("none", 0)

(* A VariableImpl; storage is the number of the Variable whose Storage its *)
(* data is in.                                                             *)
Impl(data, storage, requires_grad, op, saved_inputs) ==
  [data |-> data, storage |-> storage, requires_grad |-> requires_grad,
   grad |-> Like(data, 0), op |-> op, saved_inputs |-> saved_inputs]

Known == DOMAIN variables
Tracked == {v \in Known : variables[v].requires_grad}
Data(v) == variables[v].data
Operands(v) == [i \in DOMAIN variables[v].saved_inputs |-> Data(variables[v].saved_inputs[i])]

NoCall == [root |-> 0, outcome |-> "returns"]

Init ==
  /\ \E start \in Starts :
       variables = [v \in DOMAIN start |->
         Impl(start[v].data, v, start[v].requires_grad, NoOp, <<>>)]
  /\ writes = 0
  /\ call = NoCall

Finite(x) == \A i \in DOMAIN x : NaN \notin {x[i][j] : j \in DOMAIN x[i]}

(* ForwardFunction::apply on the Variables ins, where the result is finite *)
(* (bound).  A reshape is a view of its operand, the rest is new data.     *)
Apply(op, ins) ==
  LET operands == [i \in DOMAIN ins |-> Data(ins[i])]
      requires == \E i \in DOMAIN ins : ins[i] \in Tracked
      storage  == IF op.name = "reshape" THEN variables[ins[1]].storage ELSE Len(variables) + 1
      result   == Execute(op, operands)
  IN  /\ Finite(result)
      /\ variables' = Append(variables,
           IF requires THEN Impl(result, storage, TRUE, op, ins)
           ELSE Impl(result, storage, FALSE, NoOp, <<>>))
      /\ UNCHANGED <<writes, call>>

ApplyBinary(a, b) ==
  /\ Broadcasts(Data(a), Data(b))
  /\ \E name \in Arithmetic \cup Compared : Apply(Op(name, 0), <<a, b>>)

ApplyUnary(a) == \E name \in UnaryOps : Apply(Op(name, 0), <<a>>)

ApplyReduction(a) == \E name \in Reductions, axis \in 0 .. 1 : Apply(Op(name, axis), <<a>>)

ApplyMatmul(a, b) ==
  /\ Shape(Data(a))[2] = Shape(Data(b))[1]
  /\ Apply(Op("matmul", 0), <<a, b>>)

ApplyTranspose(a) == Apply(Op("transpose", 0), <<a>>)

ApplyReshape(a) == 1 \in Range(Shape(Data(a))) /\ Apply(Op("reshape", 0), <<a>>)

\* Mistake: only v sees the new elements.
WriteOneView(v, elements) ==
  /\ writes < MaxWrites
  /\ writes' = writes + 1
  /\ variables' = [variables EXCEPT ![v].data = View(elements, Shape(@))]
  /\ UNCHANGED call

\* New elements in the storage of v, for every Variable that has its data there.
Write(v, elements) ==
  /\ writes < MaxWrites
  /\ writes' = writes + 1
  /\ variables' = [w \in Known |->
       IF variables[w].storage # variables[v].storage THEN variables[w]
       ELSE [variables[w] EXCEPT !.data = View(elements, Shape(@))]]
  /\ UNCHANGED call

Fill(v, item) == Write(v, [i \in DOMAIN Flat(Data(v)) |-> item])

\* Variables of as many elements (bound).
Copy(v, other) ==
  /\ Len(Flat(Data(v))) = Len(Flat(Data(other)))
  /\ Write(v, Flat(Data(other)))

(* incr_grad: the gradient of a comparison is a null tensor, whose use is  *)
(* the end of the process; one of another shape fails an assertion.        *)
IncrGrad(p, v, gradient) ==
  IF Shape(gradient) # Shape(p.variables[v].data) THEN [p EXCEPT !.outcome = "asserts"]
  ELSE [p EXCEPT !.variables[v].grad = Add(@, gradient)]

\* The apply of the backward function of n, if it has one: each operand in turn.
ApplyBackward(p, n) ==
  LET impl == p.variables[n]
      Each(q, i) ==
        LET v == impl.saved_inputs[i]
        IN  IF q.outcome # "returns" \/ v \notin Tracked THEN q
            ELSE IF impl.op.name \in Comparisons THEN [q EXCEPT !.outcome = "crashes"]
            ELSE IncrGrad(q, v, Gradients(impl.op, Operands(n), impl.data, impl.grad)[i])
  IN  FoldLeft(Each, p, [i \in DOMAIN impl.saved_inputs |-> i])

\* One call of backward, of the last Variable that requires a gradient (bounds);
\* Autograd has the passes of others and those that follow another.
Backward(root) ==
  /\ root \in Tracked /\ \A v \in Tracked : v <= root
  /\ LET seeded == [variables |-> [variables EXCEPT ![root].grad = Like(@, 1)],
                    outcome |-> "returns"]
         p      == FoldLeft(ApplyBackward, seeded, Graph!TopologicalSort(root))
     IN  /\ variables' = p.variables
         /\ call' = [root |-> root, outcome |-> p.outcome]
  /\ UNCHANGED writes

Ended == call # NoCall
Rest == Ended /\ UNCHANGED vars

Applies ==
  \/ \E a, b \in Known : ApplyBinary(a, b) \/ ApplyMatmul(a, b)
  \/ \E a \in Known : ApplyUnary(a) \/ ApplyReduction(a) \/ ApplyTranspose(a) \/ ApplyReshape(a)

Next ==
  \/ /\ ~Ended
     /\ \/ Len(variables) < MaxVariables /\ Applies
        \/ \E a, b \in Known : Copy(a, b)
        \/ \E v \in Known, item \in FillValues : Fill(v, item)
        \/ \E root \in Known : Backward(root)
  \/ Rest

Spec == Init /\ [][Next]_vars
-----------------------------------------------------------------------------
(* Correctness                                                             *)

(* Data and gradients are matrices of the same shape, Variables in one     *)
(* storage have the same elements in it, and what requires no gradient     *)
(* never gets one.                                                         *)
TypeOK ==
  /\ \A v \in Known :
       LET impl == variables[v]
       IN  /\ \A x \in {impl.data, impl.grad} : \A i \in DOMAIN x : x[i] \in Seq(Value)
           /\ Shape(impl.grad) = Shape(impl.data)
           /\ impl.requires_grad \in BOOLEAN
           /\ impl.storage \in 1 .. v /\ Flat(Data(impl.storage)) = Flat(impl.data)
           /\ impl.saved_inputs \in Seq(1 .. v - 1)
           /\ impl.op = NoOp <=> impl.saved_inputs = <<>>
           /\ v \notin Tracked => impl.op = NoOp /\ impl.grad = Like(impl.data, 0)
  /\ writes \in 0 .. MaxWrites
  /\ call \in [root : 0 .. Len(variables), outcome : {"returns", "asserts", "crashes"}]

\* The Variables root was computed from, by operations that were recorded.
Reached(root) ==
  LET from[n \in 0 .. Len(variables)] ==
        IF n = 0 THEN {root}
        ELSE from[n - 1] \cup UNION {Range(variables[v].saved_inputs) : v \in from[n - 1]}
  IN  {v \in from[Len(variables)] : variables[v].op # NoOp}

\* These have a backward function that reads no data, only shapes.
Linear == {"add", "sub", "neg", "sum", "transpose", "reshape"}

(* Neither a result nor an operand was overwritten since the operation was *)
(* applied, unless its derivative is the same everywhere.                  *)
Fresh(w) ==
  \/ variables[w].op.name \in Linear
  \/ Data(w) = Execute(variables[w].op, Operands(w))

(* Where the derivative is what the code means to compute: abs and clamp   *)
(* away from their corners, max and min without ties; and where it divides *)
(* or takes logarithms: no factor of a product and no base of a power is   *)
(* 0.  (An exponent of -3, less one, is not a number here.)                *)
Regular(w) ==
  LET name == variables[w].op.name
      x == Operands(w)[1]
      Elements(y) == Range(Flat(y))
      lanes == IF variables[w].op.axis = 1 THEN x ELSE transpose(x)
  IN  /\ name \notin Comparisons
      /\ name \in {"abs", "sqrt", "prod", "pow"} => 0 \notin Elements(x)
      /\ name = "pow" => -3 \notin Elements(Operands(w)[2])
      /\ name = "clamp" => {min_val, max_val} \cap Elements(x) = {}
      /\ name \in {"max", "min"} => \A lane \in Range(lanes) : IsInjective(lane)

(* The rules of differentiation, for what Execute computes: the derivative *)
(* of the result along the derivatives d of the operands x.                *)
ProductRule(row, drow) ==
  LET term(i) == FoldLeft(LAMBDA s, k : BinaryFunctor.mul[s, IF k = i THEN drow[k] ELSE row[k]],
                          1, [k \in DOMAIN row |-> k])
  IN  FoldLeft(LAMBDA s, i : BinaryFunctor.add[s, term(i)], 0, [i \in DOMAIN row |-> i])

\* The derivative of the extreme element of a row.
Extreme(row, drow, extreme) == drow[CHOOSE i \in DOMAIN row : row[i] = extreme]

Rowwise(op, x, dx, out) ==
  [i \in DOMAIN x |-> <<CASE op.name = "prod" -> ProductRule(x[i], dx[i])
                          [] op.name = "sum" -> Reduce("sum", <<dx[i]>>, 1)[1][1]
                          [] op.name \in {"max", "min"} -> Extreme(x[i], dx[i], out[i][1])>>]

Differential(op, x, d, out) ==
  LET y == x[2]
      dx == d[1]
      dy == d[2]
      Of(name, z) == Map1(UnaryFunctor[name], z)
  IN  CASE op.name \in {"add", "sub"} -> Elementwise(BinaryFunctor[op.name], dx, dy)
        [] op.name = "mul" -> Add(Mul(dx, y), Mul(x[1], dy))
        [] op.name = "div" -> Div(Sub(Mul(dx, y), Mul(x[1], dy)), Mul(y, y))
        [] op.name = "pow" -> Mul(Pow(x[1], y), Add(Mul(dy, Of("log", x[1])), Mul(y, Div(dx, x[1]))))
        [] op.name = "neg" -> Of("neg", dx)
        [] op.name = "exp" -> Mul(Of("exp", x[1]), dx)
        [] op.name = "log" -> Div(dx, x[1])
        [] op.name = "sqrt" -> Div(dx, Mul(<<<<2>>>>, Of("sqrt", x[1])))
        [] op.name = "abs" -> Div(Mul(x[1], dx), Of("abs", x[1]))
        [] op.name = "sin" -> Mul(Of("cos", x[1]), dx)
        [] op.name = "cos" -> Of("neg", Mul(Of("sin", x[1]), dx))
        [] op.name = "tan" -> Div(dx, Mul(Of("cos", x[1]), Of("cos", x[1])))
        [] op.name = "clamp" -> Mul(Eq(x[1], Map1(ClampFunctor, x[1])), dx)
        [] op.name \in Reductions ->
             IF op.axis = 1 THEN Rowwise(op, x[1], dx, out)
             ELSE transpose(Rowwise(op, transpose(x[1]), transpose(dx), transpose(out)))
        [] op.name = "matmul" -> Add(matmul(dx, y), matmul(x[1], dy))
        [] op.name = "transpose" -> transpose(dx)
        [] op.name = "reshape" -> ExecuteReshape(dx)

(* The derivative of each element of root by the element of v at a place,  *)
(* from the operands to the results.                                       *)
Derivative(root, v, place) ==
  LET d[w \in Known] ==
        IF w = v THEN [i \in DOMAIN Data(v) |-> [j \in DOMAIN Data(v)[i] |-> Truth(<<i, j>> = place)]]
        ELSE IF variables[w].op = NoOp THEN Like(Data(w), 0)
        ELSE LET saved == variables[w].saved_inputs
             IN  Differential(variables[w].op, Operands(w), [k \in DOMAIN saved |-> d[saved[k]]],
                              Data(w))
  IN  d[root]

Total(x) == FoldLeft(LAMBDA s, e : BinaryFunctor.add[s, e], 0, Flat(x))

(* backward computes the derivative.  Through any operations of any two    *)
(* Variables, repeated along an axis or not, in which neither operands nor *)
(* results were overwritten where the derivative depends on them, what it  *)
(* leaves in the gradient of each Variable is the derivative of root's     *)
(* elements by it.                                                         *)
DerivativeExact ==
  call # NoCall /\ (\A w \in Reached(call.root) : Fresh(w) /\ Regular(w)) =>
    /\ call.outcome = "returns"
    /\ \A v \in Tracked : \A i \in DOMAIN Data(v) : \A j \in DOMAIN Data(v)[i] :
         variables[v].grad[i][j] = Total(Derivative(call.root, v, <<i, j>>))
=============================================================================
