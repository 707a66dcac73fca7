------------------------------- MODULE Autograd -------------------------------
(***************************************************************************)
(* Reverse-mode differentiation of csrc/src/autograd: an operation on      *)
(* Variables records the operands it was applied to, and backward walks    *)
(* the recorded graph in reverse topological order, each node adding in    *)
(* place to the gradients of its operands.                                 *)
(*                                                                         *)
(* One thread: the Python interface runs every call under the interpreter  *)
(* lock.  A Variable is named by its number in the order of creation.  All *)
(* local derivatives are one, so that a gradient counts the paths by which *)
(* it was reached; shapes, and with them the reduction of a gradient that  *)
(* was broadcast, are left out.                                            *)
(***************************************************************************)
EXTENDS Integers, Sequences

CONSTANTS
  Leaves,         \* the Variables a program may start with: requires_grad and type of each
  MaxVariables,   \* bound: Variables created
  MaxGrad         \* bound: no gradient is above it when backward is called

DataType == 1 .. 2      \* two of the data types, the lower one first

ASSUME LeavesAssumption == Leaves \subseteq Seq([requires_grad : BOOLEAN, type : DataType])
ASSUME MaxVariablesAssumption == MaxVariables \in Nat
ASSUME MaxGradAssumption == MaxGrad \in Nat

VARIABLES
  variables,      \* the VariableImpls
  grad_enabled,   \* the thread-local of grad_mode.cpp
  call            \* the last call, if it was backward: its root and its outcome

vars == <<variables, grad_enabled, call>>

(* A VariableImpl: grad is 0 too where there is none; a null _grad_fn has  *)
(* no saved_inputs; comparison tells the backward functions of comparisons *)
(* from all the others.                                                    *)
Impl(requires_grad, type, grad, saved_inputs, comparison) ==
  [requires_grad |-> requires_grad, type |-> type, grad |-> grad,
   saved_inputs |-> saved_inputs, comparison |-> comparison]

Variable == [requires_grad : BOOLEAN, type : DataType, grad : Nat,
             saved_inputs : Seq(Nat), comparison : BOOLEAN]

Known == 1 .. Len(variables)
Tracked == {v \in Known : variables[v].requires_grad}
Grad(v) == variables[v].grad

NoCall == [root |-> 0, outcome |-> "returns"]

Init ==
  /\ \E leaves \in Leaves :
       variables = [v \in DOMAIN leaves |->
         Impl(leaves[v].requires_grad, leaves[v].type, 0, <<>>, FALSE)]
  /\ grad_enabled = TRUE
  /\ call = NoCall

-----------------------------------------------------------------------------
(* Recording                                                               *)

SetGradEnabled(enable) ==
  /\ grad_enabled' = enable
  /\ call' = NoCall
  /\ UNCHANGED variables

\* type_upcast over the operands.
Upcast(ins) ==
  CHOOSE type \in {variables[ins[i]].type : i \in DOMAIN ins} :
    \A i \in DOMAIN ins : variables[ins[i]].type <= type

\* Mistake: the operands are remembered even when recording is disabled.
ApplyAlways(ins, comparison) ==
  LET requires == grad_enabled /\ \E i \in DOMAIN ins : ins[i] \in Tracked
  IN  /\ variables' = Append(variables, Impl(requires, Upcast(ins), 0, ins, comparison))
      /\ call' = NoCall
      /\ UNCHANGED grad_enabled

(* ForwardFunction::apply: the result requires a gradient, and remembers   *)
(* its operands, if recording is enabled and an operand requires one.      *)
Apply(ins, comparison) ==
  LET requires == grad_enabled /\ \E i \in DOMAIN ins : ins[i] \in Tracked
  IN  /\ variables' = Append(variables,
           IF requires THEN Impl(TRUE, Upcast(ins), 0, ins, comparison)
           ELSE Impl(FALSE, Upcast(ins), 0, <<>>, FALSE))
      /\ call' = NoCall
      /\ UNCHANGED grad_enabled

\* zero_grad, which also forgets the operation that made the Variable.
ZeroGrad(v) ==
  /\ v \in Tracked
  /\ variables' = [variables EXCEPT ![v].grad = 0,
                                    ![v].saved_inputs = <<>>,
                                    ![v].comparison = FALSE]
  /\ call' = NoCall
  /\ UNCHANGED grad_enabled

-----------------------------------------------------------------------------
(* backward                                                                *)

\* What a sequence of functions makes of start, each applied to the value of the one before.
Iterate(steps, start) ==
  LET after[i \in 0 .. Len(steps)] == IF i = 0 THEN start ELSE steps[i][after[i - 1]]
  IN  after[Len(steps)]

\* A topological sort in progress.
Sorting == [visited : SUBSET Known, topo : Seq(Known)]

\* What visits the operands of v in their order, dfs visiting each.
VisitOperands(dfs, v) ==
  [i \in DOMAIN variables[v].saved_inputs |-> dfs[variables[v].saved_inputs[i]]]

\* Mistake: a Variable is put before the operands it was computed from.
DfsPreorder(dfs, v, s) ==
  IF v \in s.visited THEN s
  ELSE Iterate(VisitOperands(dfs, v),
               [visited |-> s.visited \cup {v}, topo |-> Append(s.topo, v)])

\* dfs: the Variables v was computed from, each before those computed from it.
Dfs(dfs, v, s) ==
  IF v \in s.visited THEN s
  ELSE LET t == Iterate(VisitOperands(dfs, v), [s EXCEPT !.visited = @ \cup {v}])
       IN  [t EXCEPT !.topo = Append(@, v)]

TopologicalSort(root) ==
  LET dfs[v \in Known] == [s \in Sorting |-> Dfs(dfs, v, s)]
      topo == dfs[root][[visited |-> {}, topo |-> <<>>]].topo
  IN  [i \in 1 .. Len(topo) |-> topo[Len(topo) + 1 - i]]

\* A backward pass in progress: the gradients, and how it ends unless it goes on.
Outcomes == {"returns", "throws", "crashes"}
Pass == [grad : [Known -> Nat], outcome : Outcomes]

(* incr_grad on v with the gradient of `from`, p being a backward pass in  *)
(* progress.  The gradient of a comparison is a null tensor, whose use is  *)
(* the end of the process; one of another type is refused with an          *)
(* exception.                                                              *)

\* Mistake: the types of the two gradients are not compared.
IncrGradAnyType(p, v, from) ==
  IF variables[from].comparison THEN [p EXCEPT !.outcome = "crashes"]
  ELSE [p EXCEPT !.grad[v] = @ + p.grad[from]]

IncrGrad(p, v, from) ==
  IF variables[from].comparison THEN [p EXCEPT !.outcome = "crashes"]
  ELSE IF variables[v].type # variables[from].type THEN [p EXCEPT !.outcome = "throws"]
  ELSE [p EXCEPT !.grad[v] = @ + p.grad[from]]

\* The apply of the grad_fn of n, if there is one.
ApplyBackward(n) ==
  LET ins == variables[n].saved_inputs
  IN  [p \in Pass |-> Iterate(
         [i \in DOMAIN ins |->
            [q \in Pass |-> IF q.outcome # "returns" \/ ins[i] \notin Tracked THEN q
                            ELSE IncrGrad(q, ins[i], n)]], p)]

Backward(root) ==
  /\ root \in Tracked
  /\ LET seeded == [grad |-> [v \in Known |-> IF v = root THEN 1 ELSE Grad(v)],
                    outcome |-> "returns"]
         order  == TopologicalSort(root)
         p      == Iterate([i \in DOMAIN order |-> ApplyBackward(order[i])], seeded)
     IN  /\ variables' = [v \in Known |-> [variables[v] EXCEPT !.grad = p.grad[v]]]
         /\ call' = [root |-> root, outcome |-> p.outcome]
  /\ UNCHANGED grad_enabled

-----------------------------------------------------------------------------

Operands == {<<a>> : a \in Known} \cup {<<a, b>> : a, b \in Known}

Calls ==
  \/ \E enable \in BOOLEAN : SetGradEnabled(enable)
  \/ /\ Len(variables) < MaxVariables
     /\ \E ins \in Operands : \/ Apply(ins, FALSE)
                              \/ Len(ins) = 2 /\ Apply(ins, TRUE)
  \/ \E v \in Known : ZeroGrad(v)
  \/ /\ \A v \in Tracked : Grad(v) <= MaxGrad
     /\ \E root \in Known : Backward(root)

\* The process has crashed.
Crashed == call.outcome = "crashes" /\ UNCHANGED vars

Next == (call.outcome # "crashes" /\ Calls) \/ Crashed

Spec == Init /\ [][Next]_vars
-----------------------------------------------------------------------------
(* Correctness                                                             *)

(* Every Variable has its type: an operation was applied to Variables made *)
(* before, and what requires no gradient never gets one.                   *)
TypeOK ==
  /\ variables \in Seq(Variable)
  /\ \A v \in Known :
       /\ variables[v].saved_inputs \in Seq(1 .. v - 1)
       /\ v \notin Tracked => variables[v].grad = 0 /\ variables[v].saved_inputs = <<>>
  /\ grad_enabled \in BOOLEAN
  /\ call \in [root : 0 .. Len(variables), outcome : Outcomes]

Sum(numbers) ==
  Iterate([i \in DOMAIN numbers |-> [sum \in Nat |-> sum + numbers[i]]], 0)

(* The chain rule, stated without an order of evaluation: the number of    *)
(* paths from root to each Variable in the recorded graph, which is given  *)
(* by the operands of each.                                                *)
Uses(inputs, w, v) == Sum([i \in DOMAIN inputs[w] |-> IF inputs[w][i] = v THEN 1 ELSE 0])

PathsIn(inputs, root) ==
  LET paths[v \in DOMAIN inputs] ==
        IF v = root THEN 1
        ELSE Sum([w \in DOMAIN inputs |-> IF w > v THEN paths[w] * Uses(inputs, w, v) ELSE 0])
  IN  paths

Inputs == [v \in Known |-> variables[v].saved_inputs]
Paths(root) == PathsIn(Inputs, root)

\* What the gradients between the root and the leaves have to be for backward to be exact.
ClearBelow(root) ==
  \A v \in Tracked \ {root} :
    Paths(root)[v] > 0 /\ variables[v].saved_inputs # <<>> => Grad(v) = 0

(* A backward pass adds to every Variable its derivative, each path to it  *)
(* counted once, whatever the shape of the graph, what was detached from   *)
(* it by zero_grad and what gradients the leaves had; one that throws has  *)
(* added no more than that anywhere.                                       *)
BackwardExact ==
  [][LET root == call'.root
     IN  root # 0 /\ ClearBelow(root) =>
           \A v \in Tracked :
             LET due == IF v = root THEN 1 ELSE Grad(v) + Paths(root)[v]
             IN  /\ Grad(v)' <= due
                 /\ call'.outcome = "returns" => Grad(v)' = due]_vars

\* An operand that wants a gradient has another type than the Variable computed from it.
Mixed(w) ==
  \E i \in DOMAIN Inputs[w] :
    Inputs[w][i] \in Tracked /\ variables[Inputs[w][i]].type # variables[w].type

\* An operand that wants a gradient was compared.
Comparing(w) ==
  variables[w].comparison /\ \E i \in DOMAIN Inputs[w] : Inputs[w][i] \in Tracked

(* How a backward pass ends is decided by the graph below its root, not by *)
(* the order of the walk: it returns just when the gradients of all the    *)
(* operands can be computed and have the types of the operands, throws     *)
(* only over operands of mixed types, and crashes only over a comparison.  *)
OutcomeOfGraph ==
  LET paths    == Paths(call.root)
      mixed    == \E w \in Known : paths[w] > 0 /\ Mixed(w)
      compared == \E w \in Known : paths[w] > 0 /\ Comparing(w)
  IN  call.root # 0 =>
        /\ call.outcome = "returns" <=> ~mixed /\ ~compared
        /\ call.outcome = "throws" => mixed
        /\ call.outcome = "crashes" => compared
=============================================================================
