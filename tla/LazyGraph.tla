------------------------------ MODULE LazyGraph ------------------------------
(***************************************************************************)
(* Deferred tensors of csrc/src/tensor/lazy and their realization by the   *)
(* NVRTC inductor of csrc/src/inductor/nvrtc.  While capture is enabled an *)
(* elementwise operation on a CUDA tensor records a pending operation on   *)
(* its operands; whatever needs the values realizes it, fusing the pending *)
(* operations below it of one shape into one kernel.                       *)
(*                                                                         *)
(* One thread: the Python interface runs every call under the interpreter  *)
(* lock.  Its recursion is a stack of frames: realize calls itself for     *)
(* operands, and what a frame is still to do is a list of entries, which   *)
(* for build_fused_graph also holds the recursion of visit.                *)
(*                                                                         *)
(* A TensorImpl is named by its number in the order of creation.  The      *)
(* value of a tensor is the expression it was computed by; the data type   *)
(* is left out, and so is the tensor without elements, for which realize   *)
(* launches nothing.                                                       *)
(***************************************************************************)
EXTENDS Integers, Sequences

CONSTANTS
  Leaves,         \* the shapes of the tensors a program starts with
  MaxImpls        \* bound: tensors created

(* Shapes as the broadcast rules tell them apart: 1 is a row of the matrix *)
(* 2, and 3 is that matrix with one more dimension.  Two operands have the *)
(* shape of the larger.                                                    *)
Shape == 1 .. 3
Numel(s) == IF s = 1 THEN 1 ELSE 2

ASSUME LeavesAssumption == Leaves \in Seq(Shape)
ASSUME MaxImplsAssumption == MaxImpls \in Nat

VARIABLES
  impl,           \* impl[n]: the TensorImpls, in the order of creation
  store,          \* the Storages made so far
  kernel,         \* the last fused kernel
  stack,          \* the calls in progress, the innermost last
  crashed,        \* whether a null lazy_op was dereferenced
  capture,        \* the thread-local capture_enabled
  meaning         \* what each tensor would hold had every operation run at once

tensors == <<impl, store, meaning>>
vars == <<impl, store, kernel, stack, crashed, capture, meaning>>

-----------------------------------------------------------------------------
(* Values and tensors                                                      *)

Leaf(n) == [tag |-> n, args |-> <<>>]
Applied(args) == [tag |-> 0, args |-> args]

\* A TensorImpl: storage 0 is the empty Storage, inputs those of lazy_, <<>> for a null lazy_.
Impl(shape, storage, inputs) == [shape |-> shape, storage |-> storage, inputs |-> inputs]

Impls == 1 .. Len(impl)
Deferred(n) == impl[n].inputs # <<>>

\* What a kernel finds at data_.data().
Contents(n) == IF impl[n].storage = 0 THEN Leaf(0) ELSE store[impl[n].storage]
ContentsOf(ins) == [i \in DOMAIN ins |-> Contents(ins[i])]

\* Mistake: operands that are broadcast are fused like any other.
FusibleAlways(n) == TRUE

\* is_fusible: all operands have one shape.
Fusible(n) ==
  LET ins == impl[n].inputs
  IN  \A i, j \in DOMAIN ins : impl[ins[i]].shape = impl[ins[j]].shape

\* infer_binary and infer_unary: the shape of the result.
ResultShape(ins) ==
  LET shapes == {impl[ins[i]].shape : i \in DOMAIN ins}
  IN  CHOOSE s \in shapes : \A r \in shapes : r <= s

\* Mistake: the pending operation is kept.
SetRealizedPending(n, value) ==
  /\ store' = Append(store, value)
  /\ impl' = [impl EXCEPT ![n].storage = Len(store) + 1]

SetRealized(n, value) ==
  /\ store' = Append(store, value)
  /\ impl' = [impl EXCEPT ![n].storage = Len(store) + 1, ![n].inputs = <<>>]

-----------------------------------------------------------------------------
(* The stack                                                               *)

\* A frame is a call on `operands` that realizes or makes `root`; seen, inputs and
\* order are those of its FusedGraph, todo what it is to do before its kernel.
Frame(call, root, operands, todo) ==
  [call |-> call, root |-> root, operands |-> operands, todo |-> todo,
   seen |-> {root}, inputs |-> <<>>, order |-> <<>>]

Entry(do, n) == [do |-> do, node |-> n]
Each(do, ins) == [i \in DOMAIN ins |-> Entry(do, ins[i])]

\* Visit the operands of n, then take n into the kernel.
Visits(n) == Each("visit", impl[n].inputs) \o <<Entry("emit", n)>>

BuildFusedGraph(root) == Frame("fused", root, impl[root].inputs, Visits(root))

RealizeInputs(root) ==
  Frame("eager", root, impl[root].inputs, Each("realize", impl[root].inputs))

\* The call of an operation that makes the next tensor of its operands.
Operation(call, ins) == Frame(call, Len(impl) + 1, ins, Each("realize", ins))

top == stack[Len(stack)]
Return == stack' = SubSeq(stack, 1, Len(stack) - 1)

\* The innermost call goes on as `frame`, after the realization of n.
GoesOn(frame) == stack' = [stack EXCEPT ![Len(stack)] = frame]
Realize(n, frame) ==
  LET waits == [stack EXCEPT ![Len(stack)] = frame]
  IN  stack' = IF ~Deferred(n) THEN waits
               ELSE Append(waits, IF Fusible(n) THEN BuildFusedGraph(n) ELSE RealizeInputs(n))

ToDo(do, n) == stack # <<>> /\ top.todo # <<>> /\ Head(top.todo) = Entry(do, n)
Ready(call) == stack # <<>> /\ top.todo = <<>> /\ top.call = call
Resting == stack = <<>> /\ ~crashed

-----------------------------------------------------------------------------
(* realize                                                                 *)

\* visit returns at once.
VisitSeen(n) ==
  /\ ToDo("visit", n)
  /\ n \in top.seen
  /\ GoesOn([top EXCEPT !.todo = Tail(@)])
  /\ UNCHANGED <<tensors, kernel, crashed, capture>>

\* Mistake: a pending operation is visited each time it is met.
VisitAgain(n) ==
  /\ ToDo("visit", n)
  /\ Deferred(n) /\ Fusible(n)
  /\ GoesOn([top EXCEPT !.todo = Visits(n) \o Tail(@), !.seen = @ \cup {n}])
  /\ UNCHANGED <<tensors, kernel, crashed, capture>>

\* visit goes on to what the pending operation of n is on.
VisitOperation(n) ==
  /\ ToDo("visit", n)
  /\ n \notin top.seen
  /\ Deferred(n) /\ Fusible(n)
  /\ GoesOn([top EXCEPT !.todo = Visits(n) \o Tail(@), !.seen = @ \cup {n}])
  /\ UNCHANGED <<tensors, kernel, crashed, capture>>

\* Mistake: the input is realized by the caller, when the kernel is there.
VisitInputPending(n) ==
  /\ ToDo("visit", n)
  /\ n \notin top.seen
  /\ ~(Deferred(n) /\ Fusible(n))
  /\ GoesOn([top EXCEPT !.todo = Tail(@), !.seen = @ \cup {n}, !.inputs = Append(@, n)])
  /\ UNCHANGED <<tensors, kernel, crashed, capture>>

\* visit realizes n and makes it an input of the kernel.
VisitInput(n) ==
  /\ ToDo("visit", n)
  /\ n \notin top.seen
  /\ ~(Deferred(n) /\ Fusible(n))
  /\ Realize(n, [top EXCEPT !.todo = Tail(@), !.seen = @ \cup {n},
                            !.inputs = Append(@, n)])
  /\ UNCHANGED <<tensors, kernel, crashed, capture>>

\* The end of visit, and of build_fused_graph.
Emit(n) ==
  /\ ToDo("emit", n)
  /\ GoesOn([top EXCEPT !.todo = Tail(@), !.order = Append(@, n)])
  /\ UNCHANGED <<tensors, kernel, crashed, capture>>

\* An operand of a kernel that is not fused.
RealizeOperand(n) ==
  /\ ToDo("realize", n)
  /\ Realize(n, [top EXCEPT !.todo = Tail(@)])
  /\ UNCHANGED <<tensors, kernel, crashed, capture>>

\* codegen_kernel dereferences lazy_op() of every node of order.
Generates == \A i \in DOMAIN top.order : Deferred(top.order[i])

DereferenceNull ==
  /\ Ready("fused") /\ ~Generates
  /\ crashed' = TRUE
  /\ stack' = <<>>
  /\ UNCHANGED <<tensors, kernel, capture>>

\* The kernel is not in the cache and does not compile: the exception ends all calls.
CompileFails ==
  /\ Ready("fused") /\ Generates
  /\ stack' = <<>>
  /\ UNCHANGED <<tensors, kernel, crashed, capture>>

\* What the kernel stores: its statements are the operations of order, one after the other.
FusedValue(g) ==
  LET Statement(named, n) ==
        [named EXCEPT ![n] = Applied([i \in DOMAIN impl[n].inputs |-> named[impl[n].inputs[i]]])]
      named[i \in 0 .. Len(g.order)] ==
        IF i = 0 THEN [n \in Impls |-> Contents(n)] ELSE Statement(named[i - 1], g.order[i])
  IN  named[Len(g.order)][g.root]

RunFused ==
  /\ Ready("fused") /\ Generates
  /\ kernel' = [inputs |-> top.inputs, order |-> top.order,
                args |-> [i \in DOMAIN top.order |-> impl[top.order[i]].inputs]]
  /\ SetRealized(top.root, FusedValue(top))
  /\ Return
  /\ UNCHANGED <<crashed, capture, meaning>>

RunEager ==
  /\ Ready("eager")
  /\ SetRealized(top.root, Applied(ContentsOf(top.operands)))
  /\ Return
  /\ UNCHANGED <<kernel, crashed, capture, meaning>>

-----------------------------------------------------------------------------
(* What a program does                                                     *)

Init ==
  /\ impl = [n \in DOMAIN Leaves |-> Impl(Leaves[n], n, <<>>)]
  /\ store = [n \in DOMAIN Leaves |-> Leaf(n)]
  /\ kernel = [inputs |-> <<>>, order |-> <<>>, args |-> <<>>]
  /\ stack = <<>>
  /\ crashed = FALSE
  /\ capture = FALSE
  /\ meaning = [n \in DOMAIN Leaves |-> Leaf(n)]

SetCaptureEnabled(enable) ==
  /\ Resting
  /\ capture' = enable
  /\ UNCHANGED <<tensors, kernel, stack, crashed>>

MeaningOf(ins) == Applied([i \in DOMAIN ins |-> meaning[ins[i]]])

\* The call makes a tensor.
Makes(shape, storage, inputs, means) ==
  /\ impl' = Append(impl, Impl(shape, storage, inputs))
  /\ meaning' = Append(meaning, means)

\* lazy::record: nothing is computed.
Record(ins) ==
  /\ Resting /\ capture
  /\ Makes(ResultShape(ins), 0, ins, MeaningOf(ins))
  /\ UNCHANGED <<store, kernel, stack, crashed, capture>>

\* The eager path: the kernels read their operands through data().
Compute(ins) ==
  /\ Resting /\ ~capture
  /\ stack' = <<Operation("compute", ins)>>
  /\ UNCHANGED <<tensors, kernel, crashed, capture>>

Computed ==
  /\ Ready("compute")
  /\ LET ins == top.operands
     IN  /\ Makes(ResultShape(ins), Len(store) + 1, <<>>, MeaningOf(ins))
         /\ store' = Append(store, Applied(ContentsOf(ins)))
  /\ Return
  /\ UNCHANGED <<kernel, crashed, capture>>

\* Mistake: the view has the storage but not the pending operation.
ViewOfStorage(n, shape) ==
  /\ Resting
  /\ Numel(shape) = Numel(impl[n].shape)
  /\ Makes(shape, impl[n].storage, <<>>, meaning[n])
  /\ UNCHANGED <<store, kernel, stack, crashed, capture>>

\* Mistake: the tensor viewed gets the shape of the view.
ViewInPlace(n, shape) ==
  /\ Resting
  /\ Numel(shape) = Numel(impl[n].shape)
  /\ impl' = Append([impl EXCEPT ![n].shape = shape],
                    Impl(shape, impl[n].storage, impl[n].inputs))
  /\ meaning' = Append(meaning, meaning[n])
  /\ UNCHANGED <<store, kernel, stack, crashed, capture>>

\* reshape, squeeze and expand_dims: a copy of the TensorImpl, its pending operation included.
View(n, shape) ==
  /\ Resting
  /\ Numel(shape) = Numel(impl[n].shape)
  /\ Makes(shape, impl[n].storage, impl[n].inputs, meaning[n])
  /\ UNCHANGED <<store, kernel, stack, crashed, capture>>

\* data(), realize(), tolist(), index() and every operation that is not captured.
Data(n) ==
  /\ Resting
  /\ stack' = <<Operation("data", <<n>>)>>
  /\ UNCHANGED <<tensors, kernel, crashed, capture>>

DataReturns ==
  /\ Ready("data")
  /\ Return
  /\ UNCHANGED <<tensors, kernel, crashed, capture>>

Operands == {<<a>> : a \in Impls} \cup {<<a, b>> : a, b \in Impls}

Creates ==
  /\ Len(impl) < MaxImpls
  /\ \/ \E ins \in Operands : Record(ins) \/ Compute(ins)
     \/ \E n \in Impls, s \in Shape : View(n, s)

Realizes ==
  \/ \E n \in Impls :
       VisitSeen(n) \/ VisitOperation(n) \/ VisitInput(n) \/ Emit(n) \/ RealizeOperand(n)
  \/ DereferenceNull \/ CompileFails \/ RunFused \/ RunEager \/ Computed \/ DataReturns

\* The process has crashed.
Crashed == crashed /\ UNCHANGED vars

Next ==
  \/ \E enable \in BOOLEAN : SetCaptureEnabled(enable)
  \/ Creates
  \/ \E n \in Impls : Data(n)
  \/ Realizes
  \/ Crashed

Spec == Init /\ [][Next]_vars

-----------------------------------------------------------------------------
(* Correctness                                                             *)

(* Every tensor has its type: a pending operation is on tensors made       *)
(* before, and a tensor that is not deferred has storage.  A call waits    *)
(* for realizations of older tensors only, all of them pending.            *)
TypeOK ==
  /\ impl \in Seq([shape : Shape, storage : 0 .. Len(store), inputs : Seq(Nat)])
  /\ \A n \in Impls :
       /\ \A i \in DOMAIN impl[n].inputs : impl[n].inputs[i] \in 1 .. n - 1
       /\ impl[n].storage = 0 <=> Deferred(n)
  /\ DOMAIN meaning = Impls
  /\ \A i \in 2 .. Len(stack) : Deferred(stack[i].root) /\ stack[i].root < stack[i - 1].root
  /\ crashed \in BOOLEAN /\ capture \in BOOLEAN

(* Fusion is transparent: whatever was captured, fused, realized as an     *)
(* input of another kernel or retried after an exception, a tensor that is *)
(* realized holds what eager execution would have given it.                *)
ValuesAsEager == \A n \in Impls : ~Deferred(n) => Contents(n) = meaning[n]

\* Whatever a kernel is about to read, or the caller of data(), has memory.
ReadsMemory ==
  stack # <<>> /\ top.todo = <<>> =>
    LET read == IF top.call = "fused" THEN top.inputs ELSE top.operands
    IN  \A i \in DOMAIN read : impl[read[i]].storage # 0

\* The inputs of the last fused kernel have as many elements as its output.
KernelEven ==
  LET k == kernel
  IN  \A i \in DOMAIN k.inputs :
        Numel(impl[k.inputs[i]].shape) = Numel(impl[k.order[Len(k.order)]].shape)

(* No thread of a kernel reads where nothing is: the realizations on the   *)
(* way to it have left none of its operands pending, and every input of a  *)
(* fused kernel has as many elements as its output.                        *)
KernelInBounds == ReadsMemory /\ KernelEven

(* Every statement of a fused kernel uses inputs of the kernel and results *)
(* of statements before it, and no operation is computed twice.            *)
KernelWellFormed ==
  LET k == kernel
  IN  /\ \A i \in DOMAIN k.order : \A j \in DOMAIN k.args[i] :
           k.args[i][j] \in {k.order[m] : m \in 1 .. i - 1}
                              \cup {k.inputs[m] : m \in DOMAIN k.inputs}
      /\ \A i, j \in DOMAIN k.order : k.order[i] = k.order[j] => i = j

(* Memory handed out by data() stays the tensor's memory: no later call    *)
(* gives a realized tensor another storage or shape, or defers it again.   *)
StoragePermanent ==
  [][\A n \in Impls : ~Deferred(n) => impl'[n] = impl[n]]_vars

(* The README of a captured graph: it "can be realized anywhere ... the    *)
(* first time its values are needed".  Fails: see the run lazy_anywhere.   *)
RealizableAnywhere == ~crashed
=============================================================================
