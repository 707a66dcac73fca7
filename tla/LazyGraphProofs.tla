--------------------------- MODULE LazyGraphProofs ---------------------------
(***************************************************************************)
(* Proofs about LazyGraph, for any tensors to start with and programs of   *)
(* any length: whatever graph was captured, however far its realization    *)
(* has come and whichever kernels failed to compile.                       *)
(***************************************************************************)
EXTENDS LazyGraph, Induction, SequenceTheorems

-----------------------------------------------------------------------------
(* The inductive invariant.                                                *)

In(x, seq) == \E i \in DOMAIN seq : seq[i] = x
IsSequence(s) == s \in Seq({s[i] : i \in DOMAIN s})

Node == Nat \ {0}
Tensor == [shape : Shape, storage : Nat, inputs : Seq(Node)]
Call == {"fused", "eager", "compute", "data"}
Todo == [do : {"visit", "emit", "realize"}, node : Node]
FrameType ==
  [call : Call, root : Node, operands : Seq(Node), todo : Seq(Todo),
   seen : SUBSET Node, inputs : Seq(Node), order : Seq(Node)]

\* Pending operations are on older tensors, and are not on memory.
Graph ==
  /\ impl \in Seq(Tensor)
  /\ \A n \in Impls :
       /\ impl[n].storage <= Len(store)
       /\ \A i \in DOMAIN impl[n].inputs : impl[n].inputs[i] < n
       /\ impl[n].storage = 0 <=> Deferred(n)
  /\ IsSequence(store) /\ IsSequence(meaning)
  /\ DOMAIN meaning = Impls
  /\ crashed \in BOOLEAN /\ capture \in BOOLEAN

\* A pending operation, done to what its operands mean, gives what the tensor means.
Meant == \A n \in Impls : Deferred(n) => meaning[n] = MeaningOf(impl[n].inputs)

\* The operands of a fusible operation have as many elements as its result.
Sized ==
  \A n \in Impls : Deferred(n) /\ Fusible(n) =>
    \A i \in DOMAIN impl[n].inputs :
      Numel(impl[impl[n].inputs[i]].shape) = Numel(impl[n].shape)

KernelTyped ==
  /\ kernel.inputs \in Seq(Impls) /\ kernel.order \in Seq(Impls)
  /\ kernel.order = <<>> => kernel.inputs = <<>>

\* The root is the last to be taken into its kernel.
RootLast(f) ==
  IF f.todo = <<>> THEN f.order # <<>> /\ f.order[Len(f.order)] = f.root
  ELSE f.todo[Len(f.todo)] = Entry("emit", f.root)

\* What is to be done before an operation is taken into the kernel is about older tensors.
Older(f) ==
  /\ \A p \in DOMAIN f.todo :
       /\ f.todo[p].do \in {"visit", "emit"}
       /\ f.todo[p].do = "visit" => f.todo[p].node < f.root
  /\ \A p, q \in DOMAIN f.todo :
       p < q /\ f.todo[q].do = "emit" => f.todo[p].node < f.todo[q].node
  /\ \A i \in DOMAIN f.inputs : f.inputs[i] < f.root
  /\ \A i \in DOMAIN f.order : f.order[i] <= f.root

\* What was met is an input, or is in the kernel or still to be taken into it, once.
Sees(f) ==
  /\ \A p \in DOMAIN f.todo : f.todo[p].do = "emit" =>
       f.todo[p].node \in f.seen /\ ~In(f.todo[p].node, f.order)
  /\ \A i \in DOMAIN f.order : f.order[i] \in f.seen
  /\ \A i, j \in DOMAIN f.order : f.order[i] = f.order[j] => i = j
  /\ \A x \in f.seen : In(x, f.inputs) \/ In(x, f.order) \/ In(Entry("emit", x), f.todo)

\* What statement i of a kernel may use.
Given(x, f, i) == (\E j \in 1 .. i - 1 : f.order[j] = x) \/ (\E j \in DOMAIN f.inputs : f.inputs[j] = x)

\* The operands of an operation come before it, unless it was realized meanwhile.
Sorted(f) ==
  /\ \A i \in DOMAIN f.order : Deferred(f.order[i]) =>
       \A j \in DOMAIN impl[f.order[i]].inputs : Given(impl[f.order[i]].inputs[j], f, i)
  /\ \A p \in DOMAIN f.todo : f.todo[p].do = "emit" /\ Deferred(f.todo[p].node) =>
       \A j \in DOMAIN impl[f.todo[p].node].inputs :
         \/ Given(impl[f.todo[p].node].inputs[j], f, Len(f.order) + 1)
         \/ \E q \in 1 .. p - 1 : f.todo[q].node = impl[f.todo[p].node].inputs[j]

\* All of one size.
Even(f) ==
  /\ \A p \in DOMAIN f.todo : Numel(impl[f.todo[p].node].shape) = Numel(impl[f.root].shape)
  /\ \A i \in DOMAIN f.inputs : Numel(impl[f.inputs[i]].shape) = Numel(impl[f.root].shape)

FusedInv(f) == RootLast(f) /\ Older(f) /\ Sees(f) /\ Sorted(f) /\ Even(f)

OperandInv(f) ==
  /\ \A p \in DOMAIN f.todo : f.todo[p].do = "realize" /\ f.todo[p].node < f.root
  /\ f.operands # <<>> /\ \A i \in DOMAIN f.operands : f.operands[i] < f.root
  /\ f.call = "eager" => f.operands = impl[f.root].inputs

FrameInv(f) == IF f.call = "fused" THEN FusedInv(f) ELSE OperandInv(f)

\* What the kernel of a frame reads is realized, or will be, or is x.
Awaited(f, x) ==
  IF f.call = "fused"
  THEN \A i \in DOMAIN f.inputs : Deferred(f.inputs[i]) => f.inputs[i] = x
  ELSE \A i \in DOMAIN f.operands : Deferred(f.operands[i]) =>
         f.operands[i] = x \/ \E p \in DOMAIN f.todo : f.todo[p].node = f.operands[i]

\* What frame i waits for.
Callee(i) == IF i < Len(stack) THEN stack[i + 1].root ELSE 0

\* Every call is on an older, pending tensor; the first is the program's.
Rooted(i) ==
  IF i = 1
  THEN stack[1].call \in {"compute", "data"} /\ stack[1].root = Len(impl) + 1
  ELSE /\ stack[i].call \in {"fused", "eager"}
       /\ stack[i].root \in Impls /\ Deferred(stack[i].root)
       /\ stack[i].root < stack[i - 1].root

Frames ==
  /\ stack \in Seq(FrameType)
  /\ \A i \in DOMAIN stack :
       Rooted(i) /\ FrameInv(stack[i]) /\ Awaited(stack[i], Callee(i))
  /\ crashed => stack = <<>>

Tensors == Graph /\ Meant /\ Sized /\ ValuesAsEager
Kernel == KernelTyped /\ KernelEven /\ KernelWellFormed

IInv == Tensors /\ Kernel /\ Frames

-----------------------------------------------------------------------------
(* Sequences.                                                              *)

\* A sequence of anything, appended to.
LEMMA Appended ==
  ASSUME NEW s, IsSequence(s), NEW v
  PROVE  /\ IsSequence(Append(s, v))
         /\ Len(s) \in Nat /\ DOMAIN s = 1 .. Len(s)
         /\ Len(Append(s, v)) = Len(s) + 1 /\ DOMAIN Append(s, v) = 1 .. Len(s) + 1
         /\ \A i \in 1 .. Len(s) : Append(s, v)[i] = s[i]
         /\ Append(s, v)[Len(s) + 1] = v
<1> DEFINE S == {s[i] : i \in DOMAIN s} \cup {v}
<1>1. s \in Seq(S) /\ v \in S
  BY DEF IsSequence
<1> HIDE DEF S
<1>2. /\ Len(s) \in Nat /\ DOMAIN s = 1 .. Len(s)
      /\ Len(Append(s, v)) = Len(s) + 1 /\ DOMAIN Append(s, v) = 1 .. Len(s) + 1
      /\ \A i \in 1 .. Len(s) : Append(s, v)[i] = s[i]
      /\ Append(s, v)[Len(s) + 1] = v
      /\ Append(s, v) \in Seq(S)
  BY <1>1
<1>3. IsSequence(Append(s, v))
  <2> DEFINE t == Append(s, v)
             U == {t[i] : i \in DOMAIN t}
  <2>1. t \in Seq(S) /\ Len(t) \in Nat /\ DOMAIN t = 1 .. Len(t)
    BY <1>2
  <2> HIDE DEF t
  <2>2. t \in [1 .. Len(t) -> U]
    BY <2>1
  <2>3. t \in Seq(U)
    BY <2>1, <2>2
  <2> QED BY <2>3 DEF IsSequence, t
<1> QED BY <1>2, <1>3

LEMMA Extended ==
  ASSUME NEW S, NEW s \in Seq(S), NEW v \in S
  PROVE  /\ Append(s, v) \in Seq(S)
         /\ Len(Append(s, v)) = Len(s) + 1 /\ DOMAIN Append(s, v) = 1 .. Len(s) + 1
         /\ \A i \in 1 .. Len(s) : Append(s, v)[i] = s[i]
         /\ Append(s, v)[Len(s) + 1] = v
OBVIOUS

LEMMA Popped ==
  ASSUME NEW S, NEW s \in Seq(S), s # <<>>
  PROVE  /\ SubSeq(s, 1, Len(s) - 1) \in Seq(S)
         /\ Len(SubSeq(s, 1, Len(s) - 1)) = Len(s) - 1
         /\ DOMAIN SubSeq(s, 1, Len(s) - 1) = 1 .. Len(s) - 1
         /\ \A i \in 1 .. Len(s) - 1 : SubSeq(s, 1, Len(s) - 1)[i] = s[i]
<1>1. Len(s) \in Nat /\ Len(s) > 0
  OBVIOUS
<1>2. PICK n \in Nat : n = Len(s) - 1
  BY <1>1
<1>3. \A i \in 1 .. n : s[i] \in S
  BY <1>1, <1>2
<1>4. /\ SubSeq(s, 1, n) \in Seq(S)
      /\ Len(SubSeq(s, 1, n)) = IF 1 <= n THEN n - 1 + 1 ELSE 0
      /\ \A i \in 1 .. n - 1 + 1 : SubSeq(s, 1, n)[i] = s[1 + i - 1]
  <2>1. 1 \in Int /\ n \in Int
    BY <1>2
  <2> QED BY <2>1, <1>3, SubSeqProperties
<1>5. Len(SubSeq(s, 1, n)) = n /\ \A i \in 1 .. n : SubSeq(s, 1, n)[i] = s[i]
  BY <1>4
<1>6. DOMAIN SubSeq(s, 1, n) = 1 .. n
  BY <1>4, <1>5
<1> QED BY <1>2, <1>4, <1>5, <1>6

LEMMA Tails ==
  ASSUME NEW S, NEW s \in Seq(S), s # <<>>
  PROVE  /\ Tail(s) \in Seq(S) /\ Len(Tail(s)) = Len(s) - 1 /\ DOMAIN Tail(s) = 1 .. Len(s) - 1
         /\ \A i \in 1 .. Len(s) - 1 : Tail(s)[i] = s[i + 1]
         /\ Head(s) = s[1] /\ Len(s) \in Nat /\ Len(s) > 0 /\ Head(s) \in S
OBVIOUS

LEMMA Joined ==
  ASSUME NEW S, NEW s \in Seq(S), NEW t \in Seq(S)
  PROVE  /\ s \o t \in Seq(S) /\ Len(s \o t) = Len(s) + Len(t)
         /\ DOMAIN (s \o t) = 1 .. Len(s) + Len(t)
         /\ \A i \in 1 .. Len(s) : (s \o t)[i] = s[i]
         /\ \A i \in 1 .. Len(t) : (s \o t)[Len(s) + i] = t[i]
OBVIOUS

\* The same with names for the lengths.
LEMMA JoinedIs ==
  ASSUME NEW S, NEW s \in Seq(S), NEW t \in Seq(S), NEW l \in Nat, NEW k \in Nat,
         l = Len(s), k = Len(t), NEW r, r = s \o t
  PROVE  /\ r \in Seq(S) /\ Len(r) = l + k /\ DOMAIN r = 1 .. l + k
         /\ \A i \in 1 .. l : r[i] = s[i]
         /\ \A i \in 1 .. k : r[l + i] = t[i]
BY Joined

LEMMA Replaced ==
  ASSUME NEW S, NEW s \in Seq(S), NEW i \in DOMAIN s, NEW v \in S
  PROVE  /\ [s EXCEPT ![i] = v] \in Seq(S) /\ Len([s EXCEPT ![i] = v]) = Len(s)
         /\ DOMAIN [s EXCEPT ![i] = v] = DOMAIN s
OBVIOUS

-----------------------------------------------------------------------------
(* Tensors and entries.                                                    *)

LEMMA Nodes ==
  ASSUME Graph
  PROVE  /\ Len(impl) \in Nat /\ DOMAIN impl = Impls /\ Impls \subseteq Node
         /\ \A n \in Impls :
              /\ impl[n] \in Tensor /\ impl[n].shape \in Shape /\ impl[n].storage \in Nat
              /\ impl[n].inputs \in Seq(Node)
              /\ \A i \in DOMAIN impl[n].inputs :
                   impl[n].inputs[i] \in Impls /\ impl[n].inputs[i] < n
<1>1. impl \in Seq(Tensor)
  BY DEF Graph
<1>2. Len(impl) \in Nat /\ DOMAIN impl = Impls /\ Impls \subseteq Node
  BY <1>1 DEF Impls, Node
<1>3. ASSUME NEW n \in Impls
      PROVE  /\ impl[n] \in Tensor /\ impl[n].shape \in Shape /\ impl[n].storage \in Nat
             /\ impl[n].inputs \in Seq(Node)
  <2>1. impl[n] \in Tensor
    BY <1>1, <1>2
  <2> QED BY <2>1 DEF Tensor
<1>4. ASSUME NEW n \in Impls, NEW i \in DOMAIN impl[n].inputs
      PROVE  impl[n].inputs[i] \in Impls /\ impl[n].inputs[i] < n
  <2>1. impl[n].inputs[i] \in Node /\ impl[n].inputs[i] < n
    BY <1>3 DEF Graph
  <2> QED BY <2>1, <1>2 DEF Impls, Node
<1> QED BY <1>2, <1>3, <1>4

LEMMA Pending ==
  ASSUME Graph, NEW n \in Impls
  PROVE  Deferred(n) <=> Len(impl[n].inputs) > 0
<1>1. impl[n].inputs \in Seq(Node)
  BY Nodes
<1> QED BY <1>1 DEF Deferred

LEMMA FrameFields ==
  ASSUME NEW f \in FrameType
  PROVE  /\ f.call \in Call /\ f.root \in Node /\ f.operands \in Seq(Node)
         /\ f.todo \in Seq(Todo) /\ f.seen \subseteq Node
         /\ f.inputs \in Seq(Node) /\ f.order \in Seq(Node)
         /\ Len(f.todo) \in Nat /\ DOMAIN f.todo = 1 .. Len(f.todo)
         /\ Len(f.order) \in Nat /\ DOMAIN f.order = 1 .. Len(f.order)
         /\ Len(f.inputs) \in Nat /\ DOMAIN f.inputs = 1 .. Len(f.inputs)
         /\ Len(f.operands) \in Nat /\ DOMAIN f.operands = 1 .. Len(f.operands)
         /\ \A p \in DOMAIN f.todo : f.todo[p] \in Todo /\ f.todo[p].node \in Node
<1>1. /\ f.call \in Call /\ f.root \in Node /\ f.operands \in Seq(Node)
      /\ f.todo \in Seq(Todo) /\ f.seen \subseteq Node
      /\ f.inputs \in Seq(Node) /\ f.order \in Seq(Node)
  BY DEF FrameType
<1>2. \A p \in DOMAIN f.todo : f.todo[p] \in Todo
  BY <1>1
<1>3. \A e \in Todo : e.node \in Node
  BY DEF Todo
<1> QED BY <1>1, <1>2, <1>3

LEMMA Entries ==
  ASSUME NEW do \in {"visit", "emit", "realize"}
  PROVE  /\ \A n \in Node : Entry(do, n) \in Todo
         /\ \A n : Entry(do, n).do = do /\ Entry(do, n).node = n
BY DEF Entry, Todo

LEMMA EachIs ==
  ASSUME NEW do \in {"visit", "emit", "realize"}, NEW ins \in Seq(Node)
  PROVE  /\ Each(do, ins) \in Seq(Todo) /\ Len(Each(do, ins)) = Len(ins)
         /\ DOMAIN Each(do, ins) = 1 .. Len(ins)
         /\ \A i \in 1 .. Len(ins) : Each(do, ins)[i] = Entry(do, ins[i])
<1>1. Len(ins) \in Nat /\ DOMAIN ins = 1 .. Len(ins) /\ \A i \in 1 .. Len(ins) : ins[i] \in Node
  OBVIOUS
<1>2. \A i \in 1 .. Len(ins) : Entry(do, ins[i]) \in Todo
  BY <1>1, Entries
<1> QED BY <1>1, <1>2 DEF Each

\* Visits(n): the operands of n, and then n.
LEMMA VisitsIs ==
  ASSUME Graph, NEW n \in Impls
  PROVE  LET l == Len(impl[n].inputs)
         IN  /\ Visits(n) \in Seq(Todo) /\ Len(Visits(n)) = l + 1 /\ l \in Nat
             /\ \A i \in 1 .. l : Visits(n)[i] = Entry("visit", impl[n].inputs[i])
             /\ Visits(n)[l + 1] = Entry("emit", n)
<1> DEFINE l == Len(impl[n].inputs)
           a == Each("visit", impl[n].inputs)
           b == <<Entry("emit", n)>>
<1>1. impl[n].inputs \in Seq(Node) /\ l \in Nat /\ n \in Node
  BY Nodes
<1>2. /\ a \in Seq(Todo) /\ Len(a) = l
      /\ \A i \in 1 .. l : a[i] = Entry("visit", impl[n].inputs[i])
  BY <1>1, EachIs
<1>3. Entry("emit", n) \in Todo
  BY <1>1, Entries
<1>4. b \in Seq(Todo) /\ Len(b) = 1 /\ b[1] = Entry("emit", n)
  BY <1>3
<1> HIDE DEF a, b
<1>5. /\ a \o b \in Seq(Todo) /\ Len(a \o b) = l + 1
      /\ \A i \in 1 .. l : (a \o b)[i] = a[i]
      /\ (a \o b)[l + 1] = b[1]
  <2>0. PICK r : r = a \o b
    OBVIOUS
  <2>1. PICK m \in Nat, o \in Nat : m = l /\ o = 1
    BY <1>1
  <2>2. m = Len(a) /\ o = Len(b) /\ a \in Seq(Todo) /\ b \in Seq(Todo)
    BY <1>2, <1>4, <2>1
  <2>3. /\ r \in Seq(Todo) /\ Len(r) = m + o
        /\ \A i \in 1 .. m : r[i] = a[i]
        /\ \A i \in 1 .. o : r[m + i] = b[i]
    BY <2>0, <2>2, JoinedIs
  <2>4. 1 \in 1 .. o
    BY <2>1
  <2>5. r[m + 1] = b[1]
    BY <2>3, <2>4, Zenon
  <2> QED BY <2>0, <2>1, <2>3, <2>5
<1>6. Visits(n) = a \o b
  BY DEF Visits, a, b
<1> QED BY <1>1, <1>2, <1>4, <1>5, <1>6

LEMMA FrameIs ==
  ASSUME NEW call \in Call, NEW root \in Node, NEW operands \in Seq(Node), NEW todo \in Seq(Todo),
         NEW g, g = Frame(call, root, operands, todo)
  PROVE  /\ g.call = call /\ g.root = root /\ g.operands = operands /\ g.todo = todo
         /\ g.seen = {root} /\ g.inputs = <<>> /\ g.order = <<>>
         /\ g \in FrameType
<1>1. /\ g.call = call /\ g.root = root /\ g.operands = operands /\ g.todo = todo
      /\ g.seen = {root} /\ g.inputs = <<>> /\ g.order = <<>>
  BY DEF Frame
<1>2. PICK seen \in SUBSET Node : seen = {root}
  OBVIOUS
<1>3. PICK empty \in Seq(Node) : empty = <<>>
  BY EmptySeq, Zenon
<1>4. g = [call |-> call, root |-> root, operands |-> operands, todo |-> todo,
           seen |-> seen, inputs |-> empty, order |-> empty]
  BY <1>2, <1>3 DEF Frame
<1>5. g \in FrameType
  BY <1>4 DEF FrameType
<1> QED BY <1>1, <1>5

\* The frame of a realization that starts.
LEMMA Called ==
  ASSUME Graph, Sized, NEW n \in Impls, Deferred(n),
         NEW g, g = IF Fusible(n) THEN BuildFusedGraph(n) ELSE RealizeInputs(n)
  PROVE  /\ g \in FrameType /\ g.root = n /\ g.call \in {"fused", "eager"}
         /\ FrameInv(g) /\ Awaited(g, 0)
<1>1. /\ impl[n].inputs \in Seq(Node) /\ n \in Node /\ {n} \subseteq Node
      /\ <<>> \in Seq(Node) /\ Len(impl[n].inputs) \in Nat
      /\ \A i \in DOMAIN impl[n].inputs :
           impl[n].inputs[i] \in Impls /\ impl[n].inputs[i] < n /\ impl[n].inputs[i] \in Node
  BY Nodes
<1>2. CASE Fusible(n)
  <2>1. g = BuildFusedGraph(n)
    BY <1>2
  <2>2. /\ g.call = "fused" /\ g.root = n /\ g.todo = Visits(n) /\ g.seen = {n}
        /\ g.inputs = <<>> /\ g.order = <<>> /\ g \in FrameType
    <3>1. "fused" \in Call /\ Visits(n) \in Seq(Todo)
      BY VisitsIs DEF Call
    <3>2. g = Frame("fused", n, impl[n].inputs, Visits(n))
      BY <2>1 DEF BuildFusedGraph
    <3> QED BY <3>1, <3>2, <1>1, FrameIs
  <2>3. PICK l \in Nat : l = Len(impl[n].inputs)
    BY <1>1
  <2>4. /\ Len(g.todo) = l + 1 /\ DOMAIN g.todo = 1 .. l + 1 /\ g.todo \in Seq(Todo)
        /\ \A i \in 1 .. l : g.todo[i] = Entry("visit", impl[n].inputs[i])
        /\ g.todo[l + 1] = Entry("emit", n)
    BY <2>2, <2>3, VisitsIs
  <2>5. /\ \A i \in 1 .. l : g.todo[i].do = "visit" /\ g.todo[i].node = impl[n].inputs[i]
        /\ g.todo[l + 1].do = "emit" /\ g.todo[l + 1].node = n
    BY <2>4, Entries
  <2>6. \A i \in 1 .. l : /\ impl[n].inputs[i] < n /\ impl[n].inputs[i] \in Node
                          /\ impl[n].inputs[i] \in Impls
    BY <1>1, <2>3
  <2>7. RootLast(g)
    BY <2>2, <2>4 DEF RootLast
  <2>8. Older(g)
    <3>1. \A p \in 1 .. l + 1 : p \in 1 .. l \/ p = l + 1
      OBVIOUS
    <3>2. \A p \in DOMAIN g.todo :
            /\ g.todo[p].do \in {"visit", "emit"}
            /\ g.todo[p].do = "visit" => g.todo[p].node < g.root
      BY <3>1, <2>2, <2>4, <2>5, <2>6
    <3>3. ASSUME NEW p \in DOMAIN g.todo, NEW q \in DOMAIN g.todo, p < q, g.todo[q].do = "emit"
          PROVE  g.todo[p].node < g.todo[q].node
      <4>1. p \in 1 .. l + 1 /\ q \in 1 .. l + 1
        BY <3>3, <2>4
      <4>2. q = l + 1
        BY <4>1, <3>1, <3>3, <2>5
      <4>3. p \in 1 .. l
        BY <4>1, <4>2, <3>3
      <4> QED BY <4>2, <4>3, <2>5, <2>6
    <3> QED BY <3>2, <3>3, <2>2 DEF Older
  <2>9. Sees(g)
    BY <2>2, <2>4, <2>5 DEF Sees, In
  <2>10. Sorted(g)
    <3>1. ASSUME NEW p \in DOMAIN g.todo, g.todo[p].do = "emit",
                 NEW j \in DOMAIN impl[g.todo[p].node].inputs
          PROVE  \E q \in 1 .. p - 1 : g.todo[q].node = impl[g.todo[p].node].inputs[j]
      <4>1. p = l + 1 /\ g.todo[p].node = n
        BY <3>1, <2>4, <2>5
      <4>2. j \in 1 .. l
        BY <4>1, <2>3, <1>1
      <4> QED BY <4>1, <4>2, <2>5
    <3> QED BY <3>1, <2>2 DEF Sorted
  <2>11. Even(g)
    <3>1. \A i \in DOMAIN impl[n].inputs : Numel(impl[impl[n].inputs[i]].shape) = Numel(impl[n].shape)
      BY <1>2 DEF Sized
    <3>2. DOMAIN impl[n].inputs = 1 .. l
      BY <1>1, <2>3
    <3>3. \A i \in 1 .. l + 1 : Numel(impl[g.todo[i].node].shape) = Numel(impl[n].shape)
      BY <3>1, <3>2, <2>5
    <3> QED BY <3>3, <2>2, <2>4 DEF Even
  <2>12. Awaited(g, 0)
    BY <2>2 DEF Awaited
  <2> QED BY <2>2, <2>7, <2>8, <2>9, <2>10, <2>11, <2>12 DEF FrameInv, FusedInv
<1>3. CASE ~Fusible(n)
  <2>1. g = RealizeInputs(n)
    BY <1>3
  <2>2. PICK e : e = Each("realize", impl[n].inputs)
    OBVIOUS
  <2>3. /\ e \in Seq(Todo) /\ DOMAIN e = 1 .. Len(impl[n].inputs)
        /\ \A i \in 1 .. Len(impl[n].inputs) : e[i] = Entry("realize", impl[n].inputs[i])
    BY <2>2, <1>1, EachIs
  <2>4. /\ g.call = "eager" /\ g.root = n /\ g.todo = e /\ g.operands = impl[n].inputs
        /\ g \in FrameType
    <3>1. "eager" \in Call
      BY DEF Call
    <3>2. g = Frame("eager", n, impl[n].inputs, e)
      BY <2>1, <2>2 DEF RealizeInputs
    <3> QED BY <3>1, <3>2, <2>3, <1>1, FrameIs
  <2>5. DOMAIN impl[n].inputs = 1 .. Len(impl[n].inputs)
    BY <1>1
  <2>6. \A i \in DOMAIN e : e[i].do = "realize" /\ e[i].node = impl[n].inputs[i]
    BY <2>3, Entries
  <2>7. OperandInv(g)
    <3>1. \A p \in DOMAIN g.todo : g.todo[p].do = "realize" /\ g.todo[p].node < g.root
      BY <2>3, <2>4, <2>6, <1>1
    <3>2. g.operands # <<>> /\ \A i \in DOMAIN g.operands : g.operands[i] < g.root
      BY <2>4, <2>5, <1>1 DEF Deferred
    <3> QED BY <2>4, <3>1, <3>2 DEF OperandInv
  <2>8. Awaited(g, 0)
    BY <2>3, <2>4, <2>5, <2>6 DEF Awaited
  <2> QED BY <2>4, <2>7, <2>8 DEF FrameInv
<1> QED BY <1>2, <1>3

-----------------------------------------------------------------------------
(* Calls that go on, and calls that start.                                 *)

\* The state of frame i afterwards, by its value.
LEMMA FrameNext ==
  ASSUME NEW i, NEW g, g = stack'[i]
  PROVE  /\ FrameInv(g)' => FrameInv(stack[i])'
         /\ \A x : Awaited(g, x)' => Awaited(stack[i], x)'
<1>1. FrameInv(g)' => FrameInv(stack[i])'
  <2>1. RootLast(g)' => RootLast(stack[i])'
    BY DEF RootLast, Entry
  <2>2. Older(g)' => Older(stack[i])'
    BY DEF Older
  <2>3. Sees(g)' => Sees(stack[i])'
    BY DEF Sees, In, Entry
  <2>4. Sorted(g)' => Sorted(stack[i])'
    BY DEF Sorted, Given, Deferred
  <2>5. Even(g)' => Even(stack[i])'
    BY DEF Even
  <2>6. OperandInv(g)' => OperandInv(stack[i])'
    BY DEF OperandInv
  <2> QED BY <2>1, <2>2, <2>3, <2>4, <2>5, <2>6 DEF FrameInv, FusedInv
<1>2. \A x : Awaited(g, x)' => Awaited(stack[i], x)'
  BY DEF Awaited, Deferred
<1> QED BY <1>1, <1>2

\* What is said of a frame depends on the tensors only.
LEMMA FrameSame ==
  ASSUME impl' = impl, NEW g
  PROVE  /\ FrameInv(g) => FrameInv(g)'
         /\ \A x : Awaited(g, x) => Awaited(g, x)'
         /\ \A n : Deferred(n)' <=> Deferred(n)
<1>1. FrameInv(g) => FrameInv(g)'
  <2>1. RootLast(g)' <=> RootLast(g)
    BY DEF RootLast, Entry
  <2>2. Older(g)' <=> Older(g)
    BY DEF Older
  <2>3. Sees(g)' <=> Sees(g)
    BY DEF Sees, In, Entry
  <2>4. Sorted(g)' <=> Sorted(g)
    BY DEF Sorted, Given, Deferred
  <2>5. Even(g)' <=> Even(g)
    BY DEF Even
  <2>6. OperandInv(g)' <=> OperandInv(g)
    BY DEF OperandInv
  <2> QED BY <2>1, <2>2, <2>3, <2>4, <2>5, <2>6 DEF FrameInv, FusedInv
<1>2. \A x : Awaited(g, x) => Awaited(g, x)'
  BY DEF Awaited, Deferred
<1>3. \A n : Deferred(n)' <=> Deferred(n)
  BY DEF Deferred
<1> QED BY <1>1, <1>2, <1>3

LEMMA TensorsSame ==
  ASSUME UNCHANGED <<tensors, kernel>>, (crashed \in BOOLEAN)', (capture \in BOOLEAN)',
         Tensors, Kernel
  PROVE  Tensors' /\ Kernel'
<1>1. impl' = impl /\ store' = store /\ meaning' = meaning /\ kernel' = kernel
  BY DEF tensors
<1>2. Graph'
  BY <1>1 DEF Tensors, Graph, IsSequence, Impls, Deferred
<1>3. Meant' /\ Sized' /\ ValuesAsEager'
  BY <1>1 DEF Tensors, Meant, Sized, ValuesAsEager, MeaningOf, Impls, Deferred, Fusible, Contents
<1>4. Kernel'
  <2>1. KernelTyped' /\ KernelEven'
    BY <1>1 DEF Kernel, KernelTyped, KernelEven, Impls
  <2>2. KernelWellFormed'
    BY <1>1 DEF Kernel, KernelWellFormed
  <2> QED BY <2>1, <2>2 DEF Kernel
<1> QED BY <1>2, <1>3, <1>4 DEF Tensors

\* The innermost call goes on as frame f, when n is realized.
LEMMA Moves ==
  ASSUME IInv, stack # <<>>, UNCHANGED <<tensors, kernel, crashed, capture>>,
         NEW f \in FrameType, f.root = top.root, f.call = top.call, FrameInv(f),
         NEW n, Awaited(f, n),
         \/ n \in Impls /\ Deferred(n) /\ n < f.root /\ Realize(n, f)
         \/ n = 0 /\ GoesOn(f)
  PROVE  IInv'
<1>1. impl' = impl /\ crashed' = crashed /\ Tensors /\ Kernel /\ Frames /\ Graph /\ Sized
  BY DEF tensors, IInv, Tensors
<1>2. Tensors' /\ Kernel'
  <2>1. (crashed \in BOOLEAN)' /\ (capture \in BOOLEAN)'
    BY <1>1 DEF Graph
  <2> QED BY <1>1, <2>1, TensorsSame
<1>3. PICK l \in Nat : l = Len(stack) /\ l > 0 /\ DOMAIN stack = 1 .. l
  BY <1>1 DEF Frames
<1>4. stack \in Seq(FrameType) /\ \A i \in 1 .. l : stack[i] \in FrameType
  BY <1>1, <1>3 DEF Frames
<1>5. PICK waits : waits = [stack EXCEPT ![l] = f]
  OBVIOUS
<1>6. /\ waits \in Seq(FrameType) /\ Len(waits) = l /\ DOMAIN waits = 1 .. l
      /\ \A i \in 1 .. l - 1 : waits[i] = stack[i]
      /\ waits[l] = f
  BY <1>3, <1>4, <1>5
<1>7. PICK g : g = IF Fusible(n) THEN BuildFusedGraph(n) ELSE RealizeInputs(n)
  OBVIOUS
<1>8. /\ n # 0 => /\ g \in FrameType /\ g.root = n /\ g.call \in {"fused", "eager"}
                        /\ FrameInv(g) /\ Awaited(g, 0)
      /\ stack' = IF n # 0 THEN Append(waits, g) ELSE waits
  <2>1. n # 0 => n \in Impls /\ Deferred(n) /\ n < f.root /\ Realize(n, f)
    OBVIOUS
  <2>2. n = 0 => GoesOn(f)
    BY DEF Impls
  <2>3. stack' = IF n # 0 THEN Append(waits, g) ELSE waits
    BY <2>1, <2>2, <1>3, <1>5, <1>7 DEF Realize, GoesOn
  <2> QED BY <2>1, <2>3, <1>1, <1>7, Called
<1>9. /\ stack' \in Seq(FrameType) /\ DOMAIN stack' = 1 .. Len(stack')
      /\ Len(stack') = IF n # 0 THEN l + 1 ELSE l
      /\ \A i \in 1 .. l - 1 : stack'[i] = stack[i]
      /\ stack'[l] = f
      /\ n # 0 => stack'[l + 1] = g
  <2>1. CASE n # 0
    BY <2>1, <1>3, <1>6, <1>8, Extended
  <2>2. CASE n = 0
    BY <2>2, <1>3, <1>6, <1>8
  <2> QED BY <2>1, <2>2
<1>10. \A x : Deferred(x)' <=> Deferred(x)
  BY <1>1, FrameSame
<1>11. ASSUME NEW i \in 1 .. l
       PROVE  stack'[i].root = stack[i].root /\ stack'[i].call = stack[i].call
  BY <1>3, <1>9 DEF top
<1>12. ASSUME NEW i \in 1 .. l, i < l
       PROVE  Rooted(i)' /\ FrameInv(stack[i])' /\ Awaited(stack[i], Callee(i))'
  <2>1. Rooted(i) /\ FrameInv(stack[i]) /\ Awaited(stack[i], Callee(i))
    BY <1>1, <1>3 DEF Frames
  <2>2. PICK h, x : h = stack[i] /\ x = Callee(i)
    OBVIOUS
  <2>3. h = stack'[i] /\ i \in 1 .. l - 1 /\ i + 1 \in 1 .. l
    BY <1>9, <1>12, <2>2
  <2>4. x = Callee(i)'
    <3>1. i < Len(stack) /\ i < Len(stack')
      BY <1>3, <1>9, <1>12
    <3> QED BY <2>2, <2>3, <3>1, <1>11 DEF Callee
  <2>5. FrameInv(stack[i])' /\ Awaited(stack[i], x)'
    <3>1. FrameInv(h)' /\ Awaited(h, x)'
      BY <2>1, <2>2, <1>1, FrameSame
    <3> QED BY <2>3, <3>1, FrameNext
  <2>6. Rooted(i)'
    <3>1. i # 1 => i - 1 \in 1 .. l
      BY <1>12
    <3> QED BY <2>1, <3>1, <1>1, <1>10, <1>11 DEF Rooted, Impls
  <2> QED BY <2>4, <2>5, <2>6 DEF Awaited
<1>13. Rooted(l)' /\ FrameInv(stack[l])' /\ Awaited(stack[l], Callee(l))'
  <2>1. Rooted(l)
    BY <1>1, <1>3 DEF Frames
  <2>2. PICK x : x = Callee(l)'
    OBVIOUS
  <2>3. Awaited(f, x)
    <3>1. CASE n # 0
      <4>1. l < Len(stack') /\ stack'[l + 1] = g
        BY <3>1, <1>3, <1>9
      <4>2. x = n
        BY <3>1, <4>1, <2>2, <1>8 DEF Callee
      <4> QED BY <4>2
    <3>2. CASE n = 0
      BY <3>2, <2>2, <1>3, <1>9 DEF Callee
    <3> QED BY <3>1, <3>2
  <2>4. FrameInv(stack[l])' /\ Awaited(stack[l], x)'
    <3>1. FrameInv(f)' /\ Awaited(f, x)'
      BY <2>3, <1>1, FrameSame
    <3> QED BY <1>9, <3>1, FrameNext
  <2>5. Rooted(l)'
    <3>1. l # 1 => l - 1 \in 1 .. l
      BY <1>3
    <3> QED BY <2>1, <3>1, <1>1, <1>3, <1>10, <1>11 DEF Rooted, Impls
  <2> QED BY <2>2, <2>4, <2>5 DEF Awaited
<1>14. ASSUME n # 0
       PROVE  Rooted(l + 1)' /\ FrameInv(stack[l + 1])' /\ Awaited(stack[l + 1], Callee(l + 1))'
  <2>1. g = stack'[l + 1] /\ Len(stack') = l + 1
    BY <1>9, <1>14
  <2>2. PICK x : x = Callee(l + 1)'
    OBVIOUS
  <2>3. x = 0
    BY <2>1, <2>2, <1>3 DEF Callee
  <2>4. FrameInv(stack[l + 1])' /\ Awaited(stack[l + 1], x)'
    <3>1. FrameInv(g)' /\ Awaited(g, x)'
      BY <2>3, <1>1, <1>8, <1>14, FrameSame
    <3> QED BY <2>1, <3>1, FrameNext
  <2>5. Rooted(l + 1)'
    <3>1. stack'[l + 1].call \in {"fused", "eager"} /\ stack'[l + 1].root = n
      BY <2>1, <1>8, <1>14
    <3>2. stack'[l].root = f.root /\ n < f.root /\ l + 1 - 1 = l /\ l + 1 # 1
      BY <1>3, <1>9, <1>14
    <3> QED BY <3>1, <3>2, <1>1, <1>10, <1>14 DEF Rooted, Impls
  <2> QED BY <2>2, <2>4, <2>5 DEF Awaited
<1>15. Frames'
  <2>1. \A i \in DOMAIN stack' : (i \in 1 .. l /\ i < l) \/ i = l \/ (n # 0 /\ i = l + 1)
    BY <1>3, <1>9
  <2>2. \A i \in DOMAIN stack' :
          Rooted(i)' /\ FrameInv(stack[i])' /\ Awaited(stack[i], Callee(i))'
    BY <2>1, <1>12, <1>13, <1>14
  <2>3. crashed' = FALSE
    BY <1>1 DEF Frames, Graph
  <2> QED BY <2>2, <2>3, <1>9 DEF Frames
<1> QED BY <1>2, <1>15 DEF IInv

-----------------------------------------------------------------------------
(* The steps of build_fused_graph.                                         *)

LEMMA TopFrame ==
  ASSUME IInv, stack # <<>>
  PROVE  /\ Len(stack) \in Nat /\ Len(stack) > 0 /\ DOMAIN stack = 1 .. Len(stack)
         /\ top = stack[Len(stack)] /\ top \in FrameType
         /\ Rooted(Len(stack)) /\ FrameInv(top) /\ Awaited(top, 0)
         /\ Graph /\ Sized /\ Frames
<1>1. Frames /\ Graph /\ Sized
  BY DEF IInv, Tensors
<1>2. stack \in Seq(FrameType)
  BY <1>1 DEF Frames
<1>3. PICK l : l = Len(stack)
  OBVIOUS
<1>4. l \in Nat /\ l > 0 /\ DOMAIN stack = 1 .. l /\ stack[l] \in FrameType
  BY <1>2, <1>3
<1>5. Rooted(l) /\ FrameInv(stack[l]) /\ Awaited(stack[l], Callee(l))
  BY <1>1, <1>4 DEF Frames
<1>6. Callee(l) = 0
  BY <1>3, <1>4 DEF Callee
<1> QED BY <1>1, <1>3, <1>4, <1>5, <1>6 DEF top

\* The list of what is to do, after its first entry.
LEMMA Ahead ==
  ASSUME IInv, NEW do \in {"visit", "emit", "realize"}, NEW n, ToDo(do, n)
  PROVE  /\ stack # <<>> /\ n \in Node
         /\ Len(top.todo) \in Nat /\ Len(top.todo) > 0 /\ DOMAIN top.todo = 1 .. Len(top.todo)
         /\ top.todo[1] = Entry(do, n) /\ top.todo[1].do = do /\ top.todo[1].node = n
         /\ Tail(top.todo) \in Seq(Todo) /\ Len(Tail(top.todo)) = Len(top.todo) - 1
         /\ DOMAIN Tail(top.todo) = 1 .. Len(top.todo) - 1
         /\ \A p \in 1 .. Len(top.todo) - 1 : Tail(top.todo)[p] = top.todo[p + 1]
<1>1. stack # <<>> /\ top.todo # <<>> /\ Head(top.todo) = Entry(do, n)
  BY DEF ToDo
<1>2. top \in FrameType
  BY <1>1, TopFrame
<1>3. PICK t : t = top.todo
  OBVIOUS
<1>4. t \in Seq(Todo) /\ t # <<>> /\ Head(t) = Entry(do, n)
  BY <1>1, <1>2, <1>3, FrameFields
<1>5. /\ Tail(t) \in Seq(Todo) /\ Len(Tail(t)) = Len(t) - 1 /\ DOMAIN Tail(t) = 1 .. Len(t) - 1
      /\ \A i \in 1 .. Len(t) - 1 : Tail(t)[i] = t[i + 1]
      /\ Head(t) = t[1] /\ Len(t) \in Nat /\ Len(t) > 0 /\ Head(t) \in Todo
      /\ DOMAIN t = 1 .. Len(t)
  BY <1>4, Tails
<1>6. t[1].do = do /\ t[1].node = n /\ t[1] = Entry(do, n)
  BY <1>4, <1>5, Entries
<1>7. n \in Node
  BY <1>4, <1>5, <1>6 DEF Todo
<1> QED BY <1>1, <1>3, <1>5, <1>6, <1>7

\* A visit is a step of a fused kernel, below its root.
LEMMA Visiting ==
  ASSUME IInv, NEW do \in {"visit", "emit"}, NEW n, ToDo(do, n)
  PROVE  /\ top.call = "fused" /\ FusedInv(top) /\ Len(top.todo) \in Nat
         /\ n \in Impls /\ n <= top.root /\ top.root \in Impls
         /\ Numel(impl[n].shape) = Numel(impl[top.root].shape)
         /\ do = "visit" => n < top.root /\ Len(top.todo) > 1
         /\ top.todo[Len(top.todo)] = Entry("emit", top.root)
         /\ Len(top.todo) > 1 => n < top.root
         /\ Len(top.todo) = 1 => n = top.root
<1>1. /\ stack # <<>> /\ n \in Node
      /\ Len(top.todo) \in Nat /\ Len(top.todo) > 0 /\ DOMAIN top.todo = 1 .. Len(top.todo)
      /\ top.todo[1] = Entry(do, n) /\ top.todo[1].do = do /\ top.todo[1].node = n
  BY Ahead
<1>2. /\ Len(stack) \in Nat /\ Len(stack) > 0
      /\ top = stack[Len(stack)] /\ top \in FrameType
      /\ Rooted(Len(stack)) /\ FrameInv(top) /\ Graph /\ Frames
  BY <1>1, TopFrame
<1>3. top.call = "fused" /\ FusedInv(top)
  <2>1. 1 \in DOMAIN top.todo /\ top.todo[1].do # "realize"
    BY <1>1
  <2>2. ~OperandInv(top)
    BY <2>1 DEF OperandInv
  <2> QED BY <2>2, <1>2 DEF FrameInv
<1>4. PICK t, l : t = top.todo /\ l = Len(t)
  OBVIOUS
<1>5. top.todo # <<>>
  BY <1>1 DEF ToDo
<1>6. t[l] = Entry("emit", top.root) /\ t[l].do = "emit" /\ t[l].node = top.root
  BY <1>3, <1>4, <1>5, Entries DEF FusedInv, RootLast
<1>7. /\ l > 1 => n < top.root
      /\ l = 1 => n = top.root
      /\ do = "visit" => l # 1
  <2>1. 1 \in DOMAIN t /\ l \in DOMAIN t /\ l \in Nat /\ l > 0
    BY <1>1, <1>4
  <2>2. 1 < l => t[1].node < t[l].node
    BY <2>1, <1>3, <1>4, <1>6 DEF FusedInv, Older
  <2> QED BY <2>1, <2>2, <1>1, <1>4, <1>6
<1>8. top.root \in Node /\ Len(impl) \in Nat /\ n \in Node
  BY <1>1, <1>2, FrameFields, Nodes
<1>9. n <= top.root /\ (do = "visit" => n < top.root /\ l > 1)
  <2>0. l = Len(top.todo)
    BY <1>4
  <2>1. l \in Nat /\ l > 0
    BY <1>1, <2>0
  <2>2. l = 1 => do # "visit"
    BY <1>7
  <2>3. l = 1 \/ l > 1
    BY <2>1
  <2> QED BY <2>1, <2>2, <2>3, <1>7, <1>8 DEF Node
<1>10. top.root \in Impls
  <2>1. Len(stack) # 1
    BY <1>2, <1>3 DEF Rooted
  <2> QED BY <2>1, <1>2 DEF Rooted
<1>11. n \in Impls
  BY <1>8, <1>9, <1>10 DEF Impls, Node
<1>12. Numel(impl[n].shape) = Numel(impl[top.root].shape)
  <2>1. 1 \in DOMAIN top.todo
    BY <1>1
  <2> QED BY <2>1, <1>1, <1>3 DEF FusedInv, Even
<1> QED BY <1>1, <1>3, <1>4, <1>6, <1>7, <1>9, <1>10, <1>11, <1>12

LEMMA SkipsSeen ==
  ASSUME IInv, NEW n, ToDo("visit", n), n \in top.seen,
         NEW f \in FrameType, f.root = top.root, f.seen = top.seen, f.inputs = top.inputs,
         f.order = top.order, f.todo = Tail(top.todo)
  PROVE  FusedInv(f)
<1> DEFINE t == top.todo
           T == f.todo
<1>1. /\ stack # <<>> /\ n \in Node
      /\ Len(t) \in Nat /\ Len(t) > 0 /\ DOMAIN t = 1 .. Len(t)
      /\ t[1] = Entry("visit", n) /\ t[1].do = "visit" /\ t[1].node = n
      /\ Len(T) = Len(t) - 1 /\ DOMAIN T = 1 .. Len(t) - 1
      /\ \A p \in 1 .. Len(t) - 1 : T[p] = t[p + 1]
  BY Ahead
<1>2. FusedInv(top) /\ Len(t) > 1 /\ t[Len(t)] = Entry("emit", top.root)
  BY Visiting
<1>3. PICK l \in Nat : l = Len(t) /\ l > 1
  BY <1>1, <1>2
<1>4. \A p \in 1 .. l : t[p].node \in Node
  BY <1>1, <1>3, TopFrame, FrameFields
<1> HIDE DEF t, T
<1>5. RootLast(f)
  <2>1. T # <<>> /\ T[Len(T)] = Entry("emit", f.root)
    BY <1>1, <1>2, <1>3
  <2> QED BY <2>1 DEF RootLast, T
<1>6. Older(f)
  <2>1. \A p \in DOMAIN T : p + 1 \in DOMAIN t /\ T[p] = t[p + 1]
    BY <1>1, <1>3
  <2>2. \A p, q \in DOMAIN T : p < q => p + 1 < q + 1
    BY <1>1, <1>3
  <2>3. Older(top)
    BY <1>2 DEF FusedInv
  <2>4. \A p \in DOMAIN T :
          T[p].do \in {"visit", "emit"} /\ (T[p].do = "visit" => T[p].node < f.root)
    BY <2>1, <2>3 DEF Older, t
  <2>5. \A p, q \in DOMAIN T : p < q /\ T[q].do = "emit" => T[p].node < T[q].node
    BY <2>1, <2>2, <2>3 DEF Older, t
  <2> QED BY <2>3, <2>4, <2>5 DEF Older, T
<1>7. Sees(f)
  <2>1. \A x \in top.seen : In(Entry("emit", x), t) => In(Entry("emit", x), T)
    <3> SUFFICES ASSUME NEW x \in top.seen, NEW p \in 1 .. l, t[p] = Entry("emit", x)
                 PROVE  \E q \in 1 .. l - 1 : T[q] = Entry("emit", x)
      BY <1>1, <1>3 DEF In
    <3>1. p # 1
      BY <1>1, Entries
    <3>2. p - 1 \in 1 .. l - 1 /\ T[p - 1] = t[p]
      BY <3>1, <1>1, <1>3
    <3> QED BY <3>2
  <2> QED BY <2>1, <1>1, <1>2, <1>3 DEF FusedInv, Sees, t, T
<1>8. Sorted(f)
  <2>1. \A x, i : Given(x, f, i) <=> Given(x, top, i)
    BY DEF Given
  <2>2. ASSUME NEW p \in DOMAIN T, T[p].do = "emit", Deferred(T[p].node),
               NEW j \in DOMAIN impl[T[p].node].inputs
        PROVE  \/ Given(impl[T[p].node].inputs[j], f, Len(f.order) + 1)
               \/ \E q \in 1 .. p - 1 : T[q].node = impl[T[p].node].inputs[j]
    <3>1. PICK y, e : y = impl[T[p].node].inputs[j] /\ e = T[p].node
      OBVIOUS
    <3>2. p \in 1 .. l - 1 /\ p + 1 \in DOMAIN t /\ T[p] = t[p + 1]
      BY <2>2, <1>1, <1>3
    <3>3. \/ Given(y, top, Len(top.order) + 1)
          \/ \E q \in 1 .. p : t[q].node = y
      <4>1. PICK r \in DOMAIN t : r = p + 1 /\ r - 1 = p
        BY <3>2
      <4>2. /\ t[r].do = "emit" /\ Deferred(t[r].node)
            /\ j \in DOMAIN impl[t[r].node].inputs /\ y = impl[t[r].node].inputs[j]
        BY <4>1, <2>2, <3>1, <3>2
      <4>3. \/ Given(y, top, Len(top.order) + 1)
            \/ \E q \in 1 .. r - 1 : t[q].node = y
        BY <4>2, <1>2 DEF FusedInv, Sorted, t
      <4> QED BY <4>1, <4>3
    <3>4. CASE \E q \in 1 .. p : q # 1 /\ t[q].node = y
      <4>1. PICK q \in 1 .. p : q # 1 /\ t[q].node = y
        BY <3>4
      <4>2. q - 1 \in 1 .. p - 1 /\ T[q - 1] = t[q]
        BY <4>1, <3>2, <1>1, <1>3
      <4> QED BY <4>1, <4>2, <3>1
    <3>5. CASE t[1].node = y
      <4>1. y = n /\ y \in top.seen
        BY <3>5, <1>1
      <4>2. n < e
        <5>1. 1 \in DOMAIN t /\ 1 < p + 1
          BY <3>2, <1>1, <1>3
        <5>2. t[1].node < t[p + 1].node
          BY <5>1, <3>2, <2>2, <1>2 DEF FusedInv, Older, t
        <5> QED BY <5>2, <3>1, <3>2, <1>1
      <4>3. In(y, top.inputs) \/ In(y, top.order) \/ In(Entry("emit", y), t)
        BY <4>1, <1>2 DEF FusedInv, Sees, t
      <4>4. CASE In(y, top.inputs) \/ In(y, top.order)
        <5>1. Len(top.order) \in Nat /\ DOMAIN top.order = 1 .. Len(top.order)
          BY <1>1, TopFrame, FrameFields
        <5>2. Given(y, top, Len(top.order) + 1)
          BY <5>1, <4>4 DEF Given, In
        <5> QED BY <5>2, <2>1, <3>1
      <4>5. CASE In(Entry("emit", y), t)
        <5>1. PICK r \in 1 .. l : t[r] = Entry("emit", y)
          BY <4>5, <1>1, <1>3 DEF In
        <5>2. t[r].do = "emit" /\ t[r].node = n /\ r # 1
          BY <5>1, <4>1, <1>1, Entries
        <5>3. ~(p + 1 < r)
          <6>1. p + 1 < r => t[p + 1].node < t[r].node
            BY <5>1, <5>2, <3>2, <1>1, <1>2, <1>3 DEF FusedInv, Older, t
          <6>2. e \in Node /\ e = t[p + 1].node
            BY <3>1, <3>2, <1>1, <1>3, <1>4
          <6> QED BY <6>1, <6>2, <5>2, <4>2, <1>1 DEF Node
        <5>4. p + 1 # r
          <6>1. e \in Node /\ e = t[p + 1].node
            BY <3>1, <3>2, <1>1, <1>3, <1>4
          <6> QED BY <6>1, <5>2, <4>2, <1>1 DEF Node
        <5>5. r - 1 \in 1 .. p - 1 /\ T[r - 1] = t[r]
          BY <5>1, <5>2, <5>3, <5>4, <3>2, <1>1, <1>3
        <5> QED BY <5>2, <5>5, <4>1, <3>1
      <4> QED BY <4>3, <4>4, <4>5
    <3>6. CASE Given(y, top, Len(top.order) + 1)
      BY <3>6, <2>1, <3>1
    <3> QED BY <3>3, <3>4, <3>5, <3>6
  <2>3. \A i \in DOMAIN f.order : Deferred(f.order[i]) =>
          \A j \in DOMAIN impl[f.order[i]].inputs : Given(impl[f.order[i]].inputs[j], f, i)
    BY <2>1, <1>2 DEF FusedInv, Sorted
  <2> QED BY <2>2, <2>3 DEF Sorted, T
<1>9. Even(f)
  BY <1>1, <1>2, <1>3 DEF FusedInv, Even, t, T
<1> QED BY <1>5, <1>6, <1>7, <1>8, <1>9 DEF FusedInv

LEMMA VisitsOperands ==
  ASSUME IInv, NEW n, ToDo("visit", n), n \notin top.seen, Deferred(n), Fusible(n),
         NEW f \in FrameType, f.root = top.root, f.seen = top.seen \cup {n},
         f.inputs = top.inputs, f.order = top.order, f.todo = Visits(n) \o Tail(top.todo)
  PROVE  FusedInv(f)
<1> DEFINE t == top.todo
           T == f.todo
           ins == impl[n].inputs
<1>1. /\ stack # <<>> /\ n \in Node
      /\ Len(t) \in Nat /\ Len(t) > 0 /\ DOMAIN t = 1 .. Len(t)
      /\ t[1] = Entry("visit", n) /\ t[1].do = "visit" /\ t[1].node = n
      /\ Tail(t) \in Seq(Todo) /\ Len(Tail(t)) = Len(t) - 1
      /\ \A p \in 1 .. Len(t) - 1 : Tail(t)[p] = t[p + 1]
  BY Ahead
<1>2. /\ FusedInv(top) /\ Len(t) > 1 /\ t[Len(t)] = Entry("emit", top.root)
      /\ n \in Impls /\ n < top.root /\ Numel(impl[n].shape) = Numel(impl[top.root].shape)
  BY Visiting
<1>3. PICK l \in Nat : l = Len(t) /\ l > 1
  BY <1>1, <1>2
<1>4. /\ \A p \in 1 .. l : t[p].node \in Node
      /\ top.root \in Node /\ Graph /\ Sized
      /\ \A i \in DOMAIN top.order : top.order[i] \in Node
      /\ \A i \in DOMAIN top.inputs : top.inputs[i] \in Node
  BY <1>1, <1>3, TopFrame, FrameFields
<1>5. PICK k \in Nat : k = Len(ins)
  BY <1>2, <1>4, Nodes
<1>6. /\ DOMAIN ins = 1 .. k
      /\ \A i \in 1 .. k : ins[i] < n /\ ins[i] \in Node
      /\ \A i \in 1 .. k : Numel(impl[ins[i]].shape) = Numel(impl[top.root].shape)
  <2>1. ins \in Seq(Node) /\ \A i \in DOMAIN ins : ins[i] < n /\ ins[i] \in Node
    BY <1>2, <1>4, Nodes
  <2>2. \A i \in DOMAIN ins : Numel(impl[ins[i]].shape) = Numel(impl[n].shape)
    BY <1>2, <1>4 DEF Sized
  <2>3. DOMAIN ins = 1 .. k
    BY <2>1, <1>5
  <2> QED BY <2>1, <2>2, <2>3, <1>2
<1>7. /\ DOMAIN T = 1 .. k + l /\ Len(T) = k + l
      /\ \A p \in 1 .. k : T[p].do = "visit" /\ T[p].node = ins[p]
      /\ T[k + 1] = Entry("emit", n) /\ T[k + 1].do = "emit" /\ T[k + 1].node = n
      /\ \A p \in 2 .. l : T[p + k] = t[p]
  <2>1. PICK V, U : V = Visits(n) /\ U = Tail(t)
    OBVIOUS
  <2>2. /\ V \in Seq(Todo) /\ Len(V) = k + 1
        /\ \A i \in 1 .. k : V[i] = Entry("visit", ins[i])
        /\ V[k + 1] = Entry("emit", n)
    BY <2>1, <1>2, <1>4, <1>5, VisitsIs
  <2>3. U \in Seq(Todo) /\ Len(U) = l - 1 /\ \A p \in 1 .. l - 1 : U[p] = t[p + 1]
    BY <2>1, <1>1, <1>3
  <2>4. T = V \o U
    BY <2>1 DEF T, t
  <2> HIDE DEF t, T, ins
  <2>5. /\ DOMAIN T = 1 .. k + l /\ Len(T) = k + l
        /\ \A i \in 1 .. k + 1 : T[i] = V[i]
        /\ \A i \in 1 .. l - 1 : T[k + 1 + i] = U[i]
    <3>0. k + 1 \in Nat /\ l - 1 \in Nat
      BY <1>3
    <3>1. PICK m \in Nat, o \in Nat : m = k + 1 /\ o = l - 1
      BY <3>0
    <3>2. /\ DOMAIN T = 1 .. m + o /\ Len(T) = m + o
          /\ \A i \in 1 .. m : T[i] = V[i]
          /\ \A i \in 1 .. o : T[m + i] = U[i]
      <4>1. m = Len(V) /\ o = Len(U)
        BY <2>2, <2>3, <3>1
      <4>2. V \in Seq(Todo) /\ U \in Seq(Todo)
        BY <2>2, <2>3
      <4>3. m \in Nat /\ o \in Nat
        OBVIOUS
      <4> QED BY ONLY <4>1, <4>2, <4>3, <2>4, JoinedIs
    <3>3. m + o = k + l
      BY <3>1, <1>3
    <3> QED BY <3>1, <3>2, <3>3
  <2>6. \A p \in 2 .. l : T[p + k] = t[p]
    <3> SUFFICES ASSUME NEW p \in 2 .. l PROVE T[p + k] = t[p]
      OBVIOUS
    <3>1. PICK i \in 1 .. l - 1 : i = p - 1 /\ k + 1 + i = p + k /\ i + 1 = p
      OBVIOUS
    <3>2. T[k + 1 + i] = U[i]
      BY <2>5, Zenon
    <3>3. U[i] = t[i + 1]
      BY <2>3, Zenon
    <3> QED BY <3>1, <3>2, <3>3, Zenon
  <2>7. \A p \in 1 .. k : T[p].do = "visit" /\ T[p].node = ins[p]
    BY <2>2, <2>5, Entries
  <2>8. T[k + 1] = Entry("emit", n) /\ T[k + 1].do = "emit" /\ T[k + 1].node = n
    BY <2>2, <2>5, Entries
  <2> QED BY <2>5, <2>6, <2>7, <2>8
<1> HIDE DEF t, T, ins
<1>8. \A p \in DOMAIN T : p \in 1 .. k \/ p = k + 1 \/ \E q \in 2 .. l : p = q + k
  <2>1. ASSUME NEW p \in 1 .. k + l, p > k + 1 PROVE \E q \in 2 .. l : p = q + k
    <3>1. p - k \in 2 .. l /\ p = (p - k) + k
      BY <2>1
    <3> QED BY <3>1
  <2>2. ASSUME NEW p \in 1 .. k + l PROVE p \in 1 .. k \/ p = k + 1 \/ p > k + 1
    OBVIOUS
  <2> QED BY <2>1, <2>2, <1>7
<1>9. Older(top) /\ Sees(top) /\ Sorted(top) /\ Even(top)
  BY <1>2 DEF FusedInv
<1>10. \A q \in 2 .. l : q \in DOMAIN t /\ q \in Nat /\ q > 1 /\ q + k \in DOMAIN T
  BY <1>1, <1>3, <1>7
<1>11. RootLast(f)
  <2>1. l \in 2 .. l /\ l + k = Len(T) /\ T # <<>>
    BY <1>3, <1>7
  <2>2. T[Len(T)] = Entry("emit", f.root)
    BY <2>1, <1>2, <1>3, <1>7
  <2> QED BY <2>1, <2>2 DEF RootLast, T
<1>12. Older(f)
  <2>1. ASSUME NEW p \in DOMAIN T
        PROVE  T[p].do \in {"visit", "emit"} /\ (T[p].do = "visit" => T[p].node < f.root)
    <3>1. CASE p \in 1 .. k
      <4>1. T[p].do = "visit" /\ T[p].node = ins[p] /\ ins[p] < n /\ ins[p] \in Node
        BY <3>1, <1>6, <1>7
      <4>2. n < f.root /\ n \in Node /\ f.root \in Node
        BY <1>1, <1>2, <1>4
      <4>3. ins[p] < f.root
        BY <4>1, <4>2 DEF Node
      <4> QED BY <4>1, <4>3
    <3>2. CASE p = k + 1
      BY <3>2, <1>7
    <3>3. ASSUME NEW q \in 2 .. l, p = q + k
          PROVE  T[p].do \in {"visit", "emit"} /\ (T[p].do = "visit" => T[p].node < f.root)
      <4>1. q \in DOMAIN t /\ T[p] = t[q]
        BY <3>3, <1>7, <1>10
      <4> QED BY <4>1, <1>9 DEF Older, t
    <3> QED BY <3>1, <3>2, <3>3, <1>8
  <2>2. ASSUME NEW p \in DOMAIN T, NEW q \in DOMAIN T, p < q, T[q].do = "emit"
        PROVE  T[p].node < T[q].node
    <3>1. CASE q \in 1 .. k
      BY <3>1, <2>2, <1>7
    <3>2. CASE q = k + 1
      <4>1. p \in 1 .. k
        BY <3>2, <2>2, <1>7
      <4> QED BY <4>1, <3>2, <1>6, <1>7
    <3>3. ASSUME NEW r \in 2 .. l, q = r + k PROVE T[p].node < T[q].node
      <4>1. r \in DOMAIN t /\ T[q] = t[r] /\ t[r].do = "emit" /\ 1 < r /\ 1 \in DOMAIN t
        BY <3>3, <2>2, <1>1, <1>3, <1>7, <1>10
      <4>2. n < t[r].node /\ t[r].node \in Node
        BY <4>1, <1>1, <1>3, <1>4, <1>9 DEF Older, t
      <4>3. CASE p \in 1 .. k
        <5>1. T[p].node = ins[p] /\ ins[p] < n /\ ins[p] \in Node /\ n \in Node
          BY <4>3, <1>1, <1>6, <1>7
        <5>2. ins[p] < t[r].node
          BY <5>1, <4>2 DEF Node
        <5> QED BY <5>1, <5>2, <4>1
      <4>4. CASE p = k + 1
        BY <4>1, <4>2, <4>4, <1>7
      <4>5. ASSUME NEW o \in 2 .. l, p = o + k PROVE T[p].node < T[q].node
        <5>1. o \in DOMAIN t /\ T[p] = t[o] /\ o < r
          BY <4>5, <3>3, <2>2, <1>7, <1>10
        <5> QED BY <5>1, <4>1, <1>9 DEF Older, t
      <4> QED BY <4>3, <4>4, <4>5, <1>8
    <3> QED BY <3>1, <3>2, <3>3, <1>8
  <2> QED BY <2>1, <2>2, <1>9 DEF Older, T
<1>13. Sees(f)
  <2>1. ASSUME NEW p \in DOMAIN T, T[p].do = "emit"
        PROVE  T[p].node \in f.seen /\ ~In(T[p].node, f.order)
    <3>1. CASE p \in 1 .. k
      BY <3>1, <2>1, <1>7
    <3>2. CASE p = k + 1
      <4>1. ~In(n, top.order)
        BY <1>9 DEF Sees, In
      <4> QED BY <4>1, <3>2, <1>7
    <3>3. ASSUME NEW q \in 2 .. l, p = q + k
          PROVE  T[p].node \in f.seen /\ ~In(T[p].node, f.order)
      <4>1. q \in DOMAIN t /\ T[p] = t[q]
        BY <3>3, <1>7, <1>10
      <4> QED BY <4>1, <2>1, <1>9 DEF Sees, t
    <3> QED BY <3>1, <3>2, <3>3, <1>8
  <2>2. ASSUME NEW x \in f.seen
        PROVE  In(x, f.inputs) \/ In(x, f.order) \/ In(Entry("emit", x), T)
    <3>1. CASE x = n
      <4>1. k + 1 \in DOMAIN T /\ T[k + 1] = Entry("emit", x)
        BY <3>1, <1>3, <1>7
      <4> QED BY <4>1 DEF In
    <3>2. CASE x \in top.seen
      <4>1. In(x, f.inputs) \/ In(x, f.order) \/ In(Entry("emit", x), t)
        BY <3>2, <1>9 DEF Sees, t
      <4>2. ASSUME In(Entry("emit", x), t) PROVE In(Entry("emit", x), T)
        <5>1. PICK q \in 1 .. l : t[q] = Entry("emit", x)
          BY <4>2, <1>1, <1>3 DEF In
        <5>2. q # 1
          BY <5>1, <1>1, Entries
        <5>3. q \in 2 .. l
          BY <5>1, <5>2
        <5>4. q + k \in DOMAIN T /\ T[q + k] = t[q]
          BY <5>3, <1>7, <1>10
        <5> QED BY <5>1, <5>4 DEF In
      <4> QED BY <4>1, <4>2
    <3> QED BY <3>1, <3>2
  <2> QED BY <2>1, <2>2, <1>9 DEF Sees, T
<1>14. Sorted(f)
  <2>1. \A x, i : Given(x, f, i) <=> Given(x, top, i)
    BY DEF Given
  <2>2. ASSUME NEW p \in DOMAIN T, T[p].do = "emit", Deferred(T[p].node),
               NEW j \in DOMAIN impl[T[p].node].inputs
        PROVE  \/ Given(impl[T[p].node].inputs[j], f, Len(f.order) + 1)
               \/ \E q \in 1 .. p - 1 : T[q].node = impl[T[p].node].inputs[j]
    <3>1. CASE p \in 1 .. k
      BY <3>1, <2>2, <1>7
    <3>2. CASE p = k + 1
      <4>1. T[p].node = n /\ j \in 1 .. k /\ impl[T[p].node].inputs[j] = ins[j]
        BY <3>2, <2>2, <1>6, <1>7 DEF ins
      <4>2. j \in 1 .. p - 1 /\ T[j].node = ins[j]
        BY <4>1, <3>2, <1>7
      <4> QED BY <4>1, <4>2
    <3>3. ASSUME NEW r \in 2 .. l, p = r + k
          PROVE  \/ Given(impl[T[p].node].inputs[j], f, Len(f.order) + 1)
                 \/ \E q \in 1 .. p - 1 : T[q].node = impl[T[p].node].inputs[j]
      <4>1. r \in DOMAIN t /\ T[p] = t[r] /\ r \in Nat
        BY <3>3, <1>7, <1>10
      <4>2. PICK y : y = impl[T[p].node].inputs[j]
        OBVIOUS
      <4>3. \/ Given(y, top, Len(top.order) + 1)
            \/ \E q \in 1 .. r - 1 : t[q].node = y
        BY <4>1, <4>2, <2>2, <1>9 DEF Sorted, t
      <4>4. ASSUME NEW q \in 1 .. r - 1, t[q].node = y
            PROVE  \E o \in 1 .. p - 1 : T[o].node = y
        <5>1. CASE q = 1
          <6>1. k + 1 \in 1 .. p - 1 /\ T[k + 1].node = y
            BY <5>1, <4>4, <3>3, <1>1, <1>7
          <6> QED BY <6>1
        <5>2. CASE q # 1
          <6>1. q \in 2 .. l /\ q + k \in 1 .. p - 1
            BY <5>2, <4>1, <3>3
          <6>2. T[q + k].node = y
            BY <6>1, <4>4, <1>7
          <6> QED BY <6>1, <6>2
        <5> QED BY <5>1, <5>2
      <4> QED BY <4>2, <4>3, <4>4, <2>1
    <3> QED BY <3>1, <3>2, <3>3, <1>8
  <2>3. \A i \in DOMAIN f.order : Deferred(f.order[i]) =>
          \A j \in DOMAIN impl[f.order[i]].inputs : Given(impl[f.order[i]].inputs[j], f, i)
    BY <2>1, <1>9 DEF Sorted
  <2> QED BY <2>2, <2>3 DEF Sorted, T
<1>15. Even(f)
  <2>1. ASSUME NEW p \in DOMAIN T
        PROVE  Numel(impl[T[p].node].shape) = Numel(impl[f.root].shape)
    <3>1. CASE p \in 1 .. k
      BY <3>1, <1>6, <1>7
    <3>2. CASE p = k + 1
      BY <3>2, <1>2, <1>7
    <3>3. ASSUME NEW q \in 2 .. l, p = q + k
          PROVE  Numel(impl[T[p].node].shape) = Numel(impl[f.root].shape)
      <4>1. q \in DOMAIN t /\ T[p] = t[q]
        BY <3>3, <1>7, <1>10
      <4> QED BY <4>1, <1>9 DEF Even, t
    <3> QED BY <3>1, <3>2, <3>3, <1>8
  <2> QED BY <2>1, <1>9 DEF Even, T
<1> QED BY <1>11, <1>12, <1>13, <1>14, <1>15 DEF FusedInv

\* The inputs of f are those of g and n.
Takes(f, g, n) == \A i \in DOMAIN f.inputs : f.inputs[i] = n \/ In(f.inputs[i], g.inputs)

LEMMA TakesInput ==
  ASSUME IInv, NEW n, ToDo("visit", n), n \notin top.seen,
         NEW f \in FrameType, f.root = top.root, f.seen = top.seen \cup {n},
         f.inputs = Append(top.inputs, n), f.order = top.order, f.todo = Tail(top.todo)
  PROVE  FusedInv(f) /\ Takes(f, top, n)
<1> DEFINE t == top.todo
           T == f.todo
<1>1. /\ stack # <<>> /\ n \in Node
      /\ Len(t) \in Nat /\ Len(t) > 0 /\ DOMAIN t = 1 .. Len(t)
      /\ t[1] = Entry("visit", n) /\ t[1].do = "visit" /\ t[1].node = n
      /\ Len(T) = Len(t) - 1 /\ DOMAIN T = 1 .. Len(t) - 1
      /\ \A p \in 1 .. Len(t) - 1 : T[p] = t[p + 1]
  BY Ahead
<1>2. /\ FusedInv(top) /\ Len(t) > 1 /\ t[Len(t)] = Entry("emit", top.root)
      /\ n < top.root /\ Numel(impl[n].shape) = Numel(impl[top.root].shape)
  BY Visiting
<1>3. PICK l \in Nat : l = Len(t) /\ l > 1
  BY <1>1, <1>2
<1>4. PICK m \in Nat : m = Len(top.inputs) /\ DOMAIN top.inputs = 1 .. m
  BY <1>1, TopFrame, FrameFields
<1>5. /\ DOMAIN f.inputs = 1 .. m + 1
      /\ \A i \in 1 .. m : f.inputs[i] = top.inputs[i]
      /\ f.inputs[m + 1] = n
  <2>1. top.inputs \in Seq(Node)
    BY <1>1, TopFrame, FrameFields
  <2> QED BY <2>1, <1>1, <1>4, Extended
<1>6. \A i \in DOMAIN f.inputs :
        \/ i = m + 1 /\ f.inputs[i] = n
        \/ i \in DOMAIN top.inputs /\ f.inputs[i] = top.inputs[i]
  BY <1>4, <1>5
<1>7. \A x : In(x, f.inputs) <=> x = n \/ In(x, top.inputs)
  BY <1>4, <1>5, <1>6 DEF In
<1> HIDE DEF t, T
<1>8. /\ \A p \in DOMAIN T : p + 1 \in DOMAIN t /\ T[p] = t[p + 1]
      /\ \A p, q \in DOMAIN T : p < q => p + 1 < q + 1
      /\ \A q \in 1 .. l : q # 1 => q - 1 \in DOMAIN T /\ T[q - 1] = t[q]
  BY <1>1, <1>3
<1>9. Older(top) /\ Sees(top) /\ Sorted(top) /\ Even(top)
  BY <1>2 DEF FusedInv
<1>10. RootLast(f)
  <2>1. T # <<>> /\ T[Len(T)] = Entry("emit", f.root)
    BY <1>1, <1>2, <1>3
  <2> QED BY <2>1 DEF RootLast, T
<1>11. Older(f)
  <2>1. \A p \in DOMAIN T :
          T[p].do \in {"visit", "emit"} /\ (T[p].do = "visit" => T[p].node < f.root)
    BY <1>8, <1>9 DEF Older, t
  <2>2. \A p, q \in DOMAIN T : p < q /\ T[q].do = "emit" => T[p].node < T[q].node
    BY <1>8, <1>9 DEF Older, t
  <2>3. \A i \in DOMAIN f.inputs : f.inputs[i] < f.root
    BY <1>2, <1>6, <1>9 DEF Older
  <2> QED BY <2>1, <2>2, <2>3, <1>9 DEF Older, T
<1>12. Sees(f)
  <2>1. ASSUME NEW x \in top.seen, In(Entry("emit", x), t) PROVE In(Entry("emit", x), T)
    <3>1. PICK p \in 1 .. l : t[p] = Entry("emit", x)
      BY <2>1, <1>1, <1>3 DEF In
    <3>2. p # 1
      BY <3>1, <1>1, Entries
    <3> QED BY <3>1, <3>2, <1>8 DEF In
  <2>2. \A x \in f.seen : In(x, f.inputs) \/ In(x, f.order) \/ In(Entry("emit", x), T)
    BY <2>1, <1>7, <1>9 DEF Sees, t
  <2>3. \A p \in DOMAIN T : T[p].do = "emit" => T[p].node \in f.seen /\ ~In(T[p].node, f.order)
    BY <1>8, <1>9 DEF Sees, t
  <2> QED BY <2>2, <2>3, <1>9 DEF Sees, T
<1>13. Sorted(f)
  <2>1. \A x, i : Given(x, top, i) \/ x = n => Given(x, f, i)
    BY <1>7 DEF Given, In
  <2>2. ASSUME NEW p \in DOMAIN T, T[p].do = "emit", Deferred(T[p].node),
               NEW j \in DOMAIN impl[T[p].node].inputs
        PROVE  \/ Given(impl[T[p].node].inputs[j], f, Len(f.order) + 1)
               \/ \E q \in 1 .. p - 1 : T[q].node = impl[T[p].node].inputs[j]
    <3>1. PICK y : y = impl[T[p].node].inputs[j]
      OBVIOUS
    <3>2. PICK r \in DOMAIN t : r = p + 1 /\ r \in 1 .. l /\ T[p] = t[r] /\ p = r - 1
      BY <1>1, <1>3, <1>8
    <3>3. \/ Given(y, top, Len(top.order) + 1)
          \/ \E q \in 1 .. r - 1 : t[q].node = y
      <4>1. /\ t[r].do = "emit" /\ Deferred(t[r].node)
            /\ j \in DOMAIN impl[t[r].node].inputs /\ y = impl[t[r].node].inputs[j]
        BY <2>2, <3>1, <3>2
      <4>2. \A p0 \in DOMAIN t : t[p0].do = "emit" /\ Deferred(t[p0].node) =>
              \A j0 \in DOMAIN impl[t[p0].node].inputs :
                \/ Given(impl[t[p0].node].inputs[j0], top, Len(top.order) + 1)
                \/ \E q \in 1 .. p0 - 1 : t[q].node = impl[t[p0].node].inputs[j0]
        BY <1>9 DEF Sorted, t
      <4> QED BY <3>2, <4>1, <4>2, Zenon
    <3>4. ASSUME NEW q \in 1 .. r - 1, t[q].node = y
          PROVE  y = n \/ \E o \in 1 .. p - 1 : T[o].node = y
      <4>1. q = 1 => y = n
        BY <3>4, <1>1
      <4>2. q # 1 => q - 1 \in 1 .. p - 1 /\ T[q - 1] = t[q]
        BY <3>2, <1>8
      <4> QED BY <4>1, <4>2, <3>4
    <3> QED BY <3>1, <3>3, <3>4, <2>1
  <2>3. \A i \in DOMAIN f.order : Deferred(f.order[i]) =>
          \A j \in DOMAIN impl[f.order[i]].inputs : Given(impl[f.order[i]].inputs[j], f, i)
    BY <2>1, <1>9 DEF Sorted
  <2> QED BY <2>2, <2>3 DEF Sorted, T
<1>14. Even(f)
  <2>1. \A p \in DOMAIN T : Numel(impl[T[p].node].shape) = Numel(impl[f.root].shape)
    BY <1>8, <1>9 DEF Even, t
  <2>2. \A i \in DOMAIN f.inputs : Numel(impl[f.inputs[i]].shape) = Numel(impl[f.root].shape)
    BY <1>2, <1>6, <1>9 DEF Even
  <2> QED BY <2>1, <2>2 DEF Even, T
<1> QED BY <1>6, <1>10, <1>11, <1>12, <1>13, <1>14 DEF FusedInv, In, Takes

LEMMA Emits ==
  ASSUME IInv, NEW n, ToDo("emit", n),
         NEW f \in FrameType, f.root = top.root, f.seen = top.seen,
         f.inputs = top.inputs, f.order = Append(top.order, n), f.todo = Tail(top.todo)
  PROVE  FusedInv(f)
<1> DEFINE t == top.todo
           T == f.todo
<1>1. /\ stack # <<>> /\ n \in Node
      /\ Len(t) \in Nat /\ Len(t) > 0 /\ DOMAIN t = 1 .. Len(t)
      /\ t[1] = Entry("emit", n) /\ t[1].do = "emit" /\ t[1].node = n
      /\ T \in Seq(Todo) /\ Len(T) = Len(t) - 1 /\ DOMAIN T = 1 .. Len(t) - 1
      /\ \A p \in 1 .. Len(t) - 1 : T[p] = t[p + 1]
  BY Ahead
<1>2. /\ FusedInv(top) /\ t[Len(t)] = Entry("emit", top.root) /\ n <= top.root
      /\ Len(t) = 1 => n = top.root
  BY Visiting
<1>3. PICK l \in Nat : l = Len(t) /\ l > 0
  BY <1>1
<1>4. PICK m \in Nat : m = Len(top.order) /\ DOMAIN top.order = 1 .. m
  BY <1>1, TopFrame, FrameFields
<1>5. /\ DOMAIN f.order = 1 .. m + 1 /\ Len(f.order) = m + 1 /\ f.order # <<>>
      /\ \A i \in 1 .. m : f.order[i] = top.order[i]
      /\ f.order[m + 1] = n
  <2>1. top.order \in Seq(Node)
    BY <1>1, TopFrame, FrameFields
  <2>2. /\ DOMAIN f.order = 1 .. m + 1 /\ Len(f.order) = m + 1
        /\ \A i \in 1 .. m : f.order[i] = top.order[i]
        /\ f.order[m + 1] = n
    BY <2>1, <1>1, <1>4, Extended
  <2>3. m + 1 \in DOMAIN f.order /\ DOMAIN <<>> = {}
    BY <2>2
  <2> QED BY <2>2, <2>3
<1>6. \A i \in DOMAIN f.order :
        \/ i = m + 1 /\ f.order[i] = n
        \/ i \in DOMAIN top.order /\ i \in 1 .. m /\ f.order[i] = top.order[i]
  BY <1>4, <1>5
<1>7. \A x : In(x, f.order) <=> x = n \/ In(x, top.order)
  BY <1>4, <1>5, <1>6 DEF In
<1> HIDE DEF t, T
<1>8. /\ \A p \in DOMAIN T : p + 1 \in DOMAIN t /\ T[p] = t[p + 1]
      /\ \A p, q \in DOMAIN T : p < q => p + 1 < q + 1
      /\ \A q \in 1 .. l : q # 1 => q - 1 \in DOMAIN T /\ T[q - 1] = t[q]
      /\ \A p \in DOMAIN T : 1 < p + 1 /\ 1 \in DOMAIN t
      /\ \A p \in DOMAIN T : T[p].node \in Node
  <2>1. \A p \in DOMAIN T : T[p].node \in Node
    BY TopFrame, FrameFields DEF T
  <2> QED BY <2>1, <1>1, <1>3
<1>9. Older(top) /\ Sees(top) /\ Sorted(top) /\ Even(top)
  BY <1>2 DEF FusedInv
<1>10. RootLast(f)
  <2>1. CASE l = 1
    <3>1. T = <<>>
      <4>1. Len(t) = 1
        BY <2>1, <1>3
      <4>2. T \in Seq(Todo) /\ Len(T) = 0
        BY <4>1, <1>1
      <4> QED BY <4>2
    <3> QED BY <3>1, <2>1, <1>2, <1>3, <1>5 DEF RootLast, T
  <2>2. CASE l > 1
    <3>1. T # <<>> /\ T[Len(T)] = Entry("emit", f.root)
      BY <2>2, <1>1, <1>2, <1>3
    <3> QED BY <3>1 DEF RootLast, T
  <2> QED BY <2>1, <2>2, <1>3
<1>11. Older(f)
  <2>1. \A p \in DOMAIN T :
          T[p].do \in {"visit", "emit"} /\ (T[p].do = "visit" => T[p].node < f.root)
    BY <1>8, <1>9 DEF Older, t
  <2>2. \A p, q \in DOMAIN T : p < q /\ T[q].do = "emit" => T[p].node < T[q].node
    BY <1>8, <1>9 DEF Older, t
  <2>3. \A i \in DOMAIN f.order : f.order[i] <= f.root
    BY <1>2, <1>6, <1>9 DEF Older
  <2> QED BY <2>1, <2>2, <2>3, <1>9 DEF Older, T
<1>12. Sees(f)
  <2>1. ASSUME NEW x \in top.seen, In(Entry("emit", x), t)
        PROVE  x = n \/ In(Entry("emit", x), T)
    <3>1. PICK p \in 1 .. l : t[p] = Entry("emit", x)
      BY <2>1, <1>1, <1>3 DEF In
    <3>2. p = 1 => x = n
      BY <3>1, <1>1, Entries
    <3> QED BY <3>1, <3>2, <1>8 DEF In
  <2>2. \A x \in f.seen : In(x, f.inputs) \/ In(x, f.order) \/ In(Entry("emit", x), T)
    BY <2>1, <1>7, <1>9 DEF Sees, t
  <2>3. ASSUME NEW p \in DOMAIN T, T[p].do = "emit"
        PROVE  T[p].node \in f.seen /\ ~In(T[p].node, f.order)
    <3>1. n < T[p].node
      BY <2>3, <1>1, <1>8, <1>9 DEF Older, t
    <3>2. T[p].node # n
      BY <3>1, <1>1, <1>8 DEF Node
    <3> QED BY <3>2, <2>3, <1>7, <1>8, <1>9 DEF Sees, t
  <2>4. n \in top.seen /\ ~In(n, top.order)
    <3>1. 1 \in DOMAIN t
      BY <1>1, <1>3
    <3> QED BY <3>1, <1>1, <1>9 DEF Sees, t
  <2>5. \A i \in DOMAIN f.order : f.order[i] \in f.seen
    BY <2>4, <1>6, <1>9 DEF Sees
  <2>6. \A i, j \in DOMAIN f.order : f.order[i] = f.order[j] => i = j
    BY <2>4, <1>6, <1>9 DEF Sees, In
  <2> QED BY <2>2, <2>3, <2>5, <2>6 DEF Sees, T
<1>13. Sorted(f)
  <2>1. \A x : \A i \in 1 .. m + 1 : Given(x, top, i) => Given(x, f, i)
    BY <1>4, <1>5 DEF Given
  <2>2. \A x : Given(x, top, m + 1) \/ x = n => Given(x, f, m + 2)
    <3>1. m + 1 \in 1 .. m + 2 - 1 /\ \A i \in 1 .. m + 1 - 1 : i \in 1 .. m /\ i \in 1 .. m + 2 - 1
      OBVIOUS
    <3> QED BY <3>1, <1>5 DEF Given
  <2>3. ASSUME NEW p \in DOMAIN T, T[p].do = "emit", Deferred(T[p].node),
               NEW j \in DOMAIN impl[T[p].node].inputs
        PROVE  \/ Given(impl[T[p].node].inputs[j], f, Len(f.order) + 1)
               \/ \E q \in 1 .. p - 1 : T[q].node = impl[T[p].node].inputs[j]
    <3>1. PICK y : y = impl[T[p].node].inputs[j]
      OBVIOUS
    <3>2. PICK r \in DOMAIN t : r = p + 1 /\ r \in 1 .. l /\ T[p] = t[r] /\ p = r - 1
      BY <1>1, <1>3, <1>8
    <3>3. \/ Given(y, top, m + 1)
          \/ \E q \in 1 .. r - 1 : t[q].node = y
      <4>1. /\ t[r].do = "emit" /\ Deferred(t[r].node)
            /\ j \in DOMAIN impl[t[r].node].inputs /\ y = impl[t[r].node].inputs[j]
        BY <2>3, <3>1, <3>2
      <4> QED BY <4>1, <1>4, <1>9 DEF Sorted, t
    <3>4. ASSUME NEW q \in 1 .. r - 1, t[q].node = y
          PROVE  y = n \/ \E o \in 1 .. p - 1 : T[o].node = y
      <4>1. q = 1 => y = n
        BY <3>4, <1>1
      <4>2. q # 1 => q - 1 \in 1 .. p - 1 /\ T[q - 1] = t[q]
        BY <3>2, <1>8
      <4> QED BY <4>1, <4>2, <3>4
    <3>5. Len(f.order) + 1 = m + 2
      BY <1>5
    <3> QED BY <3>1, <3>3, <3>4, <3>5, <2>2
  <2>4. ASSUME NEW i \in DOMAIN f.order, Deferred(f.order[i]),
               NEW j \in DOMAIN impl[f.order[i]].inputs
        PROVE  Given(impl[f.order[i]].inputs[j], f, i)
    <3>1. CASE i \in 1 .. m
      <4>1. i \in DOMAIN top.order /\ f.order[i] = top.order[i] /\ i \in 1 .. m + 1
        BY <3>1, <1>4, <1>5
      <4> QED BY <4>1, <2>1, <2>4, <1>9 DEF Sorted
    <3>2. CASE i = m + 1
      <4>1. 1 \in DOMAIN t /\ 1 .. 1 - 1 = {} /\ f.order[i] = n
        BY <3>2, <1>1, <1>3, <1>5
      <4>2. PICK y : y = impl[n].inputs[j]
        OBVIOUS
      <4>3. /\ t[1].do = "emit" /\ Deferred(t[1].node)
            /\ j \in DOMAIN impl[t[1].node].inputs /\ y = impl[t[1].node].inputs[j]
        BY <4>1, <4>2, <2>4, <1>1
      <4>4. Given(y, top, m + 1) \/ \E q \in 1 .. 1 - 1 : t[q].node = y
        BY <4>1, <4>3, <1>4, <1>9 DEF Sorted, t
      <4> QED BY <4>1, <4>2, <4>4, <3>2, <2>1
    <3> QED BY <3>1, <3>2, <1>5
  <2> QED BY <2>3, <2>4 DEF Sorted, T
<1>14. Even(f)
  <2>1. \A p \in DOMAIN T : Numel(impl[T[p].node].shape) = Numel(impl[f.root].shape)
    BY <1>8, <1>9 DEF Even, t
  <2> QED BY <2>1, <1>9 DEF Even, T
<1> QED BY <1>10, <1>11, <1>12, <1>13, <1>14 DEF FusedInv

\* What the innermost frame waits for is realized, when nothing runs below it.
LEMMA Arrived ==
  ASSUME IInv, stack # <<>>
  PROVE  /\ top.call = "fused" => \A i \in DOMAIN top.inputs : ~Deferred(top.inputs[i])
         /\ top.call # "fused" => \A i \in DOMAIN top.operands : Deferred(top.operands[i]) =>
              \E p \in DOMAIN top.todo : top.todo[p].node = top.operands[i]
<1>1. Awaited(top, 0) /\ top \in FrameType
  BY TopFrame
<1>2. 0 \notin Node
  BY DEF Node
<1>3. /\ \A i \in DOMAIN top.inputs : top.inputs[i] # 0
      /\ \A i \in DOMAIN top.operands : top.operands[i] # 0
  BY <1>1, <1>2, FrameFields
<1> QED BY <1>1, <1>3 DEF Awaited

LEMMA VisitSeenIInv ==
  ASSUME IInv, NEW n \in Impls, VisitSeen(n)
  PROVE  IInv'
<1>1. /\ ToDo("visit", n) /\ n \in top.seen /\ stack # <<>>
      /\ UNCHANGED <<tensors, kernel, crashed, capture>>
  BY DEF VisitSeen, ToDo
<1>2. PICK g : g = top
  OBVIOUS
<1>3. g \in FrameType /\ Tail(g.todo) \in Seq(Todo)
  BY <1>1, <1>2, TopFrame, Ahead
<1>4. /\ g.seen \in SUBSET Node /\ g.inputs \in Seq(Node) /\ g.order \in Seq(Node)
  BY <1>3, FrameFields
<1>5. PICK todo \in Seq(Todo), seen \in SUBSET Node, inputs \in Seq(Node), order \in Seq(Node) :
        /\ todo = Tail(g.todo) /\ seen = g.seen
        /\ inputs = g.inputs /\ order = g.order
  BY <1>3, <1>4
<1>6. PICK f : f = [g EXCEPT !.todo = todo]
              /\ f = [g EXCEPT !.todo = Tail(g.todo)]
  BY <1>5
<1>7. /\ f \in FrameType /\ f.call = g.call /\ f.root = g.root
      /\ f.todo = Tail(g.todo) /\ f.seen = g.seen /\ f.inputs = g.inputs /\ f.order = g.order
  BY <1>3, <1>5, <1>6 DEF FrameType
<1>8. top.call = "fused" /\ FusedInv(f) /\ GoesOn(f)
  <2>1. GoesOn(f)
    BY <1>2, <1>6 DEF VisitSeen
  <2> QED BY <2>1, <1>1, <1>2, <1>7, Visiting, SkipsSeen
<1>9. FrameInv(f) /\ Awaited(f, 0)
  BY <1>1, <1>2, <1>7, <1>8, Arrived DEF FrameInv, Awaited
<1> QED BY <1>1, <1>2, <1>7, <1>8, <1>9, Moves

LEMMA VisitOperationIInv ==
  ASSUME IInv, NEW n \in Impls, VisitOperation(n)
  PROVE  IInv'
<1>1. /\ ToDo("visit", n) /\ n \notin top.seen /\ Deferred(n) /\ Fusible(n) /\ stack # <<>>
      /\ UNCHANGED <<tensors, kernel, crashed, capture>>
  BY DEF VisitOperation, ToDo
<1>2. PICK g : g = top
  OBVIOUS
<1>3. g \in FrameType /\ Tail(g.todo) \in Seq(Todo) /\ n \in Node /\ Graph
  BY <1>1, <1>2, TopFrame, Ahead
<1>4. /\ g.seen \in SUBSET Node /\ g.inputs \in Seq(Node) /\ g.order \in Seq(Node)
      /\ g.seen \cup {n} \in SUBSET Node /\ Visits(n) \o Tail(g.todo) \in Seq(Todo)
  <2>1. Visits(n) \in Seq(Todo)
    BY <1>3, VisitsIs
  <2> QED BY <1>3, <2>1, FrameFields, Joined
<1>5. PICK todo \in Seq(Todo), seen \in SUBSET Node, inputs \in Seq(Node), order \in Seq(Node) :
        /\ todo = Visits(n) \o Tail(g.todo) /\ seen = g.seen \cup {n}
        /\ inputs = g.inputs /\ order = g.order
  BY <1>3, <1>4
<1>6. PICK f : f = [g EXCEPT !.todo = todo, !.seen = seen]
              /\ f = [g EXCEPT !.todo = Visits(n) \o Tail(g.todo), !.seen = g.seen \cup {n}]
  BY <1>5
<1>7. /\ f \in FrameType /\ f.call = g.call /\ f.root = g.root
      /\ f.todo = Visits(n) \o Tail(g.todo) /\ f.seen = g.seen \cup {n}
      /\ f.inputs = g.inputs /\ f.order = g.order
  BY <1>3, <1>5, <1>6 DEF FrameType
<1>8. top.call = "fused" /\ FusedInv(f) /\ GoesOn(f)
  <2>1. GoesOn(f)
    BY <1>2, <1>6 DEF VisitOperation
  <2> QED BY <2>1, <1>1, <1>2, <1>7, Visiting, VisitsOperands
<1>9. FrameInv(f) /\ Awaited(f, 0)
  BY <1>1, <1>2, <1>7, <1>8, Arrived DEF FrameInv, Awaited
<1> QED BY <1>1, <1>2, <1>7, <1>8, <1>9, Moves

LEMMA VisitInputIInv ==
  ASSUME IInv, NEW n \in Impls, VisitInput(n)
  PROVE  IInv'
<1>1. /\ ToDo("visit", n) /\ n \notin top.seen /\ stack # <<>>
      /\ UNCHANGED <<tensors, kernel, crashed, capture>>
  BY DEF VisitInput, ToDo
<1>2. PICK g : g = top
  OBVIOUS
<1>3. g \in FrameType /\ Tail(g.todo) \in Seq(Todo) /\ n \in Node
  BY <1>1, <1>2, TopFrame, Ahead
<1>4. /\ g.order \in Seq(Node)
      /\ g.seen \cup {n} \in SUBSET Node /\ Append(g.inputs, n) \in Seq(Node)
  BY <1>3, FrameFields, Extended
<1>5. PICK todo \in Seq(Todo), seen \in SUBSET Node, inputs \in Seq(Node), order \in Seq(Node) :
        /\ todo = Tail(g.todo) /\ seen = g.seen \cup {n}
        /\ inputs = Append(g.inputs, n) /\ order = g.order
  BY <1>3, <1>4
<1>6. PICK f : f = [g EXCEPT !.todo = todo, !.seen = seen, !.inputs = inputs]
              /\ f = [g EXCEPT !.todo = Tail(g.todo), !.seen = g.seen \cup {n},
                               !.inputs = Append(g.inputs, n)]
  BY <1>5
<1>7. /\ f \in FrameType /\ f.call = g.call /\ f.root = g.root
      /\ f.todo = Tail(g.todo) /\ f.seen = g.seen \cup {n}
      /\ f.inputs = Append(g.inputs, n) /\ f.order = g.order
  BY <1>3, <1>5, <1>6 DEF FrameType
<1>8. /\ top.call = "fused" /\ n < top.root /\ FusedInv(f) /\ Realize(n, f)
      /\ \A i \in DOMAIN f.inputs : f.inputs[i] = n \/ In(f.inputs[i], top.inputs)
  <2>1. Realize(n, f)
    BY <1>2, <1>6 DEF VisitInput
  <2>2. /\ f \in FrameType /\ f.root = top.root /\ f.seen = top.seen \cup {n}
        /\ f.inputs = Append(top.inputs, n) /\ f.order = top.order /\ f.todo = Tail(top.todo)
    BY <1>2, <1>7
  <2>3. FusedInv(f)
    BY <2>2, <1>1, TakesInput
  <2>4. Takes(f, top, n)
    BY <2>2, <1>1, TakesInput
  <2> QED BY <2>1, <2>3, <2>4, <1>1, Visiting DEF Takes
<1>9. FrameInv(f) /\ \A i \in DOMAIN f.inputs : Deferred(f.inputs[i]) => f.inputs[i] = n
  BY <1>1, <1>2, <1>7, <1>8, Arrived DEF FrameInv, In
<1>10. CASE Deferred(n)
  <2>1. Awaited(f, n)
    BY <1>2, <1>7, <1>8, <1>9 DEF Awaited
  <2> QED BY <2>1, <1>1, <1>2, <1>7, <1>8, <1>9, <1>10, Moves
<1>11. CASE ~Deferred(n)
  <2>1. Awaited(f, 0)
    BY <1>2, <1>7, <1>8, <1>9, <1>11 DEF Awaited
  <2>2. GoesOn(f)
    BY <1>8, <1>11 DEF Realize, GoesOn
  <2> QED BY <2>1, <2>2, <1>1, <1>2, <1>7, <1>9, Moves
<1> QED BY <1>10, <1>11

LEMMA EmitIInv ==
  ASSUME IInv, NEW n \in Impls, Emit(n)
  PROVE  IInv'
<1>1. /\ ToDo("emit", n) /\ stack # <<>>
      /\ UNCHANGED <<tensors, kernel, crashed, capture>>
  BY DEF Emit, ToDo
<1>2. PICK g : g = top
  OBVIOUS
<1>3. g \in FrameType /\ Tail(g.todo) \in Seq(Todo) /\ n \in Node
  BY <1>1, <1>2, TopFrame, Ahead
<1>4. /\ g.seen \in SUBSET Node /\ g.inputs \in Seq(Node)
      /\ Append(g.order, n) \in Seq(Node)
  BY <1>3, FrameFields, Extended
<1>5. PICK todo \in Seq(Todo), seen \in SUBSET Node, inputs \in Seq(Node), order \in Seq(Node) :
        /\ todo = Tail(g.todo) /\ seen = g.seen
        /\ inputs = g.inputs /\ order = Append(g.order, n)
  BY <1>3, <1>4
<1>6. PICK f : f = [g EXCEPT !.todo = todo, !.order = order]
              /\ f = [g EXCEPT !.todo = Tail(g.todo), !.order = Append(g.order, n)]
  BY <1>5
<1>7. /\ f \in FrameType /\ f.call = g.call /\ f.root = g.root
      /\ f.todo = Tail(g.todo) /\ f.seen = g.seen
      /\ f.inputs = g.inputs /\ f.order = Append(g.order, n)
  BY <1>3, <1>5, <1>6 DEF FrameType
<1>8. top.call = "fused" /\ FusedInv(f) /\ GoesOn(f)
  <2>1. GoesOn(f)
    BY <1>2, <1>6 DEF Emit
  <2> QED BY <2>1, <1>1, <1>2, <1>7, Visiting, Emits
<1>9. FrameInv(f) /\ Awaited(f, 0)
  BY <1>1, <1>2, <1>7, <1>8, Arrived DEF FrameInv, Awaited
<1> QED BY <1>1, <1>2, <1>7, <1>8, <1>9, Moves

LEMMA RealizeOperandIInv ==
  ASSUME IInv, NEW n \in Impls, RealizeOperand(n)
  PROVE  IInv'
<1>1. /\ ToDo("realize", n) /\ stack # <<>>
      /\ UNCHANGED <<tensors, kernel, crashed, capture>>
  BY DEF RealizeOperand, ToDo
<1>2. PICK g : g = top
  OBVIOUS
<1>3. /\ g \in FrameType /\ n \in Node /\ FrameInv(g)
      /\ Len(g.todo) \in Nat /\ Len(g.todo) > 0 /\ DOMAIN g.todo = 1 .. Len(g.todo)
      /\ g.todo[1].do = "realize" /\ g.todo[1].node = n
      /\ Tail(g.todo) \in Seq(Todo) /\ DOMAIN Tail(g.todo) = 1 .. Len(g.todo) - 1
      /\ \A p \in 1 .. Len(g.todo) - 1 : Tail(g.todo)[p] = g.todo[p + 1]
  BY <1>1, <1>2, TopFrame, Ahead
<1>4. /\ g.seen \in SUBSET Node /\ g.inputs \in Seq(Node) /\ g.order \in Seq(Node)
  BY <1>3, FrameFields
<1>5. PICK todo \in Seq(Todo), seen \in SUBSET Node, inputs \in Seq(Node), order \in Seq(Node) :
        /\ todo = Tail(g.todo) /\ seen = g.seen
        /\ inputs = g.inputs /\ order = g.order
  BY <1>3, <1>4
<1>6. PICK f : f = [g EXCEPT !.todo = todo]
              /\ f = [g EXCEPT !.todo = Tail(g.todo)]
  BY <1>5
<1>7. /\ f \in FrameType /\ f.call = g.call /\ f.root = g.root /\ f.operands = g.operands
      /\ f.todo = Tail(g.todo)
  BY <1>3, <1>5, <1>6 DEF FrameType
<1>8. g.call # "fused" /\ OperandInv(g)
  <2>1. 1 \in DOMAIN g.todo
    BY <1>3
  <2>2. ~Older(g)
    BY <2>1, <1>3 DEF Older
  <2> QED BY <2>2, <1>3 DEF FrameInv, FusedInv
<1>9. PICK l \in Nat : l = Len(g.todo) /\ l > 0 /\ DOMAIN g.todo = 1 .. l
  BY <1>3
<1>10. DOMAIN f.todo = 1 .. l - 1 /\ \A p \in 1 .. l - 1 : f.todo[p] = g.todo[p + 1]
  BY <1>3, <1>7, <1>9
<1>11. FrameInv(f) /\ n < f.root
  <2>1. \A p \in 1 .. l - 1 : p + 1 \in 1 .. l
    BY <1>9
  <2>2. 1 \in 1 .. l
    BY <1>9
  <2>3. OperandInv(f)
    <3>1. \A p \in DOMAIN f.todo : f.todo[p].do = "realize" /\ f.todo[p].node < f.root
      BY <2>1, <1>7, <1>8, <1>9, <1>10 DEF OperandInv
    <3> QED BY <3>1, <1>7, <1>8 DEF OperandInv
  <2> QED BY <2>2, <2>3, <1>3, <1>7, <1>8, <1>9 DEF FrameInv, OperandInv
<1>12. ASSUME NEW i \in DOMAIN f.operands, Deferred(f.operands[i]), f.operands[i] # n
       PROVE  \E p \in DOMAIN f.todo : f.todo[p].node = f.operands[i]
  <2>1. PICK p \in 1 .. l : g.todo[p].node = f.operands[i]
    BY <1>1, <1>2, <1>7, <1>8, <1>9, <1>12, Arrived
  <2>2. p # 1
    BY <2>1, <1>3, <1>12
  <2>3. p - 1 \in 1 .. l - 1 /\ p - 1 + 1 = p
    BY <2>1, <2>2
  <2>4. f.todo[p - 1] = g.todo[p]
    BY <2>3, <1>10
  <2> QED BY <2>1, <2>3, <2>4, <1>10
<1>13. Realize(n, f)
  BY <1>2, <1>6 DEF RealizeOperand
<1>14. CASE Deferred(n)
  <2>1. Awaited(f, n)
    BY <1>7, <1>8, <1>12 DEF Awaited
  <2> QED BY <2>1, <1>1, <1>2, <1>7, <1>11, <1>13, <1>14, Moves
<1>15. CASE ~Deferred(n)
  <2>1. Awaited(f, 0)
    BY <1>7, <1>8, <1>12, <1>15 DEF Awaited
  <2>2. GoesOn(f)
    BY <1>13, <1>15 DEF Realize, GoesOn
  <2> QED BY <2>1, <2>2, <1>1, <1>2, <1>7, <1>11, Moves
<1> QED BY <1>14, <1>15

-----------------------------------------------------------------------------
(* What a kernel stores.                                                   *)

Statement(named, n) ==
  [named EXCEPT ![n] = Applied([i \in DOMAIN impl[n].inputs |-> named[impl[n].inputs[i]]])]

\* r[i] is what each tensor is after i statements.
Statements(r, order, len) ==
  \A i \in 0 .. len :
    r[i] = IF i = 0 THEN [n \in Impls |-> Contents(n)] ELSE Statement(r[i - 1], order[i])

LEMMA NamedExists ==
  ASSUME NEW len \in Nat, NEW order
  PROVE  \E r : r = [i \in 0 .. len |->
                      IF i = 0 THEN [n \in Impls |-> Contents(n)] ELSE Statement(r[i - 1], order[i])]
<1> DEFINE base == [n \in Impls |-> Contents(n)]
           Def(r, n) == [i \in 0 .. n |-> IF i = 0 THEN base ELSE Statement(r[i - 1], order[i])]
           T == {n \in 0 .. len : \E r : r = Def(r, n)}
<1>1. 0 \in T
  <2> DEFINE r == [i \in 0 .. 0 |-> base]
  <2>1. r = Def(r, 0)
    OBVIOUS
  <2> HIDE DEF r, Def
  <2> QED BY <2>1
<1>2. ASSUME NEW n \in 1 .. len, n - 1 \in T PROVE n \in T
  <2>1. PICK r : r = Def(r, n - 1)
    BY <1>2
  <2> DEFINE s == [i \in 0 .. n |-> IF i = n THEN Statement(r[n - 1], order[n]) ELSE r[i]]
  <2>2. ASSUME NEW i \in 0 .. n
        PROVE  s[i] = IF i = 0 THEN base ELSE Statement(s[i - 1], order[i])
    <3>1. CASE i = n
      <4>1. n # 0 /\ n - 1 \in 0 .. n /\ n - 1 # n
        OBVIOUS
      <4> HIDE DEF base
      <4> QED BY <3>1, <4>1
    <3>2. CASE i # n
      <4>1. i \in 0 .. n - 1 /\ (i # 0 => i - 1 \in 0 .. n /\ i - 1 # n)
        BY <3>2
      <4>2. s[i] = r[i] /\ (i # 0 => s[i - 1] = r[i - 1])
        <5> HIDE DEF base
        <5> QED BY <3>2, <4>1
      <4>3. r[i] = IF i = 0 THEN base ELSE Statement(r[i - 1], order[i])
        <5> HIDE DEF base
        <5> QED BY <2>1, <4>1
      <4> HIDE DEF base, s
      <4> QED BY <4>2, <4>3
    <3> QED BY <3>1, <3>2
  <2>3. s = Def(s, n)
    <3>1. s = [i \in 0 .. n |-> s[i]]
      OBVIOUS
    <3> HIDE DEF s, base
    <3> QED BY <2>2, <3>1
  <2> HIDE DEF s, Def
  <2> QED BY <2>3
<1>3. 0 .. len \subseteq T
  <2> HIDE DEF T
  <2> QED BY <1>1, <1>2, IntervalInduction
<1> QED BY <1>3

LEMMA FusedIs ==
  ASSUME NEW g, NEW len \in Nat, len = Len(g.order)
  PROVE  \E r : FusedValue(g) = r[len][g.root] /\ Statements(r, g.order, len)
<1> DEFINE Def(r) == [i \in 0 .. len |-> IF i = 0 THEN [n \in Impls |-> Contents(n)]
                                         ELSE Statement(r[i - 1], g.order[i])]
           named == CHOOSE r : r = Def(r)
<1>1. \E r : r = Def(r)
  BY NamedExists
<1>2. named = Def(named)
  <2> HIDE DEF Def
  <2> QED BY <1>1
<1>3. Statements(named, g.order, len)
  <2> HIDE DEF named
  <2> QED BY <1>2 DEF Statements
<1>4. FusedValue(g) = named[len][g.root]
  BY DEF FusedValue, Statement
<1> HIDE DEF named
<1> QED BY <1>3, <1>4

\* The statements name what the tensors mean.
LEMMA FusedMeans ==
  ASSUME Graph, Meant, ValuesAsEager, NEW g, NEW len \in Nat, len = Len(g.order), len > 0,
         \A i \in 1 .. len : g.order[i] \in Impls /\ Deferred(g.order[i]),
         \A i \in 1 .. len : \A j \in DOMAIN impl[g.order[i]].inputs :
           Given(impl[g.order[i]].inputs[j], g, i),
         \A i \in DOMAIN g.inputs : ~Deferred(g.inputs[i]),
         g.order[len] = g.root
  PROVE  FusedValue(g) = meaning[g.root]
<1>1. PICK r : FusedValue(g) = r[len][g.root] /\ Statements(r, g.order, len)
  BY FusedIs
<1> DEFINE Known(x, i) == ~Deferred(x) \/ \E j \in 1 .. i : g.order[j] = x
           T == {i \in 0 .. len :
                   DOMAIN r[i] = Impls /\ \A x \in Impls : Known(x, i) => r[i][x] = meaning[x]}
<1>2. 0 \in T
  <2>1. r[0] = [n \in Impls |-> Contents(n)]
    BY <1>1 DEF Statements
  <2>2. \A x \in Impls : Known(x, 0) => Contents(x) = meaning[x]
    BY DEF ValuesAsEager
  <2> QED BY <2>1, <2>2
<1>3. ASSUME NEW i \in 1 .. len, i - 1 \in T PROVE i \in T
  <2>1. PICK n, ins : n = g.order[i] /\ ins = impl[n].inputs
    OBVIOUS
  <2>2. n \in Impls /\ Deferred(n) /\ \A j \in DOMAIN ins : Given(ins[j], g, i) /\ ins[j] \in Impls
    BY <2>1, Nodes
  <2>3. PICK s : s = r[i - 1]
    OBVIOUS
  <2>4. DOMAIN s = Impls /\ \A x \in Impls : Known(x, i - 1) => s[x] = meaning[x]
    BY <1>3, <2>3
  <2>5. r[i] = Statement(s, n)
    <3>1. i \in 0 .. len /\ i # 0
      OBVIOUS
    <3> QED BY <3>1, <1>1, <2>1, <2>3 DEF Statements
  <2>6. \A j \in DOMAIN ins : s[ins[j]] = meaning[ins[j]]
    <3>1. \A j \in DOMAIN ins : Known(ins[j], i - 1)
      BY <2>2 DEF Given
    <3> HIDE DEF Known
    <3> QED BY <3>1, <2>2, <2>4
  <2>7. meaning[n] = Applied([j \in DOMAIN ins |-> s[ins[j]]])
    <3>1. meaning[n] = Applied([j \in DOMAIN ins |-> meaning[ins[j]]])
      BY <2>1, <2>2 DEF Meant, MeaningOf
    <3>2. [j \in DOMAIN ins |-> meaning[ins[j]]] = [j \in DOMAIN ins |-> s[ins[j]]]
      BY <2>6
    <3> QED BY <3>1, <3>2
  <2>8. r[i] = [s EXCEPT ![n] = meaning[n]]
    BY <2>1, <2>5, <2>7 DEF Statement
  <2>9. ASSUME NEW x \in Impls, Known(x, i) PROVE r[i][x] = meaning[x]
    <3>1. CASE x = n
      BY <3>1, <2>2, <2>4, <2>8
    <3>2. CASE x # n
      <4>1. Known(x, i - 1)
        <5>1. ASSUME NEW j \in 1 .. i, g.order[j] = x PROVE j \in 1 .. i - 1
          BY <5>1, <3>2, <2>1
        <5> QED BY <5>1, <2>9
      <4> HIDE DEF Known
      <4> QED BY <4>1, <3>2, <2>4, <2>8
    <3> QED BY <3>1, <3>2
  <2>10. DOMAIN r[i] = Impls
    BY <2>4, <2>8
  <2> QED BY <2>9, <2>10
<1>4. 0 .. len \subseteq T
  <2> HIDE DEF T
  <2> QED BY <1>2, <1>3, IntervalInduction
<1>5. len \in T /\ len \in 1 .. len
  BY <1>4
<1>6. g.root \in Impls /\ Known(g.root, len)
  BY <1>5
<1> QED BY <1>1, <1>5, <1>6

-----------------------------------------------------------------------------
(* The end of a realization.                                               *)

LEMMA FilledIs ==
  ASSUME Graph, NEW n \in Impls, NEW v, SetRealized(n, v)
  PROVE  /\ impl' \in Seq(Tensor) /\ Len(impl') = Len(impl) /\ Impls' = Impls
         /\ \A x \in Impls : impl'[x].shape = impl[x].shape
         /\ \A x \in Impls : x # n => impl'[x] = impl[x]
         /\ impl'[n].inputs = <<>> /\ impl'[n].storage = Len(store) + 1
         /\ \A x \in Impls : Deferred(x)' <=> Deferred(x) /\ x # n
         /\ IsSequence(store)' /\ Len(store) \in Nat /\ Len(store') = Len(store) + 1
         /\ \A i \in 1 .. Len(store) : store'[i] = store[i]
         /\ store'[Len(store) + 1] = v
<1>1. IsSequence(store) /\ store' = Append(store, v)
  BY DEF Graph, SetRealized
<1>2. /\ IsSequence(Append(store, v)) /\ Len(store) \in Nat
      /\ Len(Append(store, v)) = Len(store) + 1
      /\ \A i \in 1 .. Len(store) : Append(store, v)[i] = store[i]
      /\ Append(store, v)[Len(store) + 1] = v
  BY <1>1, Appended
<1>3. PICK m \in Nat : m = Len(store) + 1
  BY <1>2
<1>4. PICK empty \in Seq(Node) : empty = <<>>
  BY EmptySeq, Zenon
<1>5. impl \in Seq(Tensor) /\ n \in DOMAIN impl /\ impl[n] \in Tensor
  BY Nodes DEF Graph
<1>6. PICK t : t = [impl[n] EXCEPT !.storage = m, !.inputs = empty]
  OBVIOUS
<1>7. t \in Tensor /\ t.shape = impl[n].shape /\ t.storage = m /\ t.inputs = empty
  BY <1>5, <1>6 DEF Tensor
<1>8. impl' = [impl EXCEPT ![n] = t]
  BY <1>3, <1>4, <1>5, <1>6 DEF SetRealized, Tensor
<1>9. /\ impl' \in Seq(Tensor) /\ Len(impl') = Len(impl)
      /\ impl'[n] = t /\ \A x \in Impls : x # n => impl'[x] = impl[x]
  BY <1>5, <1>7, <1>8 DEF Impls
<1>10. Impls' = Impls
  BY <1>9 DEF Impls
<1>11. \A x \in Impls : Deferred(x)' <=> Deferred(x) /\ x # n
  BY <1>4, <1>7, <1>9 DEF Deferred
<1>12. \A x \in Impls : impl'[x].shape = impl[x].shape
  BY <1>7, <1>9
<1>13. IsSequence(store)'
  BY <1>1, <1>2 DEF IsSequence
<1> QED BY <1>1, <1>2, <1>3, <1>4, <1>7, <1>9, <1>10, <1>11, <1>12, <1>13

\* A tensor gets its value.
LEMMA TensorsFilled ==
  ASSUME Tensors, NEW n \in Impls, Deferred(n), SetRealized(n, meaning[n]),
         UNCHANGED <<crashed, capture, meaning>>
  PROVE  Tensors'
<1>1. Graph /\ Meant /\ Sized /\ ValuesAsEager
  BY DEF Tensors
<1>2. PICK v : v = meaning[n]
  OBVIOUS
<1>3. PICK m : m = Len(store)
  OBVIOUS
<1>4. /\ impl' \in Seq(Tensor) /\ Len(impl') = Len(impl) /\ Impls' = Impls
      /\ \A x \in Impls : impl'[x].shape = impl[x].shape
      /\ \A x \in Impls : x # n => impl'[x] = impl[x]
      /\ impl'[n].inputs = <<>> /\ impl'[n].storage = m + 1
      /\ \A x \in Impls : Deferred(x)' <=> Deferred(x) /\ x # n
      /\ IsSequence(store)' /\ m \in Nat /\ Len(store') = m + 1
      /\ \A i \in 1 .. m : store'[i] = store[i]
      /\ store'[m + 1] = v
  BY <1>1, <1>2, <1>3, FilledIs
<1>5. /\ \A x \in Impls : impl[x].storage \in Nat /\ impl[x].storage <= m
      /\ \A x \in Impls : impl[x].storage = 0 <=> Deferred(x)
      /\ \A x \in Impls : \A i \in DOMAIN impl[x].inputs :
           impl[x].inputs[i] < x /\ impl[x].inputs[i] \in Impls
  BY <1>1, <1>3, Nodes DEF Graph
<1>6. Graph'
  <2>1. ASSUME NEW x \in Impls
        PROVE  /\ impl'[x].storage <= m + 1
               /\ \A i \in DOMAIN impl'[x].inputs : impl'[x].inputs[i] < x
               /\ impl'[x].storage = 0 <=> Deferred(x)'
    <3>1. CASE x = n
      <4>1. DOMAIN <<>> = {}
        OBVIOUS
      <4> QED BY <3>1, <4>1, <1>4
    <3>2. CASE x # n
      BY <3>2, <1>4, <1>5
    <3> QED BY <3>1, <3>2
  <2>2. IsSequence(meaning)' /\ (DOMAIN meaning)' = Impls' /\ (crashed \in BOOLEAN)' /\ (capture \in BOOLEAN)'
    BY <1>1, <1>4 DEF Graph, IsSequence
  <2> QED BY <2>1, <2>2, <1>4 DEF Graph
<1>7. Meant'
  <2>1. ASSUME NEW x \in Impls, Deferred(x)' PROVE meaning'[x] = MeaningOf(impl[x].inputs)'
    <3>1. Deferred(x) /\ impl'[x] = impl[x]
      BY <2>1, <1>4
    <3>2. meaning[x] = MeaningOf(impl[x].inputs)
      BY <3>1, <1>1 DEF Meant
    <3> QED BY <3>1, <3>2 DEF MeaningOf
  <2> QED BY <2>1, <1>4 DEF Meant
<1>8. Sized'
  <2>1. ASSUME NEW x \in Impls, Deferred(x)', Fusible(x)', NEW i \in DOMAIN impl'[x].inputs
        PROVE  Numel(impl'[impl'[x].inputs[i]].shape) = Numel(impl'[x].shape)
    <3>1. Deferred(x) /\ impl'[x] = impl[x] /\ i \in DOMAIN impl[x].inputs
      BY <2>1, <1>4
    <3>2. Fusible(x)
      BY <3>1, <2>1, <1>4, <1>5 DEF Fusible
    <3>3. Numel(impl[impl[x].inputs[i]].shape) = Numel(impl[x].shape)
      BY <3>1, <3>2, <1>1 DEF Sized
    <3> QED BY <3>1, <3>3, <1>4, <1>5
  <2> QED BY <2>1, <1>4 DEF Sized, Numel
<1>9. ValuesAsEager'
  <2>1. ASSUME NEW x \in Impls, ~Deferred(x)' PROVE Contents(x)' = meaning'[x]
    <3>1. CASE x = n
      BY <3>1, <1>2, <1>4 DEF Contents
    <3>2. CASE x # n
      <4>1. ~Deferred(x) /\ impl'[x] = impl[x]
        BY <3>2, <2>1, <1>4
      <4>2. Contents(x) = meaning[x] /\ impl[x].storage \in 1 .. m
        BY <4>1, <1>1, <1>5 DEF ValuesAsEager
      <4> QED BY <4>1, <4>2, <1>4 DEF Contents
    <3> QED BY <3>1, <3>2
  <2> QED BY <2>1, <1>4 DEF ValuesAsEager
<1> QED BY <1>6, <1>7, <1>8, <1>9 DEF Tensors

\* The last kernel, while tensors keep their shapes.
LEMMA KernelKept ==
  ASSUME Kernel, kernel' = kernel, Impls \subseteq Impls',
         \A x \in Impls : impl'[x].shape = impl[x].shape
  PROVE  Kernel'
<1>1. KernelTyped'
  BY DEF Kernel, KernelTyped
<1>2. KernelEven'
  <2>1. /\ \A i \in DOMAIN kernel.inputs : kernel.inputs[i] \in Impls
        /\ kernel.inputs # <<>> => kernel.order[Len(kernel.order)] \in Impls
    BY DEF Kernel, KernelTyped
  <2>2. ASSUME NEW i \in DOMAIN kernel.inputs PROVE kernel.inputs # <<>>
    OBVIOUS
  <2> QED BY <2>1, <2>2 DEF Kernel, KernelEven
<1>3. KernelWellFormed'
  BY DEF Kernel, KernelWellFormed
<1> QED BY <1>1, <1>2, <1>3 DEF Kernel

\* Frames are about tensors that are there.
LEMMA FrameNodes ==
  ASSUME NEW f \in FrameType, FusedInv(f), f.root \in Impls, Len(impl) \in Nat
  PROVE  /\ \A p \in DOMAIN f.todo : f.todo[p].node \in Impls
         /\ \A i \in DOMAIN f.inputs : f.inputs[i] \in Impls
         /\ \A i \in DOMAIN f.order : f.order[i] \in Impls
<1>1. PICK l \in Nat : l = Len(f.todo) /\ DOMAIN f.todo = 1 .. l
  BY FrameFields
<1>2. /\ \A p \in DOMAIN f.todo : f.todo[p].node \in Node
      /\ \A i \in DOMAIN f.inputs : f.inputs[i] \in Node
      /\ \A i \in DOMAIN f.order : f.order[i] \in Node
  BY FrameFields
<1>3. Older(f) /\ RootLast(f)
  BY DEF FusedInv
<1>4. ASSUME NEW p \in DOMAIN f.todo PROVE f.todo[p].node \in Impls
  <2>1. f.todo # <<>> /\ l > 0 /\ l \in DOMAIN f.todo
    BY <1>1, <1>4
  <2>2. f.todo[l].do = "emit" /\ f.todo[l].node = f.root
    BY <2>1, <1>1, <1>3, Entries DEF RootLast
  <2>3. p = l \/ p < l
    BY <1>1, <1>4
  <2>4. p < l => f.todo[p].node < f.todo[l].node
    BY <2>1, <2>2, <1>3, <1>4 DEF Older
  <2>5. f.todo[p].node <= f.root
    BY <2>2, <2>3, <2>4, <1>2, <1>4 DEF Node, Impls
  <2> QED BY <2>5, <1>2, <1>4 DEF Impls, Node
<1> QED BY <1>2, <1>3, <1>4 DEF Older, Impls, Node

\* A frame that does not realize n, when n has got its value.
LEMMA FrameKept ==
  ASSUME Graph, NEW n \in Impls, NEW v, SetRealized(n, v),
         NEW f \in FrameType, FrameInv(f), f.root # n, f.root <= Len(impl) + 1,
         f.call \in {"fused", "eager"} => f.root \in Impls
  PROVE  /\ FrameInv(f)'
         /\ \A x : Awaited(f, x) => Awaited(f, IF x = n THEN 0 ELSE x)'
<1>1. /\ Impls' = Impls /\ Len(impl) \in Nat
      /\ \A x \in Impls : impl'[x].shape = impl[x].shape
      /\ \A x \in Impls : x # n => impl'[x] = impl[x]
      /\ \A x \in Impls : Deferred(x)' <=> Deferred(x) /\ x # n
  BY FilledIs, Nodes
<1>2. CASE f.call = "fused"
  <2>1. /\ \A p \in DOMAIN f.todo : f.todo[p].node \in Impls
        /\ \A i \in DOMAIN f.inputs : f.inputs[i] \in Impls
        /\ \A i \in DOMAIN f.order : f.order[i] \in Impls
        /\ f.root \in Impls /\ FusedInv(f)
    BY <1>1, <1>2, FrameNodes DEF FrameInv
  <2>2. RootLast(f)' /\ Older(f)' /\ Sees(f)'
    BY <2>1 DEF FusedInv, RootLast, Older, Sees, In, Entry
  <2>3. Even(f)'
    BY <2>1, <1>1 DEF FusedInv, Even
  <2>4. Sorted(f)'
    <3>1. \A x, i : Given(x, f, i)' <=> Given(x, f, i)
      BY DEF Given
    <3>2. ASSUME NEW i \in DOMAIN f.order, Deferred(f.order[i])',
                 NEW j \in DOMAIN impl'[f.order[i]].inputs
          PROVE  Given(impl'[f.order[i]].inputs[j], f, i)
      <4>1. Deferred(f.order[i]) /\ impl'[f.order[i]] = impl[f.order[i]]
        BY <3>2, <2>1, <1>1
      <4>2. j \in DOMAIN impl[f.order[i]].inputs
        BY <3>2, <4>1, Zenon
      <4>3. Given(impl[f.order[i]].inputs[j], f, i)
        <5>1. Sorted(f)
          BY <2>1 DEF FusedInv
        <5> QED BY <4>1, <4>2, <5>1 DEF Sorted
      <4> QED BY <4>1, <4>3, Zenon
    <3>3. ASSUME NEW p \in DOMAIN f.todo, f.todo[p].do = "emit", Deferred(f.todo[p].node)',
                 NEW j \in DOMAIN impl'[f.todo[p].node].inputs
          PROVE  \/ Given(impl'[f.todo[p].node].inputs[j], f, Len(f.order) + 1)
                 \/ \E q \in 1 .. p - 1 : f.todo[q].node = impl'[f.todo[p].node].inputs[j]
      <4>1. Deferred(f.todo[p].node) /\ impl'[f.todo[p].node] = impl[f.todo[p].node]
        BY <3>3, <2>1, <1>1
      <4>2. j \in DOMAIN impl[f.todo[p].node].inputs
        BY <3>3, <4>1, Zenon
      <4>3. \/ Given(impl[f.todo[p].node].inputs[j], f, Len(f.order) + 1)
            \/ \E q \in 1 .. p - 1 : f.todo[q].node = impl[f.todo[p].node].inputs[j]
        <5>1. Sorted(f)
          BY <2>1 DEF FusedInv
        <5> QED BY <3>3, <4>1, <4>2, <5>1 DEF Sorted
      <4> QED BY <4>1, <4>3, Zenon
    <3> QED BY <3>1, <3>2, <3>3 DEF Sorted
  <2>5. ASSUME NEW x, Awaited(f, x) PROVE Awaited(f, IF x = n THEN 0 ELSE x)'
    <3>1. \A i \in DOMAIN f.inputs : Deferred(f.inputs[i])' => f.inputs[i] = x /\ f.inputs[i] # n
      BY <2>1, <2>5, <1>1, <1>2 DEF Awaited
    <3> QED BY <3>1, <1>2 DEF Awaited
  <2> QED BY <2>2, <2>3, <2>4, <2>5, <1>2 DEF FrameInv, FusedInv
<1>3. CASE f.call # "fused"
  <2>1. OperandInv(f)
    BY <1>3 DEF FrameInv
  <2>2. \A i \in DOMAIN f.operands : f.operands[i] \in Impls
    <3>1. \A i \in DOMAIN f.operands : f.operands[i] \in Node /\ f.operands[i] < f.root /\ f.root \in Node
      BY <2>1, FrameFields DEF OperandInv
    <3> QED BY <3>1, <1>1 DEF Node, Impls
  <2>3. OperandInv(f)'
    <3>1. f.call = "eager" => f.operands = impl'[f.root].inputs
      BY <2>1, <1>1 DEF OperandInv
    <3> QED BY <3>1, <2>1 DEF OperandInv
  <2>4. ASSUME NEW x, Awaited(f, x) PROVE Awaited(f, IF x = n THEN 0 ELSE x)'
    <3>1. ASSUME NEW i \in DOMAIN f.operands, Deferred(f.operands[i])'
          PROVE  \/ f.operands[i] = x /\ f.operands[i] # n
                 \/ \E p \in DOMAIN f.todo : f.todo[p].node = f.operands[i]
      BY <3>1, <2>2, <2>4, <1>1, <1>3 DEF Awaited
    <3> QED BY <3>1, <1>3 DEF Awaited
  <2> QED BY <2>3, <2>4, <1>3 DEF FrameInv
<1> QED BY <1>2, <1>3

\* The innermost call is on the oldest tensor.
LEMMA RootsFall ==
  ASSUME IInv, stack # <<>>
  PROVE  \A i \in DOMAIN stack : i < Len(stack) => top.root < stack[i].root
<1>1. PICK l \in Nat : l = Len(stack) /\ l > 0 /\ DOMAIN stack = 1 .. l
  BY TopFrame
<1>2. /\ \A i \in 1 .. l : Rooted(i)
      /\ \A i \in 1 .. l : stack[i].root \in Node
  <2>1. \A i \in 1 .. l : Rooted(i) /\ stack[i] \in FrameType
    BY <1>1, TopFrame DEF Frames
  <2> QED BY <2>1, FrameFields
<1>3. \A i \in 2 .. l : i \in 1 .. l /\ i # 1 /\ i - 1 \in 1 .. l
  OBVIOUS
<1>4. \A i \in 2 .. l : stack[i].root < stack[i - 1].root
  BY <1>2, <1>3 DEF Rooted
<1> DEFINE T == {k \in 0 .. l - 1 : k > 0 => stack[l].root < stack[l - k].root}
<1>5. 0 \in T
  BY <1>1
<1>6. ASSUME NEW k \in 1 .. l - 1, k - 1 \in T PROVE k \in T
  <2>1. k - 1 = 0 \/ stack[l].root < stack[l - (k - 1)].root
    BY <1>6
  <2>2. l - (k - 1) \in 2 .. l /\ l - (k - 1) - 1 = l - k /\ l - k \in 1 .. l /\ l - (k - 1) \in 1 .. l
    BY <1>1
  <2>3. stack[l - (k - 1)].root < stack[l - k].root
    BY <2>2, <1>4
  <2>4. k - 1 = 0 => l - (k - 1) = l
    BY <1>1
  <2>5. stack[l].root \in Node /\ stack[l - k].root \in Node /\ stack[l - (k - 1)].root \in Node
    BY <2>2, <1>1, <1>2
  <2>6. stack[l].root < stack[l - k].root
    BY <2>1, <2>3, <2>4, <2>5 DEF Node
  <2>7. k \in 0 .. l - 1
    OBVIOUS
  <2> QED BY <2>6, <2>7
<1>7. l - 1 \in Nat
  BY <1>1
<1>8. 0 .. l - 1 \subseteq T
  <2> HIDE DEF T
  <2> QED BY <1>5, <1>6, <1>7, IntervalInduction
<1>9. ASSUME NEW i \in 1 .. l, i < l PROVE stack[l].root < stack[i].root
  <2>1. l - i \in 0 .. l - 1 /\ l - i > 0 /\ l - (l - i) = i
    BY <1>1, <1>9
  <2>2. l - i \in T
    BY <2>1, <1>8
  <2> QED BY <2>1, <2>2
<1> QED BY <1>1, <1>9 DEF top

\* The call returns to its caller.
LEMMA Returns ==
  ASSUME IInv, stack # <<>>, top.call \in {"fused", "eager"},
         NEW v, SetRealized(top.root, v), Return, crashed' = crashed
  PROVE  Frames' /\ top.root \in Impls /\ Deferred(top.root)
<1>1. PICK l \in Nat : l = Len(stack) /\ l > 0 /\ DOMAIN stack = 1 .. l
  BY TopFrame
<1>2. /\ Frames /\ Graph /\ top = stack[l] /\ Rooted(l)
      /\ \A i \in 1 .. l : stack[i] \in FrameType /\ Rooted(i) /\ FrameInv(stack[i])
                             /\ Awaited(stack[i], Callee(i))
      /\ stack \in Seq(FrameType)
  BY <1>1, TopFrame DEF Frames
<1>3. PICK n : n = top.root
  OBVIOUS
<1>4. l > 1 /\ n \in Impls /\ Deferred(n) /\ n = stack[l].root
  BY <1>1, <1>2, <1>3 DEF Rooted
<1>5. /\ stack' \in Seq(FrameType) /\ Len(stack') = l - 1 /\ DOMAIN stack' = 1 .. l - 1
      /\ \A i \in 1 .. l - 1 : stack'[i] = stack[i]
  BY <1>1, <1>2, Popped DEF Return
<1>6. /\ Impls' = Impls /\ Len(impl') = Len(impl) /\ Len(impl) \in Nat
      /\ \A x \in Impls : Deferred(x)' <=> Deferred(x) /\ x # n
  BY <1>2, <1>3, <1>4, FilledIs, Nodes
<1>7. ASSUME NEW i \in 1 .. l - 1
      PROVE  Rooted(i)' /\ FrameInv(stack[i])' /\ Awaited(stack[i], Callee(i))'
  <2>1. i \in 1 .. l /\ i < l /\ i + 1 \in 1 .. l
    BY <1>1
  <2>2. PICK f, x : f = stack[i] /\ x = Callee(i)
    OBVIOUS
  <2>3. f \in FrameType /\ Rooted(i) /\ FrameInv(f) /\ Awaited(f, x) /\ f = stack'[i]
    BY <2>1, <2>2, <1>2, <1>5
  <2>4. f.root # n /\ f.root \in Node
    <3>1. n < f.root
      BY <2>1, <2>2, <1>1, <1>3, RootsFall
    <3>2. f.root \in Node /\ n \in Node
      BY <2>3, <1>2, <1>4, FrameFields, Nodes
    <3> QED BY <3>1, <3>2 DEF Node
  <2>5. f.root <= Len(impl) + 1 /\ (f.call \in {"fused", "eager"} => f.root \in Impls)
    <3>1. CASE i = 1
      BY <3>1, <2>2, <2>3, <1>6 DEF Rooted
    <3>2. CASE i # 1
      <4>1. f.root \in Impls
        BY <3>2, <2>2, <2>3 DEF Rooted
      <4> QED BY <4>1, <1>6 DEF Impls
    <3> QED BY <3>1, <3>2
  <2>6. PICK y : y = IF x = n THEN 0 ELSE x
    OBVIOUS
  <2>7. FrameInv(f)' /\ Awaited(f, y)'
    <3>1. SetRealized(n, v)
      BY <1>3
    <3>2. Graph /\ n \in Impls
      BY <1>2, <1>4
    <3>3. FrameInv(f)' /\ Awaited(f, IF x = n THEN 0 ELSE x)'
      BY <3>1, <3>2, <2>3, <2>4, <2>5, FrameKept
    <3> QED BY <3>3, <2>6 DEF Awaited
  <2>8. FrameInv(stack[i])' /\ Awaited(stack[i], y)'
    BY <2>3, <2>7, FrameNext
  <2>9. y = Callee(i)'
    <3>1. CASE i = l - 1
      <4>1. x = n
        BY <3>1, <2>1, <2>2, <1>1, <1>4 DEF Callee
      <4> QED BY <4>1, <3>1, <2>6, <1>5 DEF Callee
    <3>2. CASE i < l - 1
      <4>1. i + 1 \in 1 .. l - 1 /\ i + 1 < l
        BY <3>2, <1>1
      <4>2. x = stack[i + 1].root /\ stack'[i + 1] = stack[i + 1]
        BY <4>1, <2>1, <2>2, <1>1, <1>5 DEF Callee
      <4>3. n < stack[i + 1].root
        BY <4>1, <2>1, <1>1, <1>3, RootsFall
      <4>4. n \in Nat /\ x \in Nat
        <5>1. stack[i + 1].root \in Node /\ n \in Node
          BY <2>1, <1>2, <1>4, FrameFields, Nodes
        <5> QED BY <5>1, <4>2 DEF Node
      <4>5. x # n
        BY <4>2, <4>3, <4>4
      <4>6. Callee(i)' = stack'[i + 1].root
        BY <3>2, <1>5 DEF Callee
      <4> QED BY <4>2, <4>5, <4>6, <2>6
    <3> QED BY <3>1, <3>2, <2>1, <1>1
  <2>10. Rooted(i)'
    <3>1. CASE i = 1
      BY <3>1, <2>2, <2>3, <1>6 DEF Rooted
    <3>2. CASE i # 1
      <4>1. i - 1 \in 1 .. l - 1
        BY <3>2, <2>1, <1>1
      <4>2. stack'[i - 1] = stack[i - 1]
        BY <4>1, <1>5
      <4> QED BY <3>2, <4>2, <2>2, <2>3, <2>4, <1>6 DEF Rooted
    <3> QED BY <3>1, <3>2
  <2> QED BY <2>8, <2>9, <2>10 DEF Awaited
<1>8. crashed' = FALSE
  BY <1>2 DEF Frames, Graph
<1> QED BY <1>3, <1>4, <1>5, <1>7, <1>8 DEF Frames

LEMMA OfNodes ==
  ASSUME NEW S, NEW s \in Seq(S), NEW T, \A i \in DOMAIN s : s[i] \in T
  PROVE  s \in Seq(T)
OBVIOUS

LEMMA RunFusedIInv ==
  ASSUME IInv, RunFused
  PROVE  IInv'
<1>1. /\ stack # <<>> /\ top.todo = <<>> /\ top.call = "fused" /\ Generates /\ Return
      /\ SetRealized(top.root, FusedValue(top))
      /\ kernel' = [inputs |-> top.inputs, order |-> top.order,
                    args |-> [i \in DOMAIN top.order |-> impl[top.order[i]].inputs]]
      /\ UNCHANGED <<crashed, capture, meaning>>
  BY DEF RunFused, Ready
<1>2. Tensors /\ Graph /\ Meant /\ ValuesAsEager
  BY DEF IInv, Tensors
<1>3. Frames' /\ top.root \in Impls /\ Deferred(top.root)
  BY <1>1, Returns
<1>4. /\ top \in FrameType /\ FusedInv(top)
      /\ top.inputs \in Seq(Node) /\ top.order \in Seq(Node)
  BY <1>1, TopFrame, FrameFields DEF FrameInv
<1>5. PICK len \in Nat : len = Len(top.order) /\ DOMAIN top.order = 1 .. len
  BY <1>4
<1>6. len > 0 /\ top.order # <<>> /\ top.order[len] = top.root
  BY <1>1, <1>4, <1>5 DEF FusedInv, RootLast
<1>7. /\ \A i \in DOMAIN top.inputs : top.inputs[i] \in Impls
      /\ \A i \in DOMAIN top.order : top.order[i] \in Impls
  BY <1>2, <1>3, <1>4, FrameNodes, Nodes
<1>8. \A i \in 1 .. len : top.order[i] \in Impls /\ Deferred(top.order[i])
  BY <1>1, <1>5, <1>7 DEF Generates
<1>9. \A i \in 1 .. len : \A j \in DOMAIN impl[top.order[i]].inputs :
        Given(impl[top.order[i]].inputs[j], top, i)
  BY <1>4, <1>5, <1>8 DEF FusedInv, Sorted
<1>10. \A i \in DOMAIN top.inputs : ~Deferred(top.inputs[i])
  BY <1>1, Arrived
<1>11. FusedValue(top) = meaning[top.root]
  BY <1>2, <1>5, <1>6, <1>8, <1>9, <1>10, FusedMeans
<1>12. Tensors'
  BY <1>1, <1>2, <1>3, <1>11, TensorsFilled
<1>13. Impls' = Impls /\ \A x \in Impls : impl'[x].shape = impl[x].shape
  BY <1>1, <1>2, <1>3, FilledIs
<1>14. KernelTyped'
  <2>1. top.inputs \in Seq(Impls) /\ top.order \in Seq(Impls)
    BY <1>4, <1>7, OfNodes
  <2> QED BY <2>1, <1>1, <1>6, <1>13 DEF KernelTyped
<1>15. KernelEven'
  <2>1. ASSUME NEW i \in DOMAIN top.inputs
        PROVE  Numel(impl'[top.inputs[i]].shape) = Numel(impl'[top.order[len]].shape)
    <3>1. Numel(impl[top.inputs[i]].shape) = Numel(impl[top.root].shape)
      BY <1>4 DEF FusedInv, Even
    <3> QED BY <3>1, <1>3, <1>6, <1>7, <1>13
  <2> QED BY <2>1, <1>1, <1>5 DEF KernelEven
<1>16. KernelWellFormed'
  <2>1. PICK order, inputs : order = top.order /\ inputs = top.inputs
    OBVIOUS
  <2>2. ASSUME NEW i \in DOMAIN order, NEW j \in DOMAIN impl[order[i]].inputs
        PROVE  impl[order[i]].inputs[j] \in {order[m] : m \in 1 .. i - 1}
                                              \cup {inputs[m] : m \in DOMAIN inputs}
    <3>1. PICK y : y = impl[order[i]].inputs[j]
      OBVIOUS
    <3>2. (\E m \in 1 .. i - 1 : order[m] = y) \/ (\E m \in DOMAIN inputs : inputs[m] = y)
      BY <2>1, <3>1, <1>5, <1>9 DEF Given
    <3> QED BY <3>1, <3>2
  <2>3. \A i, j \in DOMAIN order : order[i] = order[j] => i = j
    BY <2>1, <1>4 DEF FusedInv, Sees
  <2>4. PICK k : k = kernel'
    OBVIOUS
  <2>5. /\ k.order = order /\ k.inputs = inputs
        /\ \A i \in DOMAIN order : k.args[i] = impl[order[i]].inputs
    BY <2>1, <2>4, <1>1
  <2> QED BY <2>2, <2>3, <2>4, <2>5 DEF KernelWellFormed
<1> QED BY <1>3, <1>12, <1>14, <1>15, <1>16 DEF IInv, Kernel

LEMMA RunEagerIInv ==
  ASSUME IInv, RunEager
  PROVE  IInv'
<1>1. /\ stack # <<>> /\ top.todo = <<>> /\ top.call = "eager" /\ Return
      /\ SetRealized(top.root, Applied(ContentsOf(top.operands)))
      /\ UNCHANGED <<kernel, crashed, capture, meaning>>
  BY DEF RunEager, Ready
<1>2. Tensors /\ Kernel /\ Graph /\ Meant /\ ValuesAsEager
  BY DEF IInv, Tensors
<1>3. Frames' /\ top.root \in Impls /\ Deferred(top.root)
  BY <1>1, Returns
<1>4. PICK ins : ins = top.operands
  OBVIOUS
<1>5. ins = impl[top.root].inputs
  BY <1>1, <1>4, TopFrame DEF FrameInv, OperandInv
<1>6. \A i \in DOMAIN ins : ins[i] \in Impls /\ ~Deferred(ins[i])
  <2>1. DOMAIN top.todo = {}
    BY <1>1
  <2> QED BY <2>1, <1>1, <1>2, <1>3, <1>4, <1>5, Arrived, Nodes
<1>7. [i \in DOMAIN ins |-> Contents(ins[i])] = [i \in DOMAIN ins |-> meaning[ins[i]]]
  BY <1>2, <1>6 DEF ValuesAsEager
<1>8. Applied(ContentsOf(ins)) = meaning[top.root]
  BY <1>2, <1>3, <1>5, <1>7 DEF Meant, MeaningOf, ContentsOf
<1>9. Tensors'
  BY <1>1, <1>2, <1>3, <1>4, <1>8, TensorsFilled
<1>10. Impls' = Impls /\ \A x \in Impls : impl'[x].shape = impl[x].shape
  BY <1>1, <1>2, <1>3, FilledIs
<1>11. Kernel'
  BY <1>1, <1>2, <1>10, KernelKept
<1> QED BY <1>3, <1>9, <1>11 DEF IInv

-----------------------------------------------------------------------------
(* What a program does.                                                    *)

\* A call from the program, on tensors that are there.
LEMMA Starts ==
  ASSUME IInv, Resting, UNCHANGED <<tensors, kernel, crashed, capture>>,
         NEW call \in {"compute", "data"}, NEW ins \in Seq(Impls), ins # <<>>,
         stack' = <<Operation(call, ins)>>
  PROVE  IInv'
<1>1. /\ impl' = impl /\ crashed' = crashed /\ stack = <<>> /\ ~crashed
      /\ Tensors /\ Kernel /\ Graph
  BY DEF tensors, Resting, IInv, Tensors
<1>2. Tensors' /\ Kernel'
  <2>1. (crashed \in BOOLEAN)' /\ (capture \in BOOLEAN)'
    BY <1>1 DEF Graph
  <2> QED BY <1>1, <2>1, TensorsSame
<1>3. /\ Len(impl) \in Nat /\ Len(impl) + 1 \in Node /\ Impls \subseteq Node
      /\ \A n \in Impls : n < Len(impl) + 1
  BY <1>1, Nodes DEF Node, Impls
<1>4. PICK l \in Nat : l = Len(ins) /\ DOMAIN ins = 1 .. l
  OBVIOUS
<1>5. ins \in Seq(Node) /\ \A i \in 1 .. l : ins[i] \in Impls
  BY <1>3, <1>4
<1>6. PICK todo : todo = Each("realize", ins)
  OBVIOUS
<1>7. /\ todo \in Seq(Todo) /\ DOMAIN todo = 1 .. l
      /\ \A i \in 1 .. l : todo[i] = Entry("realize", ins[i])
  BY <1>4, <1>5, <1>6, EachIs
<1>8. \A i \in 1 .. l : todo[i].do = "realize" /\ todo[i].node = ins[i]
  BY <1>7, Entries
<1>9. PICK g : g = Frame(call, Len(impl) + 1, ins, todo)
  OBVIOUS
<1>10. /\ g \in FrameType /\ g.call = call /\ g.root = Len(impl) + 1
       /\ g.operands = ins /\ g.todo = todo
  <2>1. call \in Call
    BY DEF Call
  <2> QED BY <2>1, <1>3, <1>5, <1>7, <1>9, FrameIs
<1>11. FrameInv(g)
  BY <1>3, <1>4, <1>5, <1>7, <1>8, <1>10 DEF FrameInv, OperandInv
<1>12. Awaited(g, 0)
  BY <1>4, <1>7, <1>8, <1>10 DEF Awaited
<1>13. /\ stack' \in Seq(FrameType) /\ Len(stack') = 1 /\ DOMAIN stack' = {1} /\ stack'[1] = g
  BY <1>6, <1>9, <1>10 DEF Operation
<1>14. FrameInv(stack[1])' /\ Awaited(stack[1], 0)'
  <2>1. FrameInv(g)' /\ Awaited(g, 0)'
    BY <1>1, <1>11, <1>12, FrameSame
  <2> QED BY <2>1, <1>13, FrameNext
<1>15. Rooted(1)' /\ Callee(1)' = 0
  BY <1>1, <1>10, <1>13 DEF Rooted, Callee
<1>16. Awaited(stack[1], Callee(1))'
  BY <1>14, <1>15 DEF Awaited
<1>17. Frames'
  BY <1>1, <1>13, <1>14, <1>15, <1>16 DEF Frames
<1> QED BY <1>2, <1>17 DEF IInv

\* No call is in progress.
LEMMA FramesEmpty ==
  ASSUME stack' = <<>>
  PROVE  Frames'
<1>1. PICK empty \in Seq(FrameType) : empty = <<>>
  BY EmptySeq, Zenon
<1>2. DOMAIN stack' = {}
  OBVIOUS
<1>3. stack' \in Seq(FrameType)
  BY <1>1
<1> QED BY <1>2, <1>3 DEF Frames

\* The program's call is the only one that makes a tensor or reads data().
LEMMA OnlyCall ==
  ASSUME IInv, stack # <<>>, top.call \in {"compute", "data"}, Return
  PROVE  stack' = <<>>
<1>1. PICK l \in Nat : l = Len(stack) /\ l > 0
  BY TopFrame
<1>2. Rooted(l) /\ top = stack[l] /\ stack \in Seq(FrameType)
  BY <1>1, TopFrame DEF Frames
<1>3. l = 1
  BY <1>2 DEF Rooted
<1>4. stack' \in Seq(FrameType) /\ Len(stack') = 0
  BY <1>1, <1>2, <1>3, Popped DEF Return
<1> QED BY <1>4

\* A call that ends without a tensor.
LEMMA Ends ==
  ASSUME IInv, stack' = <<>>, UNCHANGED <<tensors, kernel>>,
         crashed' \in BOOLEAN, capture' \in BOOLEAN
  PROVE  IInv'
<1>1. Tensors /\ Kernel
  BY DEF IInv
<1>2. Tensors' /\ Kernel'
  BY <1>1, TensorsSame
<1> QED BY <1>2, FramesEmpty DEF IInv

LEMMA ResultShapeIs ==
  ASSUME Graph, NEW ins \in Seq(Impls), ins # <<>>
  PROVE  ResultShape(ins) \in Shape /\ \E i \in DOMAIN ins : ResultShape(ins) = impl[ins[i]].shape
<1> DEFINE shapes == {impl[ins[i]].shape : i \in DOMAIN ins}
<1>1. \A i \in DOMAIN ins : impl[ins[i]].shape \in Shape
  BY Nodes
<1>2. shapes \subseteq 1 .. 3 /\ shapes # {}
  <2>1. 1 \in DOMAIN ins
    OBVIOUS
  <2> QED BY <2>1, <1>1 DEF Shape
<1> HIDE DEF shapes
<1>3. \E s \in shapes : \A r \in shapes : r <= s
  <2>1. CASE 3 \in shapes
    BY <2>1, <1>2
  <2>2. CASE 3 \notin shapes /\ 2 \in shapes
    BY <2>2, <1>2
  <2>3. CASE 3 \notin shapes /\ 2 \notin shapes
    <3>1. \A r \in shapes : r = 1
      BY <2>3, <1>2
    <3>2. PICK s : s \in shapes
      BY <1>2
    <3>3. \A r \in shapes : r <= s
      BY <3>1, <3>2
    <3> QED BY <3>2, <3>3
  <2> QED BY <2>1, <2>2, <2>3
<1>4. ResultShape(ins) \in shapes
  <2>1. ResultShape(ins) = CHOOSE s \in shapes : \A r \in shapes : r <= s
    BY DEF ResultShape, shapes
  <2> QED BY <2>1, <1>3
<1> QED BY <1>1, <1>4 DEF shapes

\* A tensor is made.
LEMMA Made ==
  ASSUME Tensors, Kernel, kernel' = kernel, crashed' \in BOOLEAN, capture' \in BOOLEAN,
         NEW shape \in Shape, NEW storage \in Nat, NEW inputs \in Seq(Impls), NEW means,
         Makes(shape, storage, inputs, means),
         IsSequence(store)', Len(store) <= Len(store'), Len(store') \in Nat,
         \A i \in 1 .. Len(store) : store'[i] = store[i],
         storage <= Len(store'), storage = 0 <=> inputs # <<>>,
         inputs # <<>> => means = MeaningOf(inputs),
         inputs = <<>> => store'[storage] = means,
         inputs # <<>> /\ (\A i, j \in DOMAIN inputs : impl[inputs[i]].shape = impl[inputs[j]].shape) =>
           \A i \in DOMAIN inputs : Numel(impl[inputs[i]].shape) = Numel(shape)
  PROVE  Tensors' /\ Kernel'
<1>1. Graph /\ Meant /\ Sized /\ ValuesAsEager
  BY DEF Tensors
<1>2. PICK l \in Nat : l = Len(impl) /\ Impls = 1 .. l
  BY <1>1, Nodes DEF Impls
<1>3. PICK t : t = Impl(shape, storage, inputs)
  OBVIOUS
<1>4. t \in Tensor /\ t.shape = shape /\ t.storage = storage /\ t.inputs = inputs
  <2>1. inputs \in Seq(Node)
    <3>1. \A i \in DOMAIN inputs : inputs[i] \in Node
      BY <1>1, Nodes
    <3> QED BY <3>1, OfNodes
  <2> QED BY <2>1, <1>3 DEF Impl, Tensor
<1>5. /\ impl' \in Seq(Tensor) /\ Len(impl') = l + 1
      /\ \A x \in 1 .. l : impl'[x] = impl[x]
      /\ impl'[l + 1] = t
  <2>1. impl \in Seq(Tensor) /\ impl' = Append(impl, t)
    BY <1>1, <1>3 DEF Graph, Makes
  <2> QED BY <2>1, <1>2, <1>4, Extended
<1>6. /\ IsSequence(meaning)' /\ DOMAIN meaning' = 1 .. l + 1
      /\ \A x \in 1 .. l : meaning'[x] = meaning[x]
      /\ meaning'[l + 1] = means
  <2>1. IsSequence(meaning) /\ DOMAIN meaning = 1 .. l /\ meaning' = Append(meaning, means)
    BY <1>1, <1>2 DEF Graph, Makes
  <2>2. /\ IsSequence(Append(meaning, means))
        /\ Len(meaning) \in Nat /\ DOMAIN meaning = 1 .. Len(meaning)
        /\ DOMAIN Append(meaning, means) = 1 .. Len(meaning) + 1
        /\ \A i \in 1 .. Len(meaning) : Append(meaning, means)[i] = meaning[i]
        /\ Append(meaning, means)[Len(meaning) + 1] = means
    BY <2>1, Appended
  <2>3. Len(meaning) = l
    BY <2>1, <2>2
  <2> QED BY <2>1, <2>2, <2>3 DEF IsSequence
<1>7. Impls' = 1 .. l + 1 /\ \A x \in 1 .. l + 1 : x \in 1 .. l \/ x = l + 1
  BY <1>5 DEF Impls
<1>8. /\ \A x \in 1 .. l : Deferred(x)' <=> Deferred(x)
      /\ Deferred(l + 1)' <=> inputs # <<>>
  BY <1>4, <1>5 DEF Deferred
<1>9. /\ \A x \in 1 .. l : \A i \in DOMAIN impl[x].inputs :
           impl[x].inputs[i] < x /\ impl[x].inputs[i] \in 1 .. l
      /\ \A i \in DOMAIN inputs : inputs[i] \in 1 .. l
      /\ \A x \in 1 .. l : impl[x].storage \in Nat /\ impl[x].storage <= Len(store)
      /\ \A x \in 1 .. l : impl[x].storage = 0 <=> Deferred(x)
  <2>1. \A x \in Impls : \A i \in DOMAIN impl[x].inputs :
          impl[x].inputs[i] < x /\ impl[x].inputs[i] \in Impls
    BY <1>1, Nodes
  <2>2. \A i \in DOMAIN inputs : inputs[i] \in Impls
    OBVIOUS
  <2>3. \A x \in Impls : impl[x].storage \in Nat /\ impl[x].storage <= Len(store)
    BY <1>1, Nodes DEF Graph
  <2>4. \A x \in Impls : impl[x].storage = 0 <=> Deferred(x)
    BY <1>1 DEF Graph
  <2> QED BY <2>1, <2>2, <2>3, <2>4, <1>2
<1>10. IsSequence(store) /\ Len(store) \in Nat
  <2>1. IsSequence(store)
    BY <1>1 DEF Graph
  <2>2. PICK S : store \in Seq(S)
    BY <2>1 DEF IsSequence
  <2> QED BY <2>1, <2>2
<1>11. Graph'
  <2>1. ASSUME NEW x \in 1 .. l + 1
        PROVE  /\ impl'[x].storage <= Len(store')
               /\ \A i \in DOMAIN impl'[x].inputs : impl'[x].inputs[i] < x
               /\ impl'[x].storage = 0 <=> Deferred(x)'
    <3>1. CASE x = l + 1
      BY <3>1, <1>4, <1>5, <1>8, <1>9
    <3>2. CASE x \in 1 .. l
      <4>1. impl'[x] = impl[x] /\ (Deferred(x)' <=> Deferred(x))
        BY <3>2, <1>5, <1>8
      <4>2. /\ impl[x].storage \in Nat /\ impl[x].storage <= Len(store)
            /\ impl[x].storage = 0 <=> Deferred(x)
            /\ \A i \in DOMAIN impl[x].inputs : impl[x].inputs[i] < x
        BY <3>2, <1>9
      <4> QED BY <4>1, <4>2, <1>10
    <3> QED BY <3>1, <3>2, <1>7
  <2> QED BY <2>1, <1>5, <1>6, <1>7 DEF Graph
<1>12. Meant'
  <2>1. ASSUME NEW x \in 1 .. l, Deferred(x)' PROVE meaning'[x] = MeaningOf(impl[x].inputs)'
    <3>1. PICK ins : ins = impl[x].inputs /\ ins = impl'[x].inputs
      BY <2>1, <1>5
    <3>2. meaning[x] = Applied([i \in DOMAIN ins |-> meaning[ins[i]]])
      BY <2>1, <3>1, <1>1, <1>2, <1>8 DEF Meant, MeaningOf
    <3>3. [i \in DOMAIN ins |-> meaning[ins[i]]] = [i \in DOMAIN ins |-> meaning'[ins[i]]]
      BY <3>1, <1>6, <1>9
    <3> QED BY <3>1, <3>2, <3>3, <1>6 DEF MeaningOf, Applied
  <2>2. ASSUME Deferred(l + 1)' PROVE meaning'[l + 1] = MeaningOf(impl[l + 1].inputs)'
    <3>1. means = Applied([i \in DOMAIN inputs |-> meaning[inputs[i]]])
      BY <2>2, <1>8 DEF MeaningOf
    <3>2. [i \in DOMAIN inputs |-> meaning[inputs[i]]] = [i \in DOMAIN inputs |-> meaning'[inputs[i]]]
      BY <1>6, <1>9
    <3> QED BY <3>1, <3>2, <1>4, <1>5, <1>6 DEF MeaningOf, Applied
  <2> QED BY <2>1, <2>2, <1>7 DEF Meant
<1>13. Sized'
  <2>1. ASSUME NEW x \in 1 .. l, Deferred(x)', Fusible(x)', NEW i \in DOMAIN impl'[x].inputs
        PROVE  Numel(impl'[impl'[x].inputs[i]].shape) = Numel(impl'[x].shape)
    <3>1. Deferred(x) /\ impl'[x] = impl[x] /\ i \in DOMAIN impl[x].inputs
      BY <2>1, <1>5, <1>8
    <3>2. Fusible(x)
      <4>1. PICK ins : ins = impl[x].inputs /\ ins = impl'[x].inputs
        BY <3>1
      <4>2. \A j, k \in DOMAIN ins : impl'[ins[j]].shape = impl'[ins[k]].shape
        BY <4>1, <2>1 DEF Fusible
      <4>3. \A j \in DOMAIN ins : impl'[ins[j]] = impl[ins[j]]
        BY <4>1, <1>5, <1>9
      <4>4. \A j, k \in DOMAIN ins : impl[ins[j]].shape = impl[ins[k]].shape
        BY <4>2, <4>3
      <4> QED BY <4>1, <4>4 DEF Fusible
    <3>3. Numel(impl[impl[x].inputs[i]].shape) = Numel(impl[x].shape)
      BY <3>1, <3>2, <1>1, <1>2 DEF Sized
    <3> QED BY <3>1, <3>3, <1>5, <1>9
  <2>2. ASSUME Deferred(l + 1)', Fusible(l + 1)', NEW i \in DOMAIN impl'[l + 1].inputs
        PROVE  Numel(impl'[impl'[l + 1].inputs[i]].shape) = Numel(impl'[l + 1].shape)
    <3>1. \A j, k \in DOMAIN inputs : impl[inputs[j]].shape = impl[inputs[k]].shape
      <4>0. inputs = impl'[l + 1].inputs
        BY <1>4, <1>5
      <4>1. \A j, k \in DOMAIN inputs : impl'[inputs[j]].shape = impl'[inputs[k]].shape
        BY <4>0, <2>2 DEF Fusible
      <4>2. \A j \in DOMAIN inputs : impl'[inputs[j]] = impl[inputs[j]]
        BY <1>5, <1>9
      <4> QED BY <4>1, <4>2
    <3>2. Numel(impl[inputs[i]].shape) = Numel(shape)
      BY <2>2, <3>1, <1>4, <1>5, <1>8
    <3> QED BY <2>2, <3>2, <1>4, <1>5, <1>9
  <2> QED BY <2>1, <2>2, <1>7 DEF Sized, Numel
<1>14. ValuesAsEager'
  <2>1. ASSUME NEW x \in 1 .. l, ~Deferred(x)' PROVE Contents(x)' = meaning'[x]
    <3>1. ~Deferred(x) /\ impl'[x] = impl[x]
      BY <2>1, <1>5, <1>8
    <3>2. Contents(x) = meaning[x] /\ impl[x].storage \in 1 .. Len(store)
      BY <3>1, <1>1, <1>2, <1>9, <1>10 DEF ValuesAsEager
    <3> QED BY <3>1, <3>2, <1>6 DEF Contents
  <2>2. ASSUME ~Deferred(l + 1)' PROVE Contents(l + 1)' = meaning'[l + 1]
    BY <2>2, <1>4, <1>5, <1>6, <1>8 DEF Contents
  <2> QED BY <2>1, <2>2, <1>7 DEF ValuesAsEager
<1>15. Kernel'
  <2>1. Impls \subseteq Impls' /\ \A x \in Impls : impl'[x].shape = impl[x].shape
    <3>1. \A x \in 1 .. l : x \in 1 .. l + 1 /\ impl'[x] = impl[x]
      BY <1>2, <1>5
    <3> QED BY <3>1, <1>2, <1>7
  <2> QED BY <2>1, KernelKept
<1> QED BY <1>11, <1>12, <1>13, <1>14, <1>15 DEF Tensors

LEMMA OperandsAre == \A ins \in Operands : ins \in Seq(Impls) /\ ins # <<>>
<1> SUFFICES ASSUME NEW ins \in Operands PROVE ins \in Seq(Impls) /\ ins # <<>>
  OBVIOUS
<1>1. (\E a \in Impls : ins = <<a>>) \/ (\E a, b \in Impls : ins = <<a, b>>)
  BY DEF Operands
<1>2. CASE \E a \in Impls : ins = <<a>>
  BY <1>2
<1>3. CASE \E a, b \in Impls : ins = <<a, b>>
  BY <1>3
<1> QED BY <1>1, <1>2, <1>3

LEMMA RecordIInv ==
  ASSUME IInv, NEW ins \in Operands, Record(ins)
  PROVE  IInv'
<1>1. /\ stack = <<>> /\ Makes(ResultShape(ins), 0, ins, MeaningOf(ins))
      /\ UNCHANGED <<store, kernel, stack, crashed, capture>>
  BY DEF Record, Resting
<1>2. Tensors /\ Kernel /\ Graph
  BY DEF IInv, Tensors
<1>3. ins \in Seq(Impls) /\ ins # <<>>
  BY OperandsAre
<1>4. PICK shape, means : shape = ResultShape(ins) /\ means = MeaningOf(ins)
  OBVIOUS
<1>5. shape \in Shape /\ \E i \in DOMAIN ins : shape = impl[ins[i]].shape
  BY <1>2, <1>3, <1>4, ResultShapeIs
<1>6. (\A i, j \in DOMAIN ins : impl[ins[i]].shape = impl[ins[j]].shape) =>
        \A i \in DOMAIN ins : Numel(impl[ins[i]].shape) = Numel(shape)
  BY <1>5
<1>7. IsSequence(store) /\ crashed \in BOOLEAN /\ capture \in BOOLEAN
  BY <1>2 DEF Graph
<1>8. IsSequence(store)' /\ Len(store) \in Nat /\ store' = store
  <2>1. PICK S : store \in Seq(S)
    BY <1>7 DEF IsSequence
  <2> QED BY <2>1, <1>1, <1>7 DEF IsSequence
<1>9. Makes(shape, 0, ins, means) /\ 0 \in Nat /\ 0 <= Len(store')
  BY <1>1, <1>4, <1>8
<1>10. crashed' \in BOOLEAN /\ capture' \in BOOLEAN /\ kernel' = kernel
  BY <1>1, <1>7
<1>11. Tensors' /\ Kernel'
  BY <1>2, <1>3, <1>4, <1>5, <1>6, <1>8, <1>9, <1>10, Made
<1> QED BY <1>1, <1>11, FramesEmpty DEF IInv

LEMMA ComputedIInv ==
  ASSUME IInv, Computed
  PROVE  IInv'
<1>1. PICK ins : ins = top.operands
  OBVIOUS
<1>2. /\ stack # <<>> /\ top.todo = <<>> /\ top.call = "compute" /\ Return
      /\ Makes(ResultShape(ins), Len(store) + 1, <<>>, MeaningOf(ins))
      /\ store' = Append(store, Applied(ContentsOf(ins)))
      /\ UNCHANGED <<kernel, crashed, capture>>
  BY <1>1 DEF Computed, Ready
<1>3. Tensors /\ Kernel /\ Graph /\ ValuesAsEager
  BY DEF IInv, Tensors
<1>4. Frames'
  BY <1>2, OnlyCall, FramesEmpty
<1>5. ins \in Seq(Impls) /\ ins # <<>> /\ \A i \in DOMAIN ins : ins[i] \in Impls /\ ~Deferred(ins[i])
  <2>1. top \in FrameType /\ OperandInv(top) /\ Rooted(Len(stack))
    BY <1>2, TopFrame DEF FrameInv
  <2>2. ins \in Seq(Node) /\ ins # <<>> /\ \A i \in DOMAIN ins : ins[i] < top.root
    BY <2>1, <1>1, FrameFields DEF OperandInv
  <2>3. top.root = Len(impl) + 1 /\ Len(impl) \in Nat
    BY <2>1, <1>2, <1>3, Nodes, TopFrame DEF Rooted
  <2>4. \A i \in DOMAIN ins : ins[i] \in Impls
    BY <2>2, <2>3 DEF Node, Impls
  <2>5. DOMAIN top.todo = {}
    BY <1>2
  <2>6. \A i \in DOMAIN ins : ~Deferred(ins[i])
    BY <2>5, <1>1, <1>2, Arrived
  <2> QED BY <2>2, <2>4, <2>6, OfNodes
<1>6. Applied(ContentsOf(ins)) = MeaningOf(ins)
  <2>1. [i \in DOMAIN ins |-> Contents(ins[i])] = [i \in DOMAIN ins |-> meaning[ins[i]]]
    BY <1>3, <1>5 DEF ValuesAsEager
  <2> QED BY <2>1 DEF ContentsOf, MeaningOf
<1>7. PICK shape, means : shape = ResultShape(ins) /\ means = MeaningOf(ins)
  OBVIOUS
<1>8. shape \in Shape
  BY <1>3, <1>5, <1>7, ResultShapeIs
<1>9. IsSequence(store) /\ crashed \in BOOLEAN /\ capture \in BOOLEAN
  BY <1>3 DEF Graph
<1>10. PICK s : s = Append(store, means)
  OBVIOUS
<1>11. /\ IsSequence(s) /\ Len(store) \in Nat /\ Len(s) = Len(store) + 1
       /\ \A i \in 1 .. Len(store) : s[i] = store[i]
       /\ s[Len(store) + 1] = means
  BY <1>9, <1>10, Appended
<1>12. store' = s
  BY <1>2, <1>6, <1>7, <1>10
<1>13. IsSequence(store)'
  BY <1>11, <1>12 DEF IsSequence
<1>14. PICK empty \in Seq(Impls) : empty = <<>>
  BY EmptySeq, Zenon
<1>15. PICK storage \in Nat : storage = Len(store) + 1
  BY <1>11
<1>16. Makes(shape, storage, empty, means) /\ ~(empty # <<>>) /\ storage # 0
  BY <1>2, <1>7, <1>11, <1>14, <1>15
<1>17. /\ Len(store) <= Len(store') /\ Len(store') \in Nat /\ storage <= Len(store')
       /\ \A i \in 1 .. Len(store) : store'[i] = store[i]
       /\ store'[storage] = means
  BY <1>11, <1>12, <1>15
<1>18. crashed' \in BOOLEAN /\ capture' \in BOOLEAN /\ kernel' = kernel
  BY <1>2, <1>9
<1>19. Tensors' /\ Kernel'
  BY <1>3, <1>8, <1>13, <1>16, <1>17, <1>18, Made
<1> QED BY <1>4, <1>19 DEF IInv

LEMMA ViewIInv ==
  ASSUME IInv, NEW n \in Impls, NEW shape \in Shape, View(n, shape)
  PROVE  IInv'
<1>1. /\ stack = <<>> /\ Numel(shape) = Numel(impl[n].shape)
      /\ Makes(shape, impl[n].storage, impl[n].inputs, meaning[n])
      /\ UNCHANGED <<store, kernel, stack, crashed, capture>>
  BY DEF View, Resting
<1>2. Tensors /\ Kernel /\ Graph /\ Meant /\ Sized /\ ValuesAsEager
  BY DEF IInv, Tensors
<1>3. PICK storage, inputs, means :
        storage = impl[n].storage /\ inputs = impl[n].inputs /\ means = meaning[n]
  OBVIOUS
<1>4. /\ storage \in Nat /\ storage <= Len(store)
      /\ storage = 0 <=> inputs # <<>>
      /\ inputs # <<>> <=> Deferred(n)
  BY <1>2, <1>3, Nodes DEF Graph, Deferred
<1>5. inputs \in Seq(Impls)
  <2>1. inputs \in Seq(Node) /\ \A i \in DOMAIN inputs : inputs[i] \in Impls
    BY <1>2, <1>3, Nodes
  <2> QED BY <2>1, OfNodes
<1>6. inputs # <<>> => means = MeaningOf(inputs)
  BY <1>2, <1>3, <1>4 DEF Meant
<1>7. inputs = <<>> => store[storage] = means
  BY <1>2, <1>3, <1>4 DEF ValuesAsEager, Contents
<1>8. inputs # <<>> /\ (\A i, j \in DOMAIN inputs : impl[inputs[i]].shape = impl[inputs[j]].shape) =>
        \A i \in DOMAIN inputs : Numel(impl[inputs[i]].shape) = Numel(shape)
  <2>1. ASSUME inputs # <<>>, \A i, j \in DOMAIN inputs : impl[inputs[i]].shape = impl[inputs[j]].shape
        PROVE  \A i \in DOMAIN inputs : Numel(impl[inputs[i]].shape) = Numel(shape)
    <3>1. Deferred(n) /\ Fusible(n)
      BY <2>1, <1>3, <1>4 DEF Fusible
    <3> QED BY <3>1, <1>1, <1>2, <1>3 DEF Sized
  <2> QED BY <2>1
<1>9. IsSequence(store) /\ crashed \in BOOLEAN /\ capture \in BOOLEAN
  BY <1>2 DEF Graph
<1>10. IsSequence(store)' /\ Len(store) \in Nat /\ store' = store
  <2>1. PICK S : store \in Seq(S)
    BY <1>9 DEF IsSequence
  <2> QED BY <2>1, <1>1, <1>9 DEF IsSequence
<1>11. Makes(shape, storage, inputs, means)
  BY <1>1, <1>3
<1>12. crashed' \in BOOLEAN /\ capture' \in BOOLEAN /\ kernel' = kernel
  BY <1>1, <1>9
<1>13. Tensors' /\ Kernel'
  BY <1>2, <1>4, <1>5, <1>6, <1>7, <1>8, <1>10, <1>11, <1>12, Made
<1> QED BY <1>1, <1>13, FramesEmpty DEF IInv

\* A step that changes nothing.
LEMMA StutterIInv ==
  ASSUME IInv, UNCHANGED vars
  PROVE  IInv'
<1>1. /\ UNCHANGED <<tensors, kernel, crashed, capture>> /\ stack' = stack /\ impl' = impl
      /\ crashed' = crashed /\ capture' = capture
  BY DEF vars, tensors
<1>2. Tensors /\ Kernel /\ Frames /\ crashed \in BOOLEAN /\ capture \in BOOLEAN
  BY DEF IInv, Tensors, Graph
<1>3. Tensors' /\ Kernel'
  BY <1>1, <1>2, TensorsSame
<1>4. ASSUME NEW i \in DOMAIN stack
      PROVE  Rooted(i)' /\ FrameInv(stack[i])' /\ Awaited(stack[i], Callee(i))'
  <2>1. PICK f, x : f = stack[i] /\ x = Callee(i) /\ f = stack'[i] /\ x = Callee(i)'
    BY <1>1 DEF Callee
  <2>2. Rooted(i) /\ FrameInv(f) /\ Awaited(f, x)
    BY <2>1, <1>2 DEF Frames
  <2>3. FrameInv(f)' /\ Awaited(f, x)'
    BY <2>2, <1>1, FrameSame
  <2>4. FrameInv(stack[i])' /\ Awaited(stack[i], x)'
    BY <2>1, <2>3, FrameNext
  <2>5. Rooted(i)'
    BY <2>2, <1>1 DEF Rooted, Impls, Deferred
  <2> QED BY <2>1, <2>4, <2>5 DEF Awaited
<1>5. Frames'
  BY <1>1, <1>2, <1>4 DEF Frames
<1> QED BY <1>3, <1>5 DEF IInv

LEMMA InitIInv == Init => IInv
<1> SUFFICES ASSUME Init PROVE IInv
  OBVIOUS
<1>1. PICK l \in Nat : l = Len(Leaves) /\ DOMAIN Leaves = 1 .. l
  BY LeavesAssumption
<1>2. \A n \in 1 .. l : Leaves[n] \in Shape
  BY <1>1, LeavesAssumption
<1>3. PICK empty \in Seq(Node) : empty = <<>>
  BY EmptySeq, Zenon
<1>4. /\ DOMAIN impl = 1 .. l /\ DOMAIN store = 1 .. l /\ DOMAIN meaning = 1 .. l
      /\ \A n \in 1 .. l : /\ impl[n] = [shape |-> Leaves[n], storage |-> n, inputs |-> empty]
                           /\ store[n] = Leaf(n) /\ meaning[n] = Leaf(n)
      /\ stack = <<>> /\ crashed = FALSE /\ capture = FALSE
      /\ kernel = [inputs |-> <<>>, order |-> <<>>, args |-> <<>>]
  BY <1>1, <1>3 DEF Init, Impl
<1>5. \A n \in 1 .. l : impl[n] \in Tensor
  BY <1>2, <1>4 DEF Tensor
<1>6. impl \in Seq(Tensor) /\ Len(impl) = l /\ Impls = 1 .. l
  <2>1. impl = [n \in 1 .. l |-> impl[n]]
    BY <1>1 DEF Init
  <2>2. impl \in [1 .. l -> Tensor]
    BY <2>1, <1>5
  <2>3. impl \in Seq(Tensor) /\ Len(impl) = l
    BY <2>2
  <2> QED BY <2>3 DEF Impls
<1>7. IsSequence(store) /\ Len(store) = l
  <2>1. store = [n \in 1 .. l |-> store[n]]
    BY <1>1 DEF Init
  <2>2. PICK S : S = {store[i] : i \in DOMAIN store}
    OBVIOUS
  <2>3. store \in [1 .. l -> S]
    BY <2>1, <2>2
  <2>4. store \in Seq(S) /\ Len(store) = l
    BY <2>3
  <2> QED BY <2>2, <2>4 DEF IsSequence
<1>8. IsSequence(meaning)
  <2>1. meaning = [n \in 1 .. l |-> meaning[n]]
    BY <1>1 DEF Init
  <2>2. PICK S : S = {meaning[i] : i \in DOMAIN meaning}
    OBVIOUS
  <2>3. meaning \in [1 .. l -> S]
    BY <2>1, <2>2
  <2>4. meaning \in Seq(S)
    BY <2>3
  <2> QED BY <2>2, <2>4 DEF IsSequence
<1>9. \A n \in Impls : ~Deferred(n) /\ impl[n].inputs = <<>> /\ impl[n].storage = n
  BY <1>3, <1>4, <1>6 DEF Deferred
<1>10. Graph
  <2>1. \A n \in Impls : /\ impl[n].storage <= Len(store)
                         /\ \A i \in DOMAIN impl[n].inputs : impl[n].inputs[i] < n
                         /\ impl[n].storage = 0 <=> Deferred(n)
    <3>1. \A n \in 1 .. l : n <= l /\ n # 0
      OBVIOUS
    <3> QED BY <3>1, <1>6, <1>7, <1>9
  <2> QED BY <2>1, <1>4, <1>6, <1>7, <1>8 DEF Graph
<1>11. Meant /\ Sized
  BY <1>9 DEF Meant, Sized
<1>12. ValuesAsEager
  BY <1>4, <1>6, <1>9 DEF ValuesAsEager, Contents
<1>13. Kernel
  <2>1. PICK none \in Seq(Impls) : none = <<>>
    BY EmptySeq, Zenon
  <2>2. kernel.inputs = none /\ kernel.order = none /\ none = <<>>
    BY <2>1, <1>4
  <2>3. KernelTyped
    BY <2>2 DEF KernelTyped
  <2> QED BY <2>2, <2>3 DEF Kernel, KernelEven, KernelWellFormed
<1>14. Frames
  <2>1. PICK none \in Seq(FrameType) : none = <<>>
    BY EmptySeq, Zenon
  <2>2. DOMAIN stack = {} /\ stack \in Seq(FrameType)
    BY <2>1, <1>4
  <2> QED BY <2>2, <1>4 DEF Frames
<1> QED BY <1>10, <1>11, <1>12, <1>13, <1>14 DEF IInv, Tensors

-----------------------------------------------------------------------------
(* The specification.                                                      *)

\* The initial states satisfy the invariant, and every step keeps it: each step
\* of a realization, its failure or its crash, and each call of the program.
THEOREM NextIInv == IInv /\ [Next]_vars => IInv'
<1> SUFFICES ASSUME IInv, [Next]_vars PROVE IInv'
  OBVIOUS
<1>0. crashed \in BOOLEAN /\ capture \in BOOLEAN
  BY DEF IInv, Tensors, Graph
<1>1. CASE UNCHANGED vars
  BY <1>1, StutterIInv
<1>2. ASSUME NEW enable \in BOOLEAN, SetCaptureEnabled(enable) PROVE IInv'
  BY <1>0, <1>2, Ends DEF SetCaptureEnabled, Resting
<1>3. ASSUME NEW ins \in Operands, Record(ins) PROVE IInv'
  BY <1>3, RecordIInv
<1>4. ASSUME NEW ins \in Operands, Compute(ins) PROVE IInv'
  <2>1. ins \in Seq(Impls) /\ ins # <<>>
    BY OperandsAre
  <2> QED BY <1>4, <2>1, Starts DEF Compute
<1>5. ASSUME NEW n \in Impls, NEW s \in Shape, View(n, s) PROVE IInv'
  BY <1>5, ViewIInv
<1>6. ASSUME NEW n \in Impls, Data(n) PROVE IInv'
  <2>1. PICK ins : ins = <<n>>
    OBVIOUS
  <2>2. ins \in Seq(Impls) /\ ins # <<>>
    BY <2>1
  <2> QED BY <1>6, <2>1, <2>2, Starts DEF Data
<1>7. ASSUME NEW n \in Impls,
             VisitSeen(n) \/ VisitOperation(n) \/ VisitInput(n) \/ Emit(n) \/ RealizeOperand(n)
      PROVE  IInv'
  BY <1>7, VisitSeenIInv, VisitOperationIInv, VisitInputIInv, EmitIInv, RealizeOperandIInv
<1>8. CASE DereferenceNull
  BY <1>0, <1>8, Ends DEF DereferenceNull
<1>9. CASE CompileFails
  BY <1>0, <1>9, Ends DEF CompileFails
<1>10. CASE RunFused
  BY <1>10, RunFusedIInv
<1>11. CASE RunEager
  BY <1>11, RunEagerIInv
<1>12. CASE Computed
  BY <1>12, ComputedIInv
<1>13. CASE DataReturns
  <2>1. stack' = <<>>
    BY <1>13, OnlyCall DEF DataReturns, Ready
  <2> QED BY <1>0, <1>13, <2>1, Ends DEF DataReturns
<1>14. CASE Crashed
  BY <1>14, StutterIInv DEF Crashed
<1> QED BY <1>1, <1>2, <1>3, <1>4, <1>5, <1>6, <1>7, <1>8, <1>9, <1>10, <1>11, <1>12, <1>13, <1>14
        DEF Next, Creates, Realizes

\* The inductive invariant holds in every reachable state.
THEOREM SpecIInv == Spec => []IInv
BY InitIInv, NextIInv, PTL DEF Spec

\* Tensors have their types, pending operations are on older tensors, and a call
\* waits for pending tensors only.
THEOREM SpecTypeOK == Spec => []TypeOK
<1>1. IInv => TypeOK
  <2> SUFFICES ASSUME IInv PROVE TypeOK
    OBVIOUS
  <2>1. Graph /\ Frames
    BY DEF IInv, Tensors
  <2>2. impl \in Seq([shape : Shape, storage : 0 .. Len(store), inputs : Seq(Nat)])
    <3>1. Len(store) \in Nat
      <4>1. PICK S : store \in Seq(S)
        BY <2>1 DEF Graph, IsSequence
      <4> QED BY <4>1
    <3>2. ASSUME NEW n \in Impls
          PROVE  impl[n] \in [shape : Shape, storage : 0 .. Len(store), inputs : Seq(Nat)]
      <4>1. impl[n] \in Tensor /\ impl[n].storage \in 0 .. Len(store) /\ impl[n].inputs \in Seq(Node)
        BY <2>1, <3>1, Nodes DEF Graph
      <4>2. \A i \in DOMAIN impl[n].inputs : impl[n].inputs[i] \in Nat
        BY <4>1 DEF Node
      <4>3. impl[n].inputs \in Seq(Nat)
        BY <4>1, <4>2, OfNodes
      <4> QED BY <4>1, <4>3 DEF Tensor
    <3>3. impl \in Seq(Tensor) /\ DOMAIN impl = Impls
      BY <2>1, Nodes DEF Graph
    <3> QED BY <3>2, <3>3, OfNodes
  <2>3. \A n \in Impls : /\ \A i \in DOMAIN impl[n].inputs : impl[n].inputs[i] \in 1 .. n - 1
                         /\ impl[n].storage = 0 <=> Deferred(n)
    <3>1. \A n \in Impls : \A i \in DOMAIN impl[n].inputs :
            impl[n].inputs[i] \in Node /\ impl[n].inputs[i] < n /\ n \in Node
      BY <2>1, Nodes
    <3>2. \A x, y \in Node : x < y => x \in 1 .. y - 1
      BY DEF Node
    <3> QED BY <2>1, <3>1, <3>2 DEF Graph
  <2>4. \A i \in 2 .. Len(stack) : Deferred(stack[i].root) /\ stack[i].root < stack[i - 1].root
    <3>1. \A i \in 2 .. Len(stack) : i \in DOMAIN stack /\ i # 1
      <4>1. stack \in Seq(FrameType)
        BY <2>1 DEF Frames
      <4> QED BY <4>1
    <3> QED BY <2>1, <3>1 DEF Frames, Rooted
  <2> QED BY <2>1, <2>2, <2>3, <2>4 DEF TypeOK, Graph
<1> QED BY <1>1, SpecIInv, PTL

\* Fusion is transparent: a tensor that is realized holds what it would have held
\* had every operation been run at once.
THEOREM SpecValuesAsEager == Spec => []ValuesAsEager
<1>1. IInv => ValuesAsEager
  BY DEF IInv, Tensors
<1> QED BY <1>1, SpecIInv, PTL

\* What a call has been waiting for has memory when it goes on.
LEMMA FramesReadMemory == IInv => ReadsMemory
<1> SUFFICES ASSUME IInv, stack # <<>>, top.todo = <<>>,
                    NEW read, read = IF top.call = "fused" THEN top.inputs ELSE top.operands
             PROVE  \A i \in DOMAIN read : impl[read[i]].storage # 0
  BY DEF ReadsMemory
<1>1. DOMAIN top.todo = {}
  OBVIOUS
<1>2. \A i \in DOMAIN read : ~Deferred(read[i])
  BY <1>1, Arrived
<1>3. \A i \in DOMAIN read : read[i] \in Impls
  <2>1. /\ top \in FrameType /\ FrameInv(top) /\ Rooted(Len(stack)) /\ Graph
        /\ stack[Len(stack)] = top
    BY TopFrame
  <2>2. Len(impl) \in Nat
    BY <2>1, Nodes
  <2>3. CASE top.call = "fused"
    <3>1. FusedInv(top) /\ top.root \in Impls
      BY <2>1, <2>3 DEF FrameInv, Rooted
    <3> QED BY <3>1, <2>1, <2>2, <2>3, FrameNodes
  <2>4. CASE top.call # "fused"
    <3>1. \A i \in DOMAIN read : read[i] \in Node /\ read[i] < top.root /\ top.root \in Node
      BY <2>1, <2>4, FrameFields DEF FrameInv, OperandInv
    <3>2. top.root <= Len(impl) + 1
      BY <2>1, <2>2 DEF Rooted, Impls
    <3> QED BY <3>1, <3>2, <2>2 DEF Node, Impls
  <2> QED BY <2>3, <2>4
<1>4. Graph
  BY DEF IInv, Tensors
<1> QED BY <1>2, <1>3, <1>4 DEF Graph

\* A kernel, or the caller of data(), reads memory that is there, and no thread of a
\* fused kernel reads past the end of an input.
THEOREM SpecKernelInBounds == Spec => []KernelInBounds
<1>1. IInv => KernelInBounds
  BY FramesReadMemory DEF KernelInBounds, IInv, Kernel
<1> QED BY <1>1, SpecIInv, PTL

\* A fused kernel computes every operation once, after what it is on.
THEOREM SpecKernelWellFormed == Spec => []KernelWellFormed
<1>1. IInv => KernelWellFormed
  BY DEF IInv, Kernel
<1> QED BY <1>1, SpecIInv, PTL

\* A tensor that is realized keeps its memory, and is not deferred again.
THEOREM SpecStoragePermanent == Spec => StoragePermanent
<1> DEFINE Permanent == \A n \in Impls : ~Deferred(n) => impl'[n] = impl[n]
<1>1. IInv /\ [Next]_vars => [Permanent]_vars
  <2> SUFFICES ASSUME IInv, Next PROVE Permanent
    OBVIOUS
  <2>0. Graph /\ Len(impl) \in Nat /\ impl \in Seq(Tensor)
    BY Nodes DEF IInv, Tensors, Graph
  <2>1. CASE UNCHANGED impl
    BY <2>1
  <2>2. ASSUME NEW v, SetRealized(top.root, v), stack # <<>>, top.call \in {"fused", "eager"}
        PROVE  Permanent
    <3>1. top.root \in Impls /\ Deferred(top.root)
      BY <2>2, TopFrame DEF Rooted
    <3> QED BY <2>0, <2>2, <3>1, FilledIs
  <2>3. ASSUME NEW shape, NEW storage, NEW inputs, NEW means, Makes(shape, storage, inputs, means)
        PROVE  Permanent
    BY <2>0, <2>3 DEF Makes, Impls
  <2>4. CASE RunFused
    BY <2>2, <2>4 DEF RunFused, Ready
  <2>5. CASE RunEager
    BY <2>2, <2>5 DEF RunEager, Ready
  <2>6. CASE Computed
    BY <2>3, <2>6 DEF Computed
  <2>7. CASE \E ins \in Operands : Record(ins)
    BY <2>3, <2>7 DEF Record
  <2>8. CASE \E n \in Impls, s \in Shape : View(n, s)
    BY <2>3, <2>8 DEF View
  <2>9. CASE \/ \E enable \in BOOLEAN : SetCaptureEnabled(enable)
             \/ \E ins \in Operands : Compute(ins)
             \/ \E n \in Impls : Data(n)
             \/ \E n \in Impls :
                  VisitSeen(n) \/ VisitOperation(n) \/ VisitInput(n) \/ Emit(n) \/ RealizeOperand(n)
             \/ DereferenceNull \/ CompileFails \/ DataReturns \/ Crashed
    BY <2>1, <2>9 DEF SetCaptureEnabled, Compute, Data, VisitSeen, VisitOperation, VisitInput, Emit,
                      RealizeOperand, DereferenceNull, CompileFails, DataReturns, Crashed, tensors, vars
  <2> QED BY <2>4, <2>5, <2>6, <2>7, <2>8, <2>9 DEF Next, Creates, Realizes
<1> QED BY <1>1, SpecIInv, PTL DEF Spec, StoragePermanent
=============================================================================
