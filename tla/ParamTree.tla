------------------------------- MODULE ParamTree -------------------------------
(***************************************************************************)
(* The parameters of a tree of Python modules (src/rushlite/nets/Module.py)*)
(* and the loop that trains them (README.md): attribute assignment keeps   *)
(* Variables and modules in _params_dict and everything else in __dict__,  *)
(* named_parameters walks the tree, and params[path] = value replaces a    *)
(* Variable while the walk goes on.                                        *)
(*                                                                         *)
(* One thread.  A path is the sequence of the names between its dots; no   *)
(* name has a dot in it.  Data is counted in gradients: what is subtracted *)
(* from a Variable is the gradient the passes so far left in it.           *)
(***************************************************************************)
EXTENDS Naturals, Sequences, FiniteSets
LOCAL INSTANCE SequencesExt
LOCAL INSTANCE FiniteSetsExt

CONSTANTS
  Module,
  Root,           \* the module that is trained
  Name,           \* attribute names
  MaxVariables,   \* bound: Variables that are parameters at a time
  MaxPasses,      \* bound: backward passes
  None

Variable == 1 .. MaxVariables

ASSUME RootAssumption == Root \in Module
ASSUME BoundsAssumption == {MaxVariables, MaxPasses} \subseteq Nat
ASSUME NoneAssumption == None \notin Module \cup Variable

VARIABLES
  params,         \* params[m]: m._params_dict in the order of insertion, None before there is one
  plain,          \* plain[m]: the names in m.__dict__
  heap,           \* the Variables
  loop,           \* the training loop: parameters it has stepped, or None
  due,            \* what each parameter has to be after the loop
  passes

vars == <<params, plain, heap, loop, due, passes>>

Entry(name, value) == [name |-> name, value |-> value]
Var(data, requires_grad) == [data |-> data, grad |-> 0, requires_grad |-> requires_grad]

Init ==
  /\ params = [m \in Module |-> None]
  /\ plain = [m \in Module |-> {}]
  /\ heap = [v \in Variable |-> Var(0, FALSE)]
  /\ loop = None
  /\ due = <<>>
  /\ passes = 0

-----------------------------------------------------------------------------
(* _params_dict                                                            *)

Ready(m) == params[m] # None
Keys(m) == {params[m][i].name : i \in DOMAIN params[m]}
Find(m, name) == CHOOSE i \in DOMAIN params[m] : params[m][i].name = name

\* params.get(name).
Get(m, name) == IF name \in Keys(m) THEN params[m][Find(m, name)].value ELSE None

\* Mistake: a name that is there moves to the end.
StoredLast(m, name, value) ==
  Append(SelectSeq(params[m], LAMBDA e : e.name # name), Entry(name, value))

\* Mistake: a name that is there already is added once more.
StoredAgain(m, name, value) == Append(params[m], Entry(name, value))

\* params[name] = value: a name that is there keeps its place.
Stored(m, name, value) ==
  IF name \in Keys(m) THEN [params[m] EXCEPT ![Find(m, name)].value = value]
  ELSE Append(params[m], Entry(name, value))

Without(m, name) == SelectSeq(params[m], LAMBDA e : e.name # name)

Children(m) == IF Ready(m) THEN {params[m][i].value : i \in DOMAIN params[m]} \cap Module ELSE {}

RECURSIVE Subtree(_)
Subtree(m) == {m} \cup UNION {Subtree(c) : c \in Children(m)}

\* The Variables some module holds; the others are free to be made again.
Held == UNION {{params[m][i].value : i \in DOMAIN params[m]} : m \in {n \in Module : Ready(n)}} \cap Variable
Unused == Variable \ Held
New == Min(Unused)

RECURSIVE Walk(_, _)

(* named_parameters: a Variable with its path, a module as its own         *)
(* parameters below the path.  A module without parameters raises          *)
(* AttributeError, which is the entry with None.                           *)
Walk(m, path) ==
  IF ~Ready(m) THEN <<[path |-> path, variable |-> None]>>
  ELSE FlattenSeq([i \in DOMAIN params[m] |->
         LET e == params[m][i]
         IN  IF e.value \in Module THEN Walk(e.value, Append(path, e.name))
             ELSE <<[path |-> Append(path, e.name), variable |-> e.value]>>])

\* What the generator yields before it ends or raises.
NamedParameters ==
  LET walk == Walk(Root, <<>>)
      raises == {i \in DOMAIN walk : walk[i].variable = None}
  IN  IF raises = {} THEN walk ELSE SubSeq(walk, 1, Min(raises) - 1)

(* parameters, which is the same walk without the paths.                   *)
Parameters == {NamedParameters[i].variable : i \in DOMAIN NamedParameters}

\* Mistake: the walk goes by attributes, where __dict__ comes first.
OwnerByAttribute(path) ==
  LET Sub(m, name) == IF m = None \/ name \in plain[m] \/ Get(m, name) \notin Module THEN None
                      ELSE Get(m, name)
  IN  FoldLeft(Sub, Root, Front(path))

\* _owner: the module that has the last name of the path, or None where KeyError is raised.
Owner(path) ==
  LET Sub(m, name) == IF m = None \/ Get(m, name) \notin Module THEN None ELSE Get(m, name)
  IN  FoldLeft(Sub, Root, Front(path))

\* params[path], or None where KeyError is raised.
GetItem(path) ==
  IF Owner(path) = None \/ Get(Owner(path), Last(path)) \notin Variable THEN None
  ELSE Get(Owner(path), Last(path))

\* What m.name is: found in __dict__, or by __getattr__.
GetAttribute(m, name) == IF name \in plain[m] THEN None ELSE Get(m, name)

-----------------------------------------------------------------------------
(* Assignment and deletion of attributes                                   *)

Outside == loop = None

\* A Variable that no module holds any more is forgotten.
Collected(variables) ==
  LET held == UNION {{params'[m][i].value : i \in DOMAIN params'[m]} :
                       m \in {n \in Module : params'[n] # None}}
  IN  [v \in Variable |-> IF v \in held THEN variables[v] ELSE Var(0, FALSE)]

\* super().__init__() of a new module.
Construct(m) ==
  /\ Outside
  /\ ~Ready(m)
  /\ params' = [params EXCEPT ![m] = <<>>]
  /\ UNCHANGED <<plain, heap, loop, due, passes>>

(* __setattr__ of a Variable or a module.  Before super().__init__() it    *)
(* raises AttributeError, and so does the module with params[m] = None.    *)
SetAttr(m, name, value) ==
  /\ Ready(m)
  /\ params' = [params EXCEPT ![m] = Stored(m, name, value)]
  /\ plain' = plain

\* The attributes that hold a Variable; a step of the loop makes one more.
Slots == {<<m, name>> \in Module \X Name :
            Ready(m) /\ name \in Keys(m) /\ Get(m, name) \in Variable}

SetVariable(m, name) ==
  /\ Outside
  /\ Ready(m)
  /\ Cardinality(Slots \cup {<<m, name>>}) < MaxVariables
  /\ \/ \E v \in Held : SetAttr(m, name, v) /\ heap' = Collected(heap)
     \/ \E requires_grad \in BOOLEAN :
          /\ SetAttr(m, name, New)
          /\ heap' = Collected([heap EXCEPT ![New] = Var(0, requires_grad)])
  /\ UNCHANGED <<loop, due, passes>>

(* The tree stays one: with a module below itself named_parameters would   *)
(* not end.                                                                *)
SetModule(m, name, child) ==
  /\ Outside
  /\ m \notin Subtree(child)
  /\ SetAttr(m, name, child)
  /\ heap' = Collected(heap)
  /\ UNCHANGED <<loop, due, passes>>

\* __setattr__ of any other value evicts the parameter of that name.
SetPlain(m, name) ==
  /\ Outside
  /\ params' = IF Ready(m) THEN [params EXCEPT ![m] = Without(m, name)] ELSE params
  /\ plain' = [plain EXCEPT ![m] = @ \cup {name}]
  /\ heap' = Collected(heap)
  /\ UNCHANGED <<loop, due, passes>>

\* __delattr__: of the parameter where there is one, else of the attribute.
DelAttr(m, name) ==
  /\ Outside
  /\ IF Ready(m) /\ name \in Keys(m)
     THEN params' = [params EXCEPT ![m] = Without(m, name)] /\ plain' = plain
     ELSE /\ name \in plain[m]
          /\ plain' = [plain EXCEPT ![m] = @ \ {name}]
          /\ params' = params
  /\ heap' = Collected(heap)
  /\ UNCHANGED <<loop, due, passes>>

-----------------------------------------------------------------------------
(* Training                                                                *)

Trainable == {v \in Parameters : heap[v].requires_grad}

(* A backward pass, whose loss may depend on any of the parameters: a      *)
(* Variable has one gradient, however many paths name it.                  *)
Differentiate ==
  /\ Outside
  /\ passes < MaxPasses
  /\ passes' = passes + 1
  /\ \E S \in SUBSET Trainable \ {{}} :
       heap' = [v \in Variable |-> IF v \in S THEN [heap[v] EXCEPT !.grad = @ + 1] ELSE heap[v]]
  /\ UNCHANGED <<params, plain, loop, due>>

\* zero_grad, which raises where the walk does.
ZeroGrad ==
  /\ Outside
  /\ heap' = [v \in Variable |-> IF v \in Trainable THEN [heap[v] EXCEPT !.grad = 0] ELSE heap[v]]
  /\ UNCHANGED <<params, plain, loop, due, passes>>

\* params[path] = value.
SetItem(path, value) == Owner(path) # None /\ SetAttr(Owner(path), Last(path), value)

StartLoop ==
  /\ Outside
  /\ NamedParameters # <<>>
  /\ loop' = 0
  /\ due' = [i \in DOMAIN NamedParameters |->
               LET p == heap[NamedParameters[i].variable] IN p.data + p.grad]
  /\ UNCHANGED <<params, plain, heap, passes>>

(* The generator resumes and the body replaces what it yields:             *)
(*   model.params[name] = Variable(p.data - lr * p.grad, True).            *)
(* The generator is a position in each _params_dict of the path: while the *)
(* names stay where they are, the next item of the walk of the tree as it  *)
(* is now.  p.grad of a Variable without a gradient raises and ends it.    *)
LoopStep ==
  /\ loop # None
  /\ loop < Len(NamedParameters)
  /\ LET next == NamedParameters[loop + 1]
         p == heap[next.variable]
     IN  IF p.requires_grad
         THEN /\ SetItem(next.path, New)
              /\ heap' = Collected([heap EXCEPT ![New] = Var(p.data + p.grad, TRUE)])
              /\ loop' = loop + 1
              /\ due' = due
         ELSE /\ loop' = None
              /\ due' = <<>>
              /\ UNCHANGED <<params, plain, heap>>
  /\ passes' = passes

LoopEnd ==
  /\ loop # None
  /\ loop = Len(NamedParameters)
  /\ loop' = None
  /\ due' = <<>>
  /\ UNCHANGED <<params, plain, heap, passes>>

Next ==
  \/ \E m \in Module : Construct(m)
  \/ \E m \in Module, name \in Name :
       \/ SetVariable(m, name)
       \/ \E child \in Module : SetModule(m, name, child)
       \/ SetPlain(m, name)
       \/ DelAttr(m, name)
  \/ Differentiate
  \/ ZeroGrad
  \/ StartLoop
  \/ LoopStep
  \/ LoopEnd

Spec == Init /\ [][Next]_vars

-----------------------------------------------------------------------------

(* A name is in a _params_dict once, the modules form a tree, and while    *)
(* the loop runs there is a Variable to spare.                             *)
TypeOK ==
  /\ \A m \in Module : Ready(m) =>
       /\ params[m] \in Seq([name : Name, value : Module \cup Variable])
       /\ Cardinality(Keys(m)) = Len(params[m])
       /\ \A child \in Children(m) : m \notin Subtree(child)
  /\ plain \in [Module -> SUBSET Name]
  /\ heap \in [Variable -> [data : 0 .. MaxPasses, grad : 0 .. MaxPasses, requires_grad : BOOLEAN]]
  /\ loop \in Nat \cup {None}
  /\ passes \in 0 .. MaxPasses
  /\ loop # None => Unused # {}

(* Every path that named_parameters yields is yielded once, and            *)
(* params[path] is the Variable it was yielded with: also where modules    *)
(* are shared, names are shadowed by plain attributes, or a module of the  *)
(* tree cannot be walked (_ParamsView, Module.py:130).                     *)
PathsResolve ==
  \A i, j \in DOMAIN NamedParameters :
    /\ NamedParameters[i].path = NamedParameters[j].path => i = j
    /\ GetItem(NamedParameters[i].path) = NamedParameters[i].variable

(* The training loop assigns to the dictionaries its generator walks, and  *)
(* gives every path its gradient step once: a Variable that several paths  *)
(* name takes the step at each of them, and a module that several paths    *)
(* name is not stepped again (Module.py:90, README.md:120).                *)
LoopStepsOnce ==
  loop # None =>
    /\ Len(NamedParameters) = Len(due)
    /\ \A i \in DOMAIN due :
         LET p == heap[NamedParameters[i].variable]
         IN  p.data + p.grad = due[i] /\ (i <= loop => p.grad = 0)

(* Module.py:12 says that self.w and parameters() always see the same      *)
(* object.                                                                 *)
SameObject ==
  \A m \in Module : Ready(m) => \A name \in Keys(m) : GetAttribute(m, name) = Get(m, name)
=============================================================================
