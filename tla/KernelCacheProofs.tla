-------------------------- MODULE KernelCacheProofs --------------------------
(***************************************************************************)
(* Proofs about KernelCache for any threads, sources and contexts and any  *)
(* number of calls: the critical section is the holder's of the mutex, no  *)
(* kernel is compiled twice, and every step is one of MemoTable.           *)
(***************************************************************************)
EXTENDS KernelCache, FiniteSets, FiniteSetTheorems, TLAPS

\* The threads whose call may still compile.
Pending == {t \in Thread : pc[t] \in {"once", "lock", "find", "compile"}}

\* A kernel is compiled by a call of its own, so that their number is bounded.
CallsCover == IsFiniteSet(Pending) /\ compiled + Cardinality(Pending) <= calls

\* A call has a key; past make_cache_key its context is one, and the driver is there.
Keyed ==
    \A t \in Thread :
        /\ pc[t] # "idle" => key[t] \in Key
        /\ pc[t] \in {"lock"} \cup Critical => driver = "ready" /\ key[t].context # NoContext

\* A thread that compiles has found nothing, and what it has compiled is for its key.
Compiling ==
    \A t \in Thread :
        /\ pc[t] \in {"compile", "insert"} => Cached(t) = {}
        /\ IF pc[t] = "insert" THEN loaded[t] \in Kernel /\ loaded[t].key = key[t]
                               ELSE loaded[t] = None

\* There are kernels only once the driver is there, and for contexts only.
Stocked == \A k \in kernels_ : driver = "ready" /\ k.key.context # NoContext

Made == kernels_ \cup ({loaded[t] : t \in Thread} \ {None})

MadeOnce ==
    /\ \A k, l \in Made : k.key = l.key => k = l
    /\ {k.module : k \in Made} = 1 .. compiled

\* The inductive invariant.
IInv == TypeOK /\ CallsCover /\ Keyed /\ Compiling /\ Stocked /\ MadeOnce

-----------------------------------------------------------------------------

\* No two threads are in the critical section.
LEMMA MutualExclusion ==
    ASSUME TypeOK, NEW t \in Thread, NEW u \in Thread,
           pc[t] \in Critical, pc[u] \in Critical
    PROVE  t = u
BY DEF TypeOK

\* Throw gives up what the thread holds and nothing else.
LEMMA ThrowGivesUp ==
    ASSUME TypeOK, NEW t \in Thread, Throw(t)
    PROVE  /\ pc' = [pc EXCEPT ![t] = "idle"]
           /\ mutex' \in Thread \cup {None}
           /\ \A u \in Thread : mutex' = u <=> pc'[u] \in Critical
<1>1. pc' = [pc EXCEPT ![t] = "idle"] /\ mutex' = IF mutex = t THEN None ELSE mutex
  BY DEF Throw, Goto
<1>2. None \notin Thread
  BY CacheAssumption
<1>3. \A u \in Thread : pc'[u] = IF u = t THEN "idle" ELSE pc[u]
  BY <1>1 DEF TypeOK
<1> QED BY <1>1, <1>2, <1>3 DEF TypeOK, Critical

\* The initial state satisfies the inductive invariant.
THEOREM InitIInv == Init => IInv
<1> SUFFICES ASSUME Init PROVE IInv
  OBVIOUS
<1> USE CacheAssumption DEF Init
<1>1. TypeOK
  BY DEF TypeOK, Critical
<1>2. CallsCover
  <2>1. Pending = {}
    BY DEF Pending
  <2> QED BY <2>1, FS_EmptySet DEF CallsCover
<1>3. Keyed /\ Compiling /\ Stocked
  BY DEF Keyed, Compiling, Stocked, Critical
<1>4. MadeOnce
  <2>1. Made = {}
    BY DEF Made
  <2> QED BY <2>1 DEF MadeOnce
<1> QED BY <1>1, <1>2, <1>3, <1>4 DEF IInv

-----------------------------------------------------------------------------

\* Where a call ends or goes on, and nothing is compiled, the calls still cover.
LEMMA CoverKept ==
    ASSUME CallsCover, compiled' = compiled, calls' = calls, Pending' \subseteq Pending,
           compiled \in Nat, calls \in Nat
    PROVE  CallsCover'
<1>1. IsFiniteSet(Pending') /\ Cardinality(Pending') <= Cardinality(Pending)
  BY FS_Subset DEF CallsCover
<1>2. Cardinality(Pending') \in Nat /\ Cardinality(Pending) \in Nat
  BY <1>1, FS_CardinalityType DEF CallsCover
<1> QED BY <1>1, <1>2 DEF CallsCover

\* Compiling takes one thread out of those whose call may still compile.
LEMMA CoverCompile ==
    ASSUME IInv, NEW t \in Thread, Compile(t)
    PROVE  CallsCover' /\ compiled + 1 <= calls
<1>1. t \in Pending /\ Pending' = Pending \ {t}
  BY DEF IInv, TypeOK, Compile, Goto, Pending
<1>2. IsFiniteSet(Pending') /\ Cardinality(Pending') = Cardinality(Pending) - 1
  BY <1>1, FS_RemoveElement DEF IInv, CallsCover
<1>3. Cardinality(Pending) \in Nat /\ Cardinality(Pending') \in Nat
  BY <1>2, FS_CardinalityType DEF IInv, CallsCover
<1> QED BY <1>2, <1>3 DEF IInv, TypeOK, CallsCover, Compile

\* A call adds itself to them, and is counted.
LEMMA CoverCall ==
    ASSUME IInv, NEW t \in Thread, NEW source, NEW context, Call(t, source, context)
    PROVE  CallsCover'
<1>1. t \notin Pending /\ Pending' = Pending \cup {t}
  BY DEF IInv, TypeOK, Call, Goto, Pending
<1>2. IsFiniteSet(Pending') /\ Cardinality(Pending') = Cardinality(Pending) + 1
  BY <1>1, FS_AddElement DEF IInv, CallsCover
<1>3. Cardinality(Pending) \in Nat
  BY FS_CardinalityType DEF IInv, CallsCover
<1> QED BY <1>2, <1>3 DEF IInv, TypeOK, CallsCover, Call

-----------------------------------------------------------------------------

\* A step that leaves kernels, compilations and their keys alone, and starts or
\* ends none, keeps what is said of them.
LEMMA MadeKept ==
    ASSUME MadeOnce, UNCHANGED <<kernels_, compiled, loaded>>
    PROVE  MadeOnce'
<1>1. Made' = Made
  BY DEF Made
<1> QED BY <1>1 DEF MadeOnce

\* What throws before its thread has compiled preserves the invariant.
LEMMA ThrowIInv ==
    ASSUME IInv, NEW t \in Thread, Throw(t), pc[t] # "insert",
           UNCHANGED <<key, result, kernels_, compiled, loaded, calls>>,
           \/ driver' = driver
           \/ pc[t] = "once" /\ driver = t /\ driver' = "new"
    PROVE  IInv'
<1> USE DEF IInv
<1>1. /\ pc' = [pc EXCEPT ![t] = "idle"]
      /\ mutex' \in Thread \cup {None}
      /\ \A u \in Thread : mutex' = u <=> pc'[u] \in Critical
  BY ThrowGivesUp
<1>2. \A u \in Thread : pc'[u] = IF u = t THEN "idle" ELSE pc[u]
  BY <1>1 DEF TypeOK
<1>3. driver' # driver => driver # "ready"
  BY CacheAssumption
<1>4. TypeOK'
  BY <1>1 DEF TypeOK
<1>5. CallsCover'
  <2>1. Pending' \subseteq Pending
    BY <1>2 DEF Pending
  <2> QED BY <2>1, CoverKept DEF TypeOK
<1>6. Keyed'
  BY <1>2, <1>3 DEF Keyed, Critical
<1>7. Compiling'
  BY <1>2 DEF Compiling, Cached
<1>8. Stocked'
  BY <1>3 DEF Stocked
<1> QED BY <1>4, <1>5, <1>6, <1>7, <1>8, MadeKept

LEMMA CallIInv ==
    ASSUME IInv, NEW t \in Thread, NEW source \in Source,
           NEW context \in Context \cup {NoContext}, Call(t, source, context)
    PROVE  IInv'
<1> USE DEF IInv, Call, Goto
<1>1. \A u \in Thread : /\ pc'[u] = IF u = t THEN "once" ELSE pc[u]
                        /\ u # t => key'[u] = key[u]
  BY DEF TypeOK
<1>2. key'[t] \in Key
  BY DEF TypeOK, Key
<1>3. TypeOK'
  <2>1. /\ key' \in [Thread -> Key \cup {None}]
        /\ pc' \in [Thread -> InCall \cup {"idle"}]
        /\ result' \in [Thread -> Kernel \cup {None}]
    BY <1>2 DEF TypeOK, InCall, Key
  <2>2. calls' \in 0 .. MaxCalls /\ compiled' \in 0 .. calls'
    BY CacheAssumption DEF TypeOK
  <2>3. \A u \in Thread : mutex' = u <=> pc'[u] \in Critical
    BY <1>1 DEF TypeOK, Critical
  <2> QED BY <2>1, <2>2, <2>3 DEF TypeOK
<1>4. Keyed'
  BY <1>1, <1>2 DEF Keyed, Critical
<1>5. Compiling'
  BY <1>1 DEF Compiling, Cached
<1>6. Stocked'
  BY DEF Stocked
<1> QED BY <1>3, <1>4, <1>5, <1>6, CoverCall, MadeKept

LEMMA DriverIInv ==
    ASSUME IInv, NEW t \in Thread, StartDriver(t) \/ DriverStarted(t)
    PROVE  IInv'
<1> USE CacheAssumption DEF IInv, StartDriver, DriverStarted
<1>1. driver # "ready" /\ UNCHANGED <<pc, key, kernels_, compiled, loaded, calls>>
  OBVIOUS
<1>2. TypeOK'
  BY DEF TypeOK
<1>3. CallsCover'
  BY <1>1, CoverKept DEF TypeOK, Pending
<1>4. Keyed' /\ Stocked'
  BY <1>1 DEF Keyed, Stocked
<1>5. Compiling'
  BY <1>1 DEF Compiling, Cached
<1> QED BY <1>1, <1>2, <1>3, <1>4, <1>5, MadeKept

\* A call goes on to the mutex.
LEMMA MakeKeyIInv ==
    ASSUME IInv, NEW t \in Thread, MakeKey(t)
    PROVE  IInv'
<1>1. CASE key[t].context = NoContext
  BY <1>1, ThrowIInv DEF MakeKey
<1>2. CASE key[t].context # NoContext
  <2> USE <1>2 DEF IInv, MakeKey, Goto
  <2>1. \A u \in Thread : pc'[u] = IF u = t THEN "lock" ELSE pc[u]
    BY DEF TypeOK
  <2>2. TypeOK'
    BY <2>1 DEF TypeOK, InCall, Critical
  <2>3. CallsCover'
    <3>1. Pending' \subseteq Pending
      BY <2>1 DEF Pending
    <3> QED BY <3>1, CoverKept DEF TypeOK
  <2>4. Keyed' /\ Stocked'
    BY <2>1 DEF Keyed, Stocked, Critical
  <2>5. Compiling'
    BY <2>1 DEF Compiling, Cached
  <2> QED BY <2>2, <2>3, <2>4, <2>5, MadeKept
<1> QED BY <1>1, <1>2

LEMMA LockIInv ==
    ASSUME IInv, NEW t \in Thread, Lock(t)
    PROVE  IInv'
<1> USE DEF IInv, Lock, Goto
<1>1. \A u \in Thread : pc'[u] = IF u = t THEN "find" ELSE pc[u]
  BY DEF TypeOK
<1>2. TypeOK'
  <2>1. \A u \in Thread : mutex' = u <=> pc'[u] \in Critical
    <3>1. \A u \in Thread : pc[u] \notin Critical
      BY CacheAssumption DEF TypeOK
    <3> QED BY <1>1, <3>1 DEF Critical
  <2> QED BY <2>1 DEF TypeOK, InCall, Critical
<1>3. CallsCover'
  <2>1. Pending' \subseteq Pending
    BY <1>1 DEF Pending
  <2> QED BY <2>1, CoverKept DEF TypeOK
<1>4. Keyed' /\ Stocked'
  BY <1>1 DEF Keyed, Stocked, Critical
<1>5. Compiling'
  BY <1>1 DEF Compiling, Cached
<1> QED BY <1>2, <1>3, <1>4, <1>5, MadeKept

\* Returning gives the mutex up.
LEMMA ReturnGivesUp ==
    ASSUME TypeOK, NEW t \in Thread, pc[t] \in Critical, NEW kernel, Return(t, kernel)
    PROVE  /\ \A u \in Thread : pc'[u] = IF u = t THEN "idle" ELSE pc[u]
           /\ \A u \in Thread : mutex' = u <=> pc'[u] \in Critical
<1>1. \A u \in Thread : pc'[u] = IF u = t THEN "idle" ELSE pc[u]
  BY DEF TypeOK, Return, Goto
<1>2. \A u \in Thread : u # t => pc[u] \notin Critical
  BY MutualExclusion
<1>3. \A u \in Thread : pc'[u] \notin Critical
  BY <1>1, <1>2 DEF Critical
<1>4. mutex' = None
  BY DEF Return
<1> QED BY <1>1, <1>3, <1>4, CacheAssumption

LEMMA FindIInv ==
    ASSUME IInv, NEW t \in Thread, Find(t)
    PROVE  IInv'
<1> USE DEF IInv, Find
<1>1. CASE \E kernel \in Cached(t) : Return(t, kernel)
  <2>1. PICK kernel \in Cached(t) : Return(t, kernel)
    BY <1>1
  <2>2. /\ \A u \in Thread : pc'[u] = IF u = t THEN "idle" ELSE pc[u]
        /\ \A u \in Thread : mutex' = u <=> pc'[u] \in Critical
    BY <2>1, ReturnGivesUp DEF Critical
  <2>3. kernel \in Kernel
    BY DEF Cached, TypeOK
  <2>4. TypeOK'
    BY <2>1, <2>2, <2>3 DEF TypeOK, Return, Goto
  <2>5. CallsCover'
    <3>1. Pending' \subseteq Pending
      BY <2>2 DEF Pending
    <3> QED BY <3>1, CoverKept DEF TypeOK
  <2>6. Keyed' /\ Stocked'
    BY <2>2 DEF Keyed, Stocked, Critical
  <2>7. Compiling'
    BY <2>2 DEF Compiling, Cached
  <2> QED BY <2>4, <2>5, <2>6, <2>7, MadeKept
<1>2. CASE Cached(t) = {} /\ Goto(t, "compile") /\ UNCHANGED <<result, mutex>>
  <2>1. \A u \in Thread : pc'[u] = IF u = t THEN "compile" ELSE pc[u]
    BY <1>2 DEF TypeOK, Goto
  <2>2. TypeOK'
    BY <1>2, <2>1 DEF TypeOK, InCall, Critical, Goto
  <2>3. CallsCover'
    <3>1. Pending' \subseteq Pending
      BY <2>1 DEF Pending
    <3> QED BY <3>1, CoverKept DEF TypeOK
  <2>4. Keyed' /\ Stocked'
    BY <2>1 DEF Keyed, Stocked, Critical
  <2>5. Compiling'
    BY <1>2, <2>1 DEF Compiling, Cached
  <2> QED BY <2>2, <2>3, <2>4, <2>5, MadeKept
<1> QED BY <1>1, <1>2

-----------------------------------------------------------------------------

\* What only the thread in the critical section may have.
LEMMA OnlyLoaded ==
    ASSUME IInv, NEW t \in Thread, pc[t] \in Critical, NEW u \in Thread, u # t
    PROVE  loaded[u] = None
BY MutualExclusion DEF IInv, Compiling, Critical

LEMMA CompileIInv ==
    ASSUME IInv, NEW t \in Thread, Compile(t)
    PROVE  IInv'
<1> DEFINE new == [key |-> key[t], module |-> compiled + 1]
<1> USE DEF IInv, Compile, Goto
<1>1. \A u \in Thread : /\ pc'[u] = IF u = t THEN "insert" ELSE pc[u]
                        /\ loaded'[u] = IF u = t THEN new ELSE loaded[u]
  BY DEF TypeOK
<1>2. CallsCover' /\ compiled + 1 <= calls
  BY CoverCompile
<1>3. new \in Kernel /\ new # None
  BY <1>2, CacheAssumption DEF TypeOK, Keyed, Kernel
<1>4. TypeOK'
  <2>1. /\ pc' \in [Thread -> InCall \cup {"idle"}]
        /\ loaded' \in [Thread -> Kernel \cup {None}]
    BY <1>3 DEF TypeOK, InCall, Critical
  <2>2. compiled' \in 0 .. calls'
    BY <1>2 DEF TypeOK
  <2>3. \A u \in Thread : mutex' = u <=> pc'[u] \in Critical
    BY <1>1 DEF TypeOK, Critical
  <2> QED BY <2>1, <2>2, <2>3 DEF TypeOK
<1>5. Keyed' /\ Stocked'
  BY <1>1 DEF Keyed, Stocked, Critical
<1>6. Compiling'
  <2>1. \A u \in Thread : pc'[u] \in {"compile", "insert"} => Cached(u)' = {}
    BY <1>1 DEF Compiling, Cached
  <2> QED BY <1>1, <1>3, <2>1 DEF Compiling
<1>7. MadeOnce'
  <2>1. \A u \in Thread : loaded[u] = None
    BY OnlyLoaded DEF Critical, Compiling
  <2>2. Made = kernels_ /\ Made' = kernels_ \cup {new}
    BY <1>1, <1>3, <2>1 DEF Made
  <2>3. \A k \in kernels_ : k.key # new.key
    BY DEF Compiling, Cached
  <2>4. new.module = compiled + 1
    OBVIOUS
  <2>5. {k.module : k \in Made'} = 1 .. compiled'
    <3>1. {k.module : k \in Made'} = {k.module : k \in Made} \cup {compiled + 1}
      <4> HIDE DEF new
      <4> QED BY <2>2, <2>4
    <3>2. 1 .. compiled' = (1 .. compiled) \cup {compiled + 1}
      BY DEF TypeOK
    <3> QED BY <3>1, <3>2 DEF MadeOnce
  <2> QED BY <2>2, <2>3, <2>5 DEF MadeOnce
<1> QED BY <1>2, <1>4, <1>5, <1>6, <1>7

\* The kernel that goes into the cache is the first for its key, so nothing throws.
LEMMA InsertReturns ==
    ASSUME IInv, NEW t \in Thread, Insert(t)
    PROVE  /\ pc[t] = "insert" /\ loaded[t] \in Kernel /\ loaded[t].key = key[t]
           /\ Cached(t) = {}
           /\ kernels_' = kernels_ \cup {loaded[t]}
           /\ Return(t, loaded[t])
BY DEF IInv, Insert, Compiling

LEMMA InsertIInv ==
    ASSUME IInv, NEW t \in Thread, Insert(t)
    PROVE  IInv'
<1> USE DEF IInv
<1>1. /\ pc[t] = "insert" /\ loaded[t] \in Kernel /\ loaded[t].key = key[t]
      /\ kernels_' = kernels_ \cup {loaded[t]}
      /\ Return(t, loaded[t])
      /\ loaded' = [loaded EXCEPT ![t] = None]
      /\ UNCHANGED <<key, driver, compiled, calls>>
  BY InsertReturns DEF Insert
<1>2. /\ \A u \in Thread : pc'[u] = IF u = t THEN "idle" ELSE pc[u]
      /\ \A u \in Thread : mutex' = u <=> pc'[u] \in Critical
  BY <1>1, ReturnGivesUp DEF Critical
<1>3. \A u \in Thread : loaded'[u] = None
  BY <1>1, OnlyLoaded DEF TypeOK, Critical
<1>4. \A u \in Thread : u # t => pc[u] \notin Critical
  BY <1>1, MutualExclusion DEF Critical
<1>5. TypeOK'
  BY <1>1, <1>2 DEF TypeOK, Return, Goto
<1>6. CallsCover'
  <2>1. Pending' \subseteq Pending
    BY <1>2 DEF Pending
  <2> QED BY <1>1, <2>1, CoverKept DEF TypeOK
<1>7. Keyed'
  BY <1>1, <1>2 DEF Keyed, Critical
<1>8. Stocked'
  BY <1>1 DEF Stocked, Keyed, Critical
<1>9. Compiling'
  <2>1. \A u \in Thread : pc'[u] \notin {"compile", "insert"}
    BY <1>2, <1>4 DEF Critical
  <2> QED BY <1>3, <2>1 DEF Compiling
<1>10. MadeOnce'
  <2>1. loaded[t] # None
    BY <1>1, CacheAssumption
  <2>2. \A u \in Thread : u # t => loaded[u] = None
    BY <1>1, OnlyLoaded DEF Critical
  <2>3. Made' = Made
    BY <1>1, <1>3, <2>1, <2>2 DEF Made
  <2> QED BY <1>1, <2>3 DEF MadeOnce
<1> QED BY <1>5, <1>6, <1>7, <1>8, <1>9, <1>10

\* Every step of every thread preserves the inductive invariant.
THEOREM NextIInv == IInv /\ [Next]_vars => IInv'
<1> SUFFICES ASSUME IInv, [Next]_vars PROVE IInv'
  OBVIOUS
<1>1. CASE UNCHANGED vars
  BY <1>1 DEF vars, IInv, TypeOK, CallsCover, Pending, Keyed, Compiling, Cached, Stocked, MadeOnce, Made
<1>2. ASSUME NEW t \in Thread, NEW source \in Source, NEW context \in Context \cup {NoContext},
             Call(t, source, context)
      PROVE  IInv'
  BY <1>2, CallIInv
<1>3. ASSUME NEW t \in Thread, Step(t)
      PROVE  IInv'
  <2>1. CASE StartDriver(t) \/ DriverStarted(t)
    BY <2>1, DriverIInv
  <2>2. CASE DriverFails(t)
    BY <2>2, ThrowIInv DEF DriverFails
  <2>3. CASE MakeKey(t)
    BY <2>3, MakeKeyIInv
  <2>4. CASE Lock(t)
    BY <2>4, LockIInv
  <2>5. CASE Find(t)
    BY <2>5, FindIInv
  <2>6. CASE Compile(t)
    BY <2>6, CompileIInv
  <2>7. CASE CompileFails(t)
    BY <2>7, ThrowIInv DEF CompileFails
  <2>8. CASE Insert(t)
    BY <2>8, InsertIInv
  <2> QED BY <1>3, <2>1, <2>2, <2>3, <2>4, <2>5, <2>6, <2>7, <2>8 DEF Step
<1>4. CASE Rest
  BY <1>1, <1>4 DEF Rest
<1> QED BY <1>1, <1>2, <1>3, <1>4 DEF Next

\* The inductive invariant holds in every reachable state.
THEOREM SpecIInv == Spec => []IInv
BY InitIInv, NextIInv, PTL DEF Spec

\* Fields have their types, and only the holder of mutex_ is in the critical section.
THEOREM SpecTypeOK == Spec => []TypeOK
<1>1. IInv => TypeOK
  BY DEF IInv
<1> QED BY <1>1, SpecIInv, PTL

\* No kernel is compiled twice for one source and context.
THEOREM SpecCompiledOnce == Spec => []CompiledOnce
<1>1. IInv => CompiledOnce
  BY DEF IInv, MadeOnce, Made, CompiledOnce
<1> QED BY <1>1, SpecIInv, PTL

-----------------------------------------------------------------------------

\* The initial state is one of MemoTable.
LEMMA InitMemo == Init => Memo!Init
BY DEF Init, Memo!Init

\* What throws before anything is in the cache for its key is a Throw of MemoTable.
LEMMA ThrowMemo ==
    ASSUME IInv, NEW t \in Thread, Throw(t), pc[t] # "idle", Cached(t) = {},
           UNCHANGED <<key, result, kernels_>>
    PROVE  Memo!Throw(t)
<1>1. \A u \in Thread : pc'[u] = IF u = t THEN "idle" ELSE pc[u]
  BY ThrowGivesUp DEF IInv, TypeOK
<1>2. key[t] # None
  BY CacheAssumption DEF IInv, Keyed
<1> QED BY <1>1, <1>2 DEF Memo!Throw, Cached

\* A step that neither begins nor ends a call shows nothing.
LEMMA StutterMemo ==
    ASSUME UNCHANGED <<key, result, kernels_>>,
           \A u \in Thread : pc'[u] = "idle" <=> pc[u] = "idle"
    PROVE  UNCHANGED Memo!vars
BY DEF Memo!vars

\* Returning the kernel of the key, the only one there is, is an Answer of MemoTable.
LEMMA ReturnMemo ==
    ASSUME IInv, NEW t \in Thread, pc[t] \in Critical, NEW kernel,
           Return(t, kernel), kernel.key = key[t], UNCHANGED key,
           \A other \in kernels_ : other.key = kernel.key => other = kernel,
           kernels_' = kernels_ \cup {kernel}
    PROVE  Memo!Answer(t, kernel)
<1>1. \A u \in Thread : pc'[u] = IF u = t THEN "idle" ELSE pc[u]
  BY ReturnGivesUp DEF IInv
<1>2. key[t] # None /\ pc[t] # "idle"
  BY CacheAssumption DEF IInv, Keyed, Critical
<1>3. result' = [result EXCEPT ![t] = kernel]
  BY DEF Return
<1> QED BY <1>1, <1>2, <1>3 DEF Memo!Answer

\* Every step of the threads is one of MemoTable, or shows nothing.
THEOREM NextMemo == IInv /\ [Next]_vars => [Memo!Next]_Memo!vars
<1> SUFFICES ASSUME IInv, [Next]_vars PROVE [Memo!Next]_Memo!vars
  OBVIOUS
<1>1. CASE UNCHANGED vars
  BY <1>1, StutterMemo DEF vars
<1>2. ASSUME NEW t \in Thread, NEW source \in Source, NEW context \in Context \cup {NoContext},
             Call(t, source, context)
      PROVE  Memo!Next
  <2> DEFINE k == [source |-> source, context |-> context]
  <2>1. \A u \in Thread : /\ pc'[u] = IF u = t THEN "once" ELSE pc[u]
                          /\ key'[u] = IF u = t THEN k ELSE key[u]
    BY <1>2 DEF IInv, TypeOK, Call, Goto
  <2>2. k \in Key
    BY DEF Key
  <2>3. Memo!Ask(t, k)
    BY <1>2, <2>1 DEF Memo!Ask, Call
  <2> QED BY <2>2, <2>3 DEF Memo!Next
<1>3. ASSUME NEW t \in Thread, Step(t)
      PROVE  [Memo!Next]_Memo!vars
  <2>1. CASE StartDriver(t) \/ DriverStarted(t)
    BY <2>1, StutterMemo DEF StartDriver, DriverStarted
  <2>2. CASE DriverFails(t)
    <3>1. Cached(t) = {}
      BY <2>2, CacheAssumption DEF DriverFails, IInv, Stocked, Cached
    <3> QED BY <2>2, <3>1, ThrowMemo DEF DriverFails, Memo!Next
  <2>3. CASE MakeKey(t)
    <3>1. CASE key[t].context = NoContext
      <4>1. Cached(t) = {}
        BY <3>1 DEF IInv, Stocked, Cached
      <4> QED BY <2>3, <3>1, <4>1, ThrowMemo DEF MakeKey, Memo!Next
    <3>2. CASE key[t].context # NoContext
      <4>1. \A u \in Thread : pc'[u] = "idle" <=> pc[u] = "idle"
        BY <2>3, <3>2 DEF MakeKey, Goto, IInv, TypeOK
      <4> QED BY <2>3, <4>1, StutterMemo DEF MakeKey
    <3> QED BY <3>1, <3>2
  <2>4. CASE Lock(t)
    <3>1. \A u \in Thread : pc'[u] = "idle" <=> pc[u] = "idle"
      BY <2>4 DEF Lock, Goto, IInv, TypeOK
    <3> QED BY <2>4, <3>1, StutterMemo DEF Lock
  <2>5. CASE Find(t)
    <3>1. ASSUME NEW kernel \in Cached(t), Return(t, kernel)
          PROVE  Memo!Next
      <4>1. kernel \in kernels_ /\ kernel.key = key[t] /\ kernel \in Kernel
        BY DEF Cached, IInv, TypeOK
      <4>2. \A other \in kernels_ : other.key = kernel.key => other = kernel
        BY <4>1 DEF IInv, MadeOnce, Made
      <4>3. kernels_' = kernels_ \cup {kernel} /\ key' = key
        BY <2>5, <4>1 DEF Find
      <4>4. Memo!Answer(t, kernel)
        BY <2>5, <3>1, <4>1, <4>2, <4>3, ReturnMemo DEF Find, Critical
      <4> QED BY <4>1, <4>4 DEF Memo!Next
    <3>2. CASE Goto(t, "compile") /\ UNCHANGED <<result, mutex>>
      <4>1. \A u \in Thread : pc'[u] = "idle" <=> pc[u] = "idle"
        BY <2>5, <3>2 DEF Find, Goto, IInv, TypeOK
      <4> QED BY <2>5, <3>2, <4>1, StutterMemo DEF Find
    <3> QED BY <2>5, <3>1, <3>2 DEF Find
  <2>6. CASE Compile(t)
    <3>1. \A u \in Thread : pc'[u] = "idle" <=> pc[u] = "idle"
      BY <2>6 DEF Compile, Goto, IInv, TypeOK
    <3> QED BY <2>6, <3>1, StutterMemo DEF Compile
  <2>7. CASE CompileFails(t)
    <3>1. Cached(t) = {}
      BY <2>7 DEF CompileFails, IInv, Compiling
    <3> QED BY <2>7, <3>1, ThrowMemo DEF CompileFails, Memo!Next
  <2>8. CASE Insert(t)
    <3>1. PICK kernel \in Kernel : kernel = loaded[t]
      BY <2>8, InsertReturns
    <3>2. /\ pc[t] \in Critical /\ kernel.key = key[t] /\ key' = key
          /\ kernels_' = kernels_ \cup {kernel} /\ Return(t, kernel)
      BY <2>8, <3>1, InsertReturns DEF Insert, Critical
    <3>3. \A other \in kernels_ : other.key = kernel.key => other = kernel
      BY <2>8, <3>2, InsertReturns DEF Cached
    <3>4. Memo!Answer(t, kernel)
      BY <3>2, <3>3, ReturnMemo
    <3> QED BY <3>4 DEF Memo!Next
  <2> QED BY <1>3, <2>1, <2>2, <2>3, <2>4, <2>5, <2>6, <2>7, <2>8 DEF Step
<1>4. CASE Rest
  BY <1>1, <1>4 DEF Rest
<1> QED BY <1>1, <1>2, <1>3, <1>4 DEF Next

\* The cache implements MemoTable: a caller sees neither a thread that compiles
\* at the same time nor a failure, but the one kernel of its key.
THEOREM SpecMemo == Spec => MemoSpec
BY SpecIInv, InitMemo, NextMemo, PTL DEF Spec, MemoSpec, Memo!Spec
=============================================================================
