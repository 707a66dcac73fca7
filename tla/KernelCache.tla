----------------------------- MODULE KernelCache -----------------------------
(***************************************************************************)
(* The cache of fused kernels (inductor/nvrtc/nvrtc_backend.cpp): threads  *)
(* that realize tensors ask for the kernel of a generated source in their  *)
(* current CUDA context.  The driver is initialized by the first of them;  *)
(* a kernel is compiled with the mutex of the cache held, and what fails   *)
(* on the way throws out of the call.                                      *)
(*                                                                         *)
(* The device a context is on decides the compute capability, so that the  *)
(* source and the context stand for the whole key.                         *)
(***************************************************************************)
EXTENDS Naturals

CONSTANTS
    Thread,
    Source,         \* generated sources
    Context,        \* CUDA contexts
    NoContext,      \* the current context of a thread that has made none
    MaxCalls,       \* bound: calls of all threads
    None

Key == [source : Source, context : Context \cup {NoContext}]
Kernel == [key : Key, module : 1 .. MaxCalls]

ASSUME CacheAssumption ==
    /\ MaxCalls \in Nat
    /\ NoContext \notin Context
    /\ None \notin Thread \cup Key \cup Kernel
    /\ {"new", "ready"} \cap Thread = {}

VARIABLES
    pc,             \* pc[t]: where t is in get_or_compile, "idle" outside
    key,            \* key[t]: the key of the call
    result,         \* result[t]: what the last call returned, or None
    driver,         \* "new", "ready", or the thread that initializes it
    mutex,          \* the thread that holds mutex_, or None
    kernels_,       \* the kernels in the cache
    compiled,       \* bound and identity: kernels compiled so far
    loaded,         \* loaded[t]: the kernel t has compiled and not returned, or None
    calls

vars == <<pc, key, result, driver, mutex, kernels_, compiled, loaded, calls>>


Goto(t, where) == pc' = [pc EXCEPT ![t] = where]

\* Mistake: the mutex is unlocked by hand, after the kernel was compiled.
ThrowLocked(t) ==
    /\ Goto(t, "idle")
    /\ UNCHANGED mutex

\* What throws destroys the lock_guard on its way out.
Throw(t) ==
    /\ Goto(t, "idle")
    /\ mutex' = IF mutex = t THEN None ELSE mutex

\* get_or_compile is called with a source, in the thread's current context.
Call(t, source, context) ==
    /\ pc[t] = "idle" /\ calls < MaxCalls
    /\ calls' = calls + 1
    /\ key' = [key EXCEPT ![t] = [source |-> source, context |-> context]]
    /\ result' = [result EXCEPT ![t] = None]
    /\ Goto(t, "once")
    /\ UNCHANGED <<driver, mutex, kernels_, compiled, loaded>>

\* std::call_once: one thread initializes, the others wait for it.
StartDriver(t) ==
    /\ pc[t] = "once" /\ driver = "new"
    /\ driver' = t
    /\ UNCHANGED <<pc, key, result, mutex, kernels_, compiled, loaded, calls>>

DriverStarted(t) ==
    /\ pc[t] = "once" /\ driver = t
    /\ driver' = "ready"
    /\ UNCHANGED <<pc, key, result, mutex, kernels_, compiled, loaded, calls>>

\* cuInit fails: the flag is not set and the next thread tries again.
DriverFails(t) ==
    /\ pc[t] = "once" /\ driver = t
    /\ driver' = "new"
    /\ Throw(t)
    /\ UNCHANGED <<key, result, kernels_, compiled, loaded, calls>>

(* make_cache_key, with the driver there.  Its queries of a current        *)
(* context are taken to succeed; one that fails throws here as well.       *)
MakeKey(t) ==
    /\ pc[t] = "once" /\ driver = "ready"
    /\ IF key[t].context = NoContext
       THEN Throw(t)
       ELSE Goto(t, "lock") /\ UNCHANGED mutex
    /\ UNCHANGED <<key, result, driver, kernels_, compiled, loaded, calls>>

Lock(t) ==
    /\ pc[t] = "lock" /\ mutex = None
    /\ mutex' = t
    /\ Goto(t, "find")
    /\ UNCHANGED <<key, result, driver, kernels_, compiled, loaded, calls>>

\* Mistake: the source alone finds a kernel.
OfSource(t) == {k \in kernels_ : k.key.source = key[t].source}

Cached(t) == {k \in kernels_ : k.key = key[t]}

Return(t, kernel) ==
    /\ result' = [result EXCEPT ![t] = kernel]
    /\ mutex' = None
    /\ Goto(t, "idle")

\* Mistake: the mutex is given up for the time of the compilation.
FindUnlocking(t) ==
    /\ pc[t] = "find"
    /\ \/ \E kernel \in Cached(t) : Return(t, kernel)
       \/ Cached(t) = {} /\ Goto(t, "compile") /\ mutex' = None /\ UNCHANGED result
    /\ UNCHANGED <<key, driver, kernels_, compiled, loaded, calls>>

\* The kernel is in the cache and returned, or has to be compiled.
Find(t) ==
    /\ pc[t] = "find"
    /\ \/ \E kernel \in Cached(t) : Return(t, kernel)
       \/ Cached(t) = {} /\ Goto(t, "compile") /\ UNCHANGED <<result, mutex>>
    /\ UNCHANGED <<key, driver, kernels_, compiled, loaded, calls>>

\* compile_and_load: nvrtc and the driver make a kernel for the current context.
Compile(t) ==
    /\ pc[t] = "compile"
    /\ compiled' = compiled + 1
    /\ loaded' = [loaded EXCEPT ![t] = [key |-> key[t], module |-> compiled + 1]]
    /\ Goto(t, "insert")
    /\ UNCHANGED <<key, result, driver, mutex, kernels_, calls>>

CompileFails(t) ==
    /\ pc[t] = "compile"
    /\ Throw(t)
    /\ UNCHANGED <<key, result, driver, kernels_, compiled, loaded, calls>>

\* The kernel goes into the cache; a second one for the key would throw.
Insert(t) ==
    /\ pc[t] = "insert"
    /\ IF Cached(t) = {}
       THEN kernels_' = kernels_ \cup {loaded[t]} /\ Return(t, loaded[t])
       ELSE Throw(t) /\ UNCHANGED <<kernels_, result>>
    /\ loaded' = [loaded EXCEPT ![t] = None]
    /\ UNCHANGED <<key, driver, compiled, calls>>

Ended == calls = MaxCalls /\ \A t \in Thread : pc[t] = "idle"
Rest == Ended /\ UNCHANGED vars

Init ==
    /\ pc = [t \in Thread |-> "idle"]
    /\ key = [t \in Thread |-> None]
    /\ result = [t \in Thread |-> None]
    /\ loaded = [t \in Thread |-> None]
    /\ driver = "new" /\ mutex = None
    /\ kernels_ = {} /\ compiled = 0 /\ calls = 0

\* What a thread does in a call.
Step(t) ==
    \/ StartDriver(t)
    \/ DriverStarted(t)
    \/ DriverFails(t)
    \/ MakeKey(t)
    \/ Lock(t)
    \/ Find(t)
    \/ Compile(t)
    \/ CompileFails(t)
    \/ Insert(t)

Next ==
    \/ \E t \in Thread :
          \/ \E source \in Source, context \in Context \cup {NoContext} : Call(t, source, context)
          \/ Step(t)
    \/ Rest

Spec == Init /\ [][Next]_vars

\* The operating system runs every thread that can run.
FairSpec == Spec /\ \A t \in Thread : WF_vars(Step(t))

-----------------------------------------------------------------------------

Critical == {"find", "compile", "insert"}
InCall == {"once", "lock"} \cup Critical

\* The state is of its types, and the thread in the critical section is the one
\* that holds the mutex.
TypeOK ==
    /\ pc \in [Thread -> InCall \cup {"idle"}]
    /\ key \in [Thread -> Key \cup {None}]
    /\ result \in [Thread -> Kernel \cup {None}]
    /\ loaded \in [Thread -> Kernel \cup {None}]
    /\ driver \in Thread \cup {"new", "ready"}
    /\ mutex \in Thread \cup {None}
    /\ kernels_ \in SUBSET Kernel
    /\ calls \in 0 .. MaxCalls /\ compiled \in 0 .. calls
    /\ \A t \in Thread : mutex = t <=> pc[t] \in Critical

\* No key is compiled for twice, however the threads meet: of the kernels in
\* the cache and on their way into it no two have the same key, and one that
\* has been compiled is one of these.
CompiledOnce ==
    LET made == kernels_ \cup ({loaded[t] : t \in Thread} \ {None})
    IN  /\ \A k, l \in made : k.key = l.key => k = l
        /\ {k.module : k \in made} = 1 .. compiled

\* A cache whose call returns the kernel of its source and its context, always
\* the same one, and throws only as long as there is none: neither a thread
\* that compiles at the same time nor a failure shows.
Memo == INSTANCE MemoTable WITH
    Caller <- Thread,
    table <- kernels_,
    asked <- [t \in Thread |-> IF pc[t] = "idle" THEN None ELSE key[t]],
    got <- result

MemoSpec == Memo!Spec

\* Every call returns or throws: no failure leaves the mutex locked or the
\* driver half initialized for the threads that wait.
CallsEnd == \A t \in Thread : pc[t] # "idle" ~> pc[t] = "idle"
=============================================================================
