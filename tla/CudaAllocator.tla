---------------------------- MODULE CudaAllocator ----------------------------
(***************************************************************************)
(* The CUDA memory pool of csrc/src/tensor/cuda/allocator.cu as the host   *)
(* threads of a program use it: allocate and deallocate under the mutex of *)
(* the device, growth with cudaMalloc and its out-of-memory path, and the  *)
(* kernels that are still queued on the device while the memory they use   *)
(* is freed and handed out again.                                          *)
(*                                                                         *)
(* The arena is taken at its abstract specification, BlockPool, which      *)
(* BlockArena implements.  One device; the steps between two accesses to   *)
(* the device or to the driver are one action.                             *)
(***************************************************************************)
EXTENDS Integers, Sequences, FiniteSets

CONSTANTS
  Thread,         \* host threads
  MaxAddress,     \* bound: device addresses are 0 .. MaxAddress
  Alignment,      \* kAllocationAlignment
  kSegmentSize,   \* the least size of a segment
  Sizes,          \* bound: the byte sizes threads request
  MaxHeld,        \* bound: live allocations of one thread
  MaxQueue,       \* bound: commands queued on the device when a kernel is launched
  Null            \* no thread

ASSUME AddressAssumption == MaxAddress \in Nat
ASSUME AlignmentAssumption == Alignment \in Nat \ {0}
ASSUME SegmentSizeAssumption == kSegmentSize \in Nat /\ kSegmentSize % Alignment = 0
ASSUME SizesAssumption == Sizes \subseteq Nat \ {0}
ASSUME NullAssumption == Null \notin Thread

VARIABLES
  segSize, live, reply,   \* state.arena, seen as a BlockPool
  mutex,          \* the thread that holds DeviceState::mutex, or Null
  pc,             \* where each thread is in the allocator or in a blocking CUDA call
  request,        \* the byte_size or the pointer a thread has passed to the allocator
  segment,        \* segment_pointer of a thread in grow_locked
  released,       \* segments extracted from the arena and still to be passed to cudaFree
  mapped,         \* the driver: bytes of device memory mapped at an address, 0 if none
  stream,         \* the device: commands not yet executed, in the order of submission
  contents,       \* the device: the thread whose kernel wrote an address last, Null
                  \* if none has since the address was allocated, or it is not
  owner,          \* the thread that holds the live allocation at an address
  filled,         \* the live allocations a kernel has been launched to fill
  status          \* of the process

arena == <<segSize, live, reply>>
device == <<mapped, stream, contents>>
vars == <<arena, mutex, pc, request, segment, released, device, owner, filled, status>>

AlignUp(n) == ((n + Alignment - 1) \div Alignment) * Alignment

\* Mistake: every segment has the least size.
GrownLeast(n) == kSegmentSize

\* The segment_size of grow_locked.
Grown(n) == IF AlignUp(n) > kSegmentSize THEN AlignUp(n) ELSE kSegmentSize

Pool == INSTANCE BlockPool WITH SegmentSizes <- {Grown(n) : n \in Sizes}

Address == 0 .. MaxAddress

\* [a, a + n) lies in [b, b + m).
Within(a, n, b, m) == b <= a /\ a + n <= b + m

\* Mistake: threads compiled with per-thread default streams.
StreamOfPerThread(t) == t

\* Everything is built for the legacy default stream, which all threads share.
StreamOf(t) == Null

Command(op, t, a, n) ==
  [op |-> op, thread |-> t, stream |-> StreamOf(t), address |-> a, size |-> n]

\* The address is in a live allocation.
Allocated(a) == \E b \in Address : Within(a, 1, b, live[b])

Held(t) == {a \in Address : owner[a] = t}

Goto(t, where) == pc' = [pc EXCEPT ![t] = where]

Init ==
  /\ Pool!Init
  /\ mutex = Null
  /\ pc = [t \in Thread |-> "idle"]
  /\ request = [t \in Thread |-> 0]
  /\ segment = [t \in Thread |-> 0]
  /\ released = {}
  /\ mapped = [a \in Address |-> 0]
  /\ stream = <<>>
  /\ contents = [a \in Address |-> Null]
  /\ owner = [a \in Address |-> Null]
  /\ filled = {}
  /\ status = "running"

-----------------------------------------------------------------------------
(* What a thread does with device memory                                   *)

RequestAllocate(t, n) ==
  /\ pc[t] = "idle" /\ Cardinality(Held(t)) < MaxHeld
  /\ Goto(t, "lock")
  /\ request' = [request EXCEPT ![t] = n]
  /\ UNCHANGED <<arena, mutex, segment, released, device, owner, filled, status>>

\* cudaGetDevice, which allocate calls before it takes the mutex, fails.
GetDeviceFails(t) ==
  /\ pc[t] = "idle" /\ Cardinality(Held(t)) < MaxHeld
  /\ status' = "device error"
  /\ UNCHANGED <<arena, mutex, pc, request, segment, released, device, owner, filled>>

RequestDeallocate(t, a) ==
  /\ pc[t] = "idle" /\ owner[a] = t
  /\ Goto(t, "lockToFree")
  /\ request' = [request EXCEPT ![t] = a]
  /\ UNCHANGED <<arena, mutex, segment, released, device, owner, filled, status>>

\* A kernel launch returns at once.
Launch(t, a) ==
  /\ pc[t] = "idle" /\ owner[a] = t /\ Len(stream) < MaxQueue
  /\ stream' = Append(stream, Command("fill", t, a, live[a]))
  /\ filled' = filled \cup {a}
  /\ UNCHANGED <<arena, mutex, pc, request, segment, released, mapped, contents, owner, status>>

(* copy_cuda to the host.  The destination is pageable memory, so the last *)
(* copy has been made when the call returns; the temporary it converts the *)
(* elements into is left out.                                              *)
ReadBack(t, a) ==
  /\ pc[t] = "idle" /\ owner[a] = t /\ a \in filled
  /\ stream' = Append(stream, Command("copy", t, a, live[a]))
  /\ Goto(t, "copying")
  /\ UNCHANGED <<arena, mutex, request, segment, released, mapped, contents, owner, filled, status>>

-----------------------------------------------------------------------------
(* allocate                                                                *)

\* Mistake: a second thread enters the critical section.
LockTaken(t) ==
  /\ \/ pc[t] = "lock" /\ Goto(t, "try")
     \/ pc[t] = "lockToFree" /\ Goto(t, "free")
  /\ mutex' = t
  /\ UNCHANGED <<arena, request, segment, released, device, owner, filled, status>>

Lock(t) ==
  /\ mutex = Null
  /\ \/ pc[t] = "lock" /\ Goto(t, "try")
     \/ pc[t] = "lockToFree" /\ Goto(t, "free")
  /\ mutex' = t
  /\ UNCHANGED <<arena, request, segment, released, device, owner, filled, status>>

\* The lock_guard goes out of scope and the call returns.
Return(t) ==
  /\ mutex' = Null
  /\ Goto(t, "idle")
  /\ request' = [request EXCEPT ![t] = 0]
  /\ segment' = [segment EXCEPT ![t] = 0]

HandOut(t) ==
  /\ \E a \in Address : /\ Pool!Grant(request[t], a)
                        /\ owner' = [owner EXCEPT ![a] = t]
  /\ Return(t)
  /\ UNCHANGED <<released, device, filled, status>>

AllocateFirst(t) == pc[t] = "try" /\ HandOut(t)

\* Mistake: the mutex is released for the blocking cudaMalloc.
MissUnlocked(t) ==
  /\ pc[t] = "try"
  /\ Pool!Refuse(request[t])
  /\ Goto(t, "malloc")
  /\ mutex' = Null
  /\ UNCHANGED <<request, segment, released, device, owner, filled, status>>

Miss(t) ==
  /\ pc[t] = "try"
  /\ Pool!Refuse(request[t])
  /\ Goto(t, "malloc")
  /\ UNCHANGED <<mutex, request, segment, released, device, owner, filled, status>>

AllocateAgain(t) == pc[t] = "again" /\ HandOut(t)

-----------------------------------------------------------------------------
(* grow_locked and release_free_segments_locked                            *)

\* cudaMalloc: memory of the process that is not mapped, aligned for any use.
CudaMalloc(t) ==
  /\ pc[t] \in {"malloc", "retry"}
  /\ \E s \in Address :
       LET n == Grown(request[t])
       IN  /\ s # 0 /\ s % Alignment = 0 /\ s + n - 1 <= MaxAddress
           /\ \A m \in Address : mapped[m] > 0 => ~Pool!Overlap(s, n, m, mapped[m])
           /\ mapped' = [mapped EXCEPT ![s] = n]
           /\ segment' = [segment EXCEPT ![t] = s]
  /\ Goto(t, "add")
  /\ UNCHANGED <<arena, mutex, request, released, stream, contents, owner, filled, status>>

\* Mistake: segments are released without waiting for the device.
FailsUnsynchronized(t) ==
  /\ \/ pc[t] = "malloc" /\ Goto(t, "extract") /\ UNCHANGED status
     \/ pc[t] = "retry" /\ status' = "out of memory" /\ UNCHANGED pc
  /\ UNCHANGED <<arena, mutex, request, segment, released, device, owner, filled>>

\* Mistake: the first failure of cudaMalloc is final.
FailsForGood(t) ==
  /\ pc[t] = "malloc" /\ status' = "out of memory"
  /\ UNCHANGED <<arena, mutex, pc, request, segment, released, device, owner, filled>>

\* cudaErrorMemoryAllocation, which the device may answer at any time.
CudaMallocFails(t) ==
  /\ \/ pc[t] = "malloc" /\ Goto(t, "sync") /\ UNCHANGED status
     \/ pc[t] = "retry" /\ status' = "out of memory" /\ UNCHANGED pc
  /\ UNCHANGED <<arena, mutex, request, segment, released, device, owner, filled>>

\* Any other error of a CUDA call ends the process.
CudaError(t) ==
  /\ pc[t] \in {"malloc", "retry", "sync", "cudaFree"}
  /\ status' = "device error"
  /\ UNCHANGED <<arena, mutex, pc, request, segment, released, device, owner, filled>>

Synchronize(t) ==
  /\ pc[t] = "sync"
  /\ stream' = Append(stream, Command("synchronize", t, 0, 0))
  /\ Goto(t, "draining")
  /\ UNCHANGED <<arena, mutex, request, segment, released, mapped, contents, owner, filled, status>>

ExtractSegments(t) ==
  /\ pc[t] = "extract"
  /\ Pool!Release
  /\ released' = {s \in Address : segSize[s] > 0 /\ segSize'[s] = 0}
  /\ Goto(t, "cudaFree")
  /\ UNCHANGED <<mutex, request, segment, device, owner, filled, status>>

\* Mistake: only one of the segments extracted is freed.
CudaFreeOne(t) ==
  /\ pc[t] = "cudaFree"
  /\ \E s \in released : /\ mapped' = [mapped EXCEPT ![s] = 0]
                         /\ released' = {}
  /\ UNCHANGED <<arena, mutex, pc, request, segment, stream, contents, owner, filled, status>>

CudaFree(t) ==
  /\ pc[t] = "cudaFree"
  /\ \E s \in released : /\ mapped' = [mapped EXCEPT ![s] = 0]
                         /\ released' = released \ {s}
  /\ UNCHANGED <<arena, mutex, pc, request, segment, stream, contents, owner, filled, status>>

\* Mistake: cudaMalloc is retried, and the arena released, until it succeeds.
ReleasedAgain(t) ==
  /\ pc[t] = "cudaFree" /\ released = {}
  /\ Goto(t, "malloc")
  /\ UNCHANGED <<arena, mutex, request, segment, released, device, owner, filled, status>>

Released(t) ==
  /\ pc[t] = "cudaFree" /\ released = {}
  /\ Goto(t, "retry")
  /\ UNCHANGED <<arena, mutex, request, segment, released, device, owner, filled, status>>

\* Mistake: the arena is told the least size, not the size acquired.
AddSegmentLeast(t) ==
  /\ pc[t] = "add"
  /\ Pool!Add(segment[t], kSegmentSize)
  /\ Goto(t, "again")
  /\ UNCHANGED <<mutex, request, segment, released, device, owner, filled, status>>

AddSegment(t) ==
  /\ pc[t] = "add"
  /\ Pool!Add(segment[t], Grown(request[t]))
  /\ Goto(t, "again")
  /\ UNCHANGED <<mutex, request, segment, released, device, owner, filled, status>>

-----------------------------------------------------------------------------
(* deallocate                                                              *)

Deallocate(t) ==
  /\ pc[t] = "free"
  /\ Pool!Free(request[t])
  /\ owner' = [owner EXCEPT ![request[t]] = Null]
  /\ filled' = filled \ {request[t]}
  /\ contents' = [a \in Address |->
       IF Within(a, 1, request[t], live[request[t]]) THEN Null ELSE contents[a]]
  /\ Return(t)
  /\ UNCHANGED <<released, mapped, stream, status>>

-----------------------------------------------------------------------------
(* The device                                                              *)

(* A command may start when those submitted before it to its stream are    *)
(* done; cudaDeviceSynchronize waits for all that precede it in any stream. *)
Runnable ==
  {i \in 1 .. Len(stream) :
     \A j \in 1 .. i - 1 :
       stream[i].op # "synchronize" /\ stream[j].stream # stream[i].stream}

Execute ==
  \E i \in Runnable :
    LET c == stream[i]
        t == c.thread
    IN  /\ stream' = SubSeq(stream, 1, i - 1) \o SubSeq(stream, i + 1, Len(stream))
        /\ \/ /\ c.op = "fill"
              /\ contents' = [a \in Address |->
                   IF Within(a, 1, c.address, c.size) /\ Allocated(a) THEN t ELSE contents[a]]
              /\ UNCHANGED pc
           \/ c.op = "copy" /\ Goto(t, "idle") /\ UNCHANGED contents
           \/ c.op = "synchronize" /\ Goto(t, "extract") /\ UNCHANGED contents
        /\ UNCHANGED <<arena, mutex, request, segment, released, mapped, owner, filled, status>>

-----------------------------------------------------------------------------

\* A thread inside the critical section.
Locked(t) ==
  \/ AllocateFirst(t) \/ Miss(t) \/ AllocateAgain(t)
  \/ CudaMalloc(t) \/ CudaMallocFails(t) \/ CudaError(t)
  \/ Synchronize(t) \/ ExtractSegments(t) \/ CudaFree(t) \/ Released(t)
  \/ AddSegment(t) \/ Deallocate(t)

Running ==
  /\ status = "running"
  /\ \/ Execute
     \/ \E t \in Thread :
          \/ \E n \in Sizes : RequestAllocate(t, n)
          \/ \E a \in Address : RequestDeallocate(t, a) \/ Launch(t, a) \/ ReadBack(t, a)
          \/ GetDeviceFails(t) \/ Lock(t) \/ Locked(t)

\* std::terminate has been called.
Terminated == status # "running" /\ UNCHANGED vars

Next == Running \/ Terminated

Spec == Init /\ [][Next]_vars

(* Threads that hold the mutex are scheduled, a free mutex is taken by a   *)
(* thread that waits for it, and the device works its queue off.  Nothing  *)
(* obliges the mutex to be fair to one thread or a program to go on.       *)
Fairness ==
  /\ WF_vars(status = "running" /\ Execute)
  /\ WF_vars(status = "running" /\ \E t \in Thread : Lock(t))
  /\ \A t \in Thread : WF_vars(status = "running" /\ Locked(t))

FairSpec == Spec /\ Fairness
-----------------------------------------------------------------------------
(* Correctness                                                             *)

Places == {"idle", "copying", "lock", "lockToFree"}
LockedPlaces == {"try", "malloc", "sync", "draining", "extract", "cudaFree",
                 "retry", "add", "again", "free"}
GrowPlaces == LockedPlaces \ {"try", "again", "free"}

Commands == [op : {"fill", "copy", "synchronize"}, thread : Thread,
             stream : Thread \cup {Null}, address : Address, size : Nat]

\* Every variable has its type, and a thread is past the lock just when it holds the mutex.
TypeOK ==
  /\ segSize \in [Address -> Nat] /\ live \in [Address -> Nat] /\ reply \in Pool!Replies
  /\ mutex \in Thread \cup {Null}
  /\ pc \in [Thread -> Places \cup LockedPlaces]
  /\ \A t \in Thread : pc[t] \in LockedPlaces <=> mutex = t
  /\ request \in [Thread -> Nat]
  /\ segment \in [Thread -> Address]
  /\ released \subseteq Address
  /\ mapped \in [Address -> Nat]
  /\ stream \in Seq(Commands)
  /\ contents \in [Address -> Thread \cup {Null}]
  /\ owner \in [Address -> Thread \cup {Null}]
  /\ filled \subseteq Address
  /\ status \in {"running", "out of memory", "device error"}

(* No kernel or copy waiting on the device touches memory that has been    *)
(* returned to the driver, although segments are returned while kernels on *)
(* freed allocations may be queued: release_free_segments_locked           *)
(* synchronizes first, and no later launch can be on what it then frees.   *)
NoUseAfterCudaFree ==
  \A i \in 1 .. Len(stream) :
    stream[i].op # "synchronize" =>
      \E m \in Address : Within(stream[i].address, stream[i].size, m, mapped[m])

(* A thread that fills an allocation and reads it back gets what its own   *)
(* kernel wrote, although the memory may have been freed by another thread *)
(* whose kernels on it had not yet run: reuse needs no event.              *)
ReadsBackOwnData ==
  \A i \in Runnable :
    stream[i].op = "copy" =>
      \A a \in Address :
        Within(a, 1, stream[i].address, stream[i].size) => contents[a] = stream[i].thread

(* A thread in grow_locked has a request that no free memory of the arena  *)
(* can satisfy at that time: no concurrent request has grown the arena and *)
(* no deallocation has made room since the thread missed.                  *)
NoDuplicateGrowth ==
  \A t \in Thread :
    pc[t] \in GrowPlaces => \A a \in Address : ~Pool!FreeRun(a, AlignUp(request[t]))

(* The segment just acquired serves the request it was acquired for: the   *)
(* LMP_INTERNAL_ASSERT after the second arena.allocate never fires.        *)
GrowthServesRequest ==
  \A t \in Thread :
    pc[t] = "again" => \E a \in Address : Pool!FreeRun(a, AlignUp(request[t]))

(* The arena and the driver agree about the segments: every segment of the *)
(* arena is mapped, and no mapped memory is lost, being of the arena, about *)
(* to be added to it, or extracted from it and about to be freed.          *)
SegmentsAreMapped ==
  \A s \in Address :
    /\ segSize[s] > 0 => mapped[s] = segSize[s]
    /\ mapped[s] > 0 =>
         \/ segSize[s] > 0 \/ s \in released
         \/ \E t \in Thread : pc[t] = "add" /\ segment[t] = s

(* The process runs out of memory only when all the memory it has mapped   *)
(* is in segments with a live allocation, none of it merely cached.        *)
OutOfMemoryMeansInUse ==
  status = "out of memory" =>
    \A s \in Address : mapped[s] > 0 =>
      \E a \in Address : live[a] > 0 /\ Within(a, live[a], s, mapped[s])

(* What relates the parts of the state, from which the properties above    *)
(* follow by induction.                                                    *)

Arguments ==
  \A t \in Thread :
    /\ pc[t] \in {"lock", "try", "again"} \cup GrowPlaces => request[t] \in Sizes
    /\ pc[t] \in {"lockToFree", "free"} => request[t] \in Address /\ owner[request[t]] = t
    /\ pc[t] = "add" => /\ segment[t] # 0 /\ segSize[segment[t]] = 0
                        /\ mapped[segment[t]] = Grown(request[t])

\* Live allocations have an owner and lie apart, each in a segment; so do the mappings.
LiveApart ==
  /\ live[0] = 0 /\ mapped[0] = 0
  /\ \A a \in Address : live[a] > 0 <=> owner[a] # Null
  /\ filled \subseteq {a \in Address : owner[a] # Null}
  /\ \A a \in Address : live[a] > 0 =>
       \E s \in Address : segSize[s] > 0 /\ Within(a, live[a], s, segSize[s])
  /\ \A a, b \in Address : a # b /\ live[a] > 0 /\ live[b] > 0 => ~Pool!Overlap(a, live[a], b, live[b])
  /\ \A r, s \in Address : r # s /\ mapped[r] > 0 /\ mapped[s] > 0 => ~Pool!Overlap(r, mapped[r], s, mapped[s])

\* What has been extracted is mapped, no longer the arena's, and known to a thread freeing it.
ReleasedApart ==
  \A s \in released :
    mapped[s] > 0 /\ segSize[s] = 0 /\ \E t \in Thread : pc[t] = "cudaFree"

\* The blocking commands on the device are those of the threads that wait for them.
Waiters ==
  /\ \A i \in 1 .. Len(stream) :
       LET c == stream[i]
       IN  /\ c.op = "synchronize" => pc[c.thread] = "draining"
           /\ c.op = "copy" => pc[c.thread] = "copying"
           /\ c.op # "synchronize" => c.size > 0
  /\ \A i, j \in 1 .. Len(stream) :
       /\ stream[i].op # "fill" /\ stream[i].op = stream[j].op
       /\ stream[i].thread = stream[j].thread
       => i = j
  /\ \A t \in Thread :
       /\ pc[t] = "draining" => \E i \in 1 .. Len(stream) :
                                 stream[i].op = "synchronize" /\ stream[i].thread = t
       /\ pc[t] = "copying" => \E i \in 1 .. Len(stream) :
                                 stream[i].op = "copy" /\ stream[i].thread = t

\* The commands submitted after a synchronization has begun are on live allocations.
Drained ==
  \A i \in 1 .. Len(stream) :
    /\ stream[i].op # "synchronize"
    /\ \/ \E t \in Thread : pc[t] \in {"extract", "cudaFree"}
       \/ \E j \in 1 .. i - 1 : stream[j].op = "synchronize"
    => \E a \in Address : live[a] > 0 /\ Within(stream[i].address, stream[i].size, a, live[a])

\* A segment that outlives a release has a live allocation in it.
NothingCached ==
  (\E t \in Thread : pc[t] \in {"cudaFree", "retry"}) =>
    \A s \in Address : segSize[s] > 0 =>
      \E a \in Address : live[a] > 0 /\ Within(a, live[a], s, segSize[s])

IInv ==
  /\ TypeOK /\ Arguments /\ LiveApart /\ SegmentsAreMapped /\ ReleasedApart
  /\ Waiters /\ NoUseAfterCudaFree /\ Drained /\ NothingCached
  /\ NoDuplicateGrowth /\ GrowthServesRequest /\ OutOfMemoryMeansInUse

(* A thread that has the mutex gives it back or the process ends, even     *)
(* when it has to wait for the device while others go on launching kernels. *)
MutexReleased ==
  \A t \in Thread : mutex = t ~> (mutex # t \/ status # "running")
=============================================================================
