------------------------- MODULE CudaAllocatorProofs -------------------------
(***************************************************************************)
(* Proofs about CudaAllocator for any threads, requests, address space and *)
(* least segment: the mutex excludes, live allocations and mappings stay   *)
(* apart, no command outlives the memory it is on, growth is needed and    *)
(* sufficient, out of memory means in use, and a thread reads back what it *)
(* wrote to memory that was handed out again.                              *)
(***************************************************************************)
EXTENDS CudaAllocator, SequenceTheorems, TLAPS

\* The size of a request and of the segment it may need are positive.
LEMMA GrownSuffices ==
  ASSUME NEW n \in Sizes
  PROVE  /\ AlignUp(n) \in Nat /\ AlignUp(n) > 0
         /\ Grown(n) \in Nat /\ Grown(n) >= AlignUp(n) /\ Grown(n) > 0
<1> DEFINE q == (n + Alignment - 1) \div Alignment
<1>1. Alignment \in Nat /\ Alignment > 0 /\ n \in Nat /\ n > 0
  BY AlignmentAssumption, SizesAssumption
<1>2. q \in Int /\ q >= 1
  BY <1>1
<1>3. q * Alignment \in Nat /\ q * Alignment > 0
  <2> HIDE DEF q
  <2> QED BY <1>1, <1>2
<1>4. AlignUp(n) \in Nat /\ AlignUp(n) > 0
  BY <1>3 DEF AlignUp
<1> QED BY <1>4, SegmentSizeAssumption DEF Grown

\* The pool and the allocator round alike.
LEMMA PoolAlignUp ==
  ASSUME NEW n
  PROVE  Pool!AlignUp(n) = AlignUp(n)
BY DEF Pool!AlignUp, AlignUp

\* No two threads are past the lock.
LEMMA Alone ==
  ASSUME TypeOK, NEW t \in Thread, pc[t] \in LockedPlaces, NEW u \in Thread, u # t
  PROVE  pc[u] \notin LockedPlaces
BY DEF TypeOK

\* Addresses and sizes are natural numbers.
LEMMA Numbers ==
  ASSUME TypeOK, NEW a \in Address
  PROVE  a \in Nat /\ segSize[a] \in Nat /\ live[a] \in Nat /\ mapped[a] \in Nat
<1>1. a \in Nat
  BY AddressAssumption DEF Address
<1>2. segSize[a] \in Nat /\ live[a] \in Nat /\ mapped[a] \in Nat
  BY DEF TypeOK
<1> QED BY <1>1, <1>2

\* Mapped memory that overlaps is one mapping; of segments the same holds.
LEMMA MappedOnce ==
  ASSUME IInv, NEW r \in Address, NEW s \in Address, mapped[r] > 0, mapped[s] > 0,
         NEW a \in Nat, r <= a, a < r + mapped[r], s <= a, a < s + mapped[s]
  PROVE  r = s
<1>1. r \in Nat /\ s \in Nat /\ mapped[r] \in Nat /\ mapped[s] \in Nat
  BY Numbers DEF IInv
<1>2. Pool!Overlap(r, mapped[r], s, mapped[s])
  BY <1>1 DEF Pool!Overlap
<1> QED BY <1>2 DEF IInv, LiveApart

\* A live allocation is in one segment, which is mapped, and at no null pointer.
LEMMA LiveMapped ==
  ASSUME IInv, NEW a \in Address, live[a] > 0
  PROVE  \E s \in Address : /\ segSize[s] > 0 /\ mapped[s] = segSize[s]
                            /\ Within(a, live[a], s, segSize[s])
BY DEF IInv, LiveApart, SegmentsAreMapped

\* What is held by a thread is live.
LEMMA OwnedLive ==
  ASSUME IInv, NEW t \in Thread, NEW a \in Address, owner[a] = t
  PROVE  live[a] > 0
BY NullAssumption DEF IInv, LiveApart

\* While a thread is past the lock and does not free segments, none is extracted.
LEMMA NoneReleased ==
  ASSUME IInv, NEW t \in Thread, pc[t] \in LockedPlaces, pc[t] # "cudaFree"
  PROVE  released = {}
<1>1. \A u \in Thread : pc[u] # "cudaFree"
  BY Alone DEF IInv, LockedPlaces
<1> QED BY <1>1 DEF IInv, ReleasedApart

\* What is queued are commands of threads.
LEMMA Queued ==
  ASSUME TypeOK, NEW i \in 1 .. Len(stream)
  PROVE  stream[i] \in Commands /\ stream[i].thread \in Thread
<1>1. stream \in Seq(Commands)
  BY DEF TypeOK
<1>2. stream[i] \in Commands
  BY <1>1
<1> QED BY <1>2 DEF Commands

\* Commands synchronize only while their thread is past the lock.
LEMMA NoneDraining ==
  ASSUME IInv, NEW t \in Thread, pc[t] \in LockedPlaces, pc[t] # "draining"
  PROVE  \A i \in 1 .. Len(stream) : stream[i].op # "synchronize"
<1>1. \A u \in Thread : pc[u] # "draining"
  BY Alone DEF IInv, LockedPlaces
<1>2. \A i \in 1 .. Len(stream) : stream[i].thread \in Thread
  BY Queued DEF IInv
<1> QED BY <1>1, <1>2 DEF IInv, Waiters

-----------------------------------------------------------------------------
(* What a step keeps that leaves alone what a part of the invariant reads  *)

\* A thread that neither begins nor ends to wait for the device.
LEMMA WaitersKept ==
  ASSUME TypeOK, Waiters, stream' = stream,
         NEW t \in Thread, NEW where,
         pc' = [pc EXCEPT ![t] = where],
         pc[t] \notin {"draining", "copying"}, where \notin {"draining", "copying"}
  PROVE  Waiters'
<1>1. \A u \in Thread : /\ pc'[u] = "draining" <=> pc[u] = "draining"
                        /\ pc'[u] = "copying" <=> pc[u] = "copying"
  BY DEF TypeOK
<1>2. \A i \in 1 .. Len(stream) : stream[i].thread \in Thread
  BY Queued
<1> QED BY <1>1, <1>2 DEF Waiters

\* Commands remain on the mappings they are on.
LEMMA UseKept ==
  ASSUME NoUseAfterCudaFree, stream' = stream, mapped' = mapped
  PROVE  NoUseAfterCudaFree'
BY DEF NoUseAfterCudaFree

\* The thread t goes to a place, and the memory is left alone.
LEMMA MemoryKept ==
  ASSUME LiveApart, UNCHANGED <<segSize, live, mapped, owner, filled>>
  PROVE  LiveApart'
BY DEF LiveApart

\* The steps that change neither the arena nor the driver, nor what a thread
\* that grows the arena is at, keep what is said about growth.
LEMMA GrowthKept ==
  ASSUME IInv, UNCHANGED <<segSize, live, mapped, released, segment>>,
         status' \in {status, "device error"},
         \A u \in Thread : pc[u] \in GrowPlaces \cup {"again"} \/ pc'[u] \in GrowPlaces \cup {"again"}
                           => pc'[u] = pc[u] /\ request'[u] = request[u]
  PROVE  /\ SegmentsAreMapped' /\ ReleasedApart' /\ NothingCached'
         /\ NoDuplicateGrowth' /\ GrowthServesRequest' /\ OutOfMemoryMeansInUse'
<1> USE DEF IInv, GrowPlaces, LockedPlaces
<1>0. \A u \in Thread : /\ pc'[u] = "add" <=> pc[u] = "add"
                        /\ pc'[u] = "cudaFree" <=> pc[u] = "cudaFree"
  OBVIOUS
<1>1. SegmentsAreMapped'
  <2>1. SegmentsAreMapped
    OBVIOUS
  <2> HIDE DEF IInv
  <2> QED BY <1>0, <2>1 DEF SegmentsAreMapped
<1>2. ReleasedApart'
  <2>1. ReleasedApart
    OBVIOUS
  <2> HIDE DEF IInv
  <2> QED BY <1>0, <2>1 DEF ReleasedApart
<1>3. NothingCached'
  BY DEF NothingCached
<1>4. NoDuplicateGrowth'
  BY DEF NoDuplicateGrowth, Pool!FreeRun, Pool!Segments, Pool!Live
<1>5. GrowthServesRequest'
  BY DEF GrowthServesRequest, Pool!FreeRun, Pool!Segments, Pool!Live
<1>6. OutOfMemoryMeansInUse'
  BY DEF OutOfMemoryMeansInUse
<1> QED BY <1>1, <1>2, <1>3, <1>4, <1>5, <1>6

\* The steps that change neither the queue nor the live allocations, and bring
\* no thread to where segments are freed.
LEMMA DrainedKept ==
  ASSUME Drained, stream' = stream, live' = live,
         \A u \in Thread : pc'[u] \in {"extract", "cudaFree"} => pc[u] \in {"extract", "cudaFree"}
  PROVE  Drained'
BY DEF Drained

-----------------------------------------------------------------------------
(* Outside the critical section                                            *)

\* A thread comes to the lock with a size, or with an allocation of its own.
LEMMA RequestIInv ==
  ASSUME IInv, NEW t \in Thread,
         \/ \E n \in Sizes : RequestAllocate(t, n)
         \/ \E a \in Address : RequestDeallocate(t, a)
  PROVE  IInv'
<1>1. PICK where \in {"lock", "lockToFree"}, r \in Nat :
        /\ pc[t] = "idle"
        /\ pc' = [pc EXCEPT ![t] = where]
        /\ request' = [request EXCEPT ![t] = r]
        /\ where = "lock" => r \in Sizes
        /\ where = "lockToFree" => r \in Address /\ owner[r] = t
        /\ UNCHANGED <<arena, mutex, segment, released, device, owner, filled, status>>
  BY SizesAssumption DEF RequestAllocate, RequestDeallocate, Goto, Address
<1>2. \A u \in Thread : /\ pc'[u] = IF u = t THEN where ELSE pc[u]
                        /\ request'[u] = IF u = t THEN r ELSE request[u]
  BY <1>1 DEF IInv, TypeOK
<1> USE <1>1 DEF IInv, arena, device
<1>3. TypeOK'
  <2>1. \A u \in Thread : pc'[u] \in LockedPlaces <=> mutex' = u
    BY <1>2 DEF TypeOK, LockedPlaces
  <2>2. pc' \in [Thread -> Places \cup LockedPlaces] /\ request' \in [Thread -> Nat]
    BY DEF TypeOK, Places
  <2> QED BY <2>1, <2>2 DEF TypeOK
<1>4. Arguments'
  BY <1>2 DEF Arguments, GrowPlaces, LockedPlaces
<1>5. Waiters'
  BY WaitersKept
<1>6. Drained'
  BY <1>2, DrainedKept
<1>7. /\ SegmentsAreMapped' /\ ReleasedApart' /\ NothingCached'
      /\ NoDuplicateGrowth' /\ GrowthServesRequest' /\ OutOfMemoryMeansInUse'
  BY <1>2, GrowthKept DEF GrowPlaces, LockedPlaces
<1> QED BY <1>3, <1>4, <1>5, <1>6, <1>7, MemoryKept, UseKept

\* A command that is appended is behind those that were there.
LEMMA Appended ==
  ASSUME TypeOK, NEW c \in Commands, stream' = Append(stream, c)
  PROVE  /\ stream' \in Seq(Commands) /\ Len(stream) \in Nat /\ Len(stream') = Len(stream) + 1
         /\ \A i \in 1 .. Len(stream) : stream'[i] = stream[i]
         /\ stream'[Len(stream) + 1] = c
         /\ \A i \in 1 .. Len(stream') : i \in 1 .. Len(stream) \/ i = Len(stream) + 1
<1>1. stream \in Seq(Commands)
  BY DEF TypeOK
<1> QED BY <1>1

\* A kernel, or a copy to the host, is queued on a live allocation.
LEMMA QueuedIInv ==
  ASSUME IInv, NEW t \in Thread, NEW a \in Address, Launch(t, a) \/ ReadBack(t, a)
  PROVE  IInv'
<1>1. PICK op \in {"fill", "copy"} :
        /\ pc[t] = "idle" /\ owner[a] = t
        /\ stream' = Append(stream, Command(op, t, a, live[a]))
        /\ op = "fill" => pc' = pc
        /\ op = "copy" => pc' = [pc EXCEPT ![t] = "copying"]
        /\ filled' \in {filled, filled \cup {a}}
        /\ UNCHANGED <<arena, mutex, request, segment, released, mapped, contents, owner, status>>
  BY DEF Launch, ReadBack, Goto
<1> DEFINE c == Command(op, t, a, live[a])
<1>2. /\ c \in Commands /\ c.op = op /\ c.thread = t /\ c.address = a /\ c.size = live[a]
      /\ live[a] > 0
  BY <1>1, OwnedLive DEF Command, Commands, StreamOf, IInv, TypeOK
<1> HIDE DEF c
<1>3. /\ stream' \in Seq(Commands) /\ Len(stream) \in Nat /\ Len(stream') = Len(stream) + 1
      /\ \A i \in 1 .. Len(stream) : stream'[i] = stream[i]
      /\ stream'[Len(stream) + 1] = c
      /\ \A i \in 1 .. Len(stream') : i \in 1 .. Len(stream) \/ i = Len(stream) + 1
  BY <1>1, <1>2, Appended DEF IInv, c
<1>4. \A u \in Thread : pc'[u] = IF u = t /\ op = "copy" THEN "copying" ELSE pc[u]
  BY <1>1 DEF IInv, TypeOK
<1> USE <1>1 DEF IInv, arena
<1>5. TypeOK'
  <2>1. \A u \in Thread : pc'[u] \in LockedPlaces <=> mutex' = u
    BY <1>4 DEF TypeOK, LockedPlaces
  <2>2. pc' \in [Thread -> Places \cup LockedPlaces]
    BY DEF TypeOK, Places
  <2> QED BY <1>3, <2>1, <2>2 DEF TypeOK
<1>6. Arguments'
  BY <1>4 DEF Arguments, GrowPlaces, LockedPlaces
<1>7. LiveApart'
  BY NullAssumption DEF LiveApart
<1>8. Waiters'
  <2> DEFINE n == Len(stream) + 1
  <2>1. \A i \in 1 .. Len(stream') :
          /\ stream'[i].op = "synchronize" => pc'[stream'[i].thread] = "draining"
          /\ stream'[i].op = "copy" => pc'[stream'[i].thread] = "copying"
          /\ stream'[i].op # "synchronize" => stream'[i].size > 0
    <3>1. \A i \in 1 .. Len(stream) : stream[i].thread \in Thread
      BY Queued
    <3> QED BY <1>2, <1>3, <1>4, <3>1 DEF Waiters
  <2>2. \A i, j \in 1 .. Len(stream') :
          stream'[i].op # "fill" /\ stream'[i].op = stream'[j].op /\ stream'[i].thread = stream'[j].thread
          => i = j
    BY <1>2, <1>3 DEF Waiters
  <2>3. \A u \in Thread :
          /\ pc'[u] = "draining" => \E i \in 1 .. Len(stream') :
                                    stream'[i].op = "synchronize" /\ stream'[i].thread = u
          /\ pc'[u] = "copying" => \E i \in 1 .. Len(stream') :
                                    stream'[i].op = "copy" /\ stream'[i].thread = u
    <3> SUFFICES ASSUME NEW u \in Thread
                 PROVE  /\ pc'[u] = "draining" => \E i \in 1 .. Len(stream') :
                                    stream'[i].op = "synchronize" /\ stream'[i].thread = u
                        /\ pc'[u] = "copying" => \E i \in 1 .. Len(stream') :
                                    stream'[i].op = "copy" /\ stream'[i].thread = u
      OBVIOUS
    <3>1. CASE u = t /\ op = "copy"
      BY <1>2, <1>3, <1>4, <3>1
    <3>2. CASE ~(u = t /\ op = "copy")
      BY <1>3, <1>4, <3>2 DEF Waiters
    <3> QED BY <3>1, <3>2
  <2> QED BY <2>1, <2>2, <2>3 DEF Waiters
<1>9. NoUseAfterCudaFree'
  <2>1. \E s \in Address : Within(a, live[a], s, mapped[s])
    BY <1>2, LiveMapped
  <2> QED BY <1>2, <1>3, <2>1 DEF NoUseAfterCudaFree
<1>10. Drained'
  <2>1. Within(a, live[a], a, live[a])
    <3>1. a \in Nat /\ live[a] \in Nat
      BY Numbers
    <3> QED BY <3>1 DEF Within
  <2>2. \A i \in 1 .. Len(stream) : \A j \in 1 .. i - 1 : stream'[j] = stream[j] /\ stream'[i] = stream[i]
    BY <1>3
  <2>3. ASSUME NEW i \in 1 .. Len(stream'), stream'[i].op # "synchronize",
               \/ \E u \in Thread : pc'[u] \in {"extract", "cudaFree"}
               \/ \E j \in 1 .. i - 1 : stream'[j].op = "synchronize"
        PROVE  \E b \in Address : live[b] > 0 /\ Within(stream'[i].address, stream'[i].size, b, live[b])
    <3>1. CASE i = Len(stream) + 1
      BY <1>2, <1>3, <2>1, <3>1
    <3>2. CASE i \in 1 .. Len(stream)
      BY <1>3, <1>4, <2>2, <2>3, <3>2 DEF Drained
    <3> QED BY <1>3, <3>1, <3>2
  <2> QED BY <2>3 DEF Drained
<1>11. /\ SegmentsAreMapped' /\ ReleasedApart' /\ NothingCached'
       /\ NoDuplicateGrowth' /\ GrowthServesRequest' /\ OutOfMemoryMeansInUse'
  BY <1>4, GrowthKept DEF GrowPlaces, LockedPlaces
<1> QED BY <1>5, <1>6, <1>7, <1>8, <1>9, <1>10, <1>11

-----------------------------------------------------------------------------
(* Inside the critical section, the memory left alone                      *)

\* A thread passes the lock, behind which there was nobody.
LEMMA LockIInv ==
  ASSUME IInv, NEW t \in Thread, Lock(t)
  PROVE  IInv'
<1>1. PICK where \in {"try", "free"} :
        /\ mutex = Null /\ mutex' = t
        /\ pc[t] = IF where = "try" THEN "lock" ELSE "lockToFree"
        /\ pc' = [pc EXCEPT ![t] = where]
        /\ UNCHANGED <<arena, request, segment, released, device, owner, filled, status>>
  BY DEF Lock, Goto
<1>2. \A u \in Thread : pc'[u] = IF u = t THEN where ELSE pc[u]
  BY <1>1 DEF IInv, TypeOK
<1> USE <1>1 DEF IInv, arena, device
<1>3. TypeOK'
  <2>1. \A u \in Thread : pc[u] \notin LockedPlaces
    BY NullAssumption DEF TypeOK
  <2>2. \A u \in Thread : pc'[u] \in LockedPlaces <=> mutex' = u
    BY <1>2, <2>1 DEF LockedPlaces
  <2>3. pc' \in [Thread -> Places \cup LockedPlaces]
    BY DEF TypeOK, LockedPlaces
  <2> QED BY <2>2, <2>3 DEF TypeOK
<1>4. Arguments'
  BY <1>2 DEF Arguments, GrowPlaces, LockedPlaces
<1>5. Waiters'
  BY WaitersKept
<1>6. Drained'
  BY <1>2, DrainedKept
<1>7. /\ SegmentsAreMapped' /\ ReleasedApart' /\ NothingCached'
      /\ NoDuplicateGrowth' /\ GrowthServesRequest' /\ OutOfMemoryMeansInUse'
  BY <1>2, GrowthKept DEF GrowPlaces, LockedPlaces
<1> QED BY <1>3, <1>4, <1>5, <1>6, <1>7, MemoryKept, UseKept

\* The miss finds that no free memory serves the request.
LEMMA MissIInv ==
  ASSUME IInv, NEW t \in Thread, Miss(t)
  PROVE  IInv'
<1>1. /\ pc[t] = "try" /\ pc' = [pc EXCEPT ![t] = "malloc"]
      /\ Pool!Refuse(request[t])
      /\ UNCHANGED <<segSize, live, mutex, request, segment, released, device, owner, filled, status>>
  BY DEF Miss, Goto, Pool!Refuse
<1>2. \A u \in Thread : pc'[u] = IF u = t THEN "malloc" ELSE pc[u]
  BY <1>1 DEF IInv, TypeOK
<1>3. \A u \in Thread : u # t => pc[u] \notin LockedPlaces
  BY <1>1, Alone DEF IInv, LockedPlaces
<1>4. \A a \in Address : ~Pool!FreeRun(a, AlignUp(request[t]))
  BY <1>1, PoolAlignUp DEF Pool!Refuse, Pool!Address, Address
<1> USE <1>1 DEF IInv, device
<1>5. TypeOK'
  <2>1. \A u \in Thread : pc'[u] \in LockedPlaces <=> mutex' = u
    BY <1>2 DEF TypeOK, LockedPlaces
  <2>2. pc' \in [Thread -> Places \cup LockedPlaces]
    BY DEF TypeOK, LockedPlaces
  <2>3. reply' \in Pool!Replies
    BY DEF Pool!Refuse, Pool!Replies, Pool!Answer, TypeOK
  <2> QED BY <2>1, <2>2, <2>3 DEF TypeOK
<1>6. Arguments'
  BY <1>2 DEF Arguments, GrowPlaces, LockedPlaces
<1>7. Waiters'
  BY WaitersKept
<1>8. Drained'
  BY <1>2, DrainedKept
<1>9. SegmentsAreMapped' /\ ReleasedApart' /\ NothingCached' /\ OutOfMemoryMeansInUse'
  <2>1. \A u \in Thread : /\ pc'[u] = "add" <=> pc[u] = "add"
                          /\ pc'[u] = "cudaFree" <=> pc[u] = "cudaFree"
                          /\ pc'[u] = "retry" <=> pc[u] = "retry"
    BY <1>2
  <2>2. SegmentsAreMapped'
    BY <2>1 DEF SegmentsAreMapped
  <2>3. ReleasedApart' /\ NothingCached'
    BY <2>1 DEF ReleasedApart, NothingCached
  <2> QED BY <2>2, <2>3 DEF OutOfMemoryMeansInUse
<1>10. NoDuplicateGrowth'
  BY <1>2, <1>3, <1>4 DEF NoDuplicateGrowth, GrowPlaces, Pool!FreeRun, Pool!Segments, Pool!Live
<1>11. GrowthServesRequest'
  BY <1>2, <1>3 DEF GrowthServesRequest, LockedPlaces
<1> QED BY <1>5, <1>6, <1>7, <1>8, <1>9, <1>10, <1>11, MemoryKept, UseKept

\* The thread that grows the arena goes on, the memory left alone.
LEMMA GrowingIInv ==
  ASSUME IInv, NEW t \in Thread, CudaMallocFails(t) \/ CudaError(t) \/ Released(t)
  PROVE  IInv'
<1> DEFINE Calls == {"malloc", "retry", "sync", "cudaFree"}
<1>1. PICK where \in Calls :
        /\ pc[t] \in Calls /\ pc' = [pc EXCEPT ![t] = where]
        /\ where = "cudaFree" => pc[t] = "cudaFree"
        /\ where = "retry" => pc[t] = "retry" \/ (pc[t] = "cudaFree" /\ released = {})
        /\ where # "cudaFree" /\ pc[t] = "cudaFree" => released = {}
        /\ status' \in {status, "device error"} \/ (pc[t] = "retry" /\ status' = "out of memory")
        /\ UNCHANGED <<arena, mutex, request, segment, released, device, owner, filled>>
  <2>1. pc' = pc => pc' = [pc EXCEPT ![t] = pc[t]]
    BY DEF IInv, TypeOK
  <2>2. CASE CudaMallocFails(t) /\ pc[t] = "malloc"
    <3> WITNESS "sync" \in Calls
    <3> QED BY <2>2 DEF CudaMallocFails, Goto
  <2>3. CASE CudaMallocFails(t) /\ pc[t] # "malloc"
    <3> WITNESS "retry" \in Calls
    <3> QED BY <2>1, <2>3 DEF CudaMallocFails
  <2>4. CASE CudaError(t)
    <3>1. pc[t] \in Calls
      BY <2>4 DEF CudaError
    <3>2. PICK where \in Calls : where = pc[t]
      BY <3>1
    <3> WITNESS where \in Calls
    <3> QED BY <2>1, <2>4, <3>2 DEF CudaError
  <2>5. CASE Released(t)
    <3> WITNESS "retry" \in Calls
    <3> QED BY <2>5 DEF Released, Goto
  <2> QED BY <2>2, <2>3, <2>4, <2>5
<1>2. \A u \in Thread : pc'[u] = IF u = t THEN where ELSE pc[u]
  BY <1>1 DEF IInv, TypeOK
<1>3. \A u \in Thread : u # t => pc[u] \notin LockedPlaces
  BY <1>1, Alone DEF IInv, LockedPlaces
<1> USE <1>1 DEF IInv, arena, device
<1>5. TypeOK'
  <2>1. \A u \in Thread : pc'[u] \in LockedPlaces <=> mutex' = u
    BY <1>2 DEF TypeOK, LockedPlaces
  <2>2. pc' \in [Thread -> Places \cup LockedPlaces]
    BY DEF TypeOK, LockedPlaces
  <2> QED BY <2>1, <2>2 DEF TypeOK
<1>6. Arguments'
  <2>1. \A u \in Thread :
          pc'[u] \in {"lock", "try", "again"} \cup GrowPlaces => pc[u] \in {"lock", "try", "again"} \cup GrowPlaces
    BY <1>2 DEF GrowPlaces, LockedPlaces
  <2>2. \A u \in Thread : /\ pc'[u] \in {"lockToFree", "free"} => pc[u] \in {"lockToFree", "free"}
                          /\ pc'[u] = "add" => pc[u] = "add"
    BY <1>2
  <2> QED BY <2>1, <2>2 DEF Arguments
<1>7. Waiters'
  BY WaitersKept
<1>8. Drained'
  BY <1>2, DrainedKept
<1>9. SegmentsAreMapped'
  <2>1. \A u \in Thread : pc'[u] = "add" <=> pc[u] = "add"
    BY <1>2
  <2> QED BY <2>1 DEF SegmentsAreMapped
<1>10. ReleasedApart'
  BY <1>2 DEF ReleasedApart
<1>11. NothingCached'
  BY <1>2 DEF NothingCached
<1>12. NoDuplicateGrowth'
  BY <1>2 DEF NoDuplicateGrowth, GrowPlaces, LockedPlaces, Pool!FreeRun, Pool!Segments, Pool!Live
<1>13. GrowthServesRequest'
  BY <1>2, <1>3 DEF GrowthServesRequest, LockedPlaces, GrowPlaces
<1>14. OutOfMemoryMeansInUse'
  <2>1. CASE pc[t] = "retry"
    <3>1. released = {}
      BY <2>1, NoneReleased DEF LockedPlaces
    <3>2. \A s \in Address : mapped[s] > 0 => segSize[s] > 0 /\ mapped[s] = segSize[s]
      BY <1>3, <2>1, <3>1 DEF SegmentsAreMapped, LockedPlaces
    <3>3. \A s \in Address : mapped[s] > 0 =>
            \E a \in Address : live[a] > 0 /\ Within(a, live[a], s, mapped[s])
      BY <2>1, <3>2 DEF NothingCached
    <3> QED BY <3>3 DEF OutOfMemoryMeansInUse
  <2>2. CASE pc[t] # "retry"
    BY <2>2 DEF OutOfMemoryMeansInUse
  <2> QED BY <2>1, <2>2
<1> QED BY <1>5, <1>6, <1>7, <1>8, <1>9, <1>10, <1>11, <1>12, <1>13, <1>14, MemoryKept, UseKept

-----------------------------------------------------------------------------
(* Return from the allocator                                               *)

\* The mutex is free, and what is said of threads past the lock is said of none.
LEMMA Returned ==
  ASSUME IInv, NEW t \in Thread, pc[t] \in {"try", "again", "free"},
         Return(t), UNCHANGED <<segSize, released, mapped, stream>>
  PROVE  /\ \A u \in Thread : /\ pc'[u] = IF u = t THEN "idle" ELSE pc[u]
                              /\ request'[u] = IF u = t THEN 0 ELSE request[u]
                              /\ pc'[u] \notin LockedPlaces
                              /\ u # t => pc[u] \notin LockedPlaces
         /\ mutex' \in Thread \cup {Null}
         /\ pc' \in [Thread -> Places \cup LockedPlaces]
         /\ \A u \in Thread : pc'[u] \in LockedPlaces <=> mutex' = u
         /\ request' \in [Thread -> Nat] /\ segment' \in [Thread -> Address]
         /\ SegmentsAreMapped' /\ ReleasedApart' /\ Waiters' /\ NoUseAfterCudaFree' /\ Drained'
         /\ NothingCached' /\ NoDuplicateGrowth' /\ GrowthServesRequest'
<1> USE DEF LockedPlaces
<1>1. \A u \in Thread : /\ pc'[u] = IF u = t THEN "idle" ELSE pc[u]
                        /\ request'[u] = IF u = t THEN 0 ELSE request[u]
  BY DEF Return, Goto, IInv, TypeOK
<1>2. \A u \in Thread : u # t => pc[u] \notin LockedPlaces
  BY Alone DEF IInv
<1>3. \A u \in Thread : pc'[u] \notin LockedPlaces
  BY <1>1, <1>2 DEF LockedPlaces
<1>4. mutex' = Null /\ \A u \in Thread : pc'[u] \in LockedPlaces <=> mutex' = u
  BY <1>3, NullAssumption DEF Return
<1>5. pc' \in [Thread -> Places \cup LockedPlaces]
  BY DEF Return, Goto, IInv, TypeOK, Places
<1>6. 0 \in Nat /\ 0 \in Address
  BY AddressAssumption DEF Address
<1>7. request' \in [Thread -> Nat] /\ segment' \in [Thread -> Address]
  BY <1>6 DEF Return, IInv, TypeOK
<1>8. released = {}
  BY NoneReleased
<1>9. ReleasedApart'
  BY <1>8 DEF ReleasedApart
<1>10. NothingCached'
  BY <1>3 DEF NothingCached, LockedPlaces
<1>11. NoDuplicateGrowth'
  BY <1>3 DEF NoDuplicateGrowth, GrowPlaces
<1>12. GrowthServesRequest'
  BY <1>3 DEF GrowthServesRequest, LockedPlaces
<1>13. SegmentsAreMapped'
  <2>1. \A u \in Thread : pc[u] = "add" => u = t
    BY <1>2 DEF LockedPlaces
  <2>2. pc[t] # "add"
    OBVIOUS
  <2> QED BY <1>8, <2>1, <2>2 DEF IInv, SegmentsAreMapped
<1>14. Waiters'
  BY WaitersKept DEF Return, Goto, IInv, LockedPlaces
<1>15. NoUseAfterCudaFree'
  BY UseKept DEF IInv
<1>16. Drained'
  <2>1. \A i \in 1 .. Len(stream) : stream[i].op # "synchronize"
    BY NoneDraining
  <2>2. \A u \in Thread : pc'[u] \notin {"extract", "cudaFree"}
    BY <1>3 DEF LockedPlaces
  <2>3. \A i \in 1 .. Len(stream) : \A j \in 1 .. i - 1 : stream[j].op # "synchronize"
    <3>1. stream \in Seq(Commands)
      BY DEF IInv, TypeOK
    <3>2. Len(stream) \in Nat
      BY <3>1
    <3> QED BY <2>1, <3>2
  <2> QED BY <2>2, <2>3 DEF Drained
<1> QED BY <1>1, <1>2, <1>3, <1>4, <1>5, <1>7, <1>9, <1>10, <1>11, <1>12, <1>13, <1>14, <1>15, <1>16

\* A free run of a mapped segment becomes a live allocation.
LEMMA HandOutIInv ==
  ASSUME IInv, NEW t \in Thread, AllocateFirst(t) \/ AllocateAgain(t)
  PROVE  IInv'
<1> DEFINE n == request[t]
<1>1. PICK a \in Address :
        /\ pc[t] \in {"try", "again"}
        /\ Pool!FreeRun(a, AlignUp(n))
        /\ live' = [live EXCEPT ![a] = AlignUp(n)]
        /\ reply' = Pool!Answer("allocate", n, TRUE, a, AlignUp(n))
        /\ owner' = [owner EXCEPT ![a] = t]
        /\ Return(t)
        /\ UNCHANGED <<segSize, released, mapped, stream, contents, filled, status>>
  BY PoolAlignUp DEF AllocateFirst, AllocateAgain, HandOut, Pool!Grant, device
<1>2. n \in Sizes
  BY <1>1 DEF IInv, Arguments
<1>3. PICK size \in Nat : size = AlignUp(n) /\ size > 0
  BY <1>2, GrownSuffices
<1>4. PICK s \in Address : /\ segSize[s] > 0 /\ s <= a /\ a + size <= s + segSize[s]
                           /\ mapped[s] = segSize[s]
  BY <1>1, <1>3 DEF Pool!FreeRun, Pool!Segments, Pool!Address, Address, IInv, SegmentsAreMapped
<1>5. \A b \in Address : live[b] > 0 => ~Pool!Overlap(a, size, b, live[b])
  BY <1>1, <1>3 DEF Pool!FreeRun, Pool!Live, Pool!Address, Address
<1>6. /\ a \in Nat /\ s \in Nat /\ segSize[s] \in Nat /\ live[a] \in Nat
      /\ \A b \in Address : b \in Nat /\ live[b] \in Nat
  BY Numbers DEF IInv
<1>7. a # 0
  <2>1. mapped[0] = 0
    BY DEF IInv, LiveApart
  <2> QED BY <1>4, <1>6, <2>1
<1>8. live[a] = 0 /\ owner[a] = Null
  <2>1. live[a] = 0
    BY <1>3, <1>5, <1>6 DEF Pool!Overlap
  <2> QED BY <2>1 DEF IInv, LiveApart
<1>9. \A b \in Address : /\ live'[b] = IF b = a THEN size ELSE live[b]
                         /\ owner'[b] = IF b = a THEN t ELSE owner[b]
  BY <1>1, <1>3 DEF IInv, TypeOK
<1>10. /\ \A u \in Thread : /\ pc'[u] = IF u = t THEN "idle" ELSE pc[u]
                            /\ request'[u] = IF u = t THEN 0 ELSE request[u]
                            /\ pc'[u] \notin LockedPlaces
                            /\ u # t => pc[u] \notin LockedPlaces
       /\ SegmentsAreMapped' /\ ReleasedApart' /\ Waiters' /\ NoUseAfterCudaFree' /\ Drained'
       /\ NothingCached' /\ NoDuplicateGrowth' /\ GrowthServesRequest'
  BY <1>1, Returned
<1>11. TypeOK'
  <2>1. live' \in [Address -> Nat] /\ owner' \in [Address -> Thread \cup {Null}]
    BY <1>1, <1>3 DEF IInv, TypeOK
  <2>2. reply' \in Pool!Replies
    BY <1>1, <1>2, <1>3, <1>6, SizesAssumption DEF Pool!Answer, Pool!Replies
  <2>3. /\ mutex' \in Thread \cup {Null}
        /\ pc' \in [Thread -> Places \cup LockedPlaces]
        /\ \A u \in Thread : pc'[u] \in LockedPlaces <=> mutex' = u
        /\ request' \in [Thread -> Nat] /\ segment' \in [Thread -> Address]
    BY <1>1, Returned
  <2> QED BY <1>1, <2>1, <2>2, <2>3 DEF IInv, TypeOK
<1>12. Arguments'
  <2>1. ASSUME NEW u \in Thread, pc'[u] \in {"lockToFree", "free"}
        PROVE  request'[u] \in Address /\ owner'[request'[u]] = u
    <3>1. u # t /\ pc'[u] = pc[u] /\ request'[u] = request[u]
      BY <1>10, <2>1
    <3>2. request[u] \in Address /\ owner[request[u]] = u
      BY <2>1, <3>1 DEF IInv, Arguments
    <3>3. request[u] # a
      BY <1>8, <3>2, NullAssumption
    <3> QED BY <1>9, <3>1, <3>2, <3>3
  <2>2. ASSUME NEW u \in Thread, pc'[u] \in {"lock", "try", "again"} \cup GrowPlaces
        PROVE  request'[u] \in Sizes
    <3>1. pc'[u] = "lock" /\ u # t
      BY <1>10, <2>2 DEF GrowPlaces, LockedPlaces
    <3> QED BY <1>10, <3>1 DEF IInv, Arguments
  <2>3. \A u \in Thread : pc'[u] # "add"
    BY <1>10 DEF LockedPlaces
  <2> QED BY <2>1, <2>2, <2>3 DEF Arguments
<1>13. LiveApart'
  <2>1. live'[0] = 0 /\ mapped'[0] = 0
    <3>1. 0 \in Address
      BY AddressAssumption DEF Address
    <3> QED BY <1>1, <1>7, <1>9, <3>1 DEF IInv, LiveApart
  <2>2. \A b \in Address : live'[b] > 0 <=> owner'[b] # Null
    BY <1>3, <1>9, NullAssumption DEF IInv, LiveApart
  <2>3. filled' \subseteq {b \in Address : owner'[b] # Null}
    BY <1>1, <1>9, NullAssumption DEF IInv, LiveApart
  <2>4. \A b \in Address : live'[b] > 0 =>
          \E r \in Address : segSize'[r] > 0 /\ Within(b, live'[b], r, segSize'[r])
    <3>1. Within(a, size, s, segSize[s])
      BY <1>4 DEF Within
    <3> QED BY <1>1, <1>4, <1>9, <3>1 DEF IInv, LiveApart
  <2>5. ASSUME NEW b \in Address, NEW c \in Address, b # c, live'[b] > 0, live'[c] > 0
        PROVE  ~Pool!Overlap(b, live'[b], c, live'[c])
    <3>1. CASE b = a
      BY <1>5, <1>9, <2>5, <3>1
    <3>2. CASE c = a
      BY <1>5, <1>9, <2>5, <3>2 DEF Pool!Overlap
    <3>3. CASE b # a /\ c # a
      BY <1>9, <2>5, <3>3 DEF IInv, LiveApart
    <3> QED BY <3>1, <3>2, <3>3
  <2>6. \A r, q \in Address : r # q /\ mapped'[r] > 0 /\ mapped'[q] > 0
                              => ~Pool!Overlap(r, mapped'[r], q, mapped'[q])
    BY <1>1 DEF IInv, LiveApart
  <2> QED BY <2>1, <2>2, <2>3, <2>4, <2>5, <2>6 DEF LiveApart
<1>14. OutOfMemoryMeansInUse'
  <2>1. \A b \in Address : live[b] > 0 => live'[b] = live[b]
    BY <1>8, <1>9
  <2> QED BY <1>1, <2>1 DEF IInv, OutOfMemoryMeansInUse
<1> QED BY <1>10, <1>11, <1>12, <1>13, <1>14 DEF IInv

\* A live allocation becomes free, while no command waits for the device to be done.
LEMMA DeallocateIInv ==
  ASSUME IInv, status = "running", NEW t \in Thread, Deallocate(t)
  PROVE  IInv'
<1>1. PICK a \in Address :
        /\ pc[t] = "free" /\ a = request[t] /\ owner[a] = t
        /\ live' = [live EXCEPT ![a] = 0]
        /\ reply' = Pool!Answer("deallocate", a, a = 0 \/ a \in Pool!Live, 0, 0)
        /\ owner' = [owner EXCEPT ![a] = Null]
        /\ filled' = filled \ {a}
        /\ contents' = [b \in Address |-> IF Within(b, 1, a, live[a]) THEN Null ELSE contents[b]]
        /\ Return(t)
        /\ UNCHANGED <<segSize, released, mapped, stream, status>>
  BY DEF Deallocate, Pool!Free, IInv, Arguments
<1>2. \A b \in Address : /\ live'[b] = IF b = a THEN 0 ELSE live[b]
                         /\ owner'[b] = IF b = a THEN Null ELSE owner[b]
  BY <1>1 DEF IInv, TypeOK
<1>3. /\ \A u \in Thread : /\ pc'[u] = IF u = t THEN "idle" ELSE pc[u]
                           /\ request'[u] = IF u = t THEN 0 ELSE request[u]
                           /\ pc'[u] \notin LockedPlaces
      /\ SegmentsAreMapped' /\ ReleasedApart' /\ Waiters' /\ NoUseAfterCudaFree' /\ Drained'
      /\ NothingCached' /\ NoDuplicateGrowth' /\ GrowthServesRequest'
  BY <1>1, Returned
<1>4. TypeOK'
  <2>1. live' \in [Address -> Nat] /\ owner' \in [Address -> Thread \cup {Null}]
    BY <1>1 DEF IInv, TypeOK
  <2>2. reply' \in Pool!Replies
    <3>1. a \in Nat
      BY Numbers DEF IInv
    <3> QED BY <1>1, <3>1 DEF Pool!Answer, Pool!Replies
  <2>3. /\ mutex' \in Thread \cup {Null}
        /\ pc' \in [Thread -> Places \cup LockedPlaces]
        /\ \A u \in Thread : pc'[u] \in LockedPlaces <=> mutex' = u
        /\ request' \in [Thread -> Nat] /\ segment' \in [Thread -> Address]
    BY <1>1, Returned
  <2>4. contents' \in [Address -> Thread \cup {Null}] /\ filled' \subseteq Address
    BY <1>1 DEF IInv, TypeOK
  <2> QED BY <1>1, <2>1, <2>2, <2>3, <2>4 DEF IInv, TypeOK
<1>5. Arguments'
  <2>1. ASSUME NEW u \in Thread, pc'[u] \in {"lockToFree", "free"}
        PROVE  request'[u] \in Address /\ owner'[request'[u]] = u
    <3>1. u # t /\ pc'[u] = pc[u] /\ request'[u] = request[u]
      BY <1>3, <2>1
    <3>2. request[u] \in Address /\ owner[request[u]] = u
      BY <2>1, <3>1 DEF IInv, Arguments
    <3>3. request[u] # a
      BY <1>1, <3>1, <3>2
    <3> QED BY <1>2, <3>1, <3>2, <3>3
  <2>2. ASSUME NEW u \in Thread, pc'[u] \in {"lock", "try", "again"} \cup GrowPlaces
        PROVE  request'[u] \in Sizes
    <3>1. pc'[u] = "lock" /\ u # t
      BY <1>3, <2>2 DEF GrowPlaces, LockedPlaces
    <3> QED BY <1>3, <3>1 DEF IInv, Arguments
  <2>3. \A u \in Thread : pc'[u] # "add"
    BY <1>3 DEF LockedPlaces
  <2> QED BY <2>1, <2>2, <2>3 DEF Arguments
<1>6. LiveApart'
  <2>1. live'[0] = 0 /\ mapped'[0] = 0
    <3>1. 0 \in Address
      BY AddressAssumption DEF Address
    <3> QED BY <1>1, <1>2, <3>1 DEF IInv, LiveApart
  <2>2. \A b \in Address : live'[b] > 0 <=> owner'[b] # Null
    BY <1>2 DEF IInv, LiveApart
  <2>3. filled' \subseteq {b \in Address : owner'[b] # Null}
    BY <1>1, <1>2 DEF IInv, LiveApart
  <2>4. \A b \in Address : live'[b] > 0 => live'[b] = live[b]
    BY <1>2
  <2>5. /\ \A b \in Address : live'[b] > 0 =>
             \E r \in Address : segSize'[r] > 0 /\ Within(b, live'[b], r, segSize'[r])
        /\ \A b, c \in Address : b # c /\ live'[b] > 0 /\ live'[c] > 0
                                 => ~Pool!Overlap(b, live'[b], c, live'[c])
    BY <1>1, <2>4 DEF IInv, LiveApart
  <2>6. \A r, q \in Address : r # q /\ mapped'[r] > 0 /\ mapped'[q] > 0
                              => ~Pool!Overlap(r, mapped'[r], q, mapped'[q])
    BY <1>1 DEF IInv, LiveApart
  <2> QED BY <2>1, <2>2, <2>3, <2>5, <2>6 DEF LiveApart
<1>7. OutOfMemoryMeansInUse'
  BY <1>1 DEF OutOfMemoryMeansInUse
<1> QED BY <1>3, <1>4, <1>5, <1>6, <1>7 DEF IInv

-----------------------------------------------------------------------------
(* Growth and release, where the memory changes                            *)

\* A thread goes on inside the critical section, where it is alone.
LEMMA Moved ==
  ASSUME TypeOK, NEW t \in Thread, pc[t] \in LockedPlaces, NEW where \in LockedPlaces,
         pc' = [pc EXCEPT ![t] = where], mutex' = mutex
  PROVE  /\ \A u \in Thread : /\ pc'[u] = IF u = t THEN where ELSE pc[u]
                              /\ u # t => pc[u] \notin LockedPlaces /\ pc'[u] \notin LockedPlaces
         /\ pc' \in [Thread -> Places \cup LockedPlaces]
         /\ \A u \in Thread : pc'[u] \in LockedPlaces <=> mutex' = u
<1>1. \A u \in Thread : pc'[u] = IF u = t THEN where ELSE pc[u]
  BY DEF TypeOK
<1>2. \A u \in Thread : u # t => pc[u] \notin LockedPlaces
  BY Alone
<1>3. pc' \in [Thread -> Places \cup LockedPlaces]
  BY DEF TypeOK
<1>4. \A u \in Thread : pc'[u] \in LockedPlaces <=> mutex' = u
  BY <1>1 DEF TypeOK
<1> QED BY <1>1, <1>2, <1>3, <1>4

\* While one thread is past the lock and is not to add a segment, what is mapped is the arena's.
LEMMA MappedSegments ==
  ASSUME IInv, NEW t \in Thread, pc[t] \in LockedPlaces \ {"add", "cudaFree"},
         NEW s \in Address, mapped[s] > 0
  PROVE  segSize[s] > 0 /\ mapped[s] = segSize[s]
<1>1. \A u \in Thread : pc[u] # "add"
  BY Alone DEF IInv, LockedPlaces
<1>2. released = {}
  BY NoneReleased
<1> QED BY <1>1, <1>2 DEF IInv, SegmentsAreMapped

\* The segments without a live allocation leave the arena.
LEMMA ExtractSegmentsIInv ==
  ASSUME IInv, NEW t \in Thread, ExtractSegments(t)
  PROVE  IInv'
<1> USE DEF LockedPlaces
<1>1. /\ pc[t] = "extract" /\ pc' = [pc EXCEPT ![t] = "cudaFree"]
      /\ segSize' = [s \in Address |->
           IF \E l \in Pool!Live : Pool!Overlap(s, segSize[s], l, live[l]) THEN segSize[s] ELSE 0]
      /\ reply' = Pool!Answer("extract", 0, TRUE, 0, 0)
      /\ released' = {s \in Address : segSize[s] > 0 /\ segSize'[s] = 0}
      /\ UNCHANGED <<live, mutex, request, segment, mapped, stream, contents, owner, filled, status>>
  BY DEF ExtractSegments, Pool!Release, Goto, device, Pool!Address, Address
<1>2. /\ \A u \in Thread : /\ pc'[u] = IF u = t THEN "cudaFree" ELSE pc[u]
                           /\ u # t => pc[u] \notin LockedPlaces /\ pc'[u] \notin LockedPlaces
      /\ pc' \in [Thread -> Places \cup LockedPlaces]
      /\ \A u \in Thread : pc'[u] \in LockedPlaces <=> mutex' = u
  BY <1>1, Moved DEF IInv
<1>3. \A s \in Address : /\ mapped[s] > 0 => segSize[s] > 0 /\ mapped[s] = segSize[s]
                         /\ segSize[s] > 0 => mapped[s] = segSize[s]
  BY <1>1, MappedSegments DEF IInv, SegmentsAreMapped
<1>4. \A s \in Address : segSize'[s] \in {0, segSize[s]}
  BY <1>1
<1>5. ASSUME NEW s \in Address, NEW a \in Address, segSize[s] > 0, live[a] > 0,
             Within(a, live[a], s, segSize[s])
      PROVE  segSize'[s] = segSize[s]
  <2>1. Pool!Overlap(s, segSize[s], a, live[a])
    <3>1. s \in Nat /\ a \in Nat /\ segSize[s] \in Nat /\ live[a] \in Nat
      BY Numbers DEF IInv
    <3> QED BY <1>5, <3>1 DEF Within, Pool!Overlap
  <2>2. a \in Pool!Live
    BY <1>5 DEF Pool!Live, Pool!Address, Address
  <2> QED BY <1>1, <2>1, <2>2
<1>6. ASSUME NEW s \in Address, segSize'[s] > 0
      PROVE  \E a \in Address : live[a] > 0 /\ Within(a, live[a], s, segSize[s])
  <2>1. segSize[s] > 0 /\ mapped[s] = segSize[s]
    BY <1>3, <1>4, <1>6
  <2>2. PICK a \in Address : live[a] > 0 /\ Pool!Overlap(s, segSize[s], a, live[a])
    BY <1>1, <1>6 DEF Pool!Live, Pool!Address, Address
  <2>3. PICK r \in Address : segSize[r] > 0 /\ mapped[r] = segSize[r] /\ Within(a, live[a], r, segSize[r])
    BY <2>2, LiveMapped
  <2>4. /\ s \in Nat /\ a \in Nat /\ r \in Nat
        /\ segSize[s] \in Nat /\ segSize[r] \in Nat /\ live[a] \in Nat
    BY Numbers DEF IInv
  <2>5. PICK x \in Nat : /\ r <= x /\ x < r + mapped[r]
                         /\ s <= x /\ x < s + mapped[s]
    <3>1. CASE s <= a
      <4>1. r <= a /\ a < r + mapped[r] /\ s <= a /\ a < s + mapped[s]
        BY <2>1, <2>2, <2>3, <2>4, <3>1 DEF Within, Pool!Overlap
      <4> QED BY <2>4, <4>1
    <3>2. CASE a < s
      <4>1. r <= s /\ s < r + mapped[r] /\ s <= s /\ s < s + mapped[s]
        BY <2>1, <2>2, <2>3, <2>4, <3>2 DEF Within, Pool!Overlap
      <4> QED BY <2>4, <4>1
    <3> QED BY <2>4, <3>1, <3>2
  <2>6. r = s
    BY <2>1, <2>3, <2>5, MappedOnce
  <2> QED BY <2>2, <2>3, <2>6
<1> USE DEF IInv
<1>7. TypeOK'
  <2>1. segSize' \in [Address -> Nat]
    BY <1>1 DEF TypeOK
  <2>2. reply' \in Pool!Replies /\ released' \subseteq Address
    BY <1>1 DEF Pool!Answer, Pool!Replies
  <2> QED BY <1>1, <1>2, <2>1, <2>2 DEF TypeOK
<1>8. Arguments'
  BY <1>1, <1>2 DEF Arguments, GrowPlaces
<1>9. LiveApart'
  <2>1. \A a \in Address : live'[a] > 0 =>
          \E s \in Address : segSize'[s] > 0 /\ Within(a, live'[a], s, segSize'[s])
    BY <1>1, <1>5 DEF LiveApart
  <2> QED BY <1>1, <2>1 DEF LiveApart
<1>10. SegmentsAreMapped'
  BY <1>1, <1>3, <1>4 DEF SegmentsAreMapped
<1>11. ReleasedApart'
  BY <1>1, <1>2, <1>3 DEF ReleasedApart
<1>12. Waiters' /\ NoUseAfterCudaFree'
  BY <1>1, WaitersKept, UseKept
<1>13. Drained'
  BY <1>1 DEF Drained
<1>14. NothingCached'
  BY <1>1, <1>4, <1>6 DEF NothingCached
<1>15. NoDuplicateGrowth'
  <2>1. \A a \in Address : ~Pool!FreeRun(a, AlignUp(request[t]))
    BY <1>1 DEF NoDuplicateGrowth, GrowPlaces
  <2>2. \A a \in Address : ~Pool!FreeRun(a, AlignUp(request[t]))'
    BY <1>1, <1>4, <2>1 DEF Pool!FreeRun, Pool!Segments, Pool!Live, Pool!Address, Address
  <2> QED BY <1>1, <1>2, <2>2 DEF NoDuplicateGrowth, GrowPlaces
<1>16. GrowthServesRequest'
  BY <1>2 DEF GrowthServesRequest
<1>17. OutOfMemoryMeansInUse'
  BY <1>1 DEF OutOfMemoryMeansInUse
<1> QED BY <1>7, <1>8, <1>9, <1>10, <1>11, <1>12, <1>13, <1>14, <1>15, <1>16, <1>17

\* A segment that is no longer the arena's is unmapped.
LEMMA CudaFreeIInv ==
  ASSUME IInv, NEW t \in Thread, CudaFree(t)
  PROVE  IInv'
<1> USE DEF LockedPlaces
<1>1. PICK s \in released :
        /\ pc[t] = "cudaFree"
        /\ mapped' = [mapped EXCEPT ![s] = 0]
        /\ released' = released \ {s}
        /\ UNCHANGED <<segSize, live, reply, mutex, pc, request, segment, stream, contents,
                       owner, filled, status>>
  BY DEF CudaFree, arena
<1>2. s \in Address /\ segSize[s] = 0
  BY DEF IInv, TypeOK, ReleasedApart
<1>3. \A r \in Address : mapped'[r] = IF r = s THEN 0 ELSE mapped[r]
  BY <1>1 DEF IInv, TypeOK
<1> USE DEF IInv
<1>4. TypeOK'
  BY <1>1 DEF TypeOK
<1>5. Arguments'
  <2>1. \A u \in Thread : pc[u] # "add"
    BY <1>1, Alone
  <2> QED BY <1>1, <2>1 DEF Arguments
<1>6. LiveApart'
  <2>1. mapped'[0] = 0
    <3>1. 0 \in Address
      BY AddressAssumption DEF Address
    <3> QED BY <1>3, <3>1 DEF LiveApart
  <2>2. \A q, r \in Address : q # r /\ mapped'[q] > 0 /\ mapped'[r] > 0
                              => ~Pool!Overlap(q, mapped'[q], r, mapped'[r])
    BY <1>3 DEF LiveApart
  <2> QED BY <1>1, <2>1, <2>2 DEF LiveApart
<1>7. SegmentsAreMapped'
  BY <1>1, <1>2, <1>3 DEF SegmentsAreMapped
<1>8. ReleasedApart'
  <2>1. \A r \in released' : r \in Address /\ r # s
    BY <1>1 DEF TypeOK
  <2> QED BY <1>1, <1>3, <2>1 DEF ReleasedApart
<1>9. Waiters' /\ Drained' /\ NothingCached'
  BY <1>1 DEF Waiters, Drained, NothingCached
<1>10. NoUseAfterCudaFree'
  <2>1. ASSUME NEW i \in 1 .. Len(stream), stream[i].op # "synchronize"
        PROVE  \E m \in Address : Within(stream[i].address, stream[i].size, m, mapped'[m])
    <3>1. PICK a \in Address : live[a] > 0 /\ Within(stream[i].address, stream[i].size, a, live[a])
      BY <1>1, <2>1 DEF Drained
    <3>2. PICK r \in Address : segSize[r] > 0 /\ mapped[r] = segSize[r] /\ Within(a, live[a], r, segSize[r])
      BY <3>1, LiveMapped
    <3>3. r # s
      BY <1>2, <3>2
    <3>4. /\ a \in Nat /\ live[a] \in Nat /\ r \in Nat /\ segSize[r] \in Nat
          /\ stream[i].address \in Nat /\ stream[i].size \in Nat
      <4>1. stream[i] \in Commands
        BY Queued
      <4> QED BY <4>1, Numbers DEF Commands
    <3>5. Within(stream[i].address, stream[i].size, r, segSize[r])
      <4>1. \A u, v, w, x, y, z \in Nat :
              /\ w <= u /\ u + v <= w + x
              /\ y <= w /\ w + x <= y + z
              => y <= u /\ u + v <= y + z
        OBVIOUS
      <4>2. /\ a <= stream[i].address /\ stream[i].address + stream[i].size <= a + live[a]
            /\ r <= a /\ a + live[a] <= r + segSize[r]
        BY <3>1, <3>2, Zenon DEF Within
      <4>3. r <= stream[i].address /\ stream[i].address + stream[i].size <= r + segSize[r]
        BY <3>4, <4>1, <4>2, Zenon
      <4> QED BY <4>3, Zenon DEF Within
    <3> QED BY <1>3, <3>2, <3>3, <3>5
  <2> QED BY <1>1, <2>1 DEF NoUseAfterCudaFree
<1>11. NoDuplicateGrowth' /\ GrowthServesRequest'
  BY <1>1 DEF NoDuplicateGrowth, GrowthServesRequest, Pool!FreeRun, Pool!Segments, Pool!Live
<1>12. OutOfMemoryMeansInUse'
  <2>1. \A r \in Address : mapped'[r] > 0 => mapped'[r] = mapped[r]
    BY <1>3
  <2> QED BY <1>1, <2>1 DEF OutOfMemoryMeansInUse
<1> QED BY <1>4, <1>5, <1>6, <1>7, <1>8, <1>9, <1>10, <1>11, <1>12

\* Memory that is not mapped is mapped for the request that missed.
LEMMA CudaMallocIInv ==
  ASSUME IInv, status = "running", NEW t \in Thread, CudaMalloc(t)
  PROVE  IInv'
<1> USE DEF LockedPlaces
<1>1. PICK s \in Address :
        /\ pc[t] \in {"malloc", "retry"} /\ pc' = [pc EXCEPT ![t] = "add"]
        /\ s # 0
        /\ \A m \in Address : mapped[m] > 0 => ~Pool!Overlap(s, Grown(request[t]), m, mapped[m])
        /\ mapped' = [mapped EXCEPT ![s] = Grown(request[t])]
        /\ segment' = [segment EXCEPT ![t] = s]
        /\ UNCHANGED <<segSize, live, reply, mutex, request, released, stream, contents,
                       owner, filled, status>>
  BY DEF CudaMalloc, Goto, arena
<1>2. request[t] \in Sizes
  BY <1>1 DEF IInv, Arguments, GrowPlaces
<1>3. PICK n \in Nat : n = Grown(request[t]) /\ n > 0
  BY <1>2, GrownSuffices
<1>4. /\ \A u \in Thread : /\ pc'[u] = IF u = t THEN "add" ELSE pc[u]
                           /\ u # t => pc[u] \notin LockedPlaces /\ pc'[u] \notin LockedPlaces
      /\ pc' \in [Thread -> Places \cup LockedPlaces]
      /\ \A u \in Thread : pc'[u] \in LockedPlaces <=> mutex' = u
  BY <1>1, Moved DEF IInv
<1>5. mapped[s] = 0
  <2>1. s \in Nat /\ mapped[s] \in Nat
    BY Numbers DEF IInv
  <2> QED BY <1>1, <1>3, <2>1 DEF Pool!Overlap
<1>6. segSize[s] = 0
  <2>1. segSize[s] \in Nat
    BY Numbers DEF IInv
  <2> QED BY <1>5, <2>1 DEF IInv, SegmentsAreMapped
<1>7. /\ \A r \in Address : mapped'[r] = IF r = s THEN n ELSE mapped[r]
      /\ segment'[t] = s
  BY <1>1, <1>3 DEF IInv, TypeOK
<1> USE DEF IInv
<1>8. TypeOK'
  <2>1. mapped' \in [Address -> Nat] /\ segment' \in [Thread -> Address]
    BY <1>1, <1>3 DEF TypeOK
  <2> QED BY <1>1, <1>4, <2>1 DEF TypeOK
<1>9. Arguments'
  <2>1. ASSUME NEW u \in Thread, u # t
        PROVE  /\ pc'[u] = pc[u] /\ pc'[u] # "add"
    BY <1>4, <2>1
  <2>2. mapped'[segment'[t]] = Grown(request'[t]) /\ segSize'[segment'[t]] = 0 /\ segment'[t] # 0
    BY <1>1, <1>3, <1>6, <1>7
  <2> QED BY <1>1, <1>2, <1>4, <2>1, <2>2 DEF Arguments, GrowPlaces
<1>10. LiveApart'
  <2>1. mapped'[0] = 0
    <3>1. 0 \in Address
      BY AddressAssumption DEF Address
    <3> QED BY <1>1, <1>7, <3>1 DEF LiveApart
  <2>2. ASSUME NEW q \in Address, NEW r \in Address, q # r, mapped'[q] > 0, mapped'[r] > 0
        PROVE  ~Pool!Overlap(q, mapped'[q], r, mapped'[r])
    <3>1. CASE q = s
      BY <1>1, <1>3, <1>7, <2>2, <3>1
    <3>2. CASE r = s
      BY <1>1, <1>3, <1>7, <2>2, <3>2 DEF Pool!Overlap
    <3>3. CASE q # s /\ r # s
      BY <1>7, <2>2, <3>3 DEF LiveApart
    <3> QED BY <3>1, <3>2, <3>3
  <2> QED BY <1>1, <2>1, <2>2 DEF LiveApart
<1>11. \A r \in Address : mapped[r] > 0 => mapped'[r] = mapped[r]
  BY <1>5, <1>7
<1>12. SegmentsAreMapped'
  <2>1. ASSUME NEW r \in Address, segSize[r] > 0
        PROVE  mapped'[r] = segSize[r]
    <3>1. mapped[r] = segSize[r]
      BY <2>1 DEF SegmentsAreMapped
    <3> QED BY <1>11, <2>1, <3>1
  <2>2. ASSUME NEW r \in Address, mapped'[r] > 0
        PROVE  segSize[r] > 0 \/ \E u \in Thread : pc'[u] = "add" /\ segment'[u] = r
    <3>1. CASE r = s
      BY <1>4, <1>7, <3>1
    <3>2. CASE r # s
      <4>1. mapped[r] > 0
        BY <1>7, <2>2, <3>2
      <4> QED BY <1>1, <4>1, MappedSegments
    <3> QED BY <3>1, <3>2
  <2> QED BY <1>1, <2>1, <2>2 DEF SegmentsAreMapped
<1>13. ReleasedApart'
  BY <1>1, NoneReleased DEF ReleasedApart
<1>14. Waiters'
  BY <1>1, WaitersKept
<1>15. NoUseAfterCudaFree'
  <2>1. ASSUME NEW i \in 1 .. Len(stream), stream[i].op # "synchronize"
        PROVE  \E m \in Address : Within(stream[i].address, stream[i].size, m, mapped'[m])
    <3>1. PICK m \in Address : Within(stream[i].address, stream[i].size, m, mapped[m])
      BY <2>1 DEF NoUseAfterCudaFree
    <3>2. stream[i].size > 0
      BY <2>1 DEF Waiters
    <3>3. stream[i].address \in Nat /\ stream[i].size \in Nat /\ m \in Nat /\ mapped[m] \in Nat
      <4>1. stream[i] \in Commands
        BY Queued
      <4> QED BY <4>1, Numbers DEF Commands
    <3>4. mapped[m] > 0
      BY <3>1, <3>2, <3>3 DEF Within
    <3> QED BY <1>11, <3>1, <3>4
  <2> QED BY <1>1, <2>1 DEF NoUseAfterCudaFree
<1>16. Drained'
  BY <1>1, <1>4, DrainedKept
<1>17. NothingCached'
  BY <1>4 DEF NothingCached
<1>18. NoDuplicateGrowth'
  BY <1>1, <1>4 DEF NoDuplicateGrowth, GrowPlaces, Pool!FreeRun, Pool!Segments, Pool!Live
<1>19. GrowthServesRequest'
  BY <1>4 DEF GrowthServesRequest
<1>20. OutOfMemoryMeansInUse'
  BY <1>1 DEF OutOfMemoryMeansInUse
<1> QED BY <1>8, <1>9, <1>10, <1>12, <1>13, <1>14, <1>15, <1>16, <1>17, <1>18, <1>19, <1>20

\* What was mapped becomes a segment, at whose start the request fits.
LEMMA AddSegmentIInv ==
  ASSUME IInv, NEW t \in Thread, AddSegment(t)
  PROVE  IInv'
<1> USE DEF LockedPlaces
<1>1. /\ pc[t] = "add" /\ pc' = [pc EXCEPT ![t] = "again"]
      /\ segSize' = [segSize EXCEPT ![segment[t]] = Grown(request[t])]
      /\ reply' = Pool!Answer("add", Grown(request[t]), TRUE, segment[t], Grown(request[t]))
      /\ UNCHANGED <<live, mutex, request, segment, released, mapped, stream, contents,
                     owner, filled, status>>
  BY DEF AddSegment, Pool!Add, Goto, device
<1>2. request[t] \in Sizes
  BY <1>1 DEF IInv, Arguments, GrowPlaces
<1>3. PICK n \in Nat : n = Grown(request[t]) /\ n > 0 /\ n >= AlignUp(request[t])
  BY <1>2, GrownSuffices
<1>4. PICK need \in Nat : need = AlignUp(request[t]) /\ need > 0
  BY <1>2, GrownSuffices
<1>5. PICK s \in Address : s = segment[t] /\ segSize[s] = 0 /\ mapped[s] = n
  BY <1>1, <1>3 DEF IInv, TypeOK, Arguments
<1>6. /\ \A u \in Thread : /\ pc'[u] = IF u = t THEN "again" ELSE pc[u]
                           /\ u # t => pc[u] \notin LockedPlaces /\ pc'[u] \notin LockedPlaces
      /\ pc' \in [Thread -> Places \cup LockedPlaces]
      /\ \A u \in Thread : pc'[u] \in LockedPlaces <=> mutex' = u
  BY <1>1, Moved DEF IInv
<1>7. \A r \in Address : segSize'[r] = IF r = s THEN n ELSE segSize[r]
  BY <1>1, <1>3, <1>5 DEF IInv, TypeOK
<1>8. \A r \in Address : segSize[r] > 0 => segSize'[r] = segSize[r]
  BY <1>5, <1>7
<1> USE DEF IInv
<1>9. TypeOK'
  <2>1. segSize' \in [Address -> Nat]
    BY <1>1, <1>3 DEF TypeOK
  <2>2. reply' \in Pool!Replies
    <3>1. s \in Nat
      BY Numbers
    <3> QED BY <1>1, <1>3, <1>5, <3>1 DEF Pool!Answer, Pool!Replies
  <2> QED BY <1>1, <1>6, <2>1, <2>2 DEF TypeOK
<1>10. Arguments'
  BY <1>1, <1>2, <1>6 DEF Arguments, GrowPlaces
<1>11. LiveApart'
  <2>1. \A a \in Address : live'[a] > 0 =>
          \E r \in Address : segSize'[r] > 0 /\ Within(a, live'[a], r, segSize'[r])
    BY <1>1, <1>8 DEF LiveApart
  <2> QED BY <1>1, <2>1 DEF LiveApart
<1>12. released = {}
  BY <1>1, NoneReleased
<1>13. SegmentsAreMapped'
  <2>1. \A u \in Thread : pc[u] = "add" => segment[u] = s
    BY <1>5, <1>6
  <2> QED BY <1>1, <1>3, <1>5, <1>7, <1>12, <2>1 DEF SegmentsAreMapped
<1>14. ReleasedApart'
  BY <1>1, <1>12 DEF ReleasedApart
<1>15. Waiters' /\ NoUseAfterCudaFree'
  BY <1>1, WaitersKept, UseKept
<1>16. Drained'
  BY <1>1, <1>6, DrainedKept
<1>17. NothingCached' /\ NoDuplicateGrowth'
  BY <1>6 DEF NothingCached, NoDuplicateGrowth, GrowPlaces
<1>18. GrowthServesRequest'
  <2>1. ASSUME NEW l \in Address, live[l] > 0
        PROVE  ~Pool!Overlap(s, need, l, live[l])
    <3> SUFFICES ASSUME Pool!Overlap(s, need, l, live[l]) PROVE FALSE
      OBVIOUS
    <3>1. PICK r \in Address : segSize[r] > 0 /\ mapped[r] = segSize[r] /\ Within(l, live[l], r, segSize[r])
      BY <2>1, LiveMapped
    <3>2. s \in Nat /\ l \in Nat /\ r \in Nat /\ live[l] \in Nat /\ segSize[r] \in Nat
      BY Numbers
    <3>3. need <= n
      BY <1>3, <1>4
    <3>4. PICK x \in Nat : r <= x /\ x < r + mapped[r] /\ s <= x /\ x < s + mapped[s]
      <4>1. CASE s <= l
        <5>1. r <= l /\ l < r + mapped[r] /\ s <= l /\ l < s + mapped[s]
          BY <1>5, <2>1, <3>1, <3>2, <3>3, <4>1 DEF Within, Pool!Overlap
        <5> QED BY <3>2, <5>1
      <4>2. CASE l < s
        <5>1. r <= s /\ s < r + mapped[r] /\ s <= s /\ s < s + mapped[s]
          BY <1>3, <1>5, <2>1, <3>1, <3>2, <4>2 DEF Within, Pool!Overlap
        <5> QED BY <3>2, <5>1
      <4> QED BY <3>2, <4>1, <4>2
    <3>5. r = s
      BY <1>3, <1>5, <3>1, <3>4, MappedOnce
    <3> QED BY <1>5, <3>1, <3>5
  <2>2. s <= s /\ s + need <= s + segSize'[s] /\ segSize'[s] > 0
    <3>1. s \in Nat
      BY Numbers
    <3> QED BY <1>3, <1>4, <1>7, <3>1
  <2>3. Pool!FreeRun(s, need)'
    BY <1>1, <2>1, <2>2 DEF Pool!FreeRun, Pool!Segments, Pool!Live, Pool!Address, Address
  <2> QED BY <1>1, <1>4, <1>6, <2>3 DEF GrowthServesRequest
<1>19. OutOfMemoryMeansInUse'
  BY <1>1 DEF OutOfMemoryMeansInUse
<1> QED BY <1>9, <1>10, <1>11, <1>13, <1>14, <1>15, <1>16, <1>17, <1>18, <1>19

-----------------------------------------------------------------------------
(* The device                                                              *)

\* A synchronization is queued behind all there is.
LEMMA SynchronizeIInv ==
  ASSUME IInv, NEW t \in Thread, Synchronize(t)
  PROVE  IInv'
<1> USE DEF LockedPlaces
<1>1. /\ pc[t] = "sync" /\ pc' = [pc EXCEPT ![t] = "draining"]
      /\ stream' = Append(stream, Command("synchronize", t, 0, 0))
      /\ UNCHANGED <<segSize, live, reply, mutex, request, segment, released, mapped, contents,
                     owner, filled, status>>
  BY DEF Synchronize, Goto, arena
<1> DEFINE c == Command("synchronize", t, 0, 0)
<1>2. c \in Commands /\ c.op = "synchronize" /\ c.thread = t
  BY AddressAssumption DEF Command, Commands, StreamOf, Address
<1> HIDE DEF c
<1>3. /\ stream' \in Seq(Commands) /\ Len(stream) \in Nat /\ Len(stream') = Len(stream) + 1
      /\ \A i \in 1 .. Len(stream) : stream'[i] = stream[i]
      /\ stream'[Len(stream) + 1] = c
      /\ \A i \in 1 .. Len(stream') : i \in 1 .. Len(stream) \/ i = Len(stream) + 1
  BY <1>1, <1>2, Appended DEF IInv, c
<1>4. /\ \A u \in Thread : /\ pc'[u] = IF u = t THEN "draining" ELSE pc[u]
                           /\ u # t => pc[u] \notin LockedPlaces /\ pc'[u] \notin LockedPlaces
      /\ pc' \in [Thread -> Places \cup LockedPlaces]
      /\ \A u \in Thread : pc'[u] \in LockedPlaces <=> mutex' = u
  BY <1>1, Moved DEF IInv
<1>5. \A i \in 1 .. Len(stream) : stream[i].op # "synchronize"
  BY <1>1, NoneDraining
<1> USE DEF IInv
<1>6. TypeOK'
  BY <1>1, <1>3, <1>4 DEF TypeOK
<1>7. Arguments'
  BY <1>1, <1>4 DEF Arguments, GrowPlaces
<1>8. LiveApart'
  BY <1>1, MemoryKept
<1>9. Waiters'
  <2>1. \A i \in 1 .. Len(stream') :
          /\ stream'[i].op = "synchronize" => pc'[stream'[i].thread] = "draining"
          /\ stream'[i].op = "copy" => pc'[stream'[i].thread] = "copying"
          /\ stream'[i].op # "synchronize" => stream'[i].size > 0
    <3>1. \A i \in 1 .. Len(stream) : stream[i].thread \in Thread
      BY Queued
    <3> QED BY <1>1, <1>2, <1>3, <1>4, <1>5, <3>1 DEF Waiters
  <2>2. \A i, j \in 1 .. Len(stream') :
          stream'[i].op # "fill" /\ stream'[i].op = stream'[j].op /\ stream'[i].thread = stream'[j].thread
          => i = j
    BY <1>2, <1>3, <1>5 DEF Waiters
  <2>3. ASSUME NEW u \in Thread
        PROVE  /\ pc'[u] = "draining" => \E i \in 1 .. Len(stream') :
                                stream'[i].op = "synchronize" /\ stream'[i].thread = u
               /\ pc'[u] = "copying" => \E i \in 1 .. Len(stream') :
                                stream'[i].op = "copy" /\ stream'[i].thread = u
    <3>1. CASE u = t
      BY <1>2, <1>3, <1>4, <3>1
    <3>2. CASE u # t
      BY <1>3, <1>4, <3>2 DEF Waiters
    <3> QED BY <3>1, <3>2
  <2> QED BY <2>1, <2>2, <2>3 DEF Waiters
<1>10. NoUseAfterCudaFree'
  BY <1>1, <1>2, <1>3 DEF NoUseAfterCudaFree
<1>11. Drained'
  <2>1. \A i \in 1 .. Len(stream') : \A j \in 1 .. i - 1 : stream'[j].op # "synchronize"
    BY <1>3, <1>5
  <2>2. \A u \in Thread : pc'[u] \notin {"extract", "cudaFree"}
    BY <1>4
  <2> QED BY <2>1, <2>2 DEF Drained
<1>12. SegmentsAreMapped' /\ ReleasedApart'
  <2>1. released = {} /\ \A u \in Thread : pc[u] # "add"
    BY <1>1, <1>4, NoneReleased
  <2> QED BY <1>1, <2>1 DEF SegmentsAreMapped, ReleasedApart
<1>13. NothingCached' /\ GrowthServesRequest'
  BY <1>4 DEF NothingCached, GrowthServesRequest
<1>14. NoDuplicateGrowth'
  BY <1>1, <1>4 DEF NoDuplicateGrowth, GrowPlaces, Pool!FreeRun, Pool!Segments, Pool!Live
<1>15. OutOfMemoryMeansInUse'
  BY <1>1 DEF OutOfMemoryMeansInUse
<1> QED BY <1>6, <1>7, <1>8, <1>9, <1>10, <1>11, <1>12, <1>13, <1>14, <1>15

\* The commands that are left are those that were there but one, in their order.
LEMMA Removed ==
  ASSUME TypeOK, NEW i \in 1 .. Len(stream)
  PROVE  stream' = SubSeq(stream, 1, i - 1) \o SubSeq(stream, i + 1, Len(stream)) =>
           /\ stream' \in Seq(Commands) /\ Len(stream) \in Nat /\ Len(stream') = Len(stream) - 1
           /\ \A k \in 1 .. Len(stream') : stream'[k] = stream[IF k < i THEN k ELSE k + 1]
<1>0. SUFFICES ASSUME stream' = SubSeq(stream, 1, i - 1) \o SubSeq(stream, i + 1, Len(stream))
      PROVE  /\ stream' \in Seq(Commands) /\ Len(stream) \in Nat /\ Len(stream') = Len(stream) - 1
             /\ \A k \in 1 .. Len(stream') : stream'[k] = stream[IF k < i THEN k ELSE k + 1]
  OBVIOUS
<1>1. stream \in Seq(Commands)
  BY DEF TypeOK
<1>2. Len(stream) \in Nat /\ \A k \in 1 .. Len(stream) : stream[k] \in Commands
  BY <1>1
<1> DEFINE before == SubSeq(stream, 1, i - 1)
           after == SubSeq(stream, i + 1, Len(stream))
<1>3. /\ before \in Seq(Commands) /\ Len(before) = i - 1
      /\ \A k \in 1 .. i - 1 : before[k] = stream[k]
  <2>1. 1 \in Int /\ i - 1 \in Int /\ \A k \in 1 .. i - 1 : stream[k] \in Commands
    BY <1>2
  <2>2. /\ before \in Seq(Commands)
        /\ Len(before) = IF 1 <= i - 1 THEN i - 1 - 1 + 1 ELSE 0
        /\ \A k \in 1 .. i - 1 - 1 + 1 : before[k] = stream[1 + k - 1]
    BY <2>1, SubSeqProperties
  <2> QED BY <1>2, <2>2
<1>4. /\ after \in Seq(Commands) /\ Len(after) = Len(stream) - i
      /\ \A k \in 1 .. Len(stream) - i : after[k] = stream[k + i]
  <2>1. i + 1 \in Int /\ Len(stream) \in Int /\ \A k \in i + 1 .. Len(stream) : stream[k] \in Commands
    BY <1>2
  <2>2. /\ after \in Seq(Commands)
        /\ Len(after) = IF i + 1 <= Len(stream) THEN Len(stream) - (i + 1) + 1 ELSE 0
        /\ \A k \in 1 .. Len(stream) - (i + 1) + 1 : after[k] = stream[i + 1 + k - 1]
    BY <2>1, SubSeqProperties
  <2> QED BY <1>2, <2>2
<1> HIDE DEF before, after
<1>5. /\ stream' \in Seq(Commands) /\ Len(stream') = Len(before) + Len(after)
      /\ \A k \in 1 .. Len(before) + Len(after) :
           stream'[k] = IF k <= Len(before) THEN before[k] ELSE after[k - Len(before)]
  BY <1>0, <1>3, <1>4, ConcatProperties DEF before, after
<1>6. Len(stream') = Len(stream) - 1
  BY <1>2, <1>3, <1>4, <1>5
<1>7. ASSUME NEW k \in 1 .. Len(stream')
      PROVE  stream'[k] = stream[IF k < i THEN k ELSE k + 1]
  <2>1. k \in 1 .. Len(before) + Len(after)
    BY <1>5
  <2>2. CASE k < i
    BY <1>2, <1>3, <1>5, <2>1, <2>2
  <2>3. CASE ~(k < i)
    <3>1. PICK m \in 1 .. Len(stream) - i : m = k - Len(before) /\ m + i = k + 1
      <4>1. Len(before) = i - 1 /\ i \in Nat /\ k \in Nat /\ Len(stream) \in Nat
        BY <1>2, <1>3
      <4>2. k <= Len(stream) - 1 /\ i <= k
        BY <1>6, <2>3, <4>1
      <4>3. k - (i - 1) \in 1 .. Len(stream) - i /\ k - (i - 1) + i = k + 1
        BY ONLY <4>1, <4>2
      <4> QED BY <4>1, <4>3, Zenon
    <3>2. stream'[k] = after[m]
      <4>1. ~(k <= Len(before))
        BY <1>2, <1>3, <2>3
      <4>2. stream'[k] = after[k - Len(before)]
        BY <1>5, <2>1, <4>1
      <4> QED BY <3>1, <4>2
    <3> QED BY <1>4, <2>3, <3>1, <3>2
  <2> QED BY <2>2, <2>3
<1> QED BY <1>2, <1>5, <1>6, <1>7

\* The device takes a command that may run, and a thread that waited for it goes on.
LEMMA ExecuteIInv ==
  ASSUME IInv, Execute
  PROVE  IInv'
<1>1. PICK i \in 1 .. Len(stream) :
        /\ \A j \in 1 .. i - 1 : stream[i].op # "synchronize"
        /\ stream' = SubSeq(stream, 1, i - 1) \o SubSeq(stream, i + 1, Len(stream))
        /\ \/ /\ stream[i].op = "fill" /\ pc' = pc
              /\ contents' = [a \in Address |->
                   IF Within(a, 1, stream[i].address, stream[i].size) /\ Allocated(a)
                   THEN stream[i].thread ELSE contents[a]]
           \/ stream[i].op = "copy" /\ Goto(stream[i].thread, "idle") /\ contents' = contents
           \/ stream[i].op = "synchronize" /\ Goto(stream[i].thread, "extract") /\ contents' = contents
        /\ UNCHANGED <<segSize, live, reply, mutex, request, segment, released, mapped, owner,
                       filled, status>>
  BY DEF Execute, Runnable, arena
<1>2. /\ stream' \in Seq(Commands) /\ Len(stream) \in Nat /\ Len(stream') = Len(stream) - 1
      /\ \A k \in 1 .. Len(stream') : stream'[k] = stream[IF k < i THEN k ELSE k + 1]
  BY <1>1, Removed DEF IInv
<1> DEFINE From(k) == IF k < i THEN k ELSE k + 1
<1>3. /\ \A k \in 1 .. Len(stream') : /\ From(k) \in 1 .. Len(stream) /\ From(k) # i
                                      /\ stream'[k] = stream[From(k)]
      /\ \A j, k \in 1 .. Len(stream') : /\ From(j) = From(k) => j = k
                                         /\ j < k => From(j) < From(k)
      /\ \A m \in 1 .. Len(stream) : m # i => \E k \in 1 .. Len(stream') : From(k) = m
  <2>1. \A k \in 1 .. Len(stream') : /\ From(k) \in 1 .. Len(stream) /\ From(k) # i
                                     /\ stream'[k] = stream[From(k)]
    BY <1>2
  <2>2. \A j, k \in 1 .. Len(stream') : /\ From(j) = From(k) => j = k
                                        /\ j < k => From(j) < From(k)
    BY <1>2
  <2>3. ASSUME NEW m \in 1 .. Len(stream), m # i
        PROVE  \E k \in 1 .. Len(stream') : From(k) = m
    <3>1. CASE m < i
      <4>1. m \in 1 .. Len(stream') /\ From(m) = m
        BY <1>2, <3>1
      <4> QED BY <4>1
    <3>2. CASE m > i
      <4>1. m - 1 \in 1 .. Len(stream') /\ From(m - 1) = m
        BY <1>2, <3>2
      <4> QED BY <4>1
    <3> QED BY <2>3, <1>2, <3>1, <3>2
  <2> QED BY <2>1, <2>2, <2>3
<1> HIDE DEF From
<1>4. PICK t \in Thread : t = stream[i].thread
  BY Queued DEF IInv
<1>5. PICK op \in {"fill", "copy", "synchronize"} : op = stream[i].op
  BY <1>1
<1>6. /\ op = "copy" => pc[t] = "copying"
      /\ op = "synchronize" => pc[t] = "draining"
  BY <1>4, <1>5 DEF IInv, Waiters
<1>7. \A u \in Thread : pc'[u] = CASE op = "copy" /\ u = t -> "idle"
                                   [] op = "synchronize" /\ u = t -> "extract"
                                   [] OTHER -> pc[u]
  <2>1. CASE op = "fill"
    BY <1>1, <1>5, <2>1
  <2>2. CASE op = "copy"
    <3>1. pc' = [pc EXCEPT ![t] = "idle"]
      BY <1>1, <1>4, <1>5, <2>2 DEF Goto
    <3> QED BY <2>2, <3>1 DEF IInv, TypeOK
  <2>3. CASE op = "synchronize"
    <3>1. pc' = [pc EXCEPT ![t] = "extract"]
      BY <1>1, <1>4, <1>5, <2>3 DEF Goto
    <3> QED BY <2>3, <3>1 DEF IInv, TypeOK
  <2> QED BY <2>1, <2>2, <2>3
<1>8. \A k \in 1 .. Len(stream') : stream'[k].thread \in Thread
  BY <1>3, Queued DEF IInv
<1> USE DEF IInv
<1>9. TypeOK'
  <2>1. pc' \in [Thread -> Places \cup LockedPlaces]
    <3>1. pc' = pc \/ pc' = [pc EXCEPT ![t] = "idle"] \/ pc' = [pc EXCEPT ![t] = "extract"]
      BY <1>1, <1>4 DEF Goto
    <3> QED BY <3>1 DEF TypeOK, Places, LockedPlaces
  <2>2. \A u \in Thread : pc'[u] \in LockedPlaces <=> mutex' = u
    BY <1>1, <1>6, <1>7 DEF TypeOK, LockedPlaces
  <2>3. contents' \in [Address -> Thread \cup {Null}]
    BY <1>1, <1>4 DEF TypeOK
  <2> QED BY <1>1, <1>2, <2>1, <2>2, <2>3 DEF TypeOK
<1>10. Arguments'
  <2>1. \A u \in Thread :
          /\ pc'[u] \in {"lock", "try", "again"} \cup GrowPlaces =>
               pc[u] \in {"lock", "try", "again"} \cup GrowPlaces
          /\ pc'[u] \in {"lockToFree", "free", "add"} => pc'[u] = pc[u]
    BY <1>6, <1>7 DEF GrowPlaces, LockedPlaces
  <2> QED BY <1>1, <2>1 DEF Arguments
<1>11. LiveApart'
  BY <1>1, MemoryKept
<1>12. Waiters'
  <2>1. ASSUME NEW k \in 1 .. Len(stream')
        PROVE  /\ stream'[k].op = "synchronize" => pc'[stream'[k].thread] = "draining"
               /\ stream'[k].op = "copy" => pc'[stream'[k].thread] = "copying"
               /\ stream'[k].op # "synchronize" => stream'[k].size > 0
    <3>1. /\ stream[From(k)].op = "synchronize" => pc[stream[From(k)].thread] = "draining"
          /\ stream[From(k)].op = "copy" => pc[stream[From(k)].thread] = "copying"
          /\ stream[From(k)].op # "synchronize" => stream[From(k)].size > 0
      BY <1>3 DEF Waiters
    <3>2. stream[From(k)].op = op /\ op # "fill" => stream[From(k)].thread # t
      BY <1>3, <1>4, <1>5 DEF Waiters
    <3> QED BY <1>3, <1>6, <1>7, <1>8, <3>1, <3>2
  <2>2. ASSUME NEW j \in 1 .. Len(stream'), NEW k \in 1 .. Len(stream'),
               stream'[j].op # "fill", stream'[j].op = stream'[k].op,
               stream'[j].thread = stream'[k].thread
        PROVE  j = k
    <3>1. /\ From(j) \in 1 .. Len(stream) /\ From(k) \in 1 .. Len(stream)
          /\ stream'[j] = stream[From(j)] /\ stream'[k] = stream[From(k)]
      BY <1>3
    <3>2. From(j) = From(k)
      BY <2>2, <3>1 DEF Waiters
    <3> QED BY <1>3, <3>2
  <2>3. ASSUME NEW u \in Thread, pc'[u] = "draining"
        PROVE  \E k \in 1 .. Len(stream') : stream'[k].op = "synchronize" /\ stream'[k].thread = u
    <3>1. pc[u] = "draining" /\ ~(op = "synchronize" /\ u = t)
      BY <1>7, <2>3
    <3>2. PICK m \in 1 .. Len(stream) : stream[m].op = "synchronize" /\ stream[m].thread = u
      BY <3>1 DEF Waiters
    <3>3. m # i
      BY <1>4, <1>5, <3>1, <3>2
    <3> QED BY <1>3, <3>2, <3>3
  <2>4. ASSUME NEW u \in Thread, pc'[u] = "copying"
        PROVE  \E k \in 1 .. Len(stream') : stream'[k].op = "copy" /\ stream'[k].thread = u
    <3>1. pc[u] = "copying" /\ ~(op = "copy" /\ u = t)
      BY <1>7, <2>4
    <3>2. PICK m \in 1 .. Len(stream) : stream[m].op = "copy" /\ stream[m].thread = u
      BY <3>1 DEF Waiters
    <3>3. m # i
      BY <1>4, <1>5, <3>1, <3>2
    <3> QED BY <1>3, <3>2, <3>3
  <2> QED BY <2>1, <2>2, <2>3, <2>4 DEF Waiters
<1>13. NoUseAfterCudaFree'
  <2>1. ASSUME NEW k \in 1 .. Len(stream'), stream'[k].op # "synchronize"
        PROVE  \E m \in Address : Within(stream'[k].address, stream'[k].size, m, mapped[m])
    <3>1. From(k) \in 1 .. Len(stream) /\ stream'[k] = stream[From(k)]
      BY <1>3
    <3> QED BY <2>1, <3>1 DEF NoUseAfterCudaFree
  <2> QED BY <1>1, <2>1 DEF NoUseAfterCudaFree
<1>14. Drained'
  <2> SUFFICES ASSUME NEW k \in 1 .. Len(stream'), stream'[k].op # "synchronize",
                      \/ \E u \in Thread : pc'[u] \in {"extract", "cudaFree"}
                      \/ \E j \in 1 .. k - 1 : stream'[j].op = "synchronize"
               PROVE  \E a \in Address : live'[a] > 0
                        /\ Within(stream'[k].address, stream'[k].size, a, live'[a])
    BY DEF Drained
  <2>1. From(k) \in 1 .. Len(stream) /\ stream'[k] = stream[From(k)]
    BY <1>3
  <2>2. \/ \E u \in Thread : pc[u] \in {"extract", "cudaFree"}
        \/ \E m \in 1 .. From(k) - 1 : stream[m].op = "synchronize"
    <3>1. CASE \E j \in 1 .. k - 1 : stream'[j].op = "synchronize"
      <4>1. PICK j \in 1 .. Len(stream') : j < k /\ stream'[j].op = "synchronize"
        BY <1>2, <3>1
      <4>2. From(j) < From(k) /\ From(j) \in 1 .. Len(stream) /\ stream[From(j)].op = "synchronize"
        BY <1>3, <4>1
      <4>3. From(j) \in 1 .. From(k) - 1
        BY <1>2, <2>1, <4>2
      <4> QED BY <4>2, <4>3
    <3>2. CASE \E u \in Thread : pc'[u] \in {"extract", "cudaFree"} /\ op # "synchronize"
      BY <1>7, <3>2
    <3>3. CASE op = "synchronize"
      <4>1. i = 1
        BY <1>1, <1>2, <1>5, <3>3
      <4>2. 1 \in 1 .. From(k) - 1
        BY <1>2, <2>1, <4>1 DEF From
      <4> QED BY <1>5, <3>3, <4>1, <4>2
    <3> QED BY <3>1, <3>2, <3>3
  <2>3. \E a \in Address : live[a] > 0 /\ Within(stream[From(k)].address, stream[From(k)].size, a, live[a])
    BY <2>1, <2>2 DEF Drained
  <2> QED BY <1>1, <2>1, <2>3
<1>15. SegmentsAreMapped'
  <2>1. \A u \in Thread : pc'[u] = "add" <=> pc[u] = "add"
    BY <1>6, <1>7
  <2> QED BY <1>1, <2>1 DEF SegmentsAreMapped
<1>16. ReleasedApart'
  <2>1. \A u \in Thread : pc[u] = "cudaFree" => pc'[u] = "cudaFree"
    BY <1>6, <1>7
  <2> QED BY <1>1, <2>1 DEF ReleasedApart
<1>17. NothingCached'
  <2>1. \A u \in Thread : pc'[u] \in {"cudaFree", "retry"} => pc'[u] = pc[u]
    BY <1>7
  <2> QED BY <1>1, <2>1 DEF NothingCached
<1>18. NoDuplicateGrowth'
  <2>1. \A u \in Thread : pc'[u] \in GrowPlaces => pc[u] \in GrowPlaces
    BY <1>6, <1>7 DEF GrowPlaces, LockedPlaces
  <2> QED BY <1>1, <2>1 DEF NoDuplicateGrowth, Pool!FreeRun, Pool!Segments, Pool!Live
<1>19. GrowthServesRequest'
  <2>1. \A u \in Thread : pc'[u] = "again" => pc[u] = "again"
    BY <1>7
  <2> QED BY <1>1, <2>1 DEF GrowthServesRequest, Pool!FreeRun, Pool!Segments, Pool!Live
<1>20. OutOfMemoryMeansInUse'
  BY <1>1 DEF OutOfMemoryMeansInUse
<1> QED BY <1>9, <1>10, <1>11, <1>12, <1>13, <1>14, <1>15, <1>16, <1>17, <1>18, <1>19, <1>20

-----------------------------------------------------------------------------
(* Theorems                                                                *)

\* Before the first request nothing is mapped, live or queued.
LEMMA InitIInv ==
  ASSUME Init
  PROVE  IInv
<1> USE DEF Init, Pool!Init, Pool!Address, Address
<1>1. 0 \in Address /\ 0 \in Nat
  BY AddressAssumption
<1>2. /\ segSize = [a \in Address |-> 0] /\ live = [a \in Address |-> 0]
      /\ Len(stream) = 0 /\ stream \in Seq(Commands)
  OBVIOUS
<1>3. TypeOK
  <2>1. reply \in Pool!Replies
    BY DEF Pool!Replies, Pool!Answer
  <2>2. \A t \in Thread : pc[t] \in LockedPlaces <=> mutex = t
    BY NullAssumption DEF LockedPlaces
  <2>3. pc \in [Thread -> Places \cup LockedPlaces]
    BY DEF Places
  <2> QED BY <1>1, <1>2, <2>1, <2>2, <2>3 DEF TypeOK
<1>4. Arguments
  BY DEF Arguments, GrowPlaces, LockedPlaces
<1>5. LiveApart
  BY <1>1 DEF LiveApart
<1>6. SegmentsAreMapped /\ ReleasedApart /\ NothingCached /\ OutOfMemoryMeansInUse
  BY DEF SegmentsAreMapped, ReleasedApart, NothingCached, OutOfMemoryMeansInUse
<1>7. Waiters /\ NoUseAfterCudaFree /\ Drained
  BY <1>2 DEF Waiters, NoUseAfterCudaFree, Drained
<1>8. NoDuplicateGrowth /\ GrowthServesRequest
  BY DEF NoDuplicateGrowth, GrowthServesRequest, GrowPlaces, LockedPlaces
<1> QED BY <1>3, <1>4, <1>5, <1>6, <1>7, <1>8 DEF IInv

\* Nothing happens, or an error ends the process.
LEMMA StatusIInv ==
  ASSUME IInv, status' \in {status, "device error"},
         UNCHANGED <<arena, mutex, pc, request, segment, released, device, owner, filled>>
  PROVE  IInv'
<1> USE DEF IInv
<1>1. UNCHANGED <<segSize, live, reply, mutex, pc, request, segment, released, mapped, stream,
                  contents, owner, filled>>
  BY DEF arena, device
<1>2. TypeOK' /\ Arguments'
  <2>1. TypeOK'
    BY <1>1 DEF TypeOK
  <2>2. Arguments'
    BY <1>1 DEF Arguments
  <2> QED BY <2>1, <2>2
<1>3. LiveApart' /\ NoUseAfterCudaFree' /\ Drained' /\ Waiters'
  <2>1. LiveApart' /\ NoUseAfterCudaFree'
    BY <1>1, MemoryKept, UseKept
  <2>2. Drained'
    BY <1>1, DrainedKept
  <2>3. Waiters /\ stream' = stream /\ pc' = pc
    BY <1>1
  <2>4. Waiters'
    BY ONLY <2>3 DEF Waiters
  <2> QED BY <2>1, <2>2, <2>4
<1>4. /\ SegmentsAreMapped' /\ ReleasedApart' /\ NothingCached'
      /\ NoDuplicateGrowth' /\ GrowthServesRequest' /\ OutOfMemoryMeansInUse'
  BY <1>1, GrowthKept
<1> QED BY <1>2, <1>3, <1>4

\* Every step of the threads and of the device preserves the inductive invariant.
LEMMA NextIInv ==
  ASSUME IInv, [Next]_vars
  PROVE  IInv'
<1>1. CASE Running
  <2>1. CASE Execute
    BY <2>1, ExecuteIInv
  <2>2. CASE \E t \in Thread :
               \/ \E n \in Sizes : RequestAllocate(t, n)
               \/ \E a \in Address : RequestDeallocate(t, a)
    BY <2>2, RequestIInv
  <2>3. CASE \E t \in Thread : \E a \in Address : Launch(t, a) \/ ReadBack(t, a)
    BY <2>3, QueuedIInv
  <2>4. CASE \E t \in Thread : Lock(t)
    BY <2>4, LockIInv
  <2>5. CASE \E t \in Thread : Locked(t)
    <3>1. PICK t \in Thread : Locked(t)
      BY <2>5
    <3>2. CASE AllocateFirst(t) \/ AllocateAgain(t)
      BY <3>2, HandOutIInv
    <3>3. CASE Miss(t)
      BY <3>3, MissIInv
    <3>4. CASE CudaMalloc(t)
      BY <1>1, <3>4, CudaMallocIInv DEF Running
    <3>5. CASE CudaMallocFails(t) \/ CudaError(t) \/ Released(t)
      BY <3>5, GrowingIInv
    <3>6. CASE Synchronize(t)
      BY <3>6, SynchronizeIInv
    <3>7. CASE ExtractSegments(t)
      BY <3>7, ExtractSegmentsIInv
    <3>8. CASE CudaFree(t)
      BY <3>8, CudaFreeIInv
    <3>9. CASE AddSegment(t)
      BY <3>9, AddSegmentIInv
    <3>10. CASE Deallocate(t)
      BY <1>1, <3>10, DeallocateIInv DEF Running
    <3> QED BY <3>1, <3>2, <3>3, <3>4, <3>5, <3>6, <3>7, <3>8, <3>9, <3>10 DEF Locked
  <2>6. CASE \E t \in Thread : GetDeviceFails(t)
    BY <2>6, StatusIInv DEF GetDeviceFails
  <2> QED BY <1>1, <2>1, <2>2, <2>3, <2>4, <2>5, <2>6 DEF Running
<1>2. CASE UNCHANGED vars
  BY <1>2, StatusIInv DEF vars
<1> QED BY <1>1, <1>2 DEF Next, Terminated

\* What relates the arena, the driver, the queue of the device and the threads always holds.
THEOREM SpecIInv == Spec => []IInv
BY InitIInv, NextIInv, PTL DEF Spec

\* Every variable has its type, and the mutex of the device excludes.
THEOREM SpecTypeOK == Spec => []TypeOK
BY SpecIInv, PTL DEF IInv

\* release_free_segments_locked never returns memory to the driver that a queued command is on.
THEOREM SpecNoUseAfterCudaFree == Spec => []NoUseAfterCudaFree
BY SpecIInv, PTL DEF IInv

\* The arena and the driver agree about the segments, and no mapped memory is lost.
THEOREM SpecSegmentsAreMapped == Spec => []SegmentsAreMapped
BY SpecIInv, PTL DEF IInv

\* allocate throws for want of memory only when all of it is in segments with a live allocation.
THEOREM SpecOutOfMemoryMeansInUse == Spec => []OutOfMemoryMeansInUse
BY SpecIInv, PTL DEF IInv

\* No segment is acquired while the free memory of the arena serves the request, and the one
\* that is acquired serves it.
THEOREM SpecGrowth == Spec => [](NoDuplicateGrowth /\ GrowthServesRequest)
BY SpecIInv, PTL DEF IInv

-----------------------------------------------------------------------------
(* Reuse without events: a thread reads back what its own kernel wrote     *)

OneStream == \A i \in 1 .. Len(stream) : stream[i].stream = Null

\* A copy is of an allocation its thread holds and has filled, and the thread waits for it.
CopiesWait ==
  \A i \in 1 .. Len(stream) :
    stream[i].op = "copy" =>
      /\ stream[i].address \in filled
      /\ owner[stream[i].address] = stream[i].thread
      /\ stream[i].size = live[stream[i].address]
      /\ \A j \in i + 1 .. Len(stream) : stream[j].thread # stream[i].thread

\* The command i writes the address x.
Writes(i, x) == stream[i].op = "fill" /\ Within(x, 1, stream[i].address, stream[i].size)

(* The last to write an address of a filled allocation is its owner: the   *)
(* device has executed the owner's kernel, or has it queued at k, and no   *)
(* kernel of another thread on that address comes after it.                *)
LastWriter ==
  \A a \in filled : \A x \in Address :
    Within(x, 1, a, live[a]) =>
      \E k \in 0 .. Len(stream) :
        /\ k = 0 => contents[x] = owner[a]
        /\ k > 0 => Writes(k, x) /\ stream[k].thread = owner[a]
        /\ \A j \in k + 1 .. Len(stream) : Writes(j, x) => stream[j].thread = owner[a]

OrderInv == OneStream /\ CopiesWait /\ LastWriter

\* Addresses of two live allocations are two.
LEMMA LiveOnce ==
  ASSUME IInv, NEW a \in Address, NEW b \in Address, live[a] > 0, live[b] > 0, NEW x \in Address,
         Within(x, 1, a, live[a]), Within(x, 1, b, live[b])
  PROVE  a = b
<1>1. /\ a \in Nat /\ b \in Nat /\ x \in Nat /\ live[a] \in Nat /\ live[b] \in Nat
  BY Numbers DEF IInv
<1>2. Pool!Overlap(a, live[a], b, live[b])
  BY <1>1 DEF Within, Pool!Overlap
<1> QED BY <1>2 DEF IInv, LiveApart

\* What is filled is held, and live.
LEMMA FilledLive ==
  ASSUME IInv, NEW a \in filled
  PROVE  a \in Address /\ owner[a] # Null /\ live[a] > 0
BY DEF IInv, TypeOK, LiveApart

\* A thread that has a copy on the device waits for it.
LEMMA CopyWaits ==
  ASSUME IInv, NEW t \in Thread, pc[t] # "copying", NEW i \in 1 .. Len(stream), stream[i].op = "copy"
  PROVE  stream[i].thread # t
BY DEF IInv, Waiters

\* The steps that leave the queue, the contents and the allocations alone.
LEMMA OrderKept ==
  ASSUME OrderInv, UNCHANGED <<live, stream, contents, owner, filled>>
  PROVE  OrderInv'
BY DEF OrderInv, OneStream, CopiesWait, LastWriter, Writes

\* A kernel, a copy or a synchronization goes behind what is queued.
LEMMA OrderAppended ==
  ASSUME IInv, OrderInv, NEW t \in Thread,
         Synchronize(t) \/ \E a \in Address : Launch(t, a) \/ ReadBack(t, a)
  PROVE  OrderInv'
<1>1. PICK op \in {"fill", "copy", "synchronize"}, a \in Address, size \in Nat :
        /\ pc[t] # "copying"
        /\ stream' = Append(stream, Command(op, t, a, size))
        /\ op # "synchronize" => owner[a] = t /\ size = live[a]
        /\ op = "fill" => filled' = filled \cup {a}
        /\ op = "copy" => a \in filled
        /\ op # "fill" => filled' = filled
        /\ UNCHANGED <<live, contents, owner>>
  <2>1. CASE Synchronize(t)
    <3>1. PICK z \in Address : z = 0
      BY AddressAssumption DEF Address
    <3> WITNESS "synchronize" \in {"fill", "copy", "synchronize"}, z \in Address, 0 \in Nat
    <3> QED BY <2>1, <3>1 DEF Synchronize, arena
  <2>2. CASE \E a \in Address : Launch(t, a) \/ ReadBack(t, a)
    <3>1. PICK a \in Address : Launch(t, a) \/ ReadBack(t, a)
      BY <2>2
    <3>2. PICK size \in Nat : size = live[a]
      BY Numbers DEF IInv
    <3>3. CASE Launch(t, a)
      <4> WITNESS "fill" \in {"fill", "copy", "synchronize"}, a \in Address, size \in Nat
      <4> QED BY <3>2, <3>3 DEF Launch, arena
    <3>4. CASE ReadBack(t, a)
      <4> WITNESS "copy" \in {"fill", "copy", "synchronize"}, a \in Address, size \in Nat
      <4> QED BY <3>2, <3>4 DEF ReadBack, arena
    <3> QED BY <3>1, <3>3, <3>4
  <2> QED BY <2>1, <2>2
<1> DEFINE c == Command(op, t, a, size)
<1>2. /\ c \in Commands /\ c.op = op /\ c.thread = t /\ c.address = a /\ c.size = size
      /\ c.stream = Null
  <2>1. a \in Nat
    BY Numbers DEF IInv
  <2> QED BY <2>1 DEF Command, Commands, StreamOf
<1> HIDE DEF c
<1>3. PICK n \in Nat :
        /\ n = Len(stream) + 1 /\ Len(stream) \in Nat /\ Len(stream') = n
        /\ \A i \in 1 .. Len(stream) : stream'[i] = stream[i]
        /\ stream'[n] = c
        /\ \A i \in 1 .. Len(stream') : i \in 1 .. Len(stream) \/ i = n
  <2>1. /\ Len(stream) \in Nat /\ Len(stream') = Len(stream) + 1
        /\ \A i \in 1 .. Len(stream) : stream'[i] = stream[i]
        /\ stream'[Len(stream) + 1] = c
        /\ \A i \in 1 .. Len(stream') : i \in 1 .. Len(stream) \/ i = Len(stream) + 1
    BY <1>1, <1>2, Appended DEF IInv, c
  <2> QED BY <2>1
<1>4. OneStream'
  BY <1>2, <1>3 DEF OrderInv, OneStream
<1>5. CopiesWait'
  <2>1. ASSUME NEW i \in 1 .. Len(stream'), stream'[i].op = "copy"
        PROVE  /\ stream'[i].address \in filled'
               /\ owner'[stream'[i].address] = stream'[i].thread
               /\ stream'[i].size = live'[stream'[i].address]
               /\ \A j \in i + 1 .. Len(stream') : stream'[j].thread # stream'[i].thread
    <3>1. CASE i = n
      <4>1. \A j \in i + 1 .. Len(stream') : FALSE
        BY <1>3, <3>1
      <4>2. stream'[i] = c /\ op = "copy"
        BY <1>2, <1>3, <2>1, <3>1
      <4> QED BY <1>1, <1>2, <4>1, <4>2
    <3>2. CASE i \in 1 .. Len(stream)
      <4>1. stream'[i] = stream[i] /\ stream[i].op = "copy"
        BY <1>3, <2>1, <3>2
      <4>2. stream[i].thread # t
        BY <1>1, <3>2, <4>1, CopyWaits
      <4>3. /\ stream[i].address \in filled
            /\ owner[stream[i].address] = stream[i].thread
            /\ stream[i].size = live[stream[i].address]
            /\ \A j \in i + 1 .. Len(stream) : stream[j].thread # stream[i].thread
        BY <3>2, <4>1 DEF OrderInv, CopiesWait
      <4>4. ASSUME NEW j \in i + 1 .. Len(stream')
            PROVE  stream'[j].thread # stream[i].thread
        <5>1. j = n \/ (j \in 1 .. Len(stream) /\ j \in i + 1 .. Len(stream))
          BY <1>3
        <5> QED BY <1>2, <1>3, <4>2, <4>3, <5>1
      <4>5. stream[i].address \in filled'
        BY <1>1, <4>3
      <4> QED BY <1>1, <4>1, <4>3, <4>4, <4>5
    <3> QED BY <1>3, <3>1, <3>2
  <2> QED BY <2>1 DEF CopiesWait
<1>6. LastWriter'
  <2> SUFFICES ASSUME NEW b \in filled', NEW x \in Address, Within(x, 1, b, live[b])
               PROVE  \E k \in 0 .. Len(stream') :
                        /\ k = 0 => contents'[x] = owner'[b]
                        /\ k > 0 => Writes(k, x)' /\ stream'[k].thread = owner'[b]
                        /\ \A j \in k + 1 .. Len(stream') : Writes(j, x)' => stream'[j].thread = owner'[b]
    BY <1>1 DEF LastWriter
  <2>1. CASE op = "fill" /\ b = a
    <3>1. Writes(n, x)' /\ stream'[n].thread = owner'[b]
      BY <1>1, <1>2, <1>3, <2>1 DEF Writes
    <3>2. n \in 0 .. Len(stream') /\ n > 0
      BY <1>3
    <3>3. \A j \in n + 1 .. Len(stream') : FALSE
      BY <1>3
    <3> QED BY <3>1, <3>2, <3>3
  <2>2. CASE ~(op = "fill" /\ b = a)
    <3>1. b \in filled
      BY <1>1, <2>2
    <3>2. PICK k \in 0 .. Len(stream) :
            /\ k = 0 => contents[x] = owner[b]
            /\ k > 0 => Writes(k, x) /\ stream[k].thread = owner[b]
            /\ \A j \in k + 1 .. Len(stream) : Writes(j, x) => stream[j].thread = owner[b]
      BY <3>1 DEF OrderInv, LastWriter
    <3>3. ~Writes(n, x)'
      <4>1. CASE op = "fill"
        <5>1. live[a] > 0 /\ live[b] > 0 /\ b \in Address
          BY <1>1, <3>1, <4>1, OwnedLive, FilledLive
        <5>2. ~Within(x, 1, a, live[a])
          BY <2>2, <4>1, <5>1, LiveOnce
        <5> QED BY <1>1, <1>2, <1>3, <4>1, <5>2 DEF Writes
      <4>2. CASE op # "fill"
        BY <1>2, <1>3, <4>2 DEF Writes
      <4> QED BY <4>1, <4>2
    <3>4. k \in 0 .. Len(stream')
      BY <1>3
    <3>5. k > 0 => Writes(k, x)' /\ stream'[k].thread = owner'[b]
      BY <1>1, <1>3, <3>2 DEF Writes
    <3>6. ASSUME NEW j \in k + 1 .. Len(stream'), Writes(j, x)'
          PROVE  stream'[j].thread = owner'[b]
      <4>1. j \in k + 1 .. Len(stream) /\ j \in 1 .. Len(stream)
        BY <1>3, <3>3, <3>6
      <4>2. Writes(j, x)
        BY <1>3, <3>6, <4>1 DEF Writes
      <4> QED BY <1>1, <1>3, <3>2, <4>1, <4>2
    <3> QED BY <1>1, <3>2, <3>4, <3>5, <3>6
  <2> QED BY <2>1, <2>2
<1> QED BY <1>4, <1>5, <1>6 DEF OrderInv

\* What is handed out is held by nobody, so that it is not filled.
LEMMA OrderHandOut ==
  ASSUME IInv, OrderInv, NEW t \in Thread, AllocateFirst(t) \/ AllocateAgain(t)
  PROVE  OrderInv'
<1>1. PICK a \in Address :
        /\ pc[t] \in {"try", "again"}
        /\ Pool!FreeRun(a, AlignUp(request[t]))
        /\ live' = [live EXCEPT ![a] = AlignUp(request[t])]
        /\ owner' = [owner EXCEPT ![a] = t]
        /\ UNCHANGED <<stream, contents, filled>>
  BY PoolAlignUp DEF AllocateFirst, AllocateAgain, HandOut, Pool!Grant, device
<1>2. PICK size \in Nat : size = AlignUp(request[t]) /\ size > 0
  <2>1. request[t] \in Sizes
    BY <1>1 DEF IInv, Arguments
  <2> QED BY <2>1, GrownSuffices
<1>3. a \notin filled
  <2> SUFFICES ASSUME a \in filled PROVE FALSE
    OBVIOUS
  <2>1. live[a] > 0
    BY FilledLive
  <2>2. ~Pool!Overlap(a, size, a, live[a])
    BY <1>1, <1>2, <2>1 DEF Pool!FreeRun, Pool!Live, Pool!Address, Address
  <2>3. a \in Nat /\ live[a] \in Nat
    BY Numbers DEF IInv
  <2> QED BY <1>2, <2>1, <2>2, <2>3 DEF Pool!Overlap
<1>4. \A b \in filled : b \in Address /\ live'[b] = live[b] /\ owner'[b] = owner[b]
  BY <1>1, <1>3 DEF IInv, TypeOK
<1>5. OneStream' /\ CopiesWait'
  BY <1>1, <1>4 DEF OrderInv, OneStream, CopiesWait
<1>6. LastWriter'
  BY <1>1, <1>4 DEF OrderInv, LastWriter, Writes
<1> QED BY <1>5, <1>6 DEF OrderInv

\* The thread that frees an allocation has no copy of it under way.
LEMMA OrderDeallocate ==
  ASSUME IInv, OrderInv, NEW t \in Thread, Deallocate(t)
  PROVE  OrderInv'
<1>1. PICK a \in Address :
        /\ pc[t] = "free" /\ owner[a] = t
        /\ live' = [live EXCEPT ![a] = 0]
        /\ owner' = [owner EXCEPT ![a] = Null]
        /\ filled' = filled \ {a}
        /\ contents' = [b \in Address |-> IF Within(b, 1, a, live[a]) THEN Null ELSE contents[b]]
        /\ stream' = stream
  BY DEF Deallocate, Pool!Free, IInv, Arguments
<1>2. \A b \in filled' : /\ b \in filled /\ b \in Address /\ b # a
                         /\ live'[b] = live[b] /\ owner'[b] = owner[b]
  BY <1>1 DEF IInv, TypeOK
<1>3. OneStream'
  BY <1>1 DEF OrderInv, OneStream
<1>4. CopiesWait'
  <2>1. ASSUME NEW i \in 1 .. Len(stream), stream[i].op = "copy"
        PROVE  stream[i].address \in filled'
    <3>1. stream[i].thread # t
      BY <1>1, <2>1, CopyWaits
    <3>2. stream[i].address \in filled /\ owner[stream[i].address] = stream[i].thread
      BY <2>1 DEF OrderInv, CopiesWait
    <3> QED BY <1>1, <3>1, <3>2
  <2> QED BY <1>1, <1>2, <2>1 DEF OrderInv, CopiesWait
<1>5. LastWriter'
  <2>1. ASSUME NEW b \in filled', NEW x \in Address, Within(x, 1, b, live[b])
        PROVE  contents'[x] = contents[x]
    <3>1. live[a] > 0 /\ live[b] > 0
      BY <1>1, <1>2, OwnedLive, FilledLive
    <3>2. ~Within(x, 1, a, live[a])
      BY <1>2, <2>1, <3>1, LiveOnce
    <3> QED BY <1>1, <3>2
  <2> QED BY <1>1, <1>2, <2>1 DEF OrderInv, LastWriter, Writes
<1> QED BY <1>3, <1>4, <1>5 DEF OrderInv

\* Only the first command may run.
LEMMA FirstRuns ==
  ASSUME IInv, OrderInv, NEW i \in Runnable
  PROVE  i = 1 /\ 1 \in 1 .. Len(stream)
<1>1. Len(stream) \in Nat
  <2>1. stream \in Seq(Commands)
    BY DEF IInv, TypeOK
  <2> QED BY <2>1
<1>2. i \in 1 .. Len(stream) /\ \A j \in 1 .. i - 1 : stream[j].stream # stream[i].stream
  BY DEF Runnable
<1>3. \A j \in 1 .. i - 1 : j \in 1 .. Len(stream)
  BY <1>1, <1>2
<1>4. \A j \in 1 .. i - 1 : FALSE
  BY <1>2, <1>3 DEF OrderInv, OneStream
<1> QED BY <1>1, <1>2, <1>4

\* The kernel of the owner, or no later one, has written the address.
LEMMA OrderExecute ==
  ASSUME IInv, OrderInv, Execute
  PROVE  OrderInv'
<1>1. /\ 1 \in 1 .. Len(stream)
      /\ stream' = SubSeq(stream, 1, 1 - 1) \o SubSeq(stream, 1 + 1, Len(stream))
      /\ \/ /\ stream[1].op = "fill"
            /\ contents' = [a \in Address |->
                 IF Within(a, 1, stream[1].address, stream[1].size) /\ Allocated(a)
                 THEN stream[1].thread ELSE contents[a]]
         \/ stream[1].op # "fill" /\ contents' = contents
      /\ UNCHANGED <<live, owner, filled>>
  BY FirstRuns DEF Execute, arena
<1>2. /\ Len(stream) \in Nat /\ Len(stream') = Len(stream) - 1
      /\ \A k \in 1 .. Len(stream') : /\ stream'[k] = stream[k + 1]
                                      /\ k + 1 \in 1 .. Len(stream)
  <2>1. /\ Len(stream) \in Nat /\ Len(stream') = Len(stream) - 1
        /\ \A k \in 1 .. Len(stream') : stream'[k] = stream[IF k < 1 THEN k ELSE k + 1]
    BY <1>1, Removed DEF IInv
  <2> QED BY <2>1
<1>3. OneStream'
  BY <1>2 DEF OrderInv, OneStream
<1>4. CopiesWait'
  <2>1. ASSUME NEW i \in 1 .. Len(stream'), stream'[i].op = "copy"
        PROVE  /\ stream'[i].address \in filled
               /\ owner[stream'[i].address] = stream'[i].thread
               /\ stream'[i].size = live[stream'[i].address]
               /\ \A j \in i + 1 .. Len(stream') : stream'[j].thread # stream'[i].thread
    <3>1. PICK m \in 1 .. Len(stream) : m = i + 1 /\ stream'[i] = stream[m]
      BY <1>2
    <3>2. /\ stream[m].address \in filled
          /\ owner[stream[m].address] = stream[m].thread
          /\ stream[m].size = live[stream[m].address]
          /\ \A j \in m + 1 .. Len(stream) : stream[j].thread # stream[m].thread
      BY <2>1, <3>1 DEF OrderInv, CopiesWait
    <3>3. ASSUME NEW j \in i + 1 .. Len(stream')
          PROVE  stream'[j].thread # stream[m].thread
      <4>1. j + 1 \in m + 1 .. Len(stream) /\ stream'[j] = stream[j + 1]
        BY <1>2, <3>1
      <4> QED BY <3>2, <4>1
    <3> QED BY <3>1, <3>2, <3>3
  <2> QED BY <1>1, <2>1 DEF CopiesWait
<1>5. LastWriter'
  <2>0. filled' = filled /\ live' = live /\ owner' = owner
    BY <1>1
  <2> SUFFICES ASSUME NEW b \in filled, NEW x \in Address, Within(x, 1, b, live[b])
               PROVE  \E k \in 0 .. Len(stream') :
                        /\ k = 0 => contents'[x] = owner[b]
                        /\ k > 0 => Writes(k, x)' /\ stream'[k].thread = owner[b]
                        /\ \A j \in k + 1 .. Len(stream') : Writes(j, x)' => stream'[j].thread = owner[b]
    BY <2>0 DEF LastWriter
  <2>1. PICK k \in 0 .. Len(stream) :
          /\ k = 0 => contents[x] = owner[b]
          /\ k > 0 => Writes(k, x) /\ stream[k].thread = owner[b]
          /\ \A j \in k + 1 .. Len(stream) : Writes(j, x) => stream[j].thread = owner[b]
    BY DEF OrderInv, LastWriter
  <2>2. \A j \in 1 .. Len(stream') : Writes(j, x)' <=> Writes(j + 1, x)
    BY <1>2 DEF Writes
  <2>3. CASE k > 1
    <3>1. PICK m \in 0 .. Len(stream') : m = k - 1 /\ m > 0
      BY <1>2, <2>3
    <3>2. Writes(m, x)' /\ stream'[m].thread = owner[b]
      BY <1>2, <2>1, <2>2, <3>1
    <3>3. ASSUME NEW j \in m + 1 .. Len(stream'), Writes(j, x)'
          PROVE  stream'[j].thread = owner[b]
      <4>1. j \in 1 .. Len(stream') /\ j + 1 \in k + 1 .. Len(stream)
        BY <1>2, <3>1
      <4> QED BY <1>2, <2>1, <2>2, <3>3, <4>1
    <3> QED BY <3>1, <3>2, <3>3
  <2>4. CASE k \in {0, 1}
    <3>1. contents'[x] = owner[b]
      <4>1. Allocated(x) /\ b \in Address
        BY FilledLive DEF Allocated
      <4>2. Writes(1, x) => stream[1].thread = owner[b]
        BY <1>1, <2>1, <2>4
      <4>3. CASE Writes(1, x)
        BY <1>1, <4>1, <4>2, <4>3 DEF Writes
      <4>4. CASE ~Writes(1, x)
        <5>1. k = 0
          BY <2>1, <2>4, <4>4
        <5> QED BY <1>1, <2>1, <4>4, <5>1 DEF Writes
      <4> QED BY <4>3, <4>4
    <3>2. ASSUME NEW j \in 0 + 1 .. Len(stream'), Writes(j, x)'
          PROVE  stream'[j].thread = owner[b]
      <4>1. j \in 1 .. Len(stream') /\ j + 1 \in k + 1 .. Len(stream)
        BY <1>2, <2>4
      <4> QED BY <1>2, <2>1, <2>2, <3>2, <4>1
    <3>3. 0 \in 0 .. Len(stream')
      BY <1>1, <1>2
    <3> QED BY <3>1, <3>2, <3>3
  <2> QED BY <1>2, <2>3, <2>4
<1> QED BY <1>3, <1>4, <1>5 DEF OrderInv

\* At the start nothing is filled or queued.
LEMMA InitOrderInv ==
  ASSUME Init
  PROVE  OrderInv
BY DEF Init, OrderInv, OneStream, CopiesWait, LastWriter

\* Every step preserves the order of the writers.
LEMMA NextOrderInv ==
  ASSUME IInv, OrderInv, [Next]_vars
  PROVE  OrderInv'
<1>1. CASE Running
  <2>1. CASE Execute
    BY <2>1, OrderExecute
  <2>2. CASE \E t \in Thread :
               \/ \E n \in Sizes : RequestAllocate(t, n)
               \/ \E a \in Address : RequestDeallocate(t, a)
               \/ GetDeviceFails(t) \/ Lock(t)
    BY <2>2, OrderKept DEF RequestAllocate, GetDeviceFails, RequestDeallocate, Lock, arena, device
  <2>3. CASE \E t \in Thread : \E a \in Address : Launch(t, a) \/ ReadBack(t, a)
    BY <2>3, OrderAppended
  <2>4. CASE \E t \in Thread : Locked(t)
    <3>1. PICK t \in Thread : Locked(t)
      BY <2>4
    <3>2. CASE AllocateFirst(t) \/ AllocateAgain(t)
      BY <3>2, OrderHandOut
    <3>3. CASE Deallocate(t)
      BY <3>3, OrderDeallocate
    <3>4. CASE Synchronize(t)
      BY <3>4, OrderAppended
    <3>5. CASE Miss(t) \/ ExtractSegments(t) \/ AddSegment(t)
      BY <3>5, OrderKept DEF Miss, ExtractSegments, AddSegment, Pool!Refuse, Pool!Release, Pool!Add, device
    <3>6. CASE CudaMalloc(t) \/ CudaFree(t)
      BY <3>6, OrderKept DEF CudaMalloc, CudaFree, arena
    <3>7. CASE CudaMallocFails(t) \/ CudaError(t) \/ Released(t)
      BY <3>7, OrderKept DEF CudaMallocFails, CudaError, Released, arena, device
    <3> QED BY <3>1, <3>2, <3>3, <3>4, <3>5, <3>6, <3>7 DEF Locked
  <2> QED BY <1>1, <2>1, <2>2, <2>3, <2>4 DEF Running
<1>2. CASE UNCHANGED vars
  BY <1>2, OrderKept DEF vars, arena, device
<1> QED BY <1>1, <1>2 DEF Next, Terminated

\* A copy that may run finds what its own thread has written.
LEMMA OrderReadsBack ==
  ASSUME IInv, OrderInv
  PROVE  ReadsBackOwnData
<1> SUFFICES ASSUME NEW i \in Runnable, stream[i].op = "copy",
                    NEW x \in Address, Within(x, 1, stream[i].address, stream[i].size)
             PROVE  contents[x] = stream[i].thread
  BY DEF ReadsBackOwnData
<1>1. i = 1 /\ 1 \in 1 .. Len(stream)
  BY FirstRuns
<1>2. PICK a \in filled : a = stream[1].address /\ owner[a] = stream[1].thread /\ stream[1].size = live[a]
  BY <1>1 DEF OrderInv, CopiesWait
<1>3. PICK k \in 0 .. Len(stream) :
        /\ k = 0 => contents[x] = owner[a]
        /\ k > 0 => Writes(k, x) /\ stream[k].thread = owner[a]
  BY <1>1, <1>2 DEF OrderInv, LastWriter
<1>4. \A j \in 1 + 1 .. Len(stream) : stream[j].thread # stream[1].thread
  BY <1>1 DEF OrderInv, CopiesWait
<1>5. k # 1
  BY <1>1, <1>3 DEF Writes
<1>6. k \notin 1 + 1 .. Len(stream)
  BY <1>2, <1>3, <1>4
<1>7. k = 0
  BY <1>1, <1>5, <1>6
<1> QED BY <1>1, <1>2, <1>3, <1>7

\* Memory that another thread has freed while its kernels on it were queued can be used at once:
\* with one stream for all threads, no copy reads what the former owner wrote.
THEOREM SpecReadsBackOwnData == Spec => []ReadsBackOwnData
<1>1. Spec => [](IInv /\ OrderInv)
  <2>1. Init => IInv /\ OrderInv
    BY InitIInv, InitOrderInv
  <2>2. IInv /\ OrderInv /\ [Next]_vars => (IInv /\ OrderInv)'
    BY NextIInv, NextOrderInv
  <2> QED BY <2>1, <2>2, PTL DEF Spec
<1>2. IInv /\ OrderInv => ReadsBackOwnData
  BY OrderReadsBack
<1> QED BY <1>1, <1>2, PTL
=============================================================================
