---------------------------- MODULE TensorMemory ----------------------------
(***************************************************************************)
(* The memory of tensors: Storage and its views, and the operations that   *)
(* write memory in place or copy it between the devices (Storage, DataPtr, *)
(* TensorImpl::copy and fill, ops::to and add_inplace, tensor/cpu/memory   *)
(* and tensor/cuda/memory.cu).                                             *)
(*                                                                         *)
(* The host runs one operation after the other.  What it asks of the CUDA  *)
(* device is queued on the default stream and done later, in order, while  *)
(* the host goes on, gives memory back to the pool and is given it again.  *)
(* Only a copy to the host waits.  Assertions that synchronize the device  *)
(* are compiled out of the release build, which the model follows.         *)
(*                                                                         *)
(* Values are counted in halves, so that a conversion to an integer type   *)
(* shows.  Tensors are realized; a tensor that is still deferred has no    *)
(* memory (see LazyGraph).                                                 *)
(***************************************************************************)
EXTENDS Integers, Sequences, FiniteSets

CONSTANTS
    Handles,        \* variables of a program that can hold a tensor
    Sizes,          \* elements a tensor may have
    Blocks,         \* bound: blocks of memory on each device
    Threads,        \* threads of an element-wise launch (256)
    MaxBlocks,      \* most blocks of such a launch (1024 or 65535)
    VecWidth,       \* elements of a packet (4)
    MaxOps,         \* bound: operations of the program
    None            \* what a variable holds that holds no tensor

ASSUME MemoryAssumption ==
    /\ IsFiniteSet(Handles)
    /\ Sizes \subseteq Nat
    /\ \E n \in Sizes : \A i \in Sizes : i <= n           \* memory is limited
    /\ {Blocks, Threads, MaxBlocks, VecWidth} \subseteq Nat \ {0}
    /\ MaxOps \in Nat
    /\ None \notin [storage : Nat, n : Sizes, type : {"int", "double"}]

VARIABLES
    tensor,     \* tensor[h]: the storage, size and type h holds, or None
    storage,    \* storage[s]: the block of memory of a Storage
    memory,     \* what every block of memory holds
    queue,      \* what the device has been asked and has not done
    waiting,    \* whether the host waits for a copy it has asked for
    promised,   \* what the operations so far, done in turn, leave in storage s
    ops

vars == <<tensor, storage, memory, queue, waiting, promised, ops>>

DeviceType == {"CPU", "CUDA"}
DataType == {"int", "double"}
Element == 0 .. (CHOOSE n \in Sizes : \A i \in Sizes : i <= n) - 1
Junk == -1                              \* what nobody has written
Block == DeviceType \X (1 .. Blocks)

Live == {h \in Handles : tensor[h] # None}
MemoryOf(h) == storage[tensor[h].storage]
DeviceOf(h) == MemoryOf(h)[1]
SharedBy(s) == {h \in Live : tensor[h].storage = s}

-----------------------------------------------------------------------------
(* Element-wise loops.                                                     *)

\* static_cast to the type of the destination: integers are cut off.
Cast(v, type) == IF type = "int" /\ v # Junk THEN v - (v % 2) ELSE v

\* Blocks of a launch for that many pieces of work.
CeilBlocks(work) ==
    LET blocks == (work + Threads - 1) \div Threads
    IN  IF blocks > MaxBlocks THEN MaxBlocks ELSE blocks

\* elemwise_blocks: at least one, for the elements that make no packet.
elemwise_blocks(work) == IF CeilBlocks(work) = 0 THEN 1 ELSE CeilBlocks(work)

\* How often the threads of a launch, each walking from `first` plus its number
\* in steps of the whole launch, visit position i of the positions up to n.
Visits(i, first, n, blocks) ==
    Cardinality({t \in 0 .. blocks * Threads - 1 :
        i >= first + t /\ i < n /\ (i - first - t) % (blocks * Threads) = 0})

\* cudaVecCopyKernel and cudaVecFillKernel: which elements they write.
Walked(i, n) == Visits(i, 0, n, CeilBlocks(n)) > 0

\* addInplaceKernel: how often it adds to element i.  Blocks of the pool are
\* aligned to packets, so the first part goes by packets.
Adds(i, n) ==
    LET n_vec == n \div VecWidth
        blocks == elemwise_blocks(n_vec)
    IN  Visits(i \div VecWidth, 0, n_vec, blocks) + Visits(i, n_vec * VecWidth, n, blocks)

Copied(from, to, n, type) ==
    [i \in Element |-> IF i < n THEN Cast(from[i], type) ELSE to[i]]

CopiedByThreads(from, to, n, type) ==
    [i \in Element |-> IF Walked(i, n) THEN Cast(from[i], type) ELSE to[i]]

Filled(to, n, v) == [i \in Element |-> IF i < n THEN v ELSE to[i]]

FilledByThreads(to, n, v) == [i \in Element |-> IF Walked(i, n) THEN v ELSE to[i]]

Plus(v, w) == IF Junk \in {v, w} THEN Junk ELSE v + w

Added(from, to, n) ==
    [i \in Element |-> IF i < n THEN Plus(to[i], from[i]) ELSE to[i]]

AddedByThreads(from, to, n) ==
    [i \in Element |->
        IF Adds(i, n) = 0 THEN to[i]
        ELSE IF Adds(i, n) = 1 THEN Plus(to[i], from[i])
        ELSE Junk]                      \* two threads race

-----------------------------------------------------------------------------
(* The device: what it has been asked, in the order it was asked.          *)

CopyKernel(src, dst, n, type) ==
    [do |-> "copy_kernel", src |-> src, dst |-> dst, n |-> n, type |-> type]
Memcpy(src, dst, n) == [do |-> "memcpy", src |-> src, dst |-> dst, n |-> n]
\* A copy from the host, whose elements are taken when it is asked for.
Upload(data, dst, n) == [do |-> "upload", data |-> data, dst |-> dst, n |-> n]
FillKernel(dst, n, v) == [do |-> "fill", dst |-> dst, n |-> n, v |-> v]
AddKernel(src, dst, n) == [do |-> "add", src |-> src, dst |-> dst, n |-> n]

\* The memory after one of these.
After(mem, c) ==
    [mem EXCEPT ![c.dst] =
        CASE c.do = "copy_kernel" -> CopiedByThreads(mem[c.src], @, c.n, c.type)
          [] c.do = "memcpy"      -> Copied(mem[c.src], @, c.n, "double")
          [] c.do = "upload"      -> Copied(c.data, @, c.n, "double")
          [] c.do = "fill"        -> FilledByThreads(@, c.n, c.v)
          [] c.do = "add"         -> AddedByThreads(mem[c.src], @, c.n)]

\* The memory after all of a sequence of commands.
AfterAll(mem, commands) ==
    LET done[i \in 0 .. Len(commands)] ==
            IF i = 0 THEN mem ELSE After(done[i - 1], commands[i])
    IN  done[Len(commands)]

\* The device does the next thing it was asked.
Execute ==
    /\ queue # <<>>
    /\ memory' = After(memory, Head(queue))
    /\ queue' = Tail(queue)
    /\ UNCHANGED <<tensor, storage, waiting, promised, ops>>

-----------------------------------------------------------------------------
(* Allocation: the first block that no Storage and no temporary uses, so    *)
(* that what is given back is given out again as soon as possible.         *)

InUse == {storage[s] : s \in DOMAIN storage}

\* The first block of a device that is free, if there is one.
Allocated(device, taken) ==
    LET free == {i \in 1 .. Blocks : <<device, i>> \notin InUse \cup taken}
    IN  {<<device, i>> : i \in {j \in free : \A l \in free : j <= l}}

NewStorage == CHOOSE s \in 1 .. Cardinality(Handles) + 1 : s \notin DOMAIN storage

\* Mistake: each TensorImpl gives the block back, whoever else refers to it.
WithoutAny(h) ==
    LET s == IF h \in Live THEN tensor[h].storage ELSE 0 IN DOMAIN storage \ {s}

\* The storages that are left when h holds something else: a Storage and its
\* block are given back with the last TensorImpl that refers to it.
Without(h) ==
    LET s == IF h \in Live THEN tensor[h].storage ELSE 0
    IN  IF SharedBy(s) \subseteq {h} THEN DOMAIN storage \ {s} ELSE DOMAIN storage

\* Elements of the host are copied to a temporary and converted from there;
\* those of the device are converted to a temporary and copied from there.
vecCopyHostToDevice(data, dst, tmp, n, type) ==
    <<Upload(data, tmp, n), CopyKernel(tmp, dst, n, type)>>

copy_cuda(src, dst, tmp, n, type) ==
    <<CopyKernel(src, tmp, n, type), Memcpy(tmp, dst, n)>>

Op ==
    /\ ~ waiting
    /\ ops < MaxOps
    /\ ops' = ops + 1

Restricted(f, S) == [x \in S |-> f[x]]
Extended(f, S, x, value) == [y \in S \cup {x} |-> IF y = x THEN value ELSE f[y]]

\* h is made a tensor of its own on block m.
Holds(h, m, n, type, values) ==
    /\ tensor' = [tensor EXCEPT ![h] = [storage |-> NewStorage, n |-> n, type |-> type]]
    /\ storage' = Extended(storage, Without(h), NewStorage, m)
    /\ promised' = Extended(promised, Without(h), NewStorage, values)

\* What a new block may hold is not part of what is promised.
Fresh(values, n) == Copied(values, [i \in Element |-> Junk], n, "double")

Initial == [i \in Element |-> 2 * i + 3]

\* TensorImpl(data, ...): elements of the host, converted on the device.
Make(h, device, n, type) ==
    /\ Op
    /\ \E m \in Allocated(device, {}) :
         /\ Holds(h, m, n, type, Fresh([i \in Element |-> Cast(Initial[i], type)], n))
         /\ IF device = "CPU"
            THEN /\ memory' = [memory EXCEPT ![m] = Copied(Initial, @, n, type)]
                 /\ UNCHANGED queue
            ELSE \E tmp \in Allocated(device, {m}) :
                 /\ queue' = queue \o vecCopyHostToDevice(Initial, m, tmp, n, type)
                 /\ UNCHANGED memory
    /\ UNCHANGED waiting

\* full_like: a tensor like g, filled.
FullLike(h, g, v) ==
    /\ Op
    /\ g \in Live
    /\ LET n == tensor[g].n
           value == Cast(v, tensor[g].type)
       IN  \E m \in Allocated(DeviceOf(g), {}) :
             /\ Holds(h, m, n, tensor[g].type, Fresh([i \in Element |-> value], n))
             /\ IF m[1] = "CPU"
                THEN memory' = [memory EXCEPT ![m] = Filled(@, n, value)] /\ UNCHANGED queue
                ELSE queue' = Append(queue, FillKernel(m, n, value)) /\ UNCHANGED memory
    /\ UNCHANGED waiting

\* reshape, squeeze, expand_dims: another TensorImpl on the same Storage.
View(h, g) ==
    /\ Op
    /\ g \in Live /\ h # g
    /\ tensor' = [tensor EXCEPT ![h] = tensor[g]]
    /\ storage' = Restricted(storage, Without(h))
    /\ promised' = Restricted(promised, Without(h))
    /\ UNCHANGED <<memory, queue, waiting>>

Drop(h) ==
    /\ Op
    /\ h \in Live
    /\ tensor' = [tensor EXCEPT ![h] = None]
    /\ storage' = Restricted(storage, Without(h))
    /\ promised' = Restricted(promised, Without(h))
    /\ UNCHANGED <<memory, queue, waiting>>

-----------------------------------------------------------------------------
(* In-place operations.                                                    *)

\* TensorImpl::fill
Fill(h, v) ==
    /\ Op
    /\ h \in Live
    /\ LET c == FillKernel(MemoryOf(h), tensor[h].n, Cast(v, tensor[h].type))
       IN  IF DeviceOf(h) = "CPU"
           THEN memory' = [memory EXCEPT ![c.dst] = Filled(@, c.n, c.v)] /\ UNCHANGED queue
           ELSE queue' = Append(queue, c) /\ UNCHANGED memory
    /\ promised' = [promised EXCEPT ![tensor[h].storage] =
                       Filled(@, tensor[h].n, Cast(v, tensor[h].type))]
    /\ UNCHANGED <<tensor, storage, waiting>>

\* ops::add_inplace throws unless devices, shapes and types agree.
AddInplace(h, g) ==
    /\ Op
    /\ {h, g} \subseteq Live
    /\ DeviceOf(h) = DeviceOf(g)
    /\ tensor[h].n = tensor[g].n /\ tensor[h].type = tensor[g].type
    /\ LET c == AddKernel(MemoryOf(g), MemoryOf(h), tensor[h].n)
       IN  IF DeviceOf(h) = "CPU"
           THEN memory' = [memory EXCEPT ![c.dst] = Added(memory[c.src], @, c.n)] /\ UNCHANGED queue
           ELSE queue' = Append(queue, c) /\ UNCHANGED memory
    /\ promised' = [promised EXCEPT ![tensor[h].storage] =
                       Added(promised[tensor[g].storage], @, tensor[h].n)]
    /\ UNCHANGED <<tensor, storage, waiting>>

-----------------------------------------------------------------------------
(* Copies: copy_stub of the device the elements come from.  It takes as    *)
(* many as the source has: a larger source than destination is the         *)
(* caller's mistake (the TODO at TensorImpl::copy), a smaller one writes   *)
(* the first elements.                                                     *)

\* Mistake: the host goes on, as after a copy to pinned memory.
NoHostWaits(dst) == FALSE

\* cudaMemcpyAsync to pageable memory of the host returns when it is done.
HostWaits(dst) == dst[1] = "CPU"

copy_stub(src, dst, n, type) ==
    IF src[1] = "CPU" /\ dst[1] = "CPU"
    THEN /\ memory' = [memory EXCEPT ![dst] = Copied(memory[src], @, n, type)]
         /\ UNCHANGED <<queue, waiting>>
    ELSE \E tmp \in Allocated("CUDA", {dst}) :
         /\ queue' = queue \o IF src[1] = "CPU"
                               THEN vecCopyHostToDevice(memory[src], dst, tmp, n, type)
                               ELSE copy_cuda(src, dst, tmp, n, type)
         /\ waiting' = HostWaits(dst)
         /\ UNCHANGED memory

\* TensorImpl::copy
CopyFrom(h, g) ==
    /\ Op
    /\ {h, g} \subseteq Live
    /\ tensor[g].n <= tensor[h].n
    /\ copy_stub(MemoryOf(g), MemoryOf(h), tensor[g].n, tensor[h].type)
    /\ promised' = [promised EXCEPT ![tensor[h].storage] =
                       Copied(promised[tensor[g].storage], @, tensor[g].n, tensor[h].type)]
    /\ UNCHANGED <<tensor, storage>>

\* ops::to: a new tensor on the other device.
To(h, g, device) ==
    /\ Op
    /\ g \in Live /\ DeviceOf(g) # device
    /\ \E m \in Allocated(device, {}) :
         /\ Holds(h, m, tensor[g].n, tensor[g].type,
                  Fresh(promised[tensor[g].storage], tensor[g].n))
         /\ copy_stub(MemoryOf(g), m, tensor[g].n, tensor[g].type)

\* The device has done the copy, and all it was asked before.
WaitEnds ==
    /\ waiting /\ queue = <<>>
    /\ waiting' = FALSE
    /\ UNCHANGED <<tensor, storage, memory, queue, promised, ops>>

Ended == ops = MaxOps /\ ~ waiting /\ queue = <<>>
Rest == Ended /\ UNCHANGED vars

Init ==
    /\ tensor = [h \in Handles |-> None]
    /\ storage = [s \in {} |-> 0]
    /\ promised = [s \in {} |-> 0]
    /\ memory = [m \in Block |-> [i \in Element |-> Junk]]
    /\ queue = <<>> /\ waiting = FALSE /\ ops = 0

HostStep ==
    \E h \in Handles :
        \/ \E device \in DeviceType, n \in Sizes, type \in DataType : Make(h, device, n, type)
        \/ Drop(h)
        \/ Fill(h, 9)
        \/ \E g \in Handles :
              \/ FullLike(h, g, 7)
              \/ View(h, g)
              \/ AddInplace(h, g)
              \/ CopyFrom(h, g)
              \/ \E device \in DeviceType : To(h, g, device)

Next == HostStep \/ Execute \/ WaitEnds \/ Rest

Spec == Init /\ [][Next]_vars

-----------------------------------------------------------------------------

\* The state is of its types: every tensor has a storage, every storage a
\* tensor, and no two storages share a block.
TypeOK ==
    /\ DOMAIN storage = {tensor[h].storage : h \in Live}
    /\ DOMAIN promised = DOMAIN storage
    /\ \A r, s \in DOMAIN storage : storage[r] = storage[s] => r = s
    /\ \A h \in Live : tensor[h].n \in Sizes /\ tensor[h].type \in DataType
    /\ \A m \in Block, i \in Element : memory[m][i] \in Int
    /\ waiting \in BOOLEAN /\ ops \in 0 .. MaxOps

\* Once the device has done what it has been asked, every tensor holds what
\* the operations done one at a time would have left in it, converted,
\* extended and shared between views -- although blocks are given back and out
\* again while kernels on them are queued.
QueueDelivers ==
    LET final == AfterAll(memory, queue)
    IN  \A h \in Live, i \in Element :
            i < tensor[h].n =>
                final[MemoryOf(h)][i] = promised[tensor[h].storage][i]

\* Whenever the host goes on, the memory of its own that it can read -- with
\* data(), index, to_vector or print -- is what the operations before in the
\* program have left, although the device may be behind.
HostReadsAsCalled ==
    ~ waiting =>
        \A h \in Live, i \in Element :
            DeviceOf(h) = "CPU" /\ i < tensor[h].n =>
                memory[MemoryOf(h)][i] = promised[tensor[h].storage][i]
=============================================================================
