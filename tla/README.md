# A TLA+ development of Rushlite

Rushlite (its C++ core is `lamp3`, `csrc/`) is a tensor library with reverse-mode
automatic differentiation, kernels for CPU and CUDA, a memory pool for device
memory, and a lazy mode that captures elementwise operations and compiles them
into fused CUDA kernels. This directory specifies the parts whose correctness
depends on order, on sharing and on what was left behind by earlier calls. TLC
checks every specification on small instances; TLAPS proves, for all values of
the constants, the invariants of the memory arena and that it is a pool, of the
allocator above it, of deferred tensors and their realization, of the kernel
cache, of the memory of tensors behind a queue, and of the tiled matrix kernels, and
that a backward pass is exact on every graph.

| Module | What it is |
|---|---|
| `BlockPool` | abstract: what a pool of device memory promises |
| `BlockArena` | `allocator_core.hpp`: linked blocks, size index, address index; implements `BlockPool` |
| `BlockArenaProofs` | the inductive invariant of `BlockArena`, and that it implements `BlockPool`, proved |
| `CudaAllocator` | `allocator.cu` with its threads, the driver and the device; uses `BlockPool` as its arena |
| `CudaAllocatorProofs` | the inductive invariants of `CudaAllocator`, proved |
| `LazyGraph` | capture, fusion and realization of deferred tensors |
| `LazyGraphProofs` | the inductive invariant of `LazyGraph`, proved |
| `Autograd` | recording, `zero_grad` and `backward` |
| `AutogradProofs` | the invariant of `Autograd`, the order of a pass and its exactness, proved |
| `Derivatives` | what the operations on Variables compute and what their backward functions add; uses the order of `Autograd` |
| `TensorAlgebra` | abstract: what the tensor operations compute, by coordinates |
| `StridedTensor` | strides, broadcasting, reductions, matrix kernels and views by flat element numbers; implements `TensorAlgebra` |
| `TiledMatmul` | the CUDA matrix kernels, thread by thread between their barriers |
| `TiledMatmulProofs` | the inductive invariant of `TiledMatmul`, proved |
| `TensorMemory` | storages, views, in-place operations and copies while the device is behind |
| `TensorMemoryProofs` | the inductive invariant of `TensorMemory`, proved |
| `MemoTable` | abstract: what a cache of kernels promises its callers |
| `KernelCache` | `get_or_compile` by several threads, with failures; implements `MemoTable` |
| `KernelCacheProofs` | the invariants of `KernelCache` and the refinement, proved |
| `ParamTree` | `Module.py`: attributes, parameters by path, the training loop |
| `Induction` | induction over the natural numbers, used by the proofs |
| `MC*` | the instances for TLC |

## Inventory

**The arena** (`csrc/src/tensor/cuda/allocator_core.hpp`). State: segments of
device memory, each a doubly linked chain of blocks in address order; a multimap
of the free blocks by size; a map of the allocated blocks by address. Operations:
`add_segment`, `allocate` (best fit, split), `deallocate` (merge with both
neighbours), `extract_fully_free_segments`. Hard: three views of one truth are
updated one after the other, and an error shows calls later. Correct when no byte is
lost or handed out twice, free neighbours are always merged, both indexes are
exact, and a request is refused only when no free run is long enough.

**The allocator of a device** (`allocator.cu`, used by `memory.cu` and by the
deleter of every CUDA `DataPtr`). State: a mutex and an arena per device.
Operations: `allocate`, `deallocate`, growth with `cudaMalloc`, and on
`cudaErrorMemoryAllocation` a device synchronization and the release of the
segments nobody uses. It is called by all host threads and shares memory with the
device, where kernels are queued and execute later. Hard: the memory of a freed
tensor is handed out again while its last kernels are still queued; segments are
unmapped while other threads launch; a blocking call is made under the mutex.
Correct when a thread reads back what it wrote, nothing queued touches unmapped
memory, growth is neither duplicated nor useless, and out of memory means that all
segments are in use.

**TensorImpl, Storage and views** (`tensor_impl.cpp`, `storage.cpp`,
`native/shape_ops.cpp`). State: storage, shape, strides, type and the pending
operation `lazy_`. `reshape`, `squeeze`, `expand_dims` copy the impl and share the
storage; `data()` realizes; `copy`, `fill` and `print` do not. Hard: aliasing, and
methods that forget that a tensor may be deferred.

**Lazy capture** (`tensor/lazy`). State: a thread-local mode, and the pending
operations of the tensors with their operands. `record` defers; `realize` asks the
backend of the device. The mode is set by guards (`CaptureGuard`, `capture_mode.py`).

**The NVRTC inductor** (`inductor/nvrtc`). `build_fused_graph` walks the pending
operations of one shape below a root, realizing every other operand on the way;
`codegen_kernel` writes one statement per operation; `KernelCache` compiles under
a lock; the kernel is launched and the root gets its storage. Hard: realization is
recursive and changes the graph that is being walked; a compilation may throw
halfway. Correct when a realized tensor has the value eager execution gives it, a
kernel stays within its inputs, and realization can be retried.

**Autograd** (`csrc/src/autograd`). State: of every `Variable` its data, gradient,
`requires_grad` and the function that made it, with its saved operands; a
thread-local mode. `ForwardFunction::apply` records; `backward` sorts the graph
and lets each function add to the gradients of its operands; `zero_grad` clears a
gradient and cuts the graph. Hard: shared operands, repeated passes, mixed types
that throw and comparisons that crash in the middle of a pass. Correct when a pass adds exactly the
derivative, everywhere, when how it ends follows from the graph, and the derivative is the one of the operation, of the data the
graph was built from or of nothing.

**Shapes, broadcasting, offsets** (`infer_meta.cpp`, `utils/align_utils.cpp`,
`cpu/offset_util.cpp`, `autograd/utils/grad_utils.cpp`). Pure functions. Hard:
extents of 0 and 1, missing dimensions, `int` arithmetic. Correct when every operation
does to coordinates what broadcasting, reduction and views mean, and the gradient of a
broadcast operand gathers what was repeated from it.

**Kernels** (`cpu/`, `cuda/`). Loops over element numbers. Hard: reductions on CUDA are
shared by the lanes of a warp, in one of four kernels picked by axis and extent; the
threads of the tiled matrix product share memory and meet at barriers; element-wise kernels
go round a grid of limited size by packets. Fills, copies and in-place additions
(`memory.cu`) return before the device has done them and give their temporaries back.

**Modules and parameters** (`nets/Module.py`). State: of every module `_params_dict` and
`__dict__`. Operations: assignment and deletion of attributes, `parameters`,
`named_parameters`, `zero_grad` and the mapping `params`. Hard: attributes live in two places,
modules and Variables may be shared, and the training loop assigns to what its generator walks.
Correct when a path leads to the Variable it was yielded with and each is updated once.

**Others.** The dispatch tables, filled by static initializers; the
Python bindings, which hold the interpreter lock; the C++ `nets`; the guards of the
thread-local modes; benchmarks and examples.

Interactions: bindings → autograd → tensor operations → (capture: `record`) or
(eager: kernels) → storage → allocator → driver; `data()` → `realize` → inductor →
kernels and storage. `PROJECT.json` lists the hazards of each at its line.

## How the modules correspond to the code

### BlockPool and BlockArena

A `Block*` is a member of the constant `Block`, its fields are functions from
`Block`, and `nodes` is the set of live ones. `make_block` picks a dead cell;
`destroy_block` restores the defaults of the fields, so that a dangling pointer is
a pointer outside `nodes`, which `TypeOK` excludes. `free_index_` is a set of pairs
of a block and the size it was inserted under, so it can go stale as in the code;
`indexed` and `free_position` are both read off it. Insertion order among blocks of
one size, which the multimap breaks ties by, is not kept: `BestFit` has all of them.
`allocate` is four actions, one per way it returns: `AllocateNothing`,
`AllocateNullopt`, `TakeWhole`, `Split`. `deallocate` is `DeallocateNothing` and
`Deallocate`, whose four combinations of free neighbours are computed by case in
its `LET`. `AddSegment` takes memory from anywhere that is not in use, as
`cudaMalloc` does. The bytes are counted in units; `Alignment` is any positive
number (a power of two in the code).

`BlockPool` keeps only the segments, the live allocations and the answer of the last
call. `Pool` in `BlockArena` is the refinement mapping: a live allocation is an entry of
`allocated_` with the size of its block.

### CudaAllocator

The arena is `BlockPool` (an `INSTANCE`), so that placement is any that the pool
allows, which includes best fit. `pc` is where a thread is in `allocate` or
`deallocate`; the steps between two accesses to the driver or the device are one
action, since the mutex is held. `mapped` is the driver's view of memory,
`stream` the commands queued on the device, `contents` who wrote an address last.
The stream of every command is the legacy stream, as `CMakeLists.txt` sets it;
`Runnable` says which commands may start. A device-to-host copy blocks the thread
because its destination is pageable. The temporaries that `copy_cuda` allocates
are left out, and so are several devices: each has its own mutex, arena and queue. Errors
of CUDA other than out of memory end the process (`CudaError`, and `GetDeviceFails` before the mutex is taken), `cudaMalloc` may fail at
any time (other processes use the device), and a second failure ends it too.

### LazyGraph

`impl` holds the impls in the order of creation, `store` the storages made so far, `kernel` the last fused
kernel. The value of a tensor is the expression it stands for, and `meaning` is what eager execution would have
given it. The calls of `realize` in progress are `stack`, one frame each, so that an operand realized on the way
is a call on top of the one that waits for it, and is seen as realized by what comes after. A frame names what is realized
(`root`), what its kernel reads, and what it is still to do (`todo`); in a `fused` frame this is what is left of the
recursion of `visit` (`VisitSeen`, `VisitOperation`, `VisitInput`, then `Emit` for `order.push_back`), and `seen`,
`inputs` and `order` are the `FusedGraph`. So `order` may hold an operation that is realized meanwhile; generating its statement is
`DereferenceNull`. The other frames are an operation run by `run_eager`, an eager
call and `data()`. Any kernel may fail to compile (`CompileFails`), which drops the stack and leaves what was
realized before. Shapes are three, enough to tell apart broadcasting operands,
a view of another rank and operands of one shape. `View` copies the impl, pending operation included.
`copy` and `fill` in place, the data types, tensors without elements and a second C++
thread are left out.

### Autograd and Derivatives

A `Variable` is its number in the order of creation. Local derivatives are all one, so
that a gradient counts paths; shapes, local derivatives and in-place changes of saved
data are left out. `Dfs` is one call of `dfs` with `visited` and `topo`
passed along, and `TopologicalSort` closes the recursion by a recursive function of the Variable; `ApplyBackward`
stands for the `apply` of all backward functions, which differ only in the derivative, and takes the gradients and the
outcome so far (`Pass`) to those after it. A type difference makes `add_inplace` throw, which ends
`backward` with the gradients added so far; a comparison has a null gradient, whose
use ends the process. The result of a comparison has the upcast type of its operands,
as the kernels give it. The properties know neither `dfs` nor `apply`: `Paths` counts the paths of the graph, and
`OutcomeOfGraph` tells the three ends of a pass by what is below its root.

`Derivatives` computes. Its tensors are matrices and its numbers the integers modulo 7, a field, with
logarithms to the base 3 and eight points on a circle, so that quotients, powers and the identities of
the functions are exact and a wrong formula gives a wrong number; infinity and what is not a number are `NaN`.
The functors and the backward functions have the names of the code, and read the data of saved operands when
`backward` runs; `Write` (`copy`, `fill`) changes it for all that share the storage. Only the order of the pass is
taken from `Autograd`. `DerivativeExact` compares with `Derivative`, which goes from operands to results by
the rules of differentiation and shares no formula with the backward functions. It is about passes in which
what a derivative reads was not overwritten (`Fresh`; for a linear operation anything may be) and is defined
(`Regular`): not a tie of `max` or `min`, where every tied element gets the gradient; not the corners of `abs` and
`clamp` or `sqrt` at 0; not a factor 0 of `prod`, whose backward divides by it; not a power of 0, whose
logarithm is taken. Outside of these the code's result is one convention among several, or `NaN`.

### TensorAlgebra and StridedTensor

A tensor is a `TensorImpl` whose values are there: its elements by number, shape, strides
and `numel`. A program makes two tensors `a` and `b` and replaces `a` by the result of one operation
after another, each with the checks the code makes before it; what throws makes no
tensor and is no step. The operators have the names of the functions they translate; `get`
divides by the strides of the output as both `CPUOffsetUtil` and `CUDAOffsetUtil` do.
`SumCpu` and `SumCuda` differ in how a row is summed: `WarpSum` gives the columns to the lanes
and adds up by `__shfl_down_sync`, `VectorSum` keeps one sum for each place of a `float4`,
and `sum_cuda_element` picks as `reduct_dispatch_handler` does, vectors for `float` only (`is_float`). `RowsStored` are the results
that the threads and warps of a limited grid reach. Subtraction, which does not commute,
stands for the binary functors and addition for the reductions. Storage is always
aligned for vectors, as the allocators give it. The element-wise kernels of CUDA are there with their
grids (`StoredByPackets`): which elements each thread stores, going round by packets and then by the
elements that fill none.

`TensorAlgebra` knows arrays as functions of coordinates. The refinement mapping reads a tensor by
`TensorImpl::index`. A reshape there keeps the order of coordinates, a gradient of
broadcasting sums over all coordinates that a coordinate was repeated to. It has the sum over an
axis of extent 0, for which `infer_reduct` divides by zero. Squeezing the shape `<<1>>` leaves a tensor without
axes with one element; operations that give their result the same shape refuse it, since the
constructor counts no element for it (`Fits`).

### TiledMatmul

A block that runs is a record of its two shared tiles and, for each thread, where it is, the slide, the row and the
sums it keeps. Threads interleave at the barriers and at every row of the tiles they read; loads before a
barrier are one step. Matrices are flat, so that an index past a row is an element of the next. `Resident` blocks run at a
time; a launch of the plain or the transposing kernel has no barriers and each thread is one step.

### TensorMemory

A variable of the program holds a storage, an element count and a type; views share the storage, and the block of memory
goes back when the last of them goes. The host runs one operation after the other; a command for the device holds what it
will do and is executed later, in order. `promised` is what the operations so far leave in each storage, done in turn. Values
are counted in halves, so that the conversion to an integer type loses something. Only `copy` to the host waits.

### MemoTable and KernelCache

`pc` is where a thread is in `get_or_compile`: `std::call_once` for the driver, the key, the mutex, the search, the
compilation, the insertion. `cuInit`, the current context and the compilation may fail; `Throw` is the destruction of the
`lock_guard` on the way out. A kernel is its key and the number of the compilation that made it. `MemoTable` has
a table, a call and an answer, and nothing of this.

### ParamTree

`params[m]` is the insertion-ordered `_params_dict`, `plain[m]` the names in `__dict__`. A path is the sequence of names
between its dots; the data of a Variable is counted in gradient steps. `Walk` is the recursion of
`named_parameters`, with an entry for the exception a module without `super().__init__()` raises. `LoopStep`
is one turn of the training loop of `README.md:120`: the generator is resumed on the tree as the turns before left it. A
Variable no module holds is forgotten. Two bounds are the program's own discipline: modules form a tree without cycles
(with one the generator does not end), and the loop body assigns only to the path it was given.

## Runs

| Run | Instance | Distinct states | Shows |
|---|---|---|---|
| `block_arena` | 10 bytes, unit 2, sizes 0–5, segments of 4 and 6 | 5042 | the inductive invariant and its parts; `BlockArena` implements `BlockPool` |
| `cuda_allocator` | 2 threads, 3 addresses, requests 1 and 2, least segment 1 | 476,324 | safety of sharing, growth and release; the mutex is given back |
| `lazy_graph` | a matrix, a row and up to three tensors made from them | 1,102,271 | fusion is transparent and well formed, what a kernel reads has memory |
| `autograd` | three kinds of start, up to 4 Variables | about 167,000 | backward is exact; it returns, throws or crashes as the graph decides |
| `derivatives` | a matrix and a row, or a column and an untracked row; two operations, one write, backward of the last tracked Variable | 297,322 | backward computes the derivative |
| `strided_tensor` | 14 shapes of up to 3 axes, extents 0–5 and 10, two operations | 7514 | the index arithmetic and the grids implement the algebra of arrays |
| `tiled_matmul` | 6 products and 2 transpositions, blocks of 2×2 threads of 2×2 elements | 53,126 | tiles are stable, the result exact, every launch ends |
| `tensor_memory` | 2 variables, sizes 1 and 5, up to 4 operations | 815,201 | the device delivers what the program was promised |
| `kernel_cache` | 2 threads, 2 sources, 2 contexts, 4 calls | 23,157 | one compilation per key; implements `MemoTable`; calls end |
| `param_tree` | 2 modules, 2 names, 2 attributes with Variables, one pass | 122,780 | paths resolve, the loop steps each parameter once |
| `lazy_anywhere` | as `lazy_graph` | | a violation, below |
| `param_shadow` | as `param_tree` | | a violation, below |

**Why the bounds are enough.** Five blocks are all that the address space of
`block_arena` can be cut into, so no bound cuts a behaviour off: there are adjacent segments,
a block between two free and between two allocated neighbours, requests that fit exactly,
that split, that are rounded up, and that fail beside enough scattered memory. In
`cuda_allocator` the request of two needs a segment above the least size, which the three addresses hold only
when cached segments of one have been released; a request of one splits it; two queued commands are enough for a
kernel of a former owner to precede one of the new owner. With four addresses and requests 1–3 (950,000 states), and with three
threads and requests of 1 and 3 bytes (5.6 million), the safety properties were checked once, with the same result.
Five tensors, two of them given, hold a chain, a diamond, a broadcast and views of pending tensors; the violation
of `lazy_anywhere` needs five. Four Variables hold the diamond
whose order matters, with an operand used twice, and every cut of it by `zero_grad`.
`MaxGrad` bounds the gradients at the time `backward` is called, so that passes can be
repeated with gradients left from earlier ones.

Two operations of `derivatives` compose any two of the operations, with one Variable used twice, an operand that is
broadcast by row and by column and one that is not tracked; the numbers tell every two formulas apart that the
field does, and one `copy` or `fill` may come at any time between.

The shapes of `strided_tensor` have axes that are repeated, missing, dropped and empty, rows that end
inside and beyond a warp (of 4 lanes) and rows read by vectors (of 2), and tensors whose elements a grid of two threads
goes round for, by packets (of 3) and by the elements left, and more rows than the two warps of a reduction make at once; two operations let every
view be an operand, every result be reduced, and every shape be brought to rank 4, above
`LMP_MAX_DIMS`. The elements of the first tensor are powers of two, so that different sums are different numbers.
The extents of `tiled_matmul` fill a tile, pass it by one column, end inside a slide, rule out vectors, and lie at the
limit of the tiled kernel and at 0; with a product that passes it by one row as well (98,070 states) the same was checked once, and the
theorems are for any extents. Five elements of `tensor_memory` are two packets and a tail for two threads; three
blocks on each device let a block be given back and out again while commands on it are queued. Four calls of
`kernel_cache` let a key be asked for again after a failure, a success and by both threads. With two modules of `param_tree` one is held under one
name or two, two attributes can hold one Variable, and a pass leaves a gradient in any of them; with two
passes (361,216 states) the same was checked once, and so was `derivatives` with the backward of every Variable (658,550).

**Fairness** (`FairSpec`). In `cuda_allocator` a thread inside the critical section goes on, the device works its queue
off, and a mutex that is free is taken by some thread that waits for it. Not assumed: that a
particular thread gets the mutex (`std::mutex` is not fair), or that a program makes further calls. In `kernel_cache` a thread that
can run is scheduled (weak fairness, so that a thread may be overtaken; the bounded number of calls ends that). In
`tiled_matmul` the device runs every thread of a resident block and starts the blocks that wait. Everything else is sequential and
ends when its recursion does.

**Deadlock** is checked in every run. A process or a program that has ended stutters.

**Mutations.** Definitions marked *Mistake* are plausible errors in the code next to them (a
remainder that starts at the unaligned size, a missing synchronization, a graph sorted
in preorder). No specification uses them; put in the place of the correct definition, each
makes the property that `PROJECT.json` names for it fail, which shows that the property is
about the code and that its run reaches the case.

## Disagreements between code and documentation

Two are runs that end in a violation.

* `lazy_anywhere` – README: a captured graph "can be realized anywhere". With `x = -a`,
  `y = b + x` (broadcast) and `z = x + y`, realizing `z` takes `x` into the kernel, then
  realizes `y` as its input, which realizes `x`; generating the statement of `x` dereferences
  its pending operation, now null.
* `param_shadow` – `Module.py:10`: parameters are never in `__dict__`, and `self.w` and `parameters()` always see
  the same object. After `self.w = None` and `self.w = Variable(...)` the first is `None`, the second yields the Variable; only the
  opposite order evicts.

The others were read off the code and have no run, since one step shows them.

* `tensor.hpp:38`: the type of the elements defaults to float64. The build sets `DEFAULT_DTYPE` to Float32 (`CMakeLists.txt:47`).
* `using_tensor.dox:181`: comparisons return boolean tensors. The result has the upcast type of the operands (`infer_meta.cpp:22`),
  as that of every binary operation.
* `README.md:74`: printing realizes. `TensorImpl::print` (`tensor_impl.cpp:145`) reads `data_` directly; so do `copy` and `fill`.
* `tensor.hpp:72`: views share the underlying storage. A view of a deferred tensor (`tensor_impl.cpp:87`) is realized into a
  storage of its own.
* `using_autograd.dox:120`: gradients accumulate. Those of interior Variables are kept between passes (`variable.cpp:49`) and
  propagated again.
* `Module.py:75`: a `p.grad` handle is a snapshot. `incr_grad` (`variable.cpp:34`) adds in place.
* `using_autograd.dox:101`: comparisons create no gradient nodes. They do (`expand_ops.cpp:42`), and a backward pass through
  one uses a null tensor.

`ValuesAsEager`, `BackwardExact` and the others are checked in spite of these: a state in which the
process has crashed has no successors but itself, and `BackwardExact` is about passes that find the
interior gradients clear (`ClearBelow`).

## Proofs

`BlockArenaProofs` proves, from the assumptions named in `BlockArena` (the bound on
addresses is a number, the alignment positive, the sizes natural numbers, `Null` not a
block), for every value of the constants:

* `InitIInv`, `NextIInv`, `SpecIInv`: `Spec => []IInv`;
* from it `SpecTypeOK`, `SpecNoByteLost`, `SpecCoalesced` and `SpecIndexesExact`.

None of the properties is inductive alone. That a split loses no byte needs that the block
found is free and indexed under its present size (`IndexesExact`); that a merge is right
needs that the next block begins where this one ends (`Linked`), that segments are
apart (`SegmentsApart`), and that no free neighbour was left before (`Coalesced`, or a
merge would leave one behind); that a new cell has no pointers needs `Fresh`. `IInv` is their
conjunction, and the run `block_arena` checks it before it is proved.

There is one lemma per action (`AddSegmentIInv`, `TakeWholeIInv`, `SplitIInv`,
`DeallocateIInv`, `ExtractIInv`), each with one step per conjunct of `IInv`. `Deallocate`
is first reduced to what it does in the four cases to the chain (`DeallocateShape`: the
blocks that go, the one that grows and the one after it), so that the rest of its proof is one argument and
not four. `AlignUpPositive`, `BestFitFree`, `Intervals` and `DistinctAddresses` are used by
several of them.

`BlockArenaProofs` also proves `NextPool` and `SpecPool`: `Spec` of `BlockArena` implements `BlockPool` under the mapping of `Pool`. This rests on
`IInv`: the allocated blocks are the live allocations (`LiveBlocks`), a free block is a free run of the pool (`BlockIsFreeRun`), and,
since free neighbours are merged, a free run lies in one free block (`FreeRunIsInBlock`), so that a refusal of the
arena is one the pool allows; a segment that is one free block holds no live allocation (`FullyFreeIsUnused`).

`CudaAllocatorProofs` proves, from the assumptions named in `CudaAllocator` (the alignment is positive, the least segment a
multiple of it, the requests are positive, `Null` is no thread), for any threads, requests and address space: `InitIInv`,
`NextIInv`, `SpecIInv`; from it `SpecTypeOK` (with mutual exclusion), `SpecNoUseAfterCudaFree`,
`SpecSegmentsAreMapped`, `SpecOutOfMemoryMeansInUse` and `SpecGrowth`; and `SpecReadsBackOwnData`. The properties rest on each
other. That nothing queued is on memory that `cudaFree` returns needs that after the synchronization only
commands on live allocations are queued (`Drained`), that the threads the device holds up are those whose commands are in the queue
(`Waiters`), and that what is extracted holds no live allocation (`ReleasedApart`, and `MappedOnce` for a segment that overlaps
one); that memory is in use when the process gives up needs that nothing is cached between release and retry
(`NothingCached`), so that the mutex must be held from the miss to the second `cudaMalloc`; that the request fits the segment acquired for
it needs that mappings stay apart (`LiveApart`) and that the size added is the size acquired (`Arguments`). `IInv` is their
conjunction, checked by the run `cuda_allocator` before it is proved.
`ReadsBackOwnData` has a second invariant on top of it, `OrderInv`: all commands are in one stream (`OneStream`), a thread whose copy is
queued submits nothing after it (`CopiesWait`), and of the commands that write an address of a filled allocation the last one,
executed or queued, is its owner's (`LastWriter`).

`KernelCacheProofs` proves, from `CacheAssumption` (no value stands for two things), for any threads, sources, contexts and number of
calls: `InitIInv`, `NextIInv`, `SpecIInv`; from it `SpecTypeOK` (with mutual exclusion) and `SpecCompiledOnce`; and with
`InitMemo` and `NextMemo` that `Spec` implements `MemoTable` (`SpecMemo`). `IInv` adds to these what they rest on: a thread past
the search has found nothing for its key (`Compiling`), so that the insertion never throws and what it returns is
the only kernel of the key; nothing is in the cache before the driver is there, nor for a thread without a
context (`Stocked`, `Keyed`), so that these failures are throws the abstract table allows; and every compilation has a call of
its own (`CallsCover`, a count of the calls under way, with the theorems about finite sets).

`LazyGraphProofs` proves, from `LeavesAssumption` alone, for any tensors to start from and programs of any length: `NextIInv`, `SpecIInv`;
from it `SpecTypeOK`, `SpecValuesAsEager`, `SpecKernelInBounds`, `SpecKernelWellFormed` and
`SpecStoragePermanent`. `IInv` has three parts. `Tensors`: a pending operation is on older tensors (`Graph`), gives what its tensor means when
done to what its operands mean (`Meant`), and has operands of its own size when it is fusible (`Sized`); and
`ValuesAsEager`. `Kernel`: the last kernel is well formed. `Frames`, of every call in progress: the root will
be the last statement of its kernel (`RootLast`); what is still to be done for an operation is about older tensors (`Older`); what was met is an
input, or is in the kernel or will be, once (`Sees`); the operands of an operation come before it
(`Sorted`), except that an operation realized meanwhile has none; all are of one size (`Even`). What a kernel
reads is realized, or is the root of the call the frame waits for (`Awaited`). The roots fall along the stack (`RootsFall`, by induction over
the stack), so that a realization on the way does not reach the tensors below it; and the statements of a kernel
give each operation what it means (`FusedMeans`, by induction over the statements), which is where a fused kernel and
eager execution meet. No step is excluded: the crash of `lazy_anywhere` and a failed compilation keep the invariant too.

`TiledMatmulProofs` proves, from `KernelAssumption` (sizes are positive and a vector divides the part of a thread, as the `static_assert` says), for any
extents, sizes of tiles and numbers of resident blocks: `NextIInv`, `SpecIInv`; from it `SpecTypeOK`, `SpecTilesStable`, `SpecResultExact`
and `SpecNoFault`, the part of `LaunchEnds` that is safety. `IInv` says of each block that runs that its threads are in the same part of the same slide (`InStep`),
which is what the two barriers are for; how far each is (`Counters`); that what a thread has loaded stays until all have
read it (`Loaded`); and that the sums so far are those of the products so far (`Sums`). `Progress` says that every element of the result
is stored or is due to one thread. Sums are recursive functions; what they add up to is by induction (`Induction`).

`TensorMemoryProofs` proves, from `MemoryAssumption`, for programs of any length on any tensors, sizes, blocks, threads and
packets: `NextIInv`, `SpecIInv`; from it `SpecTypeOK`, `SpecQueueDelivers` and `SpecHostReadsAsCalled`. That each storage has a block of its own and views of one
agree (`Names`, `Alike`) makes an operation on one tensor leave the others alone; that elements have the type of their tensor
(`Converted`) makes a second conversion change nothing; that a queued command is on memory of the device unless the host waits
(`DeviceOnly`) lets a write by the host overtake the queue. An element is visited by one thread of a launch, which is a fact
about division; what the queue leaves is by induction over it.

`AutogradProofs` proves, from the assumptions named in `Autograd` (the leaves have types, the bounds are numbers), for any leaves and any
number of Variables, operations and passes: `SortResult`, `NextIInv`, `SpecIInv`; from it `SpecTypeOK` and `SpecOutcomeOfGraph`; and
`SpecBackwardExact`. `IInv` is `TypeOK /\ OutcomeOfGraph`, which is inductive because operands are older than results: every recursion, of the code
and of the properties, goes along that order. The argument has four parts.

* The order. A call of `dfs` on `v` leaves everything below `v` placed, nothing placed twice, and operands before results, provided that the
  calls that wait for it are all on Variables above `v` (`DfsStep`; by induction over the Variables, and over the operands of each). Reversed,
  the order has every reached Variable once and before its operands (`SortResult`, `ReverseTopological`).
* One node. `ApplyGrad`: an operand gets the gradient of the node once for every use (`Uses`), also when it is used twice;
  `ApplyOutcome`: how the node ends is told by its operands; `ApplyUntracked`.
* The pass. When a Variable comes to its turn, all that use it have had theirs (`UsersDone`), so what it got so far (`DoneTerms`) is the whole
  sum over the paths (`DoneNext`, `BackwardGrad`) and what it passes on is final. `ClearBelow` is needed here: a gradient
  left from an earlier pass would be passed on as well. Stopped by an exception, every sum is a part of the whole.
* Sums. A sum over the Variables changes by one term when one node is done (`SumChange`), and a term is at most the sum (`TermLeqSum`).

The exactness is proved of counted paths. That a local derivative is the right one is not part of it: this is `DerivativeExact` of the run
`derivatives`.

`Induction` has what these proofs use in the place of the library's theorems on induction, which take a predicate as a parameter: the predicate
is the set of the numbers it holds for, and induction over it follows from the least element of a set of
natural numbers (`NatLeast`, from `WFMin`). `RankInduction` and `RankRecursion` are the same for sets whose elements have a rank: a function defined
by recursion on elements of lower rank exists (`FixedPoint`), as `dfs` and the number of paths are.

Only model-checked: `StridedTensor` with the refinement of `TensorAlgebra`, `Derivatives` and `ParamTree`, which
compute with `RECURSIVE` operators over arrays and trees, or with folds of the community modules that take an operator; the
provers reach neither. `MutexReleased`, `LaunchEnds` and `CallsEnd` are liveness, which is outside their reach.

## Not modelled, and why

* The text of a fused kernel, formatting, and floating-point results: a value is the expression it
  stands for, or a number of a small field.
* Operations in place on deferred tensors, and C++ threads that realize a common graph: undefined behaviour in the code,
  which has no guard against it.
* `resize`, which nothing calls on a CUDA storage.
* Widths of integers: sizes near 2^64 in `align_up`, `int` products of extents.
* The mode guards: a flag saved, set and restored; the models that depend on the modes let them change at any time.
* The C++ `nets`; the forward of the layers, compositions of operations that are modelled; `Sequential`'s list of its layers, which
  assignment to a layer by name does not reach (`container.py:9`).
* Dispatch tables, bindings, benchmarks: tables that are only read, and forwarding.
* Errors CUDA reports later than the call that caused them.
* A driver query of `make_cache_key` that fails with a current context (`nvrtc_backend.cpp:58-70`). Such a call throws
  before the lock and changes nothing, also when its kernel is cached, which `MemoTable` does not allow.

## Plan

Done: (1) `BlockPool`, `BlockArena` and the proof of `IInv`; (2) `CudaAllocator` over
`BlockPool`; (3) `LazyGraph`; (4) `Autograd`; (5) `TensorAlgebra`, `StridedTensor`; (6) `TiledMatmul`; (7) `TensorMemory`;
(8) `MemoTable`, `KernelCache` and their proofs; (9) `Derivatives`; (10) `ParamTree`; (11) `CudaAllocatorProofs`;
(12) the refinement of `BlockPool` in `BlockArenaProofs`, `TiledMatmulProofs`, `TensorMemoryProofs`; (13) `LazyGraph` with the recursion as a
stack, and `LazyGraphProofs`; (14) `Autograd` with recursive functions, and `AutogradProofs`.

Theorems to come, where the recursion is first turned into recursive functions as in `Autograd`: that the named parameters of a
module resolve (`ParamTree`), and row-major strides of views (`StridedTensor`).
