# A verification project for opbase

`opbase` is the runtime beneath the neural-network operator libraries of CANN.
An application calls an operator in two phases: phase one
(`aclnnXxxGetWorkspaceSize`) builds an `aclOpExecutor` and says how much
workspace the operator needs, phase two (`aclnnXxx`) launches it on a stream.
In a typical application phase ones run on a main thread, and phase twos, in the
same order, on a runner thread.

All of `src/nnopbase` serves these two calls. `aicpu_common` is the library
that AI CPU kernels are linked with on the device, and `op_common` with
`pkg_inc/op_common/atvoss` holds the tiling and shape-inference algorithms and
the device templates that operator authors use.

## The system's parts

| Part | State it keeps | Operations | What makes it correct |
|---|---|---|---|
| Executor handles (`op_executor.cpp`, `acl_op_api.cpp`) | executor, its graph, its huge memory index, repeatable or not | phase one, phase two, `SetRepeatable`, `Destroy` | a handle is deleted once, its memory returns |
| Execution cache (`op_cache.cpp`) | recordings by hash (`cache_`) and by key (`cache2_`, LRU), use count | lookup, filing, eviction, invalidation, clearing | nobody runs a deleted or unfinished recording |
| Garbage collector (`op_cache.cpp`, `lock_free_queue.h`) | one ring per thread that deletes | enqueue, dequeue, delete | race-free, nothing lost |
| Block pool (`block_pool.h`, `block_store.h`) | free lists under a spinlock, a cache per thread | alloc, free, batch refill | no block twice, none lost |
| Huge memory (`huge_mem.cpp`) | pools of large blocks, indices of free pools | `GetAddr`, `FreeHugeMem` | objects apart, index with one user |
| Kernel graph and allocators (`bridge_graph.cpp`, `kernel_graph.cpp`, `memory_allocator.cpp`) | kernels, tensors, buckets, offsets | build, lifetimes, allocate | no kernel overwrites what is still read |
| AI Core kernels (`op_kernel*`, `kernel_mgr.cpp`, `kernel_launcher.h`) | binaries initialised once, static kernels, tiling registers per thread, second streams | select, reselect, tile, launch | usable and fresh binary, own tiling, halves of a split launch as one |
| AI CPU tasks (`aicpu/task_handler`) | bounded lists of tasks, launch arguments kept between launches | find, create, launch | one launcher per task, own shapes |
| AI CPU library (`aicpu_common`) | session and kernel caches of contexts | run, run a block, notify | a kernel computes on its own launch's tensors |
| Single operators (`individual_op`) | executor spaces, argument pool, binary table | match, replace, run | a cached argument block matches its call |
| Tiling and shape algorithms (`op_common`) | none | broadcast, reduce, elementwise | every output element once, from the right inputs |
| Device templates (`atvoss`) | local buffers of a core | plan buffers, walk tiles | a node reads what its arguments made |
| Half precision (`fp16.cpp`, `fp16_t.cpp`, `bfloat16.h`) | none | arithmetic, conversions | correctly rounded |
| Dump, profiling, records, logs | files, switches | report | only the switch matters here |

How they interact: phase one calls the cache and, on a miss, builds an
executor in memory of a huge memory pool (its index travels from thread-local
storage to the executor) or of the block pool. Kernels add nodes to the graph,
the allocators plan the workspace, and the executor's recording is filed in the
cache. Phase two replays a recording, or selects, tiles and launches the
kernels and finishes one; deleting the executor gives the index and the blocks
back. Recordings that are evicted go through a list in the recording that
replaced them, then through a lock-free ring to a collector thread. An AI CPU
launch reaches the device library through its launch arguments only: a kernel
id, addresses, and tagged records with shapes.

The hard behaviours are therefore: phase one of one call against phase two of
another; frees by another thread than the allocator; eviction of what a pending
call will run; hand-over of indices; registers and contexts that everything a
thread tiles shares; reselection of binaries under running calls; contexts that
several launches share on the device; the order in which tensors are placed;
rounding, boundaries and reuse in the tiling. `PROJECT.json` lists each as a
hazard at its line.

## Modules

| Module | Models | Run |
|---|---|---|
| `LockFreeQueue` | the ring, one step per access to shared state | `queue` |
| `BoundedFifo` | the abstract queue the ring implements | (refinement in `queue`) |
| `BlockPool` | one size class of pool, store and caches | `block_pool` |
| `StoreIndex` | choice of the size class | (proved only) |
| `BlockPoolProofs` | proofs about both | TLAPS |
| `HugeMemPool` | pools of large blocks | (in `executor_memory`) |
| `ExecutorLifecycle` | handles, threads and pool indices | `executor_lifecycle_doc` |
| `ExecutorMemory`, `MCExecutorMemory` | both composed | `executor_memory` |
| `ExecutorMemoryProofs` | proofs about the three | TLAPS |
| `OpExecCache` | the execution cache | `exec_cache` |
| `OpExecCacheProofs` | proofs about the cache, and about the ring | TLAPS |
| `WorkspacePlan`, `MCWorkspacePlan` | graph and allocators | `workspace_plan`, `workspace_plan_inplace` |
| `WorkspacePlanProofs` | proofs about the plan | TLAPS |
| `ArgsPool`, `MCArgsPool` | launch arguments of single operators | `args_pool_fix` |
| `ArgsPoolCallers`, `MCArgsPoolCallers` | the same with the two kinds of callers | `args_pool` |
| `ArgsPoolProofs` | proofs about the argument pool | TLAPS |
| `BasicFacts` | lemmas on numbers and lists that the proofs share | TLAPS |
| `AicpuExtInfo` | records behind launch arguments: host writes, device reads | (in `aicpu`) |
| `AicpuKernelCache` | AI CPU library: caches and a run | (in `aicpu`) |
| `AicpuTask`, `MCAicpuTask` | AI CPU tasks of the host, composed with the device | `aicpu` |
| `AicpuProofs` | proofs about AI CPU tasks, on the host and on the device | TLAPS |
| `StaticKernels` | selection and reselection of static kernels | (in `kernels`) |
| `KernelLaunch` | one-time initialisation, tiling registers, launches | (in `kernels`) |
| `SplitLaunch` | launches on two streams | (in `kernels`) |
| `Kernels`, `MCKernels` | the three together | `kernels` |
| `KernelProofs` | proofs about the first two, as parts of `Kernels` | TLAPS |
| `DagBuffers` | buffer planning of the device templates and its run | (in `algorithms`) |
| `ShapeInference` | shapes of broadcasts and reductions | (in `algorithms`) |
| `BroadcastTiling`, `BroadcastKernel` | broadcasts: host tiling, and the kernels that follow it | (in `algorithms`) |
| `ReduceTiling`, `ReduceKernel` | reductions: host tiling, and the kernels that follow it | (in `algorithms`) |
| `Fp16`, `EngineFp16`, `BFloat16` | the three half precision types: arithmetic and conversions | (in `algorithms`) |
| `MCAlgorithms` | the algorithms of `op_common` on small inputs | `algorithms` |

An `MC` module adds the symmetry set of its run, values of constants, and where
it puts several independent parts into one run, the choice among them.
Definitions that a comment calls mutants, or that begin with "As X, but", are
variants of the definition below them with a plausible mistake; the properties
have been seen to fail with them.

### LockFreeQueue

`head` and `tail` are the atomics, `buffer` the plain array. An acquire load
may return an older value of an index, as long as it is not older than what the
thread has seen before (`Visible`). `Enqueue` is three steps (test, write,
publish), `Dequeue` likewise. Run: three slots.

- `NoSlotRace`: the plain write and the plain read never meet in one slot.
- `ImplementsFifo`: the ring implements `BoundedFifo`.
- `Drains`: with a polling consumer (the collector loop never stops polling
  while the process runs, hence weak fairness; a store becomes visible to a
  thread that keeps loading, hence strong fairness of a load that sees it) the
  queue is emptied.

### BlockPool and StoreIndex

`free` is the free list of the store, `cache[t]` and `count[t]` the list and
counter of thread `t`. The pop of a block is two steps (load of `freeHead_`,
store of `next_`), so that the spinlock matters. The malloc fallback takes from
`SysBlock`. A thread may exit: its cache is lost, as in the code, which has an
empty destructor. Fairness: a thread inside the lock goes on.

- `Exclusive`: a block has one holder (a caller, a cache, the store, a thread).
- `Conserved`: no block disappears, except with a thread that exits, and a
  block in the store says `NOT_IN_CACHE`.
- `GuardReleased`: who holds the lock releases it.

`StoreIndex` is the choice of the class: the shifts of `GetStoreIndex` against the
table of block sizes. Two theorems say, for every size, that the class is the
smallest that holds the request, and that only other requests go to malloc. The
loop is written out: a request of at most 64 KiB is shifted at most four times.

### HugeMemPool, ExecutorLifecycle, ExecutorMemory

Per pool: the array of blocks (null pointers where none was taken), its
position, and the list that follows it (`Held`, in the order of release);
`offset[b]` is the first word of block `b`. The release of a pool pushes its
blocks one at a time. `ExecutorLifecycle` says where the index of a pool is:
free, in the thread-local context of a thread, in an executor; handles pass
between threads. `ExecutorMemory` joins the two: a phase one allocates in the
pool its thread names, and a deletion empties it, block by block, before the
index is returned. The run has two threads, two handles, two pools and three
blocks of three units, with an array of one slot, so that array, list, fallback
and failed list nodes all occur.

- `ObjectsApart`: objects in use never overlap, and lie in a block that their
  pool has and nobody can take.
- `Conserved`: a block is lost only when the list node cannot be allocated
  (`huge_mem.cpp:154`).
- `ObjectsKept`: what phase one allocated stays until its executor is deleted,
  on whichever thread; no pool has two users. The index of a phase one that
  made no handle is lost, as in the code.
- `ReturnedEmpty`: an index that can be taken has a pool as good as new.
- `HeldIsAlive` (expected violation, `executor_lifecycle_doc`): the
  documentation says a repeatable executor lives until
  `aclDestroyAclOpExecutor`; a phase two without a workspace deletes it
  (`op_executor.cpp:1392`).

### OpExecCache

`obj` are the recordings, `table` is `cache_` (by hash), `lru` is `cache2_` (by
key), `calls` the handles that wait for phase two in order. Phase one may hit,
miss, file, evict; phase two runs, finalizes, releases. Clearing is
`ReinitOpCacheManager`. Three collectors own a queue each.

- `NoDangling`: no pending handle refers to a deleted recording, and only a
  finished one is handed out, unless a clearing went ahead of the uses. There
  are two ways to that, both modelled: the wait of `WaitCacheCompleteUse` ends
  after 60 s (`op_cache.cpp:1295`, `ClearExpires`), and it is skipped when
  `g_enableOpCacheCount` is off (`:1288`, `ClearUncounted`). The flag is cleared by
  `~OpCacheGuard` (`:807`), the destructor of a `static thread_local` of
  `CommonOpExecutorRun` (`op_executor.cpp:1385`): the end of *any* thread that has run
  a phase two switches the waiting off for the whole process and for good
  (`ThreadEnds`), and from then on `aclnnReselectStaticKernel` deletes recordings
  under calls that wait for their phase two. `freed` holds the recordings
  deleted that way; what a phase two does with one is undefined, so its handle
  is followed no further, and `ClearEnds` and `EvictedIsCollected` except a
  runner that has come to one (`Lost`).
- `Accounted`: every recording has one owner, so nothing is deleted twice, and
  `useCount_` is the number of handles it is meant to count.
- `WithinLimit`: neither container exceeds the limit, and a key has one valid
  recording.
- `ClearEnds`, `EvictedIsCollected` under weak fairness of the runner, of the
  collectors, which poll, and of a wait that is over.

Assumptions, all part of how the library is used: phase twos run in the order
of phase ones; no more calls are pending than `2 * MaxPending <= Limit -
ShrinkNum + 3` allows (`LimitAssumption`; with the code's limit of 10000 and
shrink number of 30, `op_cache.h:33`, that is 4986). With more, an eviction can
reach a recording whose phase two is pending: not only the pending recordings
are in front of it in the LRU list, but also the entries that later misses have
activated, and `SetRepeatable` may have taken the call that activated one out of
`calls`. `SetRepeatable` is called once, right
after phase one; a lookup is atomic. Object identities are not reused.

### WorkspacePlan

The graph (`nodes`, `tensors` with their peers), then the two loops of
`MaxAllocator::Allocate`, or the loop of `LinearAllocator`. One output and at
most one scratch tensor per kernel; tensors of the user are left out because
they get no memory here. Four kernels over four tensors are enough for a bucket
of three tensors and for a reuse behind a reuse.

- `InputsKept`: from the kernel that wrote a tensor to the last that reads it,
  no kernel writes to memory that overlaps it.
- `InsideWorkspace`: everything lies in the workspace, and the output of a
  kernel and its scratch memory are apart.
- `BucketsDisjoint`: lifetimes of the tensors of a bucket are disjoint.
- `workspace_plan_inplace` (expected violation of `InputsKept`): with
  `MaxWrites = 2` a kernel may write a tensor in place. Its second kernel
  tensor is skipped (`memory_allocator.cpp:67`), so the bucket does not know
  that the tensor lives on. The comment in `bridge_graph.cpp:119` expects the
  in-place output to get memory of its own.

### ArgsPool

`args[e]` is `executor->args`, an allocated block (`Heap`) or the arguments
embedded in `e`, for which `e` itself stands. `cacheList`, `argsCache`,
`argsMap` and `fixedCacheMap` are the containers of the pool; the eviction loop
of `Put` is given by the place where it stops (`StopAt`). What runs under the
lock is one action; what `CreateArgs` writes after it, and the tiling, is
another, and `NnopbaseExecutorClear` is two. A key is a sequence of parts. In
the newer entry each part is written by a call of its own (`AddPart`), which
looks at the recording switch itself; `NnopbaseMatchArgs` adds the last part
(`SealKey`) or, with the switch on, leaves the cache alone (`BypassCache`). The
switch (`SwitchRecording`) turns between any two of these, so `text`, what was
written, may lack parts of `wanted`, what is asked for. Addresses are reused. An error of
phase one leaves the executor in phase `failed` for ever, as in the code, which
releases nothing; `CHECK_DEADLOCK FALSE` because all executors may end there,
or wait for one of the bounded addresses.

- `HeldAlive`, `Exclusive`: what an executor works with is allocated, pinned,
  and nobody else's.
- `TiledForKey`: a launch uses the tiling of its own key. The one exception is a
  call that takes cached arguments although its own key was cut by the switch
  (`Cut`): it finds what was filed under an equal rest. What such a call files is
  never found by a call with a whole key.
- `Consistent`: the containers agree.
- `KeepsTrack`: with repeatable executors, what is pinned is in use by someone;
  with the recording switch instead, what is allocated can be found. Neither
  holds the other way round: the switch, turned on between `NnopbaseMatchArgs`
  and `NnopbaseRunForWorkspace` after a match with non-contiguous inputs, loses
  a pin and the entry with it, and released arguments of a repeatable executor
  return to `cacheList` only.
- `args_pool_fix` (expected violation of `OnlyMadeArgs`): with caching off, the
  embedded arguments of a repeatable executor enter the LRU list.

Bounds: two executors, four keys of two parts with seeds that collide in pairs,
three addresses and a limit of two give evictions with a pinned oldest entry,
collisions and reuse of addresses; `ArgsPoolCallers` separates processes whose
callers make executors repeatable from those in which the switch is turned, and
`MCArgsPoolCallers` leaves one of the two core numbers and failing tilings out of
the latter. States are compared by what can still be read (`Readable`): the
leftovers of arguments that were freed and of executors at rest are written
before they are read.

Abstracted: every key of an operator has `PartNum` parts, and a text without the
last part, which is never looked up, matches nothing (`KeyAssumption`).

Assumptions: callers run phase two only after a successful phase one and call
`aclSetAclOpExecutorRepeatable` once, before phase two; static kernels are
reloaded when no executor is at work.

### AicpuTask, AicpuKernelCache, AicpuExtInfo

The host keeps tasks by operator type in bounded lists, gives a launcher of an
executor one of them, and writes this call's shapes and addresses into the
task's argument buffer before each launch; the task's kernel id stays. The
device finds the context of that kernel id in the cache of the session or of
the stream (`SessionCache`, `KernelCache`), or builds it, writes the launch's
tensors into it, computes and reports the output shapes. A launch with blocks
runs on several workers at once, each with its own context; an asynchronous
one is over when its event has been notified, and may fail to start or fail
later (`AsyncFails`, `AsyncDone`). Kinds of class three make the
host wait for the stream and read the shapes back. A launch the runtime refuses
is one the host does not notice (`LaunchLost`): it goes on as if it had launched.

- `ComputeOwn`: whoever computes works on a context built from its own node and
  block, with the addresses and shapes of its own launch.
- `NodeDefAlive`: the node definition behind a context in use exists, through
  evictions of sessions and of entries. For a session's cache, which streams
  share, it is promised until the cache is full: then the eviction by one stream
  may drop the entry another is computing on. A kernel that runs on after its run
  has returned is covered when its context is filed in the stream's cache
  (`Parked`): launched with a session record that names no session, in one block.
  For the others the code keeps nothing (see below).
- `CachesBounded`: list and index of a kernel cache agree and exceed the
  capacity by at most one (tested before the insertion); likewise the sessions,
  although an id is listed before its cache is made and stays if that fails.
- `BlocksTile`: the parts of the workspace of a launch's blocks fill it exactly.
- `OutputShapeRead`: the host reads back the shape the kernel gave, although the
  device writes sizes and no end mark over an array the host has closed. This is
  for shapes of the rank the host has announced; the rank is not reported, and
  kernels that give another one are part of the model (`Computed`).
- `TaskExclusive`: two launchers that are still to run never hold one task.

Bounds (`Budgets`): up to three launches of this host on two streams, with two
executors, or fewer mixed with seven launches that other frameworks make and this
host never does (blocks; asynchronous under the stream, in a session and without
a session record; another session, no session record, a broken record), a
capacity of one and a limit of zero sessions so that every cache evicts.
`CHECK_DEADLOCK FALSE` because the launches are bounded.

What other frameworks launch is assumed to keep to the cache's rules, which the
library does not test (`ForeignAssumption`): a kernel id of a session or a stream
names one kernel, with or without blocks, a session launches it on one stream,
and in the session this library writes (0) the ids from `FirstKernelId` on, where
`gKernelId` starts, are the library's.

### StaticKernels, KernelLaunch, SplitLaunch, Kernels

`StaticKernels`: the configuration of static kernels is loaded once and parsed
once per operator type, each under a `ResettableOnceFlag`, which
`aclnnReselectStaticKernel` resets. A step is an access to a flag or to what it
guards; a description may throw, the configuration may not be parsed (the call
goes on) or not be found (it returns), and what is initialised around it may fail
(`InitFails`). Parsing itself returns no error: `ParseStaticKernelConfig` drops
the status of `AppendStaticBin`.

- `SelectedUsable`: the binary a call works with is allocated, and is not older
  than the last reselection, as long as neither that one nor another since has
  met an initialisation (`floor`, `settled` and `clean` record the promise; the
  code has no such variables). After one that did, calls may go on with old
  binaries: `reset` stores over `EXECUTING`.
- `CallsReturn`: no call and no reselection spins for ever on a flag. Fairness:
  weak for every thread, because a waiter is a loop of `yield` in a scheduled
  thread. Throws are bounded, because a description that throws each time could
  starve a poller.

`KernelLaunch`: four things are initialised once for all threads (description,
binary on a device, compile information, function handle). The result of a
tiling stands in registers of the thread, which the operator, the MemSet before
it and the NonFiniteChecks after it, one for each type of its outputs in turn,
share, until it is copied into a launcher
context. Launchers may be repeatable, static, without workspace, with their own.

- `LaunchesOwn`: a launch uses the function of its own binary, device and key,
  and registers all computed for it. The one exception is `localMemorySize` of a
  static binary, which is whatever the thread tiled last.

`SplitLaunch`: a kernel for cube and vector cores is launched in two halves, on
the caller's stream and on a second one, tied by two events, under the mutex of
the stream. A wait is for the record that was the latest when the wait was
issued. Plain launches take no mutex. Only one generation of chips does so.

- `SplitOrdered`: the halves behave like one launch on the caller's stream, in
  which every block runs once, whatever others launch and whichever call fails.

The three parts share no state and are one run: `part` says which a behaviour is
of. `Cast` names the threads, launchers and number of failures of a behaviour,
chosen so that two threads meet in every initialisation, a failure may hit each,
and a thread mixes launchers of every kind. Two versions on disk, one permitted
reselection (which two threads can still start), three split launches by two
threads. Abstracted: keys (identities), the core numbers in keys of the parse
map, file contents; descriptions that can be read are complete.

### DagBuffers

The compile-time planning of local buffers for a list of nodes (counts of
`node.h`, `aux1.h`, `dag.h`, the walk of `buffer.h`), then its run over the
tiles of a core with two halves by turns and inputs that are kept from tile to
tile. All lists of up to five nodes, up to four tiles, three along the split axis.

- `ReadsOwnInput`: a node finds in its arguments' buffers what was made for this
  tile, or kept with the same data. Not covered: below buffer level two, and in
  the schedule that broadcasts in local memory, a kept input may share its
  buffer with a node that ran before it.
- `PlanFits` (in `MemoryFits`): the counts are enough for the walk, and every id lies inside the
  memory counted. Not covered: the one-dimensional schedule sizes its memory with
  `GetBufferNum<true, false>` and takes ids from `<true, true>`.

### ShapeInference, BroadcastTiling, BroadcastKernel

From two shapes to the output of a kernel: inference, merging of axes, choice of
schedule, tiles and blocks, then the loops of the four schedules with their
index arithmetic and copies. The state keeps, for every output element, which
input elements each write to it was made from.

- `OutputRight` (in `KernelsRight`): every element is written once, from the
  right elements.
- `TilesFit` (in `MemoryFits`): tiles fit their buffers, buffers the local
  memory, blocks the cores, indices their axes.
- `InferenceRight`: what inference announces with unknown dimensions, and for
  broadcasts with unknown ranks, covers every outcome of them, and the two forms
  of reduction agree. Of a reduction of unknown rank nothing is said: the code
  takes it for rank one (see below).

Bounds: shapes of rank 0 to 3 and dimensions 0 to 3, one, two and five cores,
six sizes of local memory from too small to all at once; small values for the
alignments, so that every rounding is off a boundary for some shape. Inference
is asked for rank up to 2 and three axes, with dimensions that are known and
unknown, and with an unknown rank, for broadcasts and for reductions.

### ReduceTiling, ReduceKernel

The host merges axes until kept and reduced ones alternate, divides the local
memory into basic and result blocks, chooses what a tile takes of the two kinds
of axes, and spreads tiles over the cores, along the kept axes or, when those
are too few, along the reduced ones, in groups. The kernel loads a tile, fills
what it leaves open with the neutral element, folds it in place, and folds the
partial results of the tiles as a binary counter does, level by level in a cache
buffer. Groups write partial results to the workspace, and after `SyncAll` a
second stage reduces those. A value is the set of input elements it was made
from, or `Junk` when something else came in or an element came in twice.

- `ReductionRight` (in `KernelsRight`): every element of the output is written
  once, from exactly the elements that belong to it. When the local memory has no
  room for the blocks (`RoomForBlocks`), the launch is reported a success all the
  same and runs the kernel for an empty input with a zeroed tiling (`Zeroed`);
  then the property says what the code does: the output stays as it was.
- `ReductionFits` (in `MemoryFits`): tiles, results, the levels of the cache, all
  buffers and the workspace fit what they were given.

Bounds: every shape of up to two axes of 0, 1, 2 and 7 elements and shapes
chosen so that tiles are cut along either kind of axis, into tiles that fill the
last one or not, with one block and with groups; every subset of the axes; one to
four cores; sums, maxima and products. The sizes of blocks, cache lines,
registers and results are 4, 16, 16 and 32 bytes where the devices have 32, 256,
256 and 512: the ratios between neighbours are kept or smaller. The local memory
is chosen so that a basic block has room for the cache lines of a full result
block, as it has on the devices; three more sizes, around the least that is
enough, are too small or just enough for any block.

Excluded, by name: `UnfilledProduct`, products whose short tiles are not filled
(see below).

### Fp16, EngineFp16, BFloat16

The three types of half precision: `fp16_t` of the operator authors, the engine's
own `fp16_t`, and `bfloat16`. The lengths of exponent and mantissa are constants,
so that four and three bits (three and two for `bfloat16`, cut from a type with
five more) can be checked exhaustively against exact rational results.

- `ArithmeticRounds`, `ConversionsRound`: nearest, ties to even; what exceeds the
  largest number of `fp16_t` may become that number or an infinity, and division
  by zero is left out, because there comments and code disagree (see below).
  `bfloat16` to an integer cuts off the fraction (`BfTruncates`). The definitions
  name the other exceptions (an `uint16_t` that becomes an infinity, the most
  negative 32 bit integer that becomes 0, and those of the engine's type listed
  below).

The run `algorithms` explores one of these per behaviour (`mode`). It stops when
the computation does, hence `CHECK_DEADLOCK FALSE`.

## What is proved

TLAPS proves the following for every value of the constants, that is for any
number of threads, blocks, executors, keys or kernels and every limit. The
assumptions on constants are the named `ASSUME`s of the modules; TLC evaluates
them in the runs. Every inductive invariant has first been checked by TLC.

**The ring** (last section of `OpExecCacheProofs`): `RingInvariance`,
`RingTypeCorrect`, `RingRaceFree`, `RingImplementsFifo` from `Size > 0` alone.
The invariant (`RingInv`) orders the four
indices (real and seen) on the ring and says what a thread that has passed its
test knows; without the second part a test on old values would not protect the
later plain access.

**The block pool** (`BlockPoolProofs`): `PoolInvariance`, `BlocksExclusive`,
`BlocksConserved`. `Exclusive` and `Conserved` are inductive together with who is
inside the lock (`Guarded`: only the holder has loaded `freeHead_`, and what it
loaded is still the head, so its store takes away what it pops) and with what a
thread's registers mean in each phase (`Local`). The proof goes through one
predicate: block `b` is at place `k` of user `u` (`In(b, k, u)`); each step
moves one block from one place to another, and being in one place at most, and
in one at least, is preserved by that alone. `SmallestFit` and
`MallocOnlyIfTooLarge` are about the size classes, by the five ranges of the
shifted size.

**Executors and their memory** (`ExecutorMemoryProofs`): `ImplementsLifecycle`
is the refinement: with the pools' variables hidden, `ExecutorMemory` is
`ExecutorLifecycle`, an allocation or the release of one block being a stutter.
`OneUserPerIndex` is proved of the lifecycle: an index is in one place of the
list, a thread, an executor, a release under way (`At(i, k, u)`), or it is
dropped; a thread may hold an old copy of it, but never uses that one (`Copies`).
`MemoryInvariance` adds the pools (`PoolInv`): a block is in one position of one
pool or of the shared array (`Single`), all objects of a block end at or before
its offset (`Below`), array and list are filled in order (`Orderly`). Between
the two, `Released` says whose pools are empty or being emptied, and
`Remembered` that an executor's objects lie in the pool it names. `ObjectsStayApart`,
`HugeBlocksConserved`, `ExecutorObjectsKept` and `IndexReturnedEmpty` follow.

**The execution cache** (`OpExecCacheProofs`): `CacheInvariance`,
`NoDanglingHandles`, `CacheAccounted`, `CacheWithinLimit`. `OneOwner` counts;
the proof uses the relation behind it (`Own(c, k, u)`) and turns it into the
cardinality at the end. What is hard is that an eviction spares recordings
somebody is going to run. `Recent` says it: what is in front of the entry of a
pending recording in the LRU list is pending as well, or was brought there by a
call that came later, so there are fewer than two such entries for each call that
may be pending, and the entry is out of the reach of `ShrinkNum` as long as
`LimitAssumption` holds. The proof showed that the bound assumed before was too
weak: with three pending calls, a limit of 3 and a shrink number of 1 a pending
recording is evicted.

**The workspace** (`WorkspacePlanProofs`): `PlanInvariance`, `PlanTypeCorrect`,
`LifeTimesApart`. `BucketsDisjoint` is not inductive: a tensor is compared with
the last tensor of a bucket only. The strengthening says that tensors are listed
in the order of their kernels (`Sorted`) and that a bucket is filled in the order
of the list (`Filled`); then the last tensor of a bucket starts last, and
disjoint from it means disjoint from all. `MemoryInvariance` adds the graph
(`GraphInv`: the tensors a kernel reads are linked to the ones written, and the
lifetime of what is written reaches to each reader) and the layout (`AllocInv`: a
bucket is as large as its largest tensor, offsets are marked or written, buckets
or tensors are stacked without gaps or overlaps). From it come
`PlanInsideWorkspace` and `InputsStay`: two tensors that overlap are in one
bucket, so their lifetimes are disjoint, and the lifetime of what a kernel reads
contains every kernel between writer and reader. Both assume `MaxWrites = 1`,
every tensor written by one kernel, which is not a convenience: with in-place
kernels `InputsKept` is false (`workspace_plan_inplace`).

**The argument pool** (`ArgsPoolProofs`): `ArgsPoolInvariance`,
`ArgsHeldExclusively`, `ArgsExclusive`, `LaunchesOwnTiling`, for every hash
function, with `MayRepeat` and `MayRecord` as they may be. `HeldAlive` needs
`Exclusive` (only the holder unpins) and `Exclusive` needs `HeldAlive` (what is
new was not allocated); both need to know that what `argsMap` holds is allocated,
which an eviction preserves only because the key, and with it the seed
`EraseArgs` looks under, is written before the pin is taken away (`Mapped`).
`Asked` ties the tiling to the text it was filed under, and `Spelled` the text to
the key: while parts are added the text is the beginning of the key or shorter,
so in the end it is the whole key or, by its length, that of no call at all
(`KeyAssumption`). `LaunchesOwnTiling` has the exception of `TiledForKey`. `CallerInvariance`, `PoolKeepsTrack` and
`PoolConsistent` are about the two kinds of processes of `ArgsPoolCallers`:
`Habits` is what each kind rules out (a process without the switch never misses
with matched arguments in hand; one without repeatable executors fixes nothing),
`Tidy` that list, set, map and fixed map agree and that `FixCache` takes
arguments out of all or none. `PoolConsistent` assumes `MaxCacheNum > 0`: with
caching off, `OnlyMadeArgs` is violated and embedded arguments enter the list.

**AI Core kernels** (`KernelProofs`): `SelectionInvariance`, `SelectionUsable`,
`LaunchInvariance`, `LaunchesUseOwn`, `SplitInvariance`, `SplitLaunchesAsOne`. `SelectedUsable` looks at a thread that
runs; its invariant follows the promise from the reselection to there: what is
registered, what is loaded and what a thread has read for parsing is new enough
(`Fresh`), no call was promised more (`Settled`), while reselection and
initialisation overlap nothing is promised (`Apart`), and a clean reselection
leaves nothing behind in what it has passed (`Cleaned`). The attempt corrected
the property: a promise was once thought to outlive a later reselection that
meets an initialisation; with three threads the reset lets a waiting thread
through, which then parses the old configuration. `LaunchesOwn` needs to know, for each job and step
of a thread, whose tiling its context holds (`ContextOwn`), since when its
registers are set (`RegistersOwn`: those of the operator through the whole MemSet
before it, those of a check for the type it is at), and that its binary is on its device (`BinaryLoaded`). A step of one
thread changes nothing of another and takes no initialisation back
(`ThreadAlone`), so each action is about its thread alone.

`SplitOrdered` is about what has run; its invariant `SplitInv` follows a launch
through the queues to there. The mutex and the table fit the callers
(`CallersFit`); the records of an event in a queue are exactly the numbers issued
and not reached, in order, and each wait is for one that was issued
(`EventsFit`), so no wait is in vain and none passes before its record; what was
issued for a launch is known from where its caller is (`CountsFit`), with the
blocks of that part (`KernelsFit`), which the device runs once (`BlocksFit`).
`OrderFits` says why the order holds: a launch that has returned is `Closed`,
that is, behind the end of the caller's stream there is nothing of it, or a
record behind its second half is awaited there; a record made by a later launch
is behind it too (`Marked`), and the wait for that record closes the second
stream. A caller that takes the mutex finds nobody else at work (`Exclusive`),
so every earlier split launch has returned, or has failed and is not spoken of.
A kernel has those it follows behind it in both queues (`Passed`), hence when the
device takes it nothing of them is left. The proof holds for any number of
threads, streams, cores and launches, and any failures.

**AI CPU tasks** (`AicpuProofs`): `HostInvariance`, `TasksHeldOnce`,
`KernelCacheInvariance`, `CachesStayBounded`, `BlockInvariance`,
`BlocksShareWorkspace`, `ShapesReadBack`, `ContextInvariance`, `ComputesOwn`,
`NodeDefsLive`. On the host, `TaskExclusive` is
inductive with `HeldVisited` (a task somebody holds is marked, so `FindTask` does
not find it) and with what the stage of an executor says of its launchers
(`ListFits`); most steps hold no launcher more, and give back no task but that of
a launcher they drop (`HoldsNoMore`). On the device, `CacheSound` is preserved by
`GetCache` and `SetCache` as operators, whatever the key; the sessions with a
cache are listed, and the bound on the list bounds them, although the list may
name one twice. `BlocksTile` is about contexts that anybody may find in the
cache and write into. It holds since launches have numbers of their own
(`Numbered`), so a block builds a context nobody else names (`NamesDiffer`), and
since a run that has only found a context does not set its workspace
(`OwnContext`, `LeavesOthers`). `ShapesReadBack` needs no assumption on the
array the device writes over: the sizes of the kernel are no end marks, and the
first mark of the array stays behind them; it is for shapes of the announced
rank.

`ComputesOwn` and `NodeDefsLive` rest on `LaunchInv` and `ContextInv`. The first
is about what is *claimed* of a key, that is of a kernel id in the scope of a
cache (a session, a stream, or one worker): by a launch in a queue, by one that
another framework may make, by the next launch of a task and by a context in a
cache. All claims of a key name one node and agree on whether it runs in one
block (`ClaimsFit`); launches under one key are on one stream (`OneStream`),
since a task draws a new id when it changes its stream, unless its kind is of
class three, whose records are copied before the id is drawn: such a launch goes
out under the old id, and is the only one, since the host has waited for the one
before (`TaskStream`). The steps of the host need what the device reads out of
the records the host wrote (`LaunchRead`: six records in a known order). On the
device, nobody reaches a cache of another scope (`ScopesFit`), what is made is
named after the launch and block that made it (`Born`), a context is filed once
(`FiledFits`), and a worker's context is its own (`UserFits`): a context that is
found was claimed for the same node (`FoundOwn`), and whoever else had it would be
a second launch under the key, on the same stream, at the same time (`OneUser`).
`KeeperFits` says what keeps the NodeDef: the share of the run that built it, the
entry of the worker's cache (which only a build under the scope can evict, and in
a stream's cache that is the worker itself; a session's cache may be full), or,
for a parked asynchronous kernel, the entry of the stream's cache, which is never
dropped. The assumptions are `AicpuAssumption` and `ForeignAssumption`, which
says nothing of asynchronous launches.

Type correctness and the inductive invariants are proved and are no runs of their
own. Model-checked only: liveness (`Drains`, `GuardReleased`, `ClearEnds`,
`EvictedIsCollected`, `CallsReturn`), which this prover cannot do; and the
properties of `DagBuffers` and the other algorithms, whose recursive functions
over shapes and lists would need induction over data.

## Seen in the code, without a property

Hazards for which no guarantee can be stated, or outside what is modelled:

- Execution cache: `MarkOpCacheInvalid` deleting a key buffer on the runner thread (`:1115`); the
  depth-first order that skips the peers of an output with a self reference
  (`kernel_graph.cpp:165`), which planning does not use.
- Single operators: `Finalize` without the lock (`indv_args_pool.cpp:160`) and
  the stream-destroy callback without it (`indv_executor_ext.cpp:1107`), whose
  steps are one in the model; the switch turned on at an `NnopbaseAdd*` call and
  off in `NnopbaseMatchArgs` (`individual_op_api.cpp:168`, `:920`) files tilings
  under keys that lack a part, which another call with such a key may take;
  attributes enter the key without their lengths
  (`indv_executor_tensor.cpp:537`), so that the lists [1], [2,3] and [1,2], [3]
  give one key.
- AI CPU: `aclnnAicpuFinalize` empties task spaces without their locks, by a
  comment on purpose (`aicpu_task_base.cpp:30`); an asynchronous kernel without
  a session record, in a session whose cache evicts, or in several blocks may
  outlive the NodeDef its tensors point into (`device_cpu_kernel.cc:87`,
  `cpu_kernel_cache.cc:581`, `:623`); the result of
  `aclrtLaunchKernelWithHostArgs` is ignored (`aicpu_task.cpp:259`), so that a
  class three task reads back the shape of the launch before; the rank of an
  output is not reported (`cpu_kernel_cache.cc:71`), and the host reads a shape
  of another rank wrongly.
- AI Core: look-ups and insertions into maps without a lock
  (`op_kernel.cpp:407`, `:567`); a failed `call_once` is told to the first thread
  only; a repeatable launcher keeps a failed tiling for ever; `OpKernel::Run`
  ignores `JsonLoad`'s failure (`op_kernel.h:1254`), so that a static description
  without `blockDim` leaves `staticBlockDim_` uninitialised; the binary selected
  in phase one and in phase two may differ after a reselection
  (`op_kernel.h:1247`); `aclnnReselectStaticKernel` tests and increments its
  counter in two steps (`acl_op_api.cpp:527`; the model has it).
- Reductions: the product does not fill a tile that is short in its last axis
  and multiplies all of it unless the tile is short as a whole
  (`reduce_operator.h:1391` against `:819`), so stale memory comes in;
  `DoReduceTiling` ignores that `CalcBasicBlock` failed and reports success;
  `ComputeUnitR` may compute a step of zero when a basic block is smaller than
  `MAX_INNER_A` cache lines; with a compute type more than twice as wide as the
  input a cache line of results exceeds `MAX_INNER_A`; the second stage covers the
  output only because `MAX_INNER_A` is at most two registers; `CopyOut` takes the
  output element to be as wide as the input element when it repeats; an axis
  named twice is not removed; the size of a reduction of nothing is the
  conversion of a NaN.
- Reduction of unknown rank: `InferShape4Reduce` has no test for it
  (`infershape_reduce_util.cpp:84`), and takes [-2] for a shape of rank one.
- Half precision: a division by zero gives the largest number where comments say
  "result is inf" (`fp16.cpp:1076`, the engine's `fp16_t.cpp:727`); a float beyond
  the largest number gives that number where comments say it becomes an infinity
  or a NaN (`fp16.cpp:1293`, `:1520`).
- Half precision of the engine: an overflowing sum or product keeps its mantissa
  when its exponent is clamped (`fp16_t.cpp:87`), so that it is a NaN unless it is
  a power of two; the `int8_t` -128 becomes -0 (`:984`), the smallest `int32_t`
  becomes -0.5 (`:1131`); -0 converts to true; `FP16_IS_INF` (`fp16_t.h:200`)
  tests for a NaN.
- Recorded launches: the rule for a workspace tensor keeps the offset in the
  workspace and drops the view offset (`op_cache.cpp:937`), which
  `aclTensor::GetData` adds; the key has neither the type of a scalar nor the
  length of a string, nor the offset of the storage.
- Broadcasts: `DimensionCollapse` merges axes of input [1,1,3] and output [4,1,3]
  that do not belong together; `DoTiling32B` uses an uninitialised `coreNum`
  (`elewise_tiling.cpp:171`); the device rounds to 512 where the host rounds to 8
  (`elewise_sch_with_scalar.h:42`); the check in `SetOpInputStorageShapes` is
  inverted (`broadcast_tiling.h:272`); `DoOneDimFormerTiling` divides by a size
  that may be zero.

## What is not modelled, and the plan

Not modelled and not planned: dump, profiling and record files (reports to other
libraries, no state the calls read except the switch, which is modelled);
registration and loading of libraries at start-up; the type tables; logging,
stubs, packaging; the layout of launch arguments and keys byte by byte, whose
properties are about bytes and not about steps; tables of descriptions of single
operators, which are built at start-up; shards of AI CPU loops, which other
libraries cut.

What is left, in order:

1. Reductions: the fold tree of the product, with tiles that are not filled.
2. The collector thread's start and stop, the expiry of the wait in
   `ClearCacheManually`, a lookup in several steps.
3. Tasks of the TensorFlow library (`AicpuTfTask`) and the loader of their
   descriptions.
