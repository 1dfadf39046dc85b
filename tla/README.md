# mlx-swift: a TLA+ development

mlx-swift is the Swift interface to MLX. Most of its code forwards an operation to the C++
core and wraps the result. This project models the part that keeps state of its own: the Swift code
that decides which thread may evaluate, compile, create a stream, hold wired memory or handle an
error, and the caches and readers that code relies on; and, of the generated Metal kernels in this
repository, the concurrent algorithms the others are built from.

## Inventory

State, operations, interactions and what makes each component correct. Paths are relative to
`src/Source/MLX` unless they name another directory.

| component | state | operations | hard part | correct when |
|---|---|---|---|---|
| Wired memory manager (`WiredMemory.swift`) | tickets, policies, baseline, currentLimit, waiters, lastLimitChange, configuration; the process's wired limit | `start`, `end`, `cancelWaiter`, `updateConfiguration`, `withWiredLimit` | an actor that suspends inside `start`; cancellation races `end`; hysteresis; backend refusals | capacity is never over-committed, no wake-up is lost, the limit covers the work and returns to the baseline |
| Evaluation lock (`Transforms+Eval.swift`) | `evalLock` (recursive), per-thread ownership depth, lock-wait counters | `withEvalLock`, `eval`, `asyncEval`, `checkedEval`, `materialize` | nested evaluation from callbacks; an outermost evaluation waits for its results outside the lock, a nested one and `synchronize` inside it; other locks taken inside and outside it | one thread in the MLX runtime at a time, `materialize` never runs inside a transform, no deadlock |
| Evaluation probe (`EvalProbe.swift`) | depth, since, completed, longest | `beginEval`, `endEval`, readers | the clock is read before the lock; evaluations overlap | "stuck since" never understates an open evaluation |
| Compiled functions (`Transforms+Compile.swift`) | per-thread `ThreadCompilationCache`, per-function caches, `tracedConstants`; the C++ compile cache keyed by function id | `call`, `innerCall`, `eraseCaches`, `deinit` | ids are addresses and are reused; caches are per thread; constants are baked into the graph | a call never runs a graph traced for another function, stream or constant |
| Streams (`Stream.swift`) | the pool of idle streams, lazily created default streams, task-local defaults | `newStream`, `releaseStream`, `LazyStreamPromise.current`, `withNewDefaultStream` | creation outside the pool's lock; two threads realise one promise | a stream has one owner, none is lost |
| Error dispatch (`ErrorHandler.swift`) | global handler, task-local handlers, `ErrorBox` | `setGlobalHandler`, `dispatch`, `withError` | handlers replaced while errors are dispatched; the first error of several threads wins | an error reaches exactly one handler, and one that was not freed |
| Constant cast cache (`ConstantArrayCastCache.swift`) | last cast per constant and stream | `cachedCast`, `clear` | identity reuse after deallocation; its lock is held while a stream is created | a cast belongs to what the array stands for now, and to the stream it is returned for |
| Bounded cache (`../MLXNN/Cache.swift`) | entries with serial numbers | get, set | eviction, wrap of the serial number | it is the list of the values stored last, the oldest of which goes first |
| Random state (`State.swift`) | key | `next`, `seed`, `innerState` | concurrent splits | a key is handed out once, and none can be derived from another that was |
| Custom functions (`MLXCustomFunction.swift`) | closure, lock | `call` | user code runs under a lock that is not recursive | calls do not deadlock with evaluation |
| Concurrent loading (`IO+Concurrent.swift`) | per-file results, first error | `loadArraysAndMetadata(urls:)` | files prepared in parallel, merged in order | the last file wins, an error is the first recorded |
| File readers (`IO.swift`) | offset, progress, the error | `read`, `seek`, `read(offset:)`, `reportProgress` | many reads of one reader at once, in chunks; a file that is truncated meanwhile; overflow in seek | a read that succeeds delivers the file's bytes, one that fails leaves an error, and progress is what was read, in order |
| Metal kernels (`../Cmlx/mlx-generated/metal`) | device and threadgroup memory | `atomic.h`, `scan.h`, `sort.h` | threads that meet at barriers only; elements smaller than an atomic word; rows that end inside a block | updates are atomic, scans are the running sums, rows are sorted and stable |
| Memory limits (`Memory.swift`, `Memory+AllocationCap.swift`) | cached limits, the installed cap | `cacheLimit`, `memoryLimit`, `clearCache`, install | a getter that sets and restores | the limit read is the limit set |
| Arrays (`MLXArray.swift`, `MaterializedArray.swift`) | the C handle, the sealed flag | `_updateInternal`, `_seal` | handle replaced while shared | a sealed array never changes |
| Modules, optimizers (`../MLXNN`, `../MLXOptimizers`) | parameter trees, optimizer state | `update`, `freeze`, `apply` | tree shapes must agree | an update touches exactly the named parameters |
| Operations, FFT, LinAlg, Fast, indexing | none | wrappers | none | computed by the C++ core |
| C++ core (`../Cmlx`) | the runtime | | external, an empty submodule in this repository | |

How they interact. `eval`, the transforms, compiled calls, stream creation and limit changes all go through
`evalLock`. A stateful compiled function takes its own lock inside it. Custom functions and the cast cache
hold locks of their own while they call code that may take it. Errors raised by the C++ core re-enter Swift
through the error handler. The wired memory manager is an actor; it takes `evalLock` only inside
`applyLimit`.

## The modules

Three layers recur: a component's module, an `MC` module that gives its constants values for TLC, and a
module of proofs that extends the component's. A definition named `…Faulty` is a mistaken version of the
definition below it. No specification uses it; replacing the right one by it must break a property,
which shows that the property depends on that line of the code.

| module | models | refines / is used by |
|---|---|---|
| `AdmissionGate` | what the manager promises its callers: tickets are registered atomically, and only when their policy admits them | |
| `WiredMemory` | the actor `WiredMemoryManager`, the tasks that call it, the process's wired limit | implements `AdmissionGate` (`GateSpec`) |
| `EvalLock` | `evalLock`, instance locks of compiled functions, locks of custom functions and of the cast cache, the device | |
| `EvalProbe` | `EvalProbe.beginEval`, `endEval` and its readers | brackets the evals of `EvalLock` |
| `CompiledFunctions` | the compile caches, traced constants, observed state | relies on the mutual exclusion that `EvalLock` shows |
| `Streams` | the stream pool, promises, default-stream scopes | creates its streams under `evalLock` |
| `ConcurrentLoad` | the parallel load of several files | ends in one `checkedEval` of `EvalLock` |
| `ErrorDispatch` | handlers, boxes, the global handler | the errors of every component above |
| `FileReader` | `FileIOState`: position, reads in chunks, progress | reads for `ConcurrentLoad` |
| `RecencyList` | what the bounded cache promises: the last values stored, and which is older than which | |
| `BoundedCache` | `MLXNN.Cache`: entries, serial numbers, eviction | implements `RecencyList` (`EvictsOldest`) |
| `RandomState` | `MLXRandom.RandomState`: the key and its splits | observed by `CompiledFunctions` as a cell |
| `CastCache` | `ConstantArrayCastCache`: identity, stream, snapshot | its lock is one of `EvalLock`'s |
| `AtomicArray` | what the kernels' atomics promise: an array whose elements are updated one at a time | |
| `PackedAtomics` | `atomic.h`: updates by exchanges of whole words | implements `AtomicArray` (`UpdatesAreAtomic`) |
| `ContiguousScan` | `contiguous_scan` of `scan.h` | |
| `SortSteps` | what one thread of the sorts computes between barriers | used by the next two |
| `BlockSort`, `MultiBlockSort` | `block_sort` and the `mb_block_` kernels of `sort.h` | |

`MCObjects` and `MCKernels` put several small modules that share nothing into one state machine, whose
behaviours are those of one part each, so that one run of TLC checks all of them.

### WiredMemory

`tickets`, `policies`, `baseline`, `currentLimit`, `configuration` and `waiters` are the actor's fields;
`cooling` says that `lastLimitChange` is more recent than the shrink cooldown; `wired` is what the backend
holds for the process. An action is one stretch of actor code between suspension points: `start` is
`Start` (which admits, returns without admission or suspends) and, after each wake-up, `Recheck`; `end`
is `End`; a cancellation is `Cancel`, which only flags the task, and later `CancelWaiter`, the job the
cancellation handler enqueued. `withWiredLimit` is a call of `Start`, the body, and `LeaveScope`.

* A waiter's UUID is the waiting task: a cancellation names the wait that was cancelled and a cancelled
  task never waits again.
* The policy is an operator: `CanAdmit` of the tickets registered in its group and the new one, and
  `Demand`, what the group adds to the baseline. The policies in the sources do not look at the baseline
  to admit, and their limit is the baseline plus a demand.
* `Renew` gives a finished task a new life, so that calls go on for ever with a bounded set of tasks.
* Logging and the event stream are left out.

### EvalLock

A thread is a stack of `frames`, each a call with the point it has reached. Transforms, compiled functions
and custom functions run a closure, which is any choice of further calls on the same thread, `MaxCalls` in
all and `MaxDepth` nested. Taking a lock, the native call made under it and releasing it are separate
steps. `owner`, `count` are the recursive lock, `depth` the thread-local number that
`withEvalLock` keeps; `pending` are the threads that wait for work the device has yet to finish, which it may
never do. An outermost eval schedules under the lock and waits without it (`Schedule`, stage `wait`). An eval
in a closure of its own thread's, which cannot release the lock, computes in place and waits with it held
(`WaitUnderLock`, stage `blocked`). So do `synchronize` and, lumped with it, `description` of an array and
saving, which evaluate in the core. `native` stands for every call that runs one native function under
`evalLock` and does not wait for the device: `asyncEval`, stream creation, `deinit` of a compiled function, the
limits.
A custom function never calls itself; `Evaluating` are those whose closures make such calls at all. A
cast cache is a custom function (`Casts`) that makes one kind of call, the creation of the default stream,
while its lock is held; it is in `Evaluating` as long as that stream is not there yet.

### EvalProbe

The step that reads the clock and the step that takes the lock are separate, as in `beginEval`, and a
reader reads between them. Time is a counter up to `MaxTime`.

### CompiledFunctions

A compiled call holds `evalLock` from its first to its last step, so the calls in progress are one stack
(`frame`, `depth`) of one thread. `cache` is the C++ compile cache of each thread: which function, stream
and sealed arrays a graph was traced for. `addr` is the object's address, which is its id in that cache
and may be reused when the object is gone; `caches` is the set of threads registered with the function,
`tracedConstants` and `sealed` the arrays that are baked in. A cell's value in `state` is the
depth of the trace whose tracer it holds, or 0. The model value of a freed function may be reborn as a new
object. Bodies may fail before, in or after their updates. An update changes the array in place, or, in a
cell of `Rebinding`, puts a new array object in the slot, as `RandomState.next` and the optimizers do: the
restore after a trace then writes to an object nobody looks at any more. `rebound` says at what depth.

Taken as given: arrays are not sealed or rebound by hand inside a call of the function that bakes them in,
and a function is re-entered only with tracers for inputs. `MayCall` takes for granted that a body lists, as the
compile documentation asks, what the calls it makes update among its own updates.

### Streams

`pool`, `promise`, `deviceOf` are the recycled streams, each promise's stream, and the device a stream was
created for. A task realises a promise in separate steps: it looks under the promise's lock, then takes a
stream from the pool or creates one under `evalLock`, then installs it under the promise's lock unless
another task was first, in which case its own stream goes back. Reference counts are modelled by what
they decide: `Collect` and `Release` are the deinitialisers and may run any time after the last reference
is gone. A child task inherits the scopes of its parent (`StartChild`). The peak of streams in
use together is history, kept for `NoMoreThanNeeded`.

### ConcurrentLoad

`Plans` is pure: the names of a header in the order of their offsets, if they tile the data section.
Equal spans may come in any order. The header may be another one when the loader reads it again. Workers
record a result or an error per file; the first error recorded wins. The C++ core's evaluation tape and
I/O pool are external: they start the reads in tape order and finish them in any. Queueing them (`Schedule`)
may fail with a part of them queued; `eval` then does not wait, and `checkedEval` throws while these reads go
on. A read that fails also makes it throw, and the others may still be under way. Only a call that
returns has waited for all. Metadata is merged by the
rule of the arrays and is left out.

### ErrorDispatch

`stack` is the task-local list of handlers, `inherited` how much of it the task was born with.
`check()` reads the box without its lock, so what a task sees is tracked: for certain the error of a box
whose lock it, or a task it has awaited, took after the error was stored (`sees`); otherwise the error or
nothing. Handlers and destructors return and meet no error of their own: the global handler runs under
a lock that is not recursive (line 341).

### FileReader, BoundedCache, RandomState, CastCache

* `FileReader`: the byte at a position of the file is the position, so what a read delivers says where it
  came from. A `pread` delivers any positive number of bytes that are there, fails, or meets the end; `Truncate`
  is another process. Reporting takes two steps under `progressLock`, the count and the call of the
  handler. Offsets are bounded by `MaxInt` for `Int64.max`, and what does not fit is refused, as in `seek`.
  A read whose range cannot be represented returns short and leaves the reader good, as in `readBytes`.
* `BoundedCache`: serial numbers wrap at `MaxInt`, and the entry with the smallest number goes first, as in
  the code. A call runs in the serial queue and is one step; a wrap may make the cache forget its entries,
  which `RecencyList` allows of a cache.
* `RandomState`: a key is the seed it comes from and the path of splits to it. `KeysAreIndependent` says
  that no key handed out can be reached from another one by splits. No seed is used twice.
* `CastCache`: a descriptor is at an address, which is used again when neither an array nor the cache's
  snapshot refers to it. A source that another thread updates inside `cachedCast` is not modelled.

### Metal kernels

* `PackedAtomics`: an element that shares its word, or an operation the device lacks, takes a loop that loads
  the word, computes the new one and exchanges the two if the word is still the one loaded; native
  operations are one step. A weak exchange may fail without reason, and one of floats fails when a NaN is
  compared. `Width` is the number of values of an element.
* `ContiguousScan`: a step is what one simdgroup does between two barriers; the lanes of a simdgroup run
  together and exchange values as the hardware does. Each input is a digit of its own, so that a sum shows
  which inputs it is made of and how often.
* `BlockSort`, `MultiBlockSort`: a step is what one thread does between two barriers, or one
  threadgroup of a merge; elements carry the index they came from, so that stability can be told.

## What the runs check

Passing runs. Each property has a mutant of the code that TLC finds to break it.

| run | instance | shows |
|---|---|---|
| `wired_gpu` | 3 tasks on a GPU, one group of a reservation of 1 and scopes of 4 and 3 against a capacity of 6, two configurations, refusals above 4 | no lost wake-up, tickets stay registered while their scope runs, the limit covers the active work unless the backend may refuse it, the limit rests when the work is over, the baseline is stable while work is active, cancelled and woken starts go on, the gate is implemented |
| `wired_policy_only` | 3 tasks without a GPU, two groups (sum and max), tickets that several tasks start and end at once, a configuration that manages nothing | no lost wake-up when several waits share a ticket and no backend is called |
| `evallock` | 2 threads, a function without state and two with, a custom function that does not evaluate, a cast cache whose stream exists, 3 calls nested 3 deep | exact ownership, an outermost eval waits for the device without a lock and only a nested one under `evalLock`, nobody who holds `evalLock` waits for one who wants it, `materialize` traps exactly inside a transform, `eval` is synchronous; no deadlock, and if the device answers what is waited for under `evalLock`, every call returns but outermost evals it never answers |
| `compiled` | 2 threads, 2 functions, 2 addresses, 2 streams, 2 values of the sealed arrays, 2 cells | a graph is run only for the function, stream and constants it was traced for, freed functions leave none, tracers stay in their traces, failed calls change nothing |
| `streams` | 2 tasks, a CPU and two GPUs, 2 streams, 2 promises beside the global ones | one owner per stream, devices are respected, no more streams than were needed together, a kept promise keeps its stream |
| `load` | 2 files, every header of up to 2 tensors in 2 bytes and in 1 byte, 2 workers, 2 reads in flight | the plan accepts exactly the headers whose tensors tile the data, payloads are read in file order, the result is that of a serial load, a file that cannot be prepared fails the call before anything is read and after all workers are done |
| `objects` | the small shared objects, one at a time: a probe with 2 threads, a reader, 3 evals and 4 ticks; a file of 3 bytes read in chunks of 2 by a loader and 2 workers, 3 calls; a cache of 2 with 3 keys, 2 values and numbers up to 7; two random states with 4 draws and 3 seeds; a cast cache over 2 arrays, 4 addresses, 2 streams | the age reported is never shorter than that of an open eval; reads deliver the file's bytes or leave an error; progress goes forward, never passes the size, and misses no byte that was read; the oldest entry is evicted; no key is handed out twice or derived from another; a cast is of what the array stands for now |
| `kernels` | the kernels, one at a time: 2 threads with a call each on 2 packed or float elements; scans of up to 13 elements by up to 3 simdgroups of 3 lanes with 2 reads; a block of 4 threads of 2 elements; rows of up to 5 blocks | updates of packed elements are atomic and every update returns, with NaNs too; scans in all four modes are right wherever the row ends; blocks and longer rows are sorted, stably, and nothing is written out of the row |
| `errors` | 3 tasks that inherit from and await one another, a box, callbacks, 2 errors | no error of an awaited task is swallowed, the first error is thrown, the global handler never sees destroyed data |

Runs that find a violation, where a comment or a document says more than the code does. PROJECT.json
quotes the lines.

| run | claim | what happens |
|---|---|---|
| `wired_devices` | the baseline is restored when the work is over | a GPU task raises the limit and a task whose default device is the CPU ends the last ticket: the manager's record goes back and the process's limit does not |
| `evallock_inversion` | `evalLock` is the outermost lock | the cast cache holds its lock while the default stream it asks for is created under `evalLock`; a transform asks the same cache inside `evalLock`: each thread waits for the other. A custom function whose closure evaluates (`MLXCustomFunction.swift:118`) has the same inversion |
| `compiled_rebound` | the values of the state are put back after a trace | a function observes a random state, whose owner puts a new array object in the slot; when the trace fails a tracer stays there. A function that updates what it does not observe leaves one as well |

### Bounds

* Two threads suffice for the lock orders: each cycle of waits in this code has one thread inside and one
  outside `evalLock`. Depth 3 allows a function in a function in a transform; three calls allow nesting and
  a call after it.
* Three tasks are one that holds capacity, one that waits and one that ends, cancels or takes over. The
  sizes 1, 4, 3 against 6 let each pair but the largest sum fit, so that an end admits some waiters only.
* Two functions and two addresses let an address be reused by the other function while the first is
  live, open or gone; two threads give each its own cache.
* Two backend streams and two promises beside the global pair let two tasks race for one promise and for
  the last stream of the pool. The backend creates no more: the runs stop there (`CHECK_DEADLOCK FALSE`).
* Two files are the least that can be overwritten by, fail beside, or overtake each other; two tensors
  in two bytes (one in the second file) have overlaps, gaps and empty tensors on either side.
* Three tasks give an error that is awaited through another task. Each error is met once.
* A file of three bytes in chunks of two has a full and a short chunk; three calls are two workers'
  reads and one at the position, or a seek and a read after a short one. A cache of two over three keys evicts,
  and numbers up to 7 wrap after a few stores. Three seeds give a seed of each state and one that is shared.
* Three lanes and two reads each give a block with more than one group of threads and every place in it
  where a row may end; the second and third round (axis sizes 7 to 13) use the prefix. Four threads with two
  levels of merges have a merge of merged runs; rows of two values suffice for the block, by the principle that
  a network of comparisons that sorts these sorts every row, and rows of three show stability. Five blocks
  leave a run without a partner twice. The threads of these merges have one element each here (those of the
  block have two); `RowsAreSorted` holds for any number.
* Two elements in one word and two threads are the least that can overwrite each other's element.
* Symmetry is used only among values the specification treats alike, and in no run with a liveness
  property.

### Fairness

* `WiredMemory`: weak fairness of `Recheck`, `CancelWaiter` and `LeaveScope`. The Swift runtime runs every
  job that is enqueued on an actor, and bodies of scopes are taken to end. Nothing makes a task call the
  manager or a ticket end otherwise.
* `EvalLock`: weak fairness of each thread's next step, i.e. the scheduler runs every runnable thread. The
  recursive lock need not be fair, since the number of calls is finite. Nothing is assumed of the device.
  A nested eval or a `synchronize` that it never answers keeps `evalLock` and stops every thread that wants
  it: the code has no remedy, and `EvalProbe` exists to report it. So the premise of `EveryCallReturns` is
  that the device answers each of these (`BlocksOthers`), and its conclusion that no outermost eval, which the
  premise leaves out, keeps another thread from returning, nor any order of acquisitions.
* `PackedAtomics`: weak fairness of each thread's steps and of its exchange: the device goes on running a
  thread, and a weak exchange that nobody disturbs does not fail for ever without reason.
* Everything else is safety and assumes no fairness.

## What is proved

The theorems hold for all values of the constants that satisfy the named assumptions. TLC checked each
inductive invariant on the instances above before it was proved.

* **`WiredMemoryProofs`** (assumptions `ConstantsAssumption`, `AdmissionAssumption`,
  `DemandAssumption`). `TypeInv` is the type invariant with the consistency of waiters; `WakeupInv` says
  that a suspended task's ticket is refused. It is inductive because refusal is monotone in the tickets
  registered (`AdmissionAssumption`) and whoever takes a ticket away removes all waiters it may have
  freed. `ScopeInv` adds that a scope has its ticket alone. Every step is a step of the
  admission gate or leaves the tickets alone, which gives the refinement.
  `LedgerInv` (registered tickets have a baseline and a policy) and `ApplyCovers` give that the limit covers
  the work, and that no step replaces the baseline while work is active. `LimitIsRestored` needs more:
  `RestAssumption` says that all callers are on one kind of device and rest limits are accepted. The run
  `wired_devices` shows why.
* **`EvalLockProofs`** (`ThreadsAssumption`; a cast cache is one of `Customs` here). The invariant counts,
  for each lock, the frames of a thread that hold it (`StackInv`, `EvalInv`, `InstanceInv`), from which
  ownership and the order of the locks follow; that an eval computes in place exactly when its thread was in
  such a frame already (`GoodStack`) gives where it waits. `NoInversion` assumes that
  custom functions do not evaluate, and adds that the holder of such a function's lock is in its closure
  (`CustomInv`).
* **`ObjectsProofs`** (`TimeAssumption`, `ObjectsAssumption`: finitely many threads, one loader, and offsets
  that fit). One part for each of the small objects:
  * the probe: `since` is set exactly while an eval is open and is no later than the start of any open eval;
  * the cast cache: the cached cast is of what the descriptor it is kept under holds, which cannot change
    while the snapshot retains it (`CastInv`);
  * random states: no two of the keys that are held or were handed out are prefixes of one another
    (`Unrelated`), and a thread between the two halves of `next` holds the lock and the key it read
    (`DrawInv`);
  * file readers: what a call has filled is its range as far as it got, at offsets that fit (`ReadInv`). The
    progress is the bytes delivered less those that threads have read and not yet reported, which are counted
    as the cardinality of a set (`ProgressInv`), so that it holds for any number of workers;
  * the cache: serial numbers differ and are below the next one (`Numbered`), so that the entry with the
    least number is the one no other is older than, and every step is a step of `RecencyList`. The list is
    stated by the relation of being older and not by a sequence, which keeps the refinement first-order.
* **`CompiledFunctionsProofs`** (`FunctionsAssumption`, `MarkersAssumption`). `GInv`: every cached graph is
  registered with the live function that traced it (`CacheInv`), and a function in a call is live,
  registered for the thread, and has its constants up to date (`CallInv`). `TInv` adds, for each open call,
  the trace it runs in (`LevelInv`) and which tracers its snapshot may hold (`TracerInv`). The two theorems
  about tracers assume `ObservesUpdates`, that functions observe what they update and change it in place;
  `compiled_rebound` shows that they fail without it.
* **`StreamsProofs`** (`StreamsAssumption`). `IInv` joins types, what a task is about to do (`GoalInv`), that
  what is referred to exists, `OnItsDevice` and `OneOwner`. Each step also satisfies the action `Kept`, hence
  `PromiseKept`. `NoMoreThanNeeded` is inductive beside it: the streams of a device and the tasks about to
  create one are counted, a task creates only when the pool has none, and then the peak has counted all of them.
* **`ConcurrentLoadProofs`** (`LoadAssumption`: a natural number of files, finitely many names). `LoadInv`
  says that the queue of reads has every array that was prepared once, or a part of them if scheduling
  failed, in the order of `ReadInFileOrder` (`ReadInv`), that what was prepared is what the headers have,
  and that the result is the merge in which the last file wins (`MergeInv`). It rests on three facts about
  sequences: the evaluation order, reversed, flattened and consumed from the back, is file by file
  (`FlattenedInOrder`); the merge of all files is what the recursion of the fold computes (`MergedIs`); and
  a sorted header is a chain of spans, each starting where the last one ended, exactly when the spans tile
  the data (`ChainTiles`, `TilingChains`), which holds for any header and whatever order the sort leaves
  equal spans in. Induction is on an index below a bound: if a claim failed for one, it would fail for a
  least one (`LeastOf`, `UpTo`, from `WFMin`).
* **`KernelsProofs`** (`AtomicsAssumption`, `BitsAssumption`, `KernelsAssumption`, `BlockAssumption`,
  `MergesAssumption`: positive sizes and rows of integers; for the block sort, a power of two of threads and
  no value beyond the padding). For the atomics: that the word arithmetic finds each
  element in a word and place of its own (`Places`) and that a new word differs from the expected one in
  that place only (`ChangesOneElement`) makes a successful exchange, or a native operation, an update of
  one element (`StepOutcome`); a loop that ends without an exchange has found that there is nothing to change
  (`NothingToDo`). Every other step leaves the array of elements alone. For any widths, buffers, threads and
  number of calls. For the scan: `Total(m)` is the sum of the first `m` elements in the scan's direction, and
  `ScanInv` says, for every stage of a round, that what a lane, a simdgroup and the threadgroup hold are differences
  of two totals: of the ends of a lane's share, of a simdgroup's, of all rounds so far. Simdgroups are never
  more than a barrier apart (`InStep`), which is why a sum that was left is still there when it is read. It
  rests on what the library's sum over a set is (`SumIs`, `SumOf`), that sums of differences telescope
  (`Telescopes`) and that the shares of the lanes cover the row (`SharesCover`). For the block sort: what the
  threads hold after each merge does not depend on how they run, so it is a sequence of pieces (`ArePieces`), and
  `BlockInv` says where each piece is at every stage: with its thread, in memory, or written out; threads are
  never two barriers apart. That the last pieces are the sorted row is a matter of the three algorithms.
  `ThreadSorts`: n passes of an odd-even transposition sort sort n elements, by the argument that the j-th
  highest of the elements above a bound is held up j - 1 passes at most (`PassReaches`), and never swap
  equal ones (`PassKeeps`). `BlockPartition`: a binary search ends where the first k elements of a merge
  split between the runs, and there is one such place (`SplitIsUnique`), so that the parts that the
  threads merge fit together (`WalkMerges`, `RunsMerge`). `RunIsStableSort`: the padding, whose indices are beyond
  the row's, is last. For a row of several blocks, `MergeInv`: at the first level every written block is sorted
  (`BlocksSorted`: the elements of a block have ranks, and there is one of each, `RanksExist`); at every later
  level `dev_in` consists of sorted runs (`RunsOf`, the last cut off by the end of the row),
  `block_partitions` holds the split at which each block's part of a pair starts (`PartsFound`), and each
  written block holds its part of the merge (`BlocksMerged`). A split of what lies between two splits is one
  of the whole runs (`SplitsBetween`), which is why what a thread merges of its block's parts is what
  the merge of the whole runs has there (`ShareMerges`); splits only grow (`SplitsRise`), and where a block's
  parts end is where the next block's start (`BlockEnds`, `PartEnds`), wherever the row ends. When all
  blocks are written the runs are twice as long (`LevelSorts`). `RowsAreSorted` holds for any number of threads
  and of elements of a thread, powers of two or not.
* **`ErrorDispatchProofs`** (`ErrorAssumption`). `Alive`: the global handler's data is alive unless
  its lock is held to replace it. `HoldsFirst`: an empty box was never reached, and what is in a box reached
  it before all else; with `ThrewContents`, that is what is thrown. `KnownEnded` and `SeesKnown`: an
  awaited task has ended and stores nothing more, and what it stored is seen; hence `NoErrorSwallowed`.

`TypeOK` of each of these modules is proved (`TypeCorrect`) and was checked by TLC beforehand; the runs spend
their properties on the rest.

Model-checked only: liveness (`CancelledStartReturns`, `SuspendedStartRunsAgain`, `EveryCallReturns`,
`EveryUpdateReturns`), as the prover does not reason about fairness or ENABLED. Every safety invariant that a
passing run checks is also a theorem.

## What is not modelled

* The C++ core is not in this repository (an empty submodule). Locks, caches and threads of its own appear
  only as far as the Swift code relies on them: the compile cache, the evaluation tape, streams, the wired
  limit. Most lines under `Cmlx` are vendored (json, fmt, metal-cpp), C headers without code, or generated
  kernels; no program logic of this repository is in them.
* The other generated kernels: matrix products, convolution, attention, quantization, reductions,
  element-wise operations, FFT. Their threads compute disjoint parts of a result from read-only inputs, and
  what could be wrong in them is arithmetic. The strided scan and sorts, and the argument sorts, differ from
  those modelled by addresses.
* In the kernels that are modelled: the width of `uint` in offsets; half floats; the host's choice of grids
  (the row stride of `block_partitions` is taken from the grid's width, which the host must choose right);
  and the packed `mlx_atomic_load_explicit`, which divides the offset by the size of the element in bytes
  and not by the elements in a word, and which nothing here uses.
* Memory limits: one getter sets a limit to read it and sets it back (`Memory.swift:294`), once, before the first
  use; the limits live in the core.
* Operations, indexing, FFT, linear algebra, fast kernels, distributed primitives, export, gradients,
  layers, losses: they convert arguments and call the core. Gradients take `evalLock` as `EvalLock`'s
  transforms do.
* Modules, optimizers and schedulers: sequential walks and arithmetic on trees.
* In-memory readers, writers and file formats: the core parses.
* Command line tools, the build plugin, examples, logging, deprecated module names.

## What the models make a reader notice

Not claims any document makes, so not findings; each can be seen in the modules.

* In a chain of overlapping evals the probe keeps the start of the first, and counts one completion.
* `RandomState.next` of another thread during a trace gets a tracer for a key (`State.swift:51`): a state
  that is observed must not be shared.
* An error in the global handler would wait for the handler's own lock.

## Plan

Done, in this order: wired memory and its gate, the evaluation lock, the probe, compiled functions, streams,
concurrent loading, error dispatch, file reader, bounded cache, random state, cast cache, the kernels.

Proved, beside type correctness: every safety property the passing runs check, and three refinements
(`GateSpec`, `UpdatesAreAtomic`, `EvictsOldest`).

Worth doing next:

1. Module trees: `update`, `freeze`, `unfreeze` over small trees.
2. The strided scan, which shares its barriers with the contiguous one.
