# A TLA+ model of MENPS

MENPS is a software distributed shared memory (DSM) with user-level threads
below it and an OpenMP runtime above it.  This directory holds TLA+
specifications of the core of the DSM, of the synchronization and scheduling it
runs on and of its MPI proxy, TLC configurations that check them on
small instances, and proofs that TLAPS checks.

File and line references are relative to the repository root (`src/` here);
`dsm/` abbreviates `medsm2/include/menps/medsm2/dsm/`.

## 1. Inventory

### 1.1 The system

A MENPS program runs as several processes.  A shared address space is divided
into blocks, and every process has a private copy of each block (`priv`, what
the application reads and writes) and a public one (`pub`, the twin that other
processes read and that differences are computed against).  Page protection
turns the first read or write of a block into a fault, which `space` serves.
Consistency is release consistency: a *release fence* publishes the blocks of
the write set and collects *write notices*; a mutex or a barrier carries the
notices as a *release signature*; the acquiring process invalidates the blocks
named in it.

Invalidation is driven by logical timestamps.  A process holds a copy of a block
with a lease until `rd_ts`; a write gets a `wr_ts` past every lease handed out;
a notice whose `wr_ts` is past the reader's `rd_ts` invalidates the copy.  A
signature has a maximum length; what is cut off is replaced by `min_wr_ts`, below
which every lease expires (`rd_set::self_invalidate`).

The timestamps and the last writer of a block are the *lock attached data* (LAD)
of the block's lock: a distributed queue lock, `queue_lock_table`, which hands
the data over together with the lock.  A *transaction* takes the lock, merges
the block with the copy of the last writer (three-way merge with race
detection), makes new timestamps and gives the lock back.  A *fast release*
skips all that when the process still owns the lock word.

### 1.2 Components

| component | state | operations | interacts with | hard behaviour | what makes it correct |
|---|---|---|---|---|---|
| `queue_lock_table` | lock word and LAD per process, transfer messages | `lock_global`, `unlock_global`, `check_owned` | RMA compare-and-swap, p2p; called by `blk_lock_table`, `mtx_table` | processes chase links that others rewrite | mutual exclusion; LAD of the last release; asserts hold; progress |
| `fixed_lock_table` | mutex per lock at its home | the same, without migration | RMA | retry loop | the same |
| `blk_lock_table` | local mutex per block | `lock_global`, `unlock_global`, `check_owned`, fast release of the LAD | both tables, `blk_dir_table` | LAD changed without the global lock | a fast release excludes transactions |
| `blk_dir_table`, `rd_ts_state` | per block: state, home, lease, write and fast release counters | `start_read`, `start_write`, pin, `check_release`, `fast_release`, `acquire`, `self_invalidate`, begin/end of transactions | LAD, `rd_set` | states of one block changed by faults, fences and acquires | writes are later than leases; stale copies become invalid |
| `blk_data_table` | private and public data | read, twin, `release_merge`, protection | RMA reads of other processes' copies | reads of data being written; lazy merge writes to another process | no update lost, no false race |
| `seg_table`, `blk_flag_table` | blocks of a segment | all of the above for one block, atomics | local lock | several steps under one mutex | |
| `wr_set` | new IDs, dirty IDs, generation | `add_writable`, `start_release_for_all_blocks`, `finish_release` | condition variable | threads elect a releaser | each fence covers the writes before it |
| `rd_set` | priority queue by lease, `min_wr_ts` | `add_readable`, `self_invalidate` | `blk_dir_table` | leases change while queued | expired copies become invalid |
| `rel_sig`, `sig_buffer` | notices, `min_wr_ts` | merge, truncate, serialize | `space` | limit of the buffer | newest notice kept, or `min_wr_ts` covers it |
| `mtx_table` | global mutex and its signature | lock, unlock | queue lock, RMA | | |
| `sig_table` | a slot with a lock word and a signature for each set of blocks | `get_sig`, `merge_sig_to`; `compare_exchange_strong_acquire` and `store_release` of `space` | RMA, `rel_sig` | value and signature change apart; slots fill up | an acquire sees what happens before the release it reads from |
| `space` | all of the above | faults, `fence_release`, `lock_mutex`, `unlock_mutex`, `barrier`, atomics | collectives | order of notices, minimum and signature | reads see what happens before them |
| `rel_thread` | stop flag | periodic `fence_release` | `space` | a fence at any time | |
| `svm` | mappings, signal handlers | fault, prefetch | operating system | | |
| `cmpth` MCS core, mutex, condition variable, barrier | tail and head of a queue of nodes, suspended threads in nodes and wait entries | lock, unlock, wait, `notify_all`, `arrive_and_wait` | every other part runs on it | lock-free hand-over to a thread that is still suspending | one holder, no lost wakeup, no node or entry used after its end |
| `cmpth` delegator | the same queue with functions in the nodes, the consumer thread | lock, unlock, `unlock_and_wait`, `execute_or_delegate`, consumer start and stop | device behind it | the lock is inherited by the consumer | critical sections exclude each other, every function is executed once |
| `cmpth` scheduler, deques | Chase-Lev deque per worker, `root_cont_`, descriptors | fork, join, yield, wait, exit, steal | return pool, context switch | weak memory, a stack in use until the switch | no task lost or run twice, no stack reused in use |
| `cmpth` return pool | free lists per worker, collected and returned nodes | allocate, deallocate | descriptors, MCS nodes | freed by another worker | each node handed out once |
| `mecom2`, `medev2` | registrations, RPC slots | RMA, p2p, collectives, RPC | MPI, UCX | completion order | |
| `meqdc` | request holder, request states | calls, wait, test, progress | between `mecom2` and `medev2`, over a delegator | completion races with wait; holder at its limit | MPI entered by one thread at a time, every request started once and completed |
| `meomp` | workers, regions | `GOMP_*`, `__kmpc_*` | DSM facade, RPC | start-up over RPC | |
| `medsm3` | as `medsm2`, split into controllers | as `medsm2` | as `medsm2` | off by default | |
| `mefdn` | | base library | | | |
| `old` | | earlier generations, not built | | | |

`PROJECT.json` lists each of them with the modules that cover it or the reason
why none does, and the hazards line by line.

### 1.3 The build that is modelled

Defaults of `medsm2/CMakeLists.txt`: fast release, lazy merge, race detection,
migration, merge table and SIMD differences on; release thread, directory
coherence off; lease 10, signature length 1024, write count threshold 2, fast
release threshold at most 64.  `LazyMerge` and `FastRelease` are constants of
`Block`, so other builds (eager merge) are covered as well.

## 2. Modules

| module | what it is |
|---|---|
| `LadLock` | abstract lock with attached data: one holder, who finds the LAD of the last unlock in its buffer |
| `QueueLock` | one lock of `dsm/queue_lock_table.hpp` |
| `QueueLockProofs` | its inductive invariant, its theorems, the refinement of `LadLock` |
| `Block` | one block: directory, data, read set, signature, mutex, barrier |
| `MCBlock` | `Block` with the symmetry of its processes |
| `BlockProofs` | theorems about the timestamps, the read set and the data of `Block` |
| `WrSet` | `dsm/wr_set.hpp` and `space::fence_release` in one process |
| `WrSetProofs` | its inductive invariant and theorems |
| `RdSet` | `dsm/rd_set.hpp` with several threads of a process |
| `RdSetProofs` | its inductive invariant and theorems |
| `SigBuffer` | `dsm/sig_buffer.hpp`: merge and truncation of sorted notices |
| `SigTable` | `dsm/sig_table.hpp` and the atomic operations of `space`, over `SigBuffer` |
| `MCSigTable` | `SigTable` with the symmetry of processes, variables and blocks |
| `McsCore` | `cmpth/sync/basic_mcs_core.hpp`: the queue of nodes, as operators |
| `McsMutex` | `basic_mcs_mutex.hpp` and `basic_mcs_cv.hpp`, over `McsCore` |
| `Barrier` | abstract barrier |
| `CvBarrier` | `basic_cv_barrier.hpp` over `McsMutex`; implements `Barrier` |
| `CvBarrierProofs` | the invariant of queue, condition variable and barrier; the refinement of `Barrier` |
| `Delegator` | `basic_sync_delegator.hpp` with the MCS queue, over `McsCore` |
| `ProxyMpi` | `meqdc`'s MPI proxy: the device behind a `Delegator` |
| `ProxyMpiProofs` | the invariant of lock, queue, device and requests, and its theorems |
| `ChaseLev` | `chaselev_worker_deque.hpp` with store buffers |
| `Scheduler` | workers, tasks and context switches, over `ChaseLev` |
| `SchedulerProofs` | the invariant of deques, workers and tasks, and its theorems |
| `Pool` | abstract pool |
| `ReturnPool` | `basic_return_pool.hpp`; implements `Pool` |
| `ReturnPoolProofs` | its inductive invariant, its theorems, the refinement of `Pool` |

They fit together from below: `QueueLock` implements `LadLock`; `Block` relies on
`LadLock` when it makes a transaction one step; `Block` relies on `WrSet` when it
makes "the block is in the write set" one Boolean and lets one fence at a time run
per process; `WrSet` leaves what a release does to a block to `Block`; `RdSet` takes
apart the steps that `Block` makes one, for what only concerns leases.  `SigTable`
is the second way, next to mutex and barrier, on which signatures travel.  On the
side of the threads, `CvBarrier` uses `McsMutex`, `ProxyMpi` uses `Delegator`, both
over `McsCore`; `Scheduler` uses `ChaseLev` and relies on `Pool` for its
descriptors.  `WrSet` and `RdSet` take mutexes and condition variables as given.

### 2.1 QueueLock

State: `glk` is `glks_` (a word per process: 1 owned, 2 locked, `p + 3` a link to
`p`), `lads` is `lads_`, `msgs` the point-to-point messages on their way, `linkVal`,
`proc` and `ladBuf` the locals of the two functions, `pc` the place between two
accesses.  Every access to a word or a LAD that another process can reach is an
action of its own: `LockRead`, `LockCas1`, `LockCopyLad` (the local attempt),
`LockStore`, `LockCas2`, `LockReadLad`, `LockCas3`, `LockRecv` (the chase), and
`UnlockRead`, `UnlockWriteLad`, `UnlockCas`, `UnlockSend`.  `last` is a history
variable, set when the lock is released: the LAD of that release.

`QueueLock` implements `LadLock` with the buffer that the caller passes to
`lock_global` and `unlock_global` (`ladBuf`) as `buf`, `last` as `data`, and as holders
the processes between the return of `lock_global` and the release (`Returned`).  `Lock` is the step after which
`lock_global` returns, and it says which LAD is in the buffer by then, be it the local
copy, the one read by RMA or the one in the message; `Update` is the holder's change of
its buffer; `Unlock` publishes the buffer.

Plain loads and stores of the local word are taken as atomic (aligned integers).
A process runs one call per lock at a time, because `blk_lock_table` and
`mtx_table` call it under a local mutex.  Messages are neither lost nor
duplicated: the p2p layer is MPI.

### 2.2 Block

One block, several processes, the whole path from fault to acquire.

* A block maps *cells* to *versions*.  Cell `p` is written by process `p` only, the
  cell `Shared` only under the global mutex, so the application is race-free but
  the block is falsely shared: the merge has something to do, and a report of the
  race detector would be false.
* `le` is `les_[blk_id]` (state, home, lease, write count, fast release counters,
  `is_last_writer`), `lad` and `owner` the attached data of the block's lock and
  where they are, `priv` and `pub` the two copies, `rdSet` (a bag: a block may be
  queued several times, and is then visited several times) and `minWr` the `rd_set`, `relSig` the release signature, `mtx` the global mutex with its
  signature, `acq` the signatures a process is about to apply, `fence` the
  `rd_ts_state` of a fence in a second thread.
* `ver` and `hb` are history: the newest version of each cell and, per process, the
  versions that happen before its next read (joined at mutex and barrier).
* Actions: `StartRead`, `StartWrite`, `Write` (the application), `Pin`, `Unpin`,
  `FenceStart`/`FenceRelease` (a fence of another thread), `LockMutex`,
  `UnlockMutex`, `BarrierEnter`, `AllGather`, `AcquireWn` (one notice),
  `AcquireMin` (self-invalidation, then the merge of the signature), `Compare` (the
  first half of the transaction of a pinned block).
* `BeginTransaction`, `ReleaseMerge` and `EndTransaction` compute what the functions
  of those names do from entry `e`; `Transaction(p, e, min)` puts them together and
  `DoTransaction` applies the result.

Atomicity.  A transaction holds the lock of the block, which `LadLock` makes exclusive,
and the block's local mutex, but it excludes other threads' stores to the block only by
page protection.  It is one step where that makes no difference:
* a block that is not writable, or is protected before the merge, takes no stores;
* a writable block that nobody else updated is only compared and copied to the twin
  (`release_merge` without `is_remotely_updated`): a store that the copy misses is a
  difference that the next release finds, as if it came after the step;
* of a pinned block that another process updated, and that the comparison finds written,
  `write_merge` goes byte by byte (SIMD is for protected pages) and stores only the bytes
  that changed remotely, which a race-free application does not write.

A pinned block that was updated remotely is never protected
(`dsm/blk_dir_table.hpp:577`), and if the comparison finds it clean the remote data is
copied over it (`dsm/blk_data_table.hpp:340`).  So for these blocks the transaction is
two steps: `Compare` (lock, `begin_transaction`, memcmp) and the step of the operation
that runs it, with `tx` in between, while other threads store to the block (`Write`) and
nobody else can have its lock.  `late` is history: the cells whose newest version was
stored there after the comparison.  The release of the block and the merge into `rel_sig` are
one step because `WrSet` shows that fences of one process exclude each other and
that nobody returns from a fence before the merge.  The minimum timestamp is read
by `FenceStart` well before, because that is what the code does; `LatestMin` is the
reload in `end_transaction`.  A read fault and the self-invalidation of one acquire
are one step each: `Block` is about processes whose threads do not fault, release or
acquire at the same time, but for the early read of the minimum by a fence.  What
happens to the read set otherwise is in `RdSet` (and finding 8).

Other blocks appear only as what they do to this one: `Truncations` lets the
signature be cut at any timestamp up to `MaxCut`, as notices of other blocks can
fill it at any time.

A data race is an exception in the code; `DoTransaction` is then disabled, and
`NoFalseRace` says that this never happens.

### 2.3 WrSet

`newIds`, `dirtyIds`, `gen`, `isReleasing` are the fields of `wr_set`; `asleep` the
threads inside `rel_cv_.wait`, with spurious wakeups; `todo`, `kept`, `wnVec` the
locals of the fence in progress.  `StartRelease`, `ResumeFirstWait` and
`ResumeSecondWait` are the sections under `rel_mtx_`, up to the point where the
thread waits, returns or is elected (`Elect`); then `TakeIds`, `Release` (per
block, in any order, since the loop is parallel), `KeepDirtyIds`, `MergeNotices`,
`FinishRelease`.  Meanwhile other threads fault (`AddWritable`), write, and
invalidate blocks.  `before` is history: of the writes that precede the fence of a
thread, the blocks not yet released and those not yet in the signature.
`FenceCoversWrites` is about the fence alone: that a transaction outside of it loses a
notice is finding 3.

The generation is signed in the code and compared by difference, so that it may
wrap; the model does not wrap, which takes half the range of the type in fences while one thread waits.

### 2.4 RdSet

The read set of one process with several threads and blocks.  `minWr` and `pq` are
the fields of `rd_set` (a bag stands for the priority queue: what matters is which
entries have expired); `st`, `rts`, `lk` the part of a directory entry that counts
here, with its lock; `min`, `cur`, `lease`, `todo`, `newEnts` the locals.  `todo` is
the bag of entries taken out: a block queued twice is visited twice.
`StartRead`, `EndTransaction` (the check of the lease, or the reload), `AddReadable`
and `MakeReadable` are separate steps, and so are `SelfInvalidate` (the section that
raises the minimum and takes the candidates out), `Visit` (one candidate, under the
lock of its block) and `PushBack`.  A fence (`FenceStart` ... `FenceEnd`) extends
leases of blocks that stay in the queue, in transactions (`ReleaseReadable`) or fast
(`FastRelease`), by the minimum it read at its start.  New leases are any that
`make_new_rd_ts` can return for a write timestamp and a lease set by other
processes.  Pinned blocks are left to `Block`.

### 2.5 SigBuffer and SigTable

A signature is a sequence of notices, newest first, and `min_wr_ts`.  `Merge` is the
loop of `sig_buffer::merge`, which keeps the first notice it meets for a block;
notices with equal timestamps may be in any order (`std::sort`).  `Truncate` cuts
and raises the minimum.  `Covers(sig, n)`: the signature has a notice for the block
that is as new, or its minimum is as high.

`SigTable` uses atomic variables the way `omp_set_lock` and `omp_unset_lock` do:
`compare_exchange_strong_acquire` sets the variable, then locks the slot, reads the
signature, unlocks and merges; `store_release` fences, locks the slot, reads, merges,
writes, unlocks and then sets the variable.  The lock is modelled as written: the
loop ends when the old value is 1 (finding 6).  `knows`, `gains` are history.
`Raced` says that two accesses overlap because of that, `Overflown` that a signature
longer than its slot was to be written; the properties are about executions before
either.

### 2.6 McsCore, McsMutex, CvBarrier

A thread swaps its node into `tail_`; with a predecessor it suspends, saves its
continuation in the predecessor's node and links its node behind it.  The unlocker
follows the link or takes `tail_` back.  One access to `tail_`, `head_`, a next
pointer or a slot per step.  `unlock_and_wait` gives the mutex up while it suspends:
the thread may find, on its way out, that somebody has queued up, and hands the
mutex on.  `notify_all` walks entries that live on the stacks of the threads it
makes runnable.  `CvBarrier` is `arrive_and_wait`.

### 2.7 Delegator and ProxyMpi

`Delegator` has every path of `lock`, `unlock`, `unlock_and_wait`,
`execute_or_delegate` and of the consumer's `consume()`, parameterised by the device
behind the lock.  `ProxyMpi` supplies it: the holder with `MaxOngoing` requests,
polled by the consumer (`MPI_Testsome` reports any set of completed requests, in any order), and
requests with a state word and a suspended thread, on which `wait()`, `test()` and
the completion race by compare-and-swap.  MPI itself (which requests complete, and
whether a call returns `MPI_REQUEST_NULL`) is external.  The some fifty functions of
the facade are four kinds of call.

### 2.8 ChaseLev and Scheduler

A deque is `top`, `bottom` and an array of `Size` slots; the owner's plain stores go
to a buffer that drains on its own, and that fences and compare-and-swaps wait for
(x86, the architecture with a context policy in the default build).  Indices have
`Width` bits and are compared by signed difference.  `Scheduler` runs workers that
pop or steal, and a main task that forks (child first: the parent's continuation
goes into the deque), yields, begins waits that are refused, joins, and ends the
program; children exit.  The lock of a descriptor is held across the context switch
of an exit or a join, as in the code.

### 2.9 ReturnPool

`local`, `remote` and `pros` are the three lists of a worker's entry: what it can
allocate, what others sent back, and what it collects for others until there are
`Threshold` of them.

## 3. Properties and runs

| run | configuration | what it shows |
|---|---|---|
| `queue_lock` | 3 processes, 2 LAD values, no bound on the number of calls | `MutualExclusion`, `LadIsLatest`, `AssertsHold` (`WordMatchesPhase`, `NoSelfWait`, `MessageIsExpected`), `RefinesLadLock`; under fairness `FollowerIsServed`, `ServedWhenQuiet`, `LockProgress` |
| `block_mutex` | 3 processes, eager merge, mutex, a private and a shared cell, 3 writes | `TypeOK`, `FreshReads`: a read sees what happens before it |
| `block_barrier` | 2 processes, eager merge, barriers, fences of second threads, signatures truncated | `FreshReads` after barriers, `ExpiredIsInvalid`: self-invalidation reaches every copy whose lease has run out |
| `block_default` | 2 processes, lazy merge and fast release, mutex, pinning, truncation | `NoFalseRace`, `NoLostUpdate` (but for stores to a pinned block inside its transaction, finding 9), `LeaseIsKnown`, `WriteBeatsLeases` |
| `block_fast_release` | default build | violated, see finding 1 |
| `wr_set` | 3 threads, 1 block, fences up to generation 3 | `NoBlockForgotten`, `FenceCoversWrites`, `FenceReturns` |
| `rd_set` | 2 threads, 2 blocks, timestamps up to 3 | `NoneForgotten`: whatever faults, releases and acquires do at the same time, a readable block is queued for no later than the end of its lease, or in the hands of an acquire |
| `sig_table` | 2 processes, 2 variables in a slot, 3 blocks, signatures of 2 notices | `AcquireCovers`, `SigsWellFormed`: no notice is lost along any chain of atomic variables, truncation included, while accesses to the slot do not overlap |
| `cv_barrier` | 3 threads, 2 rounds | `MutualExclusion`, `QueueIsSound` (`HeadIsHolders`, `PredecessorAlive`, `LinkedIsSaved`), `EntryAlive`, `RefinesBarrier` (safety and progress) |
| `proxy_mpi` | 2 threads, 3 nodes, a holder for 1 request, no bound on the calls | `MpiSerialized`, `ConsumerParked`, `PredecessorAlive`, `FreeLockMeansIdle`, `RequestIsServedOnce` (`RequestIsServed`, `StartedOnce`); under fairness `CallReturnsWhenQuiet` |
| `scheduler` | 2 workers, main and 2 children, deques of 2, indices of 4 bits, 4 operations | `RunsOnce`, `RootAtHome`, `NeverFull`, `StackIsSafe` (`StackLeft`, `JoinedIsFinished`); under fairness `Terminates` |
| `return_pool` | 2 workers, 5 nodes, batches of 2 | `InOnePlace`, `ComesHome`, `RefinesPool` |

Each module states `TypeOK`; it is a property of `block_mutex`, proved for
`QueueLock`, `Block`, `WrSet`, `RdSet`, `CvBarrier`, `ProxyMpi`, `Scheduler` and
`ReturnPool`, and TLC confirms it for the others under the constants of their runs.  The same goes for two properties that others subsume,
`WrSet!OneReleaser` (proved) and `SigTable!StoredBeforeSet`.  Each property of a passing run has a
mutant: a version of one definition with a plausible bug, which breaks it.

### Bounds

* `QueueLock`: none but the number of processes.  Three are needed for a chaser
  to meet a holder and a waiter; two LAD values tell a stale LAD from the last one.
* `Lease = 1` instead of 10: only comparisons matter, and with 1 leases run out
  and timestamps meet within a few writes.  `WrCountThreshold = 2` is the default.
  `MaxFastRelThreshold = 2` instead of 64 reaches the limit.
* `MaxWrites` bounds the writes of the application; timestamps grow with writes
  only, so the state space is finite.  Two writes of different processes, and a
  third one, are enough for every branch of the merge and for each finding.
* `MaxCut` bounds the minimum timestamps; with `Lease = 1`, a cut of 1 expires the
  first lease, and 3 is what finding 4 needs.
* `MaxGen`: a fence may start while `gen < MaxGen`; 3 generations let a thread
  wait through a fence that is not its own.
* `RdSet`: `MaxTs = 3` with `Lease = 1` lets the minimum rise twice, so that two
  acquires overlap; two threads can be in any two of the operations.  Three threads
  with one block pass as well.
* `SigTable`: three blocks and two places overflow a signature; two timestamps
  make newer, equal and older notices.
* `CvBarrier`: three threads give a holder, a waiter for the mutex and one for the
  condition; in the second round a fast thread overtakes the others.
* `ProxyMpi`: with `MaxOngoing = 1` the holder is full as soon as a request is
  ongoing.  Two threads and the consumer are the three parties of each hand-over;
  a third caller only lengthens the queue.
* `Scheduler`: `Size = 2` is the number of children, the least at which no push may
  fail; `Width = 4` lets `bottom_ - 1` wrap at zero.  Two workers are an owner and a
  thief.
* `ReturnPool`: five nodes, so that batches of two travel while others are in use.
* Symmetry: `MCBlock` permutes the processes other than `InitWriter`; none of these
  has a cell in `block_mutex`, so the constants are invariant.  `MCSigTable` permutes
  processes, variables and blocks, none of which is distinguished.  Both check safety
  only.

### Fairness

`QueueLock!FairSpec`: weak fairness of every step of a process inside the two
functions, the critical section included.  Processes run independently, and an RMA
operation or message completes.  Nothing forces a process to start locking.  A
chaser may still starve while others keep locking: its compare-and-swaps (first
owned, then locked) may each time find the word in the other state; hence
`ServedWhenQuiet` has the proviso it has, and `LockProgress` speaks about anybody.

`WrSet!Fairness`: weak fairness of a thread's steps inside `fence_release`.
Spurious wakeups and application steps are not forced.

`ProxyMpi!FairSpec`: weak fairness of the threads inside a call, of the consumer, and
of the completion of an MPI operation.  No thread has to begin a call.  The proviso of
`CallReturnsWhenQuiet` is needed: `consume()` does not reach `progress()` while the next
node of the queue is waiting, so an endless stream of calls keeps requests from
completing.

`CvBarrier!Spec`: weak fairness of each thread, once in the barrier and in arriving,
as every worker runs its ready threads.  `Scheduler!Spec`: weak fairness of each worker
and of its store buffer; workers are operating system threads that never block.
`RdSet`, `SigTable`, `ReturnPool` and `Block` state safety only.

### Findings

1. `block_fast_release` (default build), a run with `expect: violation`.  A transaction
   that leaves the block writable announces the new timestamps, and the first fast
   release after it announces the same ones, because `fast_release` returns the LAD's
   timestamps from before it advances them (`dsm/blk_dir_table.hpp:908`).  A reader
   that acquired the first notice has that lease and ignores the second.

The others are kept as properties and constants rather than runs; TLC finds the
violation with the module, property and constants named (for `Block`, the other
constants are those of `BlockBarrier.cfg`).

2. Lazy merge: `Block`, `FreshReads`; 3 processes, cells `p1` and `p2`,
   `LazyMerge = TRUE`, `Usage = {"mutex"}`, `MaxCut = 0`.  A remote transaction reads
   the private data of the last writer, with writes that are not released, and writes
   it to the writer's public copy (`dsm/blk_data_table.hpp:298`).  The writer's own
   release then finds private and public equal and makes no notice; a third process
   keeps its old copy.  Lines 238-239 say "It's OK to read the intermediate states
   because those writes will be managed by the next release operation."
3. Dropped result: `Block`, `FreshReads`; `Usage = {"mutex"}`, `MaxCut = 1`.  A read
   fault on an expired dirty block publishes its writes in a transaction whose result
   is dropped (`dsm/seg_table.hpp:227`): the block becomes `readonly_clean` and no
   notice is ever made.  A notice for a pinned block does the same (`:342`).
   `unlock_mutex` relies on "Release all of the preceding writes in this thread."  With
   barriers only (`block_barrier`) a block is released before it can expire.
4. Pinned lease: `Block`, `ExpiredIsInvalid`; `Usage = {"mutex", "pin"}`, `MaxCut = 3`.
   `self_invalidate` decides by the lease before the merge whether a block goes back
   into the read set (`dsm/rd_set.hpp:114`); a pinned block, which gets a new lease,
   does not, and once unpinned it is not found when that lease expires.
5. Null request: `ProxyMpi`, `RequestIsServed`; `NullBy = {"self", "consumer"}`.
   "When the MPI function returns MPI_REQUEST_NULL, this code treats it as the request
   completion" (`meqdc/.../proxy_mpi_facade.hpp:116`), but a call executed by the
   consumer stores the state and wakes nobody: a thread that already waits in the
   request stays suspended.  With `NullBy = {"self"}` (run `proxy_mpi`) the property
   holds.
6. Lock of a slot: `SigTable`, `SigLockExcludes`, constants of the run.  `lock()` leaves
   its loop when the old value was 1, that is when somebody has the lock
   (`dsm/sig_table.hpp:167`; "This thread successfully acquired the lock." at `:168`),
   and spins while it is free until somebody sets it.
7. Size of a slot: `SigTable`, `MergedSigFits`, constants of the run.  `merge_sig_to`
   merges two signatures of up to the maximum length and serializes the result without
   truncating it, against the assertion in `dsm/sig_buffer.hpp:190`.
8. Read set of several threads: `RdSet`, `AddReadableLive` and
   `ExpiredIsInvalidatedWhenIdle`, constants of the run.  The assertion of
   `add_readable` (`dsm/rd_set.hpp:51`) fails when an acquire of another thread raises
   the minimum after `start_read` or `end_transaction` compared with it; in a build
   without assertions the block is then readable with an expired lease until the
   minimum rises again.  The same comes of `PushBack` after a second acquire.  The
   block is not lost: that is `NoneForgotten`.
9. Store to a pinned block: `Block`, `NothingLost`, constants of `BlockDefault.cfg`.  A
   transaction compares a pinned block with its twin, finds it clean, and reads the data
   of the last writer; another thread of the process, whose stores nothing holds back,
   writes to the block; then the memcpy at `dsm/blk_data_table.hpp:340` overwrites the
   store in the private data, and the next one makes the twin equal, so that no release
   will see it.  The comment at `:236-239` allows for these stores: "the private data is
   STILL WRITABLE and can be modified concurrently by other threads in this process.
   It's OK to read the intermediate states because those writes will be managed by the
   next release operation."  `NoLostUpdate` says that these are the only updates lost.

Where a property is violated in one build, the passing runs check it in the
largest setting where it holds: `FreshReads` with eager merge, with mutexes and
without truncation or with barriers and truncation.

Smaller observations, which no property states: the request holder copies
`statuses_[index]` where the i-th status is meant; `unlock_and_wait` of the delegator
has a branch for an idle device that cannot be reached; the consumer can be stopped
only when nothing is ongoing; a join that suspends never gives the joined descriptor
back; `on_exit` of a detached thread unlocks a descriptor it has deallocated;
`try_steal_from_others` takes a remainder by `num_wks - 1`, zero with one worker
(`cmpth/sct/basic_sct_scheduler.hpp:56`; `Scheduler` has no step for this, and a configuration with
one worker is outside the model);
`local_push_bottom` pushes at the top, so that two threads that yield alternate and a
third may never run; the byte-wise merge of a read compares with the other copy instead
of the twin (`dsm/blk_data_table.hpp:525`).

## 4. Proofs

The theorems hold for every value of the constants.  Assumptions:
`NumProcsAssumption`, `InitOwnerAssumption`, `LadAssumption` (`QueueLock`),
`BlockAssumption` (`Block`: types, and that fast release needs lazy merge, which
`medsm2/common.hpp` enforces) and `NoProcAssumption`, `WrSetAssumption`,
`RdSetAssumption`, `PoolAssumption` (`ReturnPool`: at least one worker, batches of at
least one node, finitely many nodes), `NodeAssumption` (`McsCore`), `ThreadAssumption`
(`McsMutex`, and again in `Delegator`), `RoundAssumption` (`CvBarrier`: finitely many
threads, and at least one), `ProxyAssumption` and `NilAssumption` (`ProxyMpi`),
`DequeAssumption` (`ChaseLev`: at least one slot, and indices that can count the slots)
and `SchedAssumption` (`Scheduler`).  Apart from types and finiteness they say only that
model values which stand for "none" differ from the others.  The four theorems about the
read set and the data of `Block`, those about `Scheduler` and one about `ProxyMpi` have
hypotheses on the build, the application or MPI; they are given below.

**QueueLock.**  `IInv` = `TypeOK` and
* `OneToken`: at most one token - an owned word, a holder, or a message;
* `PhaseInv`: which values the own word can have at each `pc`, and when the word
  read before is still the word;
* `LinkInv`: the word of a busy process links only to a process that waits for it;
* `LadInv`: the latest LAD is where the token is;
* `AcyclicInv`: `Source(p)` is where the lock has to come from before `p` can have
  it (the process it waits for or looks at, or its probable owner); no nonempty set
  of processes is closed under `Source`, so all chains end at the token.

The last one is what `NoSelfWait` needs and what makes the proof long: links are
rewritten while they are followed.  It is stated with sets of processes because
that needs no induction over paths.  Proved: `TypeOK`, `MutualExclusion`,
`LadIsLatest`, `AssertsHold` (from a theorem for each of its parts), and
`RefinesLadLock`: each step of the queue lock is a step of `LadLock` or leaves holders, data
and buffers alone.  That the returned buffer has the last LAD rests on `LadInv`, which
follows the LAD through local copies, RMA reads and messages.

**Block.**  `TsInv` = `TypeOK`, `LeaseIsKnown`, and `NoticesAreKnown`: no notice in
a signature, in the mutex or on its way promises a lease beyond the LAD, and `TxPinned`:
only the transaction of a pinned block is ever seen half done.  The second is needed
because an acquire copies the lease from a notice, the third because the block must not
change its state between `Compare` and the rest.
`CoreStep` is the interface between the two halves of the proof: what every step
does to the entries and the LAD; `LocalStep`, `FenceStep`, `ExchangeStep` and
`AcquireStep` then follow the notices, action by action.  Proved, for every build
option: `TypeOK`, `LeaseIsKnown`, and the action property `WriteBeatsLeases`.

**WrSet.**  `IInv` = `TypeOK`, `OneReleaser`, `NoBlockForgotten` and
`FlagHasReleaser`, `LocalsAreEmpty`, `BeforeIsPending`, `WrittenIsDirty`,
`GenerationOrder` (`gen` against the generation a thread waits for),
`FenceIncludes` (the fence a thread waits for, once it is in progress, has or will
have every block written before), `OverMeansCovered`.  One lemma per action.
Proved: `TypeOK`, `OneReleaser`, `NoBlockForgotten`, `FenceCoversWrites`.

**Block, the read set.**  `ExpInv` = `ExpiredIsInvalid` and
`MinsAreCuts` (no minimum exceeds `MaxCut`), `QueueTypeOK`, `NoPins`, and
`ReadableIsQueued`: a readable copy is in the read set for a timestamp that expires no
later than its lease, unless that lease never expires.  It needs lemmas about bags.
Proved, for every build option: `ExpiredIsInvalid`, if `"pin"` is not in `Usage`; with
pinning it is false (finding 4).

**Block, the data.**  The published versions of the block are numbered by their write
timestamps: `D[n]` is the content of the last version up to timestamp `n`.  The model
has no such variable; the invariants say that a `D` exists, and a step maps one `D` to
the next.  `FreshInv(D)` has
* `DataInv(D)`: versions only add to their predecessors and the last one is with the
  last writer (`Contents`, `LastWriter`); nobody has anything newer but for unpublished
  changes, which are the newest of their cells (`Published`); the home a process will
  read from, and a copy it can read, have the versions its lease names (`Homes`,
  `Fetched`);
* `Owned`, `Listed`, `DiffLive`: unpublished changes belong to the writer of the cell,
  are in the write set, and are not of an expired copy;
* `Notices(D)`: a notice in a signature names a home that has the version it announces;
* `HbKnown(D)`, `MtxSaid(D)`: what happens before the next read of a process is in the
  versions that its lease, its minimum or a notice still to be applied names, and is
  passed on by its signature unless everybody knows it already.

`RaceInv(D)` adds that a process changes a cell only on top of its latest published
version (`Current`), that whoever holds the mutex, or takes it next, knows of all writes
under it (`SharedKnown`), and `NoneLost`.  `DataStep(D, E)` is the interface: what every
step does to versions, leases and copies; one lemma per kind of step establishes it.  TLC
checked the invariants first, with `D` as a history variable.  Proved, for any number of
processes, cells, writes, leases and thresholds: `FreshReads`, `NoFalseRace` and
`NoLostUpdate` (with `NothingLost`: without pins there is no exception to make), under three hypotheses: eager merging (`~ LazyMerge`), no pinning, and no
truncation if mutexes are used (`MaxCut = 0 \/ "mutex" \notin Usage`).  `FreshReads` is
false without the first (findings 1 and 2) and without the third (finding 3; a
notice for a pinned block is dropped too).  The runs `block_mutex` and `block_barrier` are
instances of the hypotheses.  `block_default` is not: that lazy merge, fast release and
pinning lose no other update than those of finding 9 and raise no false race is known for its constants only.

**RdSet.**  `IInv` = `TypeOK`, `HasLock` (who is between two steps of a fault or a
release has the block's lock), `ReadyIsCovered` (a block about to become readable is
already queued, or in the hands of an acquire, for the lease it will get),
`ReadableIsCovered`, and `HandsAreEmpty`.  Proved: `TypeOK`, `NoneForgotten`, and
`QueuedWhenQuiet`: while no acquire is in progress, a readable block is in the queue
for no later than its lease.

**CvBarrier**, and with it `McsMutex`.  `IInv` = `TypeOK` and
* `QueueInv`: one holder; whose node is where; nodes are not shared; a node somebody
  queued up behind is neither the tail, nor free, nor about to be freed; links and
  saved continuations;
* `CvInv`: the entries of the condition variable form a chain that nobody enters
  twice, and all behind the one that `notify_all` reads are asleep;
* `Rounds`: what each thread has counted, against the generation and `cur_`.

Proved: `TypeOK`, `MutualExclusion`, `QueueIsSound`, `EntryAlive`, and that every
behaviour is one of the abstract `Barrier` (`BarrierRefined`, the safety part of
`RefinesBarrier`).

**ProxyMpi**, and with it `Delegator`.  `IInv` = `TypeOK` and
* `Token`: who has the lock, a thread or the consumer, and when the consumer is parked;
* `QueueInv`: the ends of the queue, who is queueing up, links, suspended threads;
* `DeviceInv`: what a node holds (a thread or a function), how far the head has been
  executed, and that a free lock means an idle device;
* `RequestInv`: the phase of each call against the state of its request, and that a
  request is in one place - a node, the holder, a thread's hands - until its thread
  knows that it is finished;
* `Stopping`: the destructor runs alone.

Proved: `TypeOK`, `MpiSerialized`, `ConsumerParked`, `PredecessorAlive`,
`FreeLockMeansIdle`, `StartedOnce`; and `RequestIsServedOnce` if MPI returns no null
request to the consumer (`"consumer" \notin NullBy`), from `IInv` and `Sleeping`.
Without this hypothesis it is false (finding 5).

**ReturnPool.**  `IInv` = `TypeOK`, `ComesHome`, `Apart` and `Outside` (no list has
a node twice, lists for nodes of one worker share none, and none is in use) and that every node is kept
somewhere.  Lists are spliced as a whole, so that each splice needs the two lists
disjoint; `ComesHome` keeps the lists of different workers apart.  Proved: `TypeOK`,
`ComesHome`, `InOnePlace`, `RefinesPool`.

**Scheduler**, and with it `ChaseLev`.  `IInv` = the types and
* `DequeInv`, for each deque: `top_` is at most `Limit`, the end of the elements that
  belong to the deque (`Bounds`); the last store on its way is what the owner sees
  (`LastStore`); an element becomes visible before the `bottom_` that covers it
  (`Order`); there is an element at every position from `top_` to `Limit` (`Filled`);
  what a pop in progress has read (`Popping`), and what a thief may rely on for as long
  as `top_` has not moved (`Stealing`);
* for each worker, what it runs in each phase of a context switch (`Phase`), which
  deque it has found empty (`EmptyPop`), and that an operation pushes at most once
  (`Pushed`), which bounds the indices;
* `Once`: a continuation is in one place - running, the result of a pop or a steal, a
  position of a deque, a joiner, or `dest_cont_`;
* `Stacks`: spare and finished descriptors are in none of these places.

`Stealing` is what the compare-and-swap rests on: a thief reads `top_`, then `bottom_`,
then the element, and each may be out of date, but if `top_` is still the same at the
end then the element was the one at that position all along and the owner has not popped
it.  The owner's fence is what makes this true of the last element.  Every step of a
deque gets a lemma that it keeps `DequeInv` and, for the thieves, `Keeps`; the steps are
then summarised by what they do to the continuations in the deque (`Calm`, `Takes`,
`Adds`) and those of the scheduler by where a task ends up (`Stay`, `Lands`).
`NeverFull` is a count: the positions of a deque map one to one to tasks that are
nowhere else.  TLC checked `IInv` on the run's instance first.

The theorems have the hypothesis `NoWrap`: twice the operations of the program (`MaxOps`
and two more) are at most the range of an index.  `top_` and `bottom_` have 64 bits and
an operation raises each by at most one, so that a program would have to make about 2^63
operations to leave it; the run `scheduler` is an instance (4 operations, 4 bits).  The
wrap at zero, of an owner that pops from an unused deque, is part of the proof.  Proved:
`TypeOK`, `RunsOnce`, `RootAtHome`, `NeverFull`, `StackIsSafe`.

Only model-checked:
* liveness, which is out of the prover's reach: `FollowerIsServed`, `ServedWhenQuiet`,
  `LockProgress`, `FenceReturns`, `CallReturnsWhenQuiet`, `Terminates`, and the progress
  that `RefinesBarrier` promises;
* `NoFalseRace` and `NoLostUpdate` in the lazy build and with pinning;
* `SigTable` (its signatures are merged by a loop over sequences, and what such a
  recursion computes needs induction over data).

## 5. What is not modelled

`PROJECT.json` gives the reason for each component.  Within the modelled ones:

* bytes, SIMD words, `mprotect`, `mmap`: the state of the block stands for its
  protection, a cell for the unit that is compared;
* directory coherence (`MEDSM2_USE_DIRECTORY_COHERENCE`, off) and
  `self_invalidate_all` (a debugging switch);
* `cur_wr_ts`, which only logs read, and profiling;
* atomic variables that share a block with ordinary data: `SigTable` gives them blocks
  of their own;
* the interleaving of a fast release with a remote process that takes the lock word
  between `check_owned` and the update of the LAD: `Block` makes them one step;
* `cmpth`: a scheduler with a single worker, thread-local keys, spinlocks, `notify_one`, parent-first start-up, detached
  threads, context switches in assembly, memory models weaker than x86;
* the UCT variant of the proxy: the same delegator, without a request holder, and with
  a completion that UCX reports by callback;
* failures: the code has no recovery from a lost process or message.

Most of the repository's lines are outside: `old/` (earlier generations, not built),
the vendored allocator in `mefdn/src`, the wrappers of MPI and UCX in `medev2` and
`mecom2`, type traits and policies, tests and build files have no state machine to
model; `medsm3` repeats the protocol of `medsm2` and is off by default; `meomp` is
entry points over the facade.  The map therefore covers the protocols, which are a
small share of the whole.

## 6. Plan

In this order:

1. `NoLostUpdate` and `NoFalseRace` for the lazy build, where the last writer's private
   copy takes the place of `Latest`.
2. `FixedLock`, which implements `LadLock` too; then the queue lock together with
   fast release, for the atomicity `Block` assumes.
3. The byte-wise merge; directory coherence with `sharer_map` and `unordered_rd_set`;
   the UCT proxy.
4. RPC of `mecom2`, the start-up of `meomp` workers, the facade, `medsm3`.
