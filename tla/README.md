# A TLA+ verification of SciDB's query and update protocols

SciDB is a shared-nothing array database. Every *instance* is a process with its own
chunk storage; a *query* is coordinated by the instance its client is connected to and
executed by all of them; array definitions, versions and *array locks* live in a
Postgres *catalog* that all instances share. The modules in this directory model the
parts of the program in which several actors can get in each other's way: the locks,
the life of a query object, the distributed update transaction with its recovery, the
work queues on which all of it runs, the replication and the redistribution of chunks
between instances, and the storage manager with its undo logs, its chunk map and the
free lists of its data stores. They are checked with TLC on small instances, and the
most important safety properties of three of them are proved with TLAPS for every
instance.

Paths are relative to the root of the repository. `PROJECT.json` has, for every
definition, the lines it models; the list of the components, the hazards, the runs, the
mutants and the theorems.

## 1. The system

| part | where | state that matters | operations |
|---|---|---|---|
| array locks | `src/system/catalog/SystemCatalog.cpp`, `src/query/Query.cpp` | rows of `array_version_lock`, `_requestedLocks` | request, lock, retry, promote, copy to workers, release, recover |
| query object | `src/query/Query.cpp`, `src/query/executor/SciDBExecutor.cpp` | completion and commit state, error, handlers, finalizers, error queue | prepare, execute, complete, cancel, error, abort, commit, destroy |
| update transaction | `src/query/Operator.cpp`, `src/query/Query.cpp`, `src/smgr/io/Storage.cpp` | new version, lock rows, chunks on disk, recorded versions | pre/post execute, preamble and barrier, write, flush, record, undo, recovery |
| work queues | `src/util/WorkQueue.cpp` | queue, overflow queue, `_outstanding`, `_reserved` | enqueue, reserve, hand over, push back, release, spawn, start, stop |
| replication | `src/smgr/io/ReplicationManager.cpp`, `src/network/Connection.cpp`, `src/network/NetworkManager.cpp` | queue per destination, channel windows, credits, acks | send, wait, control messages, receive, ack, reconnect |
| network | `src/network/` | connections, channels, attached queries | send, receive, disconnect, reconnect, liveness timer |
| message handlers | `src/network/MessageHandleJob.cpp`, `ClientMessageHandleJob.cpp` | the queue a message goes to | one handler per message |
| storage manager | `src/smgr/io/Storage.cpp` | chunk map, header file, free slots, two undo logs | open, recover, write, roll back, remove versions |
| data stores | `src/util/DataStore.cpp`, `src/util/FileIO.cpp` | free lists, `.fl` file, flusher | allocate, free, grow, flush, remove |
| scatter/gather | `src/query/PullSG*.cpp`, `src/array/StreamArray.cpp` | caches of sources and pullers, fetch requests, merge of streams | fetch, answer, prefetch, merge, end of stream, sync |
| membership | `src/system/Cluster.cpp` | liveness versions | notify |
| MPI | `src/mpi/` | slave processes per query | launch, handshake, destroy |
| computation | `src/array`, `src/query/ops`, `parser`, `optimizer`, `linear_algebra` | data | sequential |

How they interact. A client message becomes a job that drives the *main routine* of a
query object on the coordinator: it parses, acquires locks (and is put back on a timer
when one is busy), sends the plan, executes its part and waits for the workers. Workers
run the same plan in jobs of their own. Errors, aborts and commits do not interrupt the
main routine; they come through a serial *error queue* per query, and what they have to
do is kept in two stacks of callbacks: error handlers (undo) and finalizers (record the
version, release locks, broadcast, destroy). Whether a version exists is decided by one
catalog transaction of the coordinator; everybody else finds out from the catalog. On
each instance a chunk of a new version is an undo record, a block of a data store and a
descriptor in the header file; rollback and recovery take these away again by reading
the logs backwards against the lock rows that are left. Before an operator can run, its
input may have to be redistributed: every instance then pulls chunks from all others
through bounded caches on both sides.

What makes this hard: three or more threads per query, messages that are lost with
their connection, queries that end while messages for them are on the way, crashes
between any two steps of commit or abort, waiting in circles (queries for locks,
recoveries for each other, senders for credits, attributes for each other), files that
are read back after a crash, and counters at their limits. Section
7 lists what is not covered.

## 2. The modules

| module | models | run by |
|---|---|---|
| `CatalogLocks` | the lock table and the SQL statements on it, as operators on a set of rows | through the next two |
| `ArrayLocks` | queries acquiring, retrying and releasing locks; crashes and recovery of the rows | `MCArrayLocks` |
| `QueryOutcome` | abstract: a query reaches one verdict, announces only that, then leaves | refined by the next |
| `QueryLifecycle` | one query object and the threads that act on it | `MCQueryLifecycle` |
| `UpdateTxn` | the distributed update transaction, composed with `CatalogLocks` | `MCUpdateTxn` |
| `WorkQueue` | the work queues | `MCWorkQueue` |
| `Replication` | the replication manager, one connection and one receiver | `MCReplication` |
| `Redistribution` | abstract: every instance is handed its chunks whole and in order, then sees the end | refined by the next |
| `PullSG` | scatter/gather by pulling, all instances of a query | `MCPullSG` |
| `ChunkStorage` | the storage manager of one instance | `MCChunkStorage` |
| `DataStore` | the data store of one array and its flusher | `MCDataStore` |
| `DataStore_invariant`, `DataStore_proofs` | theorems about `DataStore`, in this order | tlapm |
| `ArrayLocks_proofs` | theorems about `ArrayLocks` | tlapm |
| `WorkQueue_owners`, `_calls`, `_moves`, `_spawn`, `_theorems` | theorems about `WorkQueue`, in this order | tlapm |

Names are those of the code where TLA+ allows. A comment `MUTANT of X` marks a variant
of `X` with a plausible slip (a guard dropped, an order swapped); no specification uses
it. Each serves to show that a property would notice.

### ArrayLocks and CatalogLocks
A row is `[arr, query, inst, mode, ver]`. `lockArray` locks the whole table first, so
each statement is one step. `CoordLockFree` is the "where not exists" part of
`getLockInsertSql` for each mode: a reader looks at coordinator rows only, everybody
else at all rows of other queries. `requested[q]` is `_requestedLocks`: the order
`LockPtrLess` makes two requests equal if their *unqualified* names are, which
`ArrayName` gives. `LockBusy` keeps what was taken and leaves the query to its timer;
the next attempt starts from the first lock. Any other exception while acquiring
(no quorum for a lock above RD, an error of the query) releases everything
(`AcquireFails`). Workers copy the coordinator's row. A crash
forgets the queries of an instance, not its rows; recovery deletes the coordinator rows,
then waits until the coordinators of its worker rows of updates are done.

### QueryLifecycle and QueryOutcome
One query object; profile `reader`, `writer`, `remover` (autoCommit) or `worker`.
Threads: the main routine, the server of the error queue, and the job of another query
that runs the operator `cancel()`, which does not go through the error queue. A critical
section of `errorMutex` is one step; handlers and finalizers run outside, one per step,
from the list that was swapped into the thread (`work[t]`). Network threads set errors
and append to the error queue. `peer` is the client, or the coordinator of a worker.
`ImplementsOutcome` is the refinement of `QueryOutcome`: verdict is `_commitState`,
announced what was broadcast, left whether the query was destroyed.

### UpdateTxn
`stage[i][q]` is how far the query object of `q` on `i` got. An abort that comes while
the main routine executes is remembered in `doomed`: that it then waits, and that
callbacks run once and in order, is what `QueryLifecycle` shows. Chunks are abstracted
to `[query, ver]` per instance; `disk` may be ahead of `synced` until `flush`, and a
crash loses any part of the difference. `Rollback` undoes what the log has of an array
from a version on. Coordinator and worker decide differently: the coordinator from its
own row (`handleErrorOnCoordinator`), a worker from the version in its lock descriptor
after it has waited for the coordinator's row to go, if its part had succeeded
(`handleErrorOnWorker`). Messages from the coordinator are in order; `Reset` loses them.
`Deferred` queries write the version to the row only in `executionPreamble`, which is
why there is a barrier.

### WorkQueue
Every public operation is one critical section; the calls of `spawn()` and `release()`
that follow after the mutex is given up are counted in `toSpawn` and `toRelease`, and
are steps of their own. Overflow keeps the queue an item came from, which is released
when there is room (`PushBack`, `Spawn`). `ctx` is the `SerializationCtx`: for each
queue, how many of its entries name it, since an item that returns to a queue is
recorded there again (at most `MaxRecords` times). `Route` says which queue an item may
go to next; `source` and `ahead` are history for `KeepsOrder`.

### Replication
A store runs in one thread: for every chunk it sends and waits until the item is gone to
the channel, then an eof and the wait for its ack. `wait()` moves the queue of the
destination to the channel while it holds `_repMutex`, sleeps on an event when the
channel is full, and is signalled when a status "space" is published. The channel sends
at most what the last control message announced minus what is in flight; sequence
numbers are per connection (`gen`). The receiver has a soft limit; with fewer slots than
instances a lot decides who gets one. The delay until the inbound queue of a query is
enabled is part of the delay of handling a replica.

### PullSG and Redistribution
Every instance is a source (`src`, `unavail`: its `PullSGContext`) and a puller (`stream`,
`common`: its `PullSGArray`; `merge`: the `MultiStreamArray`; `signals`: the `SyncCtx` of
`PullSGArrayBlocking`). `HandleFetch` is the whole handler of a fetch: drain the input
into the cache, then send what is cached up to the request. A chunk is its position; its
parts are the instances that hold one, so that `Redistribution` can say that a chunk is
handed out with all its parts. Fetch identifiers are abstracted to "at least the last
position-only request of the stream" (`new`), the only comparison the code makes. With
`SinglePass` all attributes of the input move together, and one that is ahead is
unavailable until the others follow. A stream may be ahead in positions, in bodies or in
both; `RequestNextChunk` and `PrefetchSize` decide how much is asked for. `SyncSG` and
`LeaveBarrier` are the end of the redistribution. `Redistributed` is the refinement:
`got` is what the pulling thread has handed out, `ended` the attributes it has dropped.

### ChunkStorage
The files: `hd` is the header file, a sequence of descriptor slots of which `nDisk`
(`nChunks`) count; `log` the records of the two undo logs; `store` the allocated blocks.
The memory: `chunkMap`, `freeHeaders`, `nMem`, `logSize`, `currLog`, all lost in a crash.
The catalog: `versions` and one lock `row` per array, which also tells recovery what to
do. A write is one step under `_mutex`; `CrashInWrite` and `WriteFails` cut it off after
the undo record, after the descriptor or after the header. `RemoveDeadChunk` writes
tombstones. `RemoveVersions` deletes what no kept version needs: `CrashInRemove` and
`RemoveVersionsFails` cut it off after some of its victims. `InitChunkMap` reads the
header file, wipes orphans and outdated descriptors and rebuilds the map; it demands that
no chunk has two descriptors and no block two chunks (`Unique`, `NoExtentsOverlap`), and
the options that repair or skip storage are off, as by default.
`UpdateTxn` has both roles of an instance and one element for all chunks of a version;
here is one instance, with every slot, block and record of it.

The code has four windows after which its files no longer allow what recovery, or a
later removal, expects of them (section 4). `risk` records which of them a behaviour has
met, and the constant `Followed` which of these are pursued: with `{}` a behaviour ends
when it enters a window, so that the properties speak about everything else.

### DataStore
`free` is `_freelists` as a set of blocks; `fl` what the `.fl` file says, or `NoList`. The
recursions of `searchFreelist` and `addToFreelist` and the loop of `makeMoreSpace` take
one step per level (`pc`, `level`, `path`, `blk`), so that a crash may come at each; no
other operation runs meanwhile, because `_dslock` is held. The client frees what it has
freed before, but only until it allocates again (`freed`): this is what recovery does,
and `BlocksAgree` of `ChunkStorage` shows that it does no more. The flusher takes the
store from its set, gets the object, flushes it and drops its reference in steps of its
own; if the store was removed meanwhile, that reference is the last one and unlinks the
file by its name. The flusher runs only if `sync-io-interval` is positive, and the default
is 0: `running` may be either in `Init`, and `Add` puts a store into the set only where it
is true.

## 3. What the runs check

Run a configuration with `tlc -config <cfg> <module>`; times are for two workers.

| run | configuration | result |
|---|---|---|
| `array_locks` | `MCArrayLocks.cfg` | 82 thousand states, all hold |
| `query_lifecycle` | `MCQueryLifecycle.cfg` | 30 thousand, all hold |
| `update_txn` | `MCUpdateTxn.cfg` | 434 thousand, all hold |
| `work_queue`, `work_queue_live` | `MCWorkQueue.cfg`, `MCWorkQueueLive.cfg` | 385 and 11 thousand, all hold |
| `replication`, `replication_live` | `MCReplication.cfg`, `MCReplicationLive.cfg` | 2.0 million and 253 thousand, all hold |
| `pull_sg`, `pull_sg_single_pass` | `MCPullSG.cfg`, `MCPullSGSingle.cfg` | 318 and 80 thousand, all hold |
| `data_store` | `MCDataStore.cfg` | 562 thousand, all hold |
| `chunk_storage` | `MCChunkStorage.cfg` | 1.04 million, all hold |
| `chunk_storage_restart` | `MCChunkStorageRestart.cfg` | `FindsChunks` is violated (section 4) |

Each takes less than three minutes.

**Locks.** `WriterExclusion`: one query at a time may change an array, worker rows and
rows of dead instances included. `HeldLocksNotBusy`: a retry is never blocked by the
query's own rows. `AskedIsLocked`: a running query has a row for every array it asked
for. `EveryoneFinishes`, `LocksDrain`: no circle of waiting queries or recoveries.
(`CompatibleCoordinators`: coordinators never hold modes that conflict according to the
comments of `LockMode`; proved, see section 5.)

**Query object.** `RunsAfterMain`: callbacks never run while the main routine executes,
finalizers only in a final state. `CleanupOrder`: each runs once, undo and record before
the locks go, destroy last. `AllOrNothing`: a query that undid its changes neither
records nor announces a commit, and the reverse. `ImplementsOutcome`: the refinement.
`CommitPossibleInQueue`: the assert of `handleCommit`, as long as aborts come through
the error queue. `Settles`: a decided query leaves the table, with its locks, if its
client was there when it was registered.

**Update transaction.** `CommittedDurable`: a recorded version is flushed on every
instance and nobody takes it away later. `ChunksCovered`: chunks of an unrecorded
version are there only under a lock row of the same instance that names the version.
`VersionsConsecutive`: no update is lost or recorded twice. `UndoAsserts`: the asserts
of both error handlers on the last version. `LocksDrain`: the lock table empties, unless
a connection was lost or a worker gave up on a coordinator that lives.

**Work queues.** `AssertsHold`: the asserts on the counters. `KeepsOrder`: a
single-threaded queue hands items over in order, overflow or not. `NoLostSpawn`: a
started queue with an item and a free turn has a `spawn()` under way. `EveryItemRuns`.

**Replication.** `SyncedIsStored`: when `replicationSync` returns, all replicas of the
query are stored on the receiver. `WindowRespected`: replicas on the wire or waiting on
the receiver are never more than one connection's worth of slots for each connection
there has been, so the receiver's queue need not overflow. `NoLostSignal`: a thread
sleeps in `wait()` only if the channel is full or a signal is on its way. `AssertsHold`:
the asserts on sequence numbers, generations and the head of the queue. `EverySyncEnds`:
every store gets through or fails; no aborted item holds up the queue.

**Scatter/gather.** `CachesBounded`: the asserts of `getPrefetchSize` and the limit of
`drainInputArray`; nobody ever holds or asks for more than it has places for.
`AnswersExpected`: the asserts of `getChunk`, `getPosition` and
`pruneRedundantPositions`; whatever was requested ahead, what comes next is what is
waited for. `NothingStray`: when an instance drops its context, no request and no answer
for it is on the way. `Redistributed`: the refinement; nothing missing, nothing twice, in
order. `Terminates`: everybody gets everything and leaves. `TerminatesOrPolls`: with a
single-pass input the one thing that can keep it from ending is the polling loop of
`nextChunk` (section 4).

**Storage manager.** `ReadsCommitted`: in every recorded version, `findChunk` finds
exactly what committed versions wrote, after any rollbacks, removals and restarts.
`MapOnDisk`: a chunk in the map has a slot of its own that is counted on disk and holds
its descriptor. `NothingLeftBehind`: no chunk of an unrecorded version survives its lock
row, in memory or on disk. `BlocksAgree`: the block of a chunk is allocated to it, and a
rollback frees only blocks that are still those of its chunks or that were freed since
the last allocation; this is what `DataStore` assumes of its client. A restart passes the
checks of `InitChunkMap`.

**Data stores.** `NoOverlap`: blocks of chunks and free blocks are disjoint.
`ListOnDiskSafe`: a list that a restart would read offers no block of a chunk.
`Accounted`: the asserts of the allocator, and without a crash no space is lost.
`EventuallyFlushed`: where the flusher runs, what is dirty gets flushed, however it and
the writers interleave.

### Bounds

* `ArrayLocks`: two queries with different coordinators, two arrays, two requests per
  query (so that promotion, merging of requests and crossed waiting happen), modes RD,
  WR and XCL. CRT comes from promotion; RM and RNF have the conditions of XCL.
* `QueryLifecycle`: one query of each profile; no bound but one waiting cancel or abort
  at a time.
* `UpdateTxn`: two writers of one array with different coordinators, one with a deferred
  version; one crash and one mishap (a lost channel or an abort of a worker on its own)
  at any point. Two instances make each both a coordinator and a worker.
* `WorkQueue`: two queues of two places, four items, two concurrent callers: enough to
  fill a queue, its overflow and its reservations. Items go from one queue to the other,
  back, and again to the queue they are on; three entries of a queue in a context
  (`MaxRecords`). Liveness: two items, queues of one turn, one place, one way. Items are
  symmetric (used only for safety).
* `PullSG`: two instances, one attribute, two positions, caches of one chunk at the
  source. One layout has a chunk with parts on both instances after one that has to
  move; in the second a chunk that moves comes before one for everybody; in the third it
  comes before a chunk of the receiver itself, whose cache has room to prefetch. In all
  of them a puller that took the streams as they come, rather than by position, would be
  wrong. Single pass: one instance, two attributes, three rows, so that one attribute
  gets ahead of the other by more than the cache. Two instances with two attributes are
  beyond TLC's reach.
* `ChunkStorage`: two arrays with one position and three version ids, and logs of one
  record, so that slots and blocks are reused across arrays and the logs wrap. Crashes
  are not bounded. Arrays are symmetric (safety only). The properties also hold for two
  arrays with two positions and two ids, and for one array with two positions, three ids
  and logs of two records.
* `DataStore`: a file of at most eight units, chunks of one and of three units, three
  chunks: blocks are split and merged over two levels and the file grows three times.
  Crashes are not bounded.
* `Replication`: two stores share queue, channel (one place) and receiver (one slot for
  two instances, so that windows of 0 and the lot happen); one fault.

Deadlock is not checked where the system may stop: all queries are over, or no client
sends anything. `Replication` is checked for
deadlock: control messages go on when all stores are over.

### Fairness

* Weak fairness of the steps of a thread, of handling a received message and of a timer:
  every job that is queued is run by some thread of the pool.
* Restarts: an instance that died is started again by its watchdog and recovers.
* `UpdateTxn`: a client that was answered completes or cancels, or its connection ends;
  a changed liveness reaches the workers of a dead coordinator. Main routines that
  cannot go on notice why (`CoordNotices`, `doomed`). Weak fairness is written out with
  the enabling conditions (`CoordCanStep`, `WorkerCanStep`, `CanRecover`), which TLC
  evaluates much faster than ENABLED.
* `PatientSpec` of `QueryLifecycle` adds that locks are obtained, which `ArrayLocks`
  shows; it makes the observation about early disconnects independent of lock waiting.
* `PullSG`: the three threads of an instance make progress while they have something to
  do; connections are reliable and the query does not fail.
* `DataStore`: an operation that holds `_dslock` goes on, and where there is a
  flusher (its period is positive) its thread runs.
* `WorkQueue`: strong fairness of finishing, for items that reschedule themselves (a
  query waiting for locks, which `ArrayLocks` shows to end).
* `Replication`: strong fairness of sending the next message, since every control
  message posts `pushNextMessage` again, and of a control message that announces a
  slot, since the lot is random.

## 4. Findings

**A slot that nobody counts** (`chunk_storage_restart`). `writeChunk` writes the undo
record, which names the descriptor slot, before the header that counts it. If the
instance dies in between with a slot at the end of the file, recovery rolls the record
back and inserts the slot into `_freeHeaders` (`src/smgr/io/Storage.cpp:1895`), although
`nChunks` as read by `open()` does not include it. The next write takes that slot, and as
it came from `_freeHeaders`, `nChunks` is not increased. The chunk is committed; the next
start reads `nChunks` slots and does not find it. The trace has fifteen steps.

The other observations can be reproduced by changing a configuration.

* *Undo log wrapped.* `MCChunkStorageRestart.cfg` with `Followed = {"log"}`, `MaxId = 4`:
  when the current log is full, `writeChunk` starts over in the other one
  (`Storage.cpp:1616`), also when that holds records of an update that may still have to
  be undone. After its rollback a chunk of the aborted version is left in the map, and
  becomes visible in a later version.
* *Slot reused before the lock row is gone.* The same with `Followed = {"slot"}`: a
  rollback frees its slots before the row that asked for it is deleted. If another array
  commits a chunk in one of them, and the rollback is repeated, because the instance dies
  before the row is released or because `doRollback` is retried, the second rollback
  wipes the descriptor of the other array.
* *A dead tombstone.* When `initChunkMap` meets an outdated descriptor without a block,
  `freeChunk(0, 0)` (`Storage.cpp:586`) ends in a division by zero in `addToFreelist`. The
  process dies, but the descriptor is wiped by then, and the next start gets past it
  (`InitChunkMapDies`; `ReadsCommitted` and `NothingLeftBehind` hold nevertheless).
* *A removal that fails.* `MCChunkStorageRestart.cfg` with `Followed = {"removal"}`:
  `removeVersions` erases its victims from the chunk map when it has marked all of them
  free (`Storage.cpp:1098`). If a file operation fails in between, they stay there. Another
  array may commit a chunk in such a slot; the next removal of the first array marks it
  free once more, and with a crash in the middle of that the descriptor is lost.
* *Locks of arrays with equal names in two namespaces.* `MCArrayLocks.cfg` with
  `ArrayName <- MCSameName`: `AskedIsLocked` fails. `LockPtrLess`
  (`include/system/SystemCatalog.h:680`) compares unqualified names; a query that uses
  `ns1.A` and `ns2.A` gets one lock only.
* *`cancel()` and the commit of a worker.* `MCQueryLifecycle.cfg` with `CommitPossible`:
  the operator calls `cancelQuery` in its own thread on every instance, so an `mtCommit`
  may meet an aborted query: the `assert(false)` of `handleCommit`
  (`src/query/Query.cpp:676`).
* *A client that leaves early.* The same with `SPECIFICATION PatientSpec` and the property
  `SettlesUnseen`: between `attachQuery` and the insertion of the query,
  `handleClientDisconnect` (`src/network/NetworkManager.cpp:1033`) finds no query; the one
  that is created afterwards is neither completed nor aborted.
* *Cancel of a committed query.* The same with `AbortPossible`: an autoCommit query is
  COMMITTED from `done()` on (`src/query/Query.cpp:452`) and still registered, so a queued
  cancel calls `handleAbort`, which has an assert against it (`:608-613`).
* *Lost abort.* `LocksDrain` of `UpdateTxn` without its first disjunct: an abort that is
  lost with the connection leaves the lock row of a worker until it restarts, since
  `reconnect()` (`src/network/NetworkManager.cpp:1010`) tells only the queries that still
  exist.
* *An item that goes back to its own queue.* `MCWorkQueueLive.cfg` with `Route <-
  BackAndForth`: `NoLostSpawn` fails. An item put back on its own full queue gives up
  its turn without a `spawn()` (`src/util/WorkQueue.cpp:220`) and may stay there.
  `WorkQueue.h` allows the call; nobody makes it.
* *A request larger than the cache of the source.* `MCPullSG.cfg` with `NumInst = 1`,
  `Layouts <- OneInstance` and `queue |-> 4` in that layout: the puller asks for more
  than the source can cache, and both wait. The defaults (`sg-receive-queue-size` 8,
  `sg-send-queue-size` 16) avoid it; nothing checks them against each other.
* *Polling.* `MCPullSGSingle.cfg` with `Terminates`: `nextChunk` asks again as soon as the
  answer "not yet" is there (`src/array/StreamArray.cpp:466`, "this amounts to
  busy-polling"), and need never get to the attribute that has to move first.
* *A store removed under the flusher.* The `severed` of `DataStore`: the flusher's last
  reference to a removed store unlinks the file by name, also if a new store has created
  it again (`src/util/FileIO.cpp:719`). In the other order `getDataStore` of the flusher
  creates the file of a removed store anew.

## 5. What is proved

Run `tlapm <module>.tla`. All theorems are for arbitrary constants that satisfy the
named assumptions of the modules.

**`ArrayLocks_proofs`** (assumptions: `Coordinator` and `ArrayName` are functions,
`RequestModes` are modes).
* `TypeCorrect`: `Spec => []TypeOK`.
* `LocksExclude`: `Spec => [](WriterExclusion /\ CompatibleCoordinators)`. With the type
  invariant the conjunction is inductive. The argument: deleting rows keeps it
  (`FewerRows`); a row that `CoordLockFree` lets in is compatible with all rows of other
  queries (`FreeMeansCompatible`); a worker's row is a copy of one of the same query, so
  that whatever excludes the original excludes the copy.
* `RetryKeepsLocks`: `Spec => []HeldLocksNotBusy`. Not inductive by itself: the
  strengthening `HeldInv` says that until a query runs its coordinator rows are exactly
  those of the locks it marked `isLocked()`, one per array, and that worker rows are of
  mode WR or above; together with `LocksExclude` no row of another
  query can make the held lock busy (`HeldIsFree`).

**`WorkQueue_*`** (assumptions: finitely many items, limits at least 1).
* `TypeCorrect`: no counter goes below zero.
* `AssertsNeverFail`: `Spec => []AssertsHold`. The asserts are not inductive. The
  invariant `QueueInv` says who owns each unit of a counter: `_outstanding` is at least
  the number of active items, due releases, overflow items that came from this queue and
  entries of contexts that name it; `_reserved` at least the number of reservations and
  timers; and the size exceeds its maximum by no more than the releases that are due.
  `WorkQueue_owners` has the invariant and the counting lemmas, `_calls`, `_moves` and
  `_spawn` one lemma per action, `_theorems` the facts about finite sets and sequences
  (from the library) and the temporal theorems. What the lemmas use of the library is
  collected in `Library`, proved as `LibraryHolds`.

**`DataStore_invariant`, `DataStore_proofs`** (assumption: block sizes are positive, the
minimum allocation is the least of them, requests fit, `NoBlock` is not a block).
* `BlocksNeverOverlap`: `Spec => []NoOverlap`.
* `ListOnDiskNeverStale`: `Spec => []ListOnDiskSafe`.

Neither is inductive: a crash replaces the free list by what is on disk, a merge makes a
block out of two, and a second free may find its block merged into a larger one. The
invariant `Inv` has the types and six parts. `Files`: what is in memory agrees with the
files; while the `.fl` file is valid it equals the list, and no operation is under way.
`Stack`: the recursion of `searchFreelist` is for sizes that double. `Placed`: all blocks
are aligned to their size and within the file. `Separate`: free and used blocks are
apart. `InHand`: what the block that the running operation holds may have to do with the
list. `FreedAgain`: a block that may be freed again overlaps no chunk, and is clear of the
list, part of a larger free block, or in the list without its buddy; in the second case
`isParentBlockFree` finds the larger one, in the third the second free changes nothing.
The core of the argument is the arithmetic of aligned blocks (`Multiple`, `AlignDown`,
`OddMultiple`, `EvenNext`): rounding an offset down gives the aligned block around it,
and a block with its buddy is an aligned block of twice the size. `DataStore_invariant`
has these lemmas and the steps that leave the list alone; `DataStore_proofs` splitting,
merging, growth and freeing, and the theorems.

**Only model-checked.** Liveness under fairness is outside of what TLAPS does here, as
are `ENABLED` and induction over sequences; `EveryoneFinishes`, `LocksDrain`, `Settles`,
`EveryItemRuns`, `EverySyncEnds`, `Terminates`, `EventuallyFlushed` and `NoLostSpawn` are
checked by TLC, and so are the invariants of `QueryLifecycle`, `UpdateTxn`,
`Replication`, `PullSG` and `ChunkStorage`, `KeepsOrder`, `Accounted`, and the
refinements of `QueryOutcome` and `Redistribution`.

## 6. What could come next

Theorems: `CommittedDurable` and `ChunksCovered` of `UpdateTxn` (invariant: the row of
the coordinator names the version as long as it is undecided), `CleanupOrder` and
`AllOrNothing` of `QueryLifecycle` with the refinement of `QueryOutcome`,
`WindowRespected` of `Replication`. Modules: liveness versions (`Cluster.cpp`), the
prefetching of `ParallelAccumulatorArray`, and MPI slaves.

## 7. What is not modelled

* Shutdown of an instance; requests for it arriving in the middle of the protocols.
* The connection to Postgres is reliable: retries after a broken connection
  (`runRestartableWork`) are not modelled, except for the repeated rollback of
  `ChunkStorage`.
* More than one array per update query; more than one sender of replicas to a receiver
  (several senders may win the lot at once and overflow the queue, whereupon the query
  aborts); more than one redundant copy.
* `reconnect()` to an instance that is marked dead (`isDead`,
  `src/network/NetworkManager.cpp:1008`), which leaves the queries alone: they are aborted
  by the change of liveness. In `Replication` both instances are alive.
* A control message of an old connection read after one of the new connection.
* A query that fails during a redistribution: what happens then is `QueryLifecycle`; the
  caches are simply dropped.
* Loss of power. A crash is the death of a process: what was written to a file stays
  (except in `UpdateTxn`, where what was not flushed may be lost). A file that grew and
  shrank back would leave `DataStore` with blocks beyond its end.
* The LRU cache of chunk bodies, clones and replicas of a chunk in the chunk map, arrays
  with several attributes, arrays without versions (`dstVersion` 0), I/O errors in
  `DataStore` (except that the `.fl` file cannot be invalidated), a crash half-way through
  `initChunkMap` other than by the tombstone.
* `closeDataStore` without removal, which only a unit test calls.
* Which liveness version a query was created with; error queues at their limit.
* Everything that computes on data: operators, parser, optimizer, types, expressions,
  encodings, compression, linear algebra, client libraries. `PROJECT.json` gives the
  reason for each.
