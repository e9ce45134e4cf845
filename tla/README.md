# HDDcoin in TLA+

TLA+ modules, TLC runs and TLAPS proofs for the core of HDDcoin
(`src/hddcoin/`): how the full node's chain, coin table, caches and height map
stay consistent through reorganisations, syncs, failed transactions and
restarts; the locks and the database wrapper this rests on; how the mempool
follows the chain; and how a harvester's plots reach its farmer.

## 1. The system

### Inventory

| component | state it keeps | operations | talks to |
|---|---|---|---|
| `Blockchain` (`consensus/blockchain.py`) | `__block_records`, `__heights_in_cache`, `_peak_height`, the height map | `add_block`, `advance_fork_info`, `_reconsider_peak`, `warmup`, `clean_block_record(s)`, `_load_chain_from_store` | the stores, `FullNode`, pre-validation |
| `ForkInfo`, body validation (`consensus/block_body_validation.py`) | additions, removals and hashes of a fork since it left the main chain | `reset`, `include_spends`, `validate_block_body` | `CoinStore` |
| pre-validation (`consensus/multiprocess_validation.py`) | none of its own; writes the shared record cache | `pre_validate_blocks_multiprocessing` | `Blockchain`, process pool |
| fork search (`consensus/find_fork_point.py`) | two cursors | `lookup_fork_chain`, `find_fork_point_in_chain` | `Blockchain.prev_block_hash` |
| `BlockHeightMap` (`full_node/block_height_map.py`) | hash per height, sub epoch summaries, two cache files | `create`, `update_height`, `rollback`, `maybe_flush` | the database, the file system |
| `BlockStore`, `CoinStore` | tables `full_blocks`, `current_peak`, `coin_record`; `block_cache` | `add_full_block`, `rollback`, `set_in_chain`, `set_peak`; `new_block`, `rollback_to_block` | `DBWrapper2` |
| `DBWrapper2` (`util/db_wrapper.py`) | one write connection, lock, current writer, savepoint names, reader pool | `writer`, `writer_maybe_transaction`, `reader`, `reader_no_transaction` | aiosqlite's threads, SQLite |
| `FullNode` (`full_node/full_node.py`) | sync state, seen caches, queues | `add_block`, `add_block_batch`, `sync_from_fork_point`, `peak_post_processing` | everything above |
| `PriorityMutex`, `LimitedSemaphore` (`util/`) | queues of waiting tasks, the active one, free places | `acquire` | `FullNode`, `FullNodeAPI` |
| plot sync (`plot_sync/`) | sender: message list, ids, awaited response; receiver: current and last sync, plots | `sync_start`, `process_batch`, `sync_done`, `_send_next_message`, `_reset`; `sync_started` ... `sync_done` | harvester's refresh thread, farmer |
| `PlotManager` (`plotting/manager.py`) | loaded plots, files that failed to open or lack keys, duplicates | `_refresh_task`, `refresh_batch`, `reset` | the sender of plot sync, from a thread of its own |
| `Mempool`, `MempoolManager`, `PendingTxCache`, `ConflictTxCache` | items, spent coins index, height; peak, seen bundles; pending and conflict caches | `add_to_pool`, `remove_from_pool`, `new_tx_block`; `add_spend_bundle`, `new_peak`; `add`, `drain` | `Blockchain`, `CoinStore`, `FullNode` |
| `FullNodeStore`, `SyncStore` | sub-slots, signage points, unfinished blocks; peers and peaks | | `FullNode` |
| wallet, data layer, farmer, harvester, timelord, server, daemon, seeder, RPC, GUI | | | |

### What is hard

* One block can cause a reorganisation: rows deleted, un-spent and re-applied,
  `in_main_chain` rewritten, the peak moved, and then, after a suspension
  point, the memory that mirrors all this.
* A block on a fork is validated against a coin table that belongs to another
  fork. The difference is bridged by a fork height and a `ForkInfo`, which a
  long sync carries from block to block.
* The caches are written before the outcome of the transaction is known.
* Tasks are cancelled at any `await`; the process dies at any instruction.
* The height map's files are written one after the other and only after a
  thousand changes.
* A statement whose `await` is cancelled is run all the same by the
  connection's thread, while the task that sent it has moved on.
* A waiter can be cancelled in the instant in which the lock is handed to it.
* A transaction is validated off the mutex and added under it, at a peak that
  may be another by then; after a new peak the pool is updated or rebuilt one
  `await` at a time; and blocks reach it on three different ways.
* The plot manager's refresh thread feeds the sender of plot sync while the
  event loop sends, times out, retries and resets.

### What makes each part correct

The coin table is the replay of the peak's chain; only valid chains are
stored and no valid block is refused; the peak is the heaviest block and can be
looked up at all times; caches answer for what is stored; a carried `ForkInfo`
describes its fork; the fork search returns the fork; the height map is the
main chain after every start. One task at a time works under the blockchain's
mutex, the right one is next, and no lock, place or connection is lost. A
transaction of the database is atomic, isolated and, nested or not, undoes what
it wrote and nothing else. The mempool holds transactions that are valid at its
peak and do not conflict, apart from spends that may be deduplicated, and gives
up cheap ones for dear ones only. A farmer shows the plots its harvester has.

## 2. Modules

| module | models | lines of code |
|---|---|---|
| `BlockTree` | the blocks a node may be offered, their fields, and the reference definitions: chains, body validity, fork height | types of `FullBlock`, `BlockRecord` |
| `ChainLedger` | abstract specification of `Blockchain`: accepted blocks, peak, unspent coins | |
| `Blockchain` | `Blockchain`, `ForkInfo`, the stores, the two ways blocks are fed | `blockchain.py`, parts of the others |
| `PriorityMutex` | the blockchain's mutex | `util/priority_mutex.py` |
| `LimitedSemaphore` | the gate of `new_peak` handlers | `util/limited_semaphore.py` |
| `NodeLocks` | the two composed: handlers that pass the gate and then take the mutex, transactions that take the mutex | parts of `full_node.py`, `full_node_api.py` |
| `DBWrapper` | writers, readers, connections and their threads | `util/db_wrapper.py` |
| `Mempool` | the pool and the two caches, as operators on their values | `mempool.py`, `pending_tx_cache.py`, `eligible_coin_spends.py` |
| `MempoolManager` | `add_transaction`, the three ways blocks come, `new_peak` and the announcements, over `ChainLedger` | `mempool_manager.py`, parts of `full_node.py` |
| `ForkPoint` | the two fork searches, one step per loop iteration | `find_fork_point.py` |
| `BlockHeightMap` | height map, summaries, files | `block_height_map.py` |
| `PlotSender` | what the sender queues and how it takes an answer, as operators on its state | `plot_sync/sender.py` |
| `PlotReceiver` | the receiver's handlers, likewise | `plot_sync/receiver.py` |
| `PlotSync` | the two composed with the refresh thread, the connection and its life cycle | `plotting/manager.py`, `harvester.py`, parts of the others |
| `MC*` | block trees and constants for TLC | |
| `*_proofs` | theorems | |

### Blockchain

A block is a model value; `Parent`, `HeightOf`, `Weight`, `Adds`, `Spends` and
`PreError` are functions of it, and `Anc` is its ancestor function, so no
recursion is needed. `BlockTree` assumes that they fit together: heights follow
parents, genesis blocks are the lightest and touch no coins, and a chain that
spends nothing twice creates nothing twice (a coin id commits to its parent
coin, a reward coin's parent to its height). A block whose height does not
follow its parent's is therefore not among the inputs; the code refuses it
(`add_block`, `INVALID_HEIGHT`).

| variable | code |
|---|---|
| `db`, `txn` | committed tables, and the tables as the open transaction sees them: `full_blocks` (`blocks`, `main`), `current_peak`, `coin_record` (`conf`, `spent`) |
| `records`, `cachedHeights` | `__block_records`, the keys of `__heights_in_cache` |
| `blockCache` | entries of `block_store.block_cache` without a committed row |
| `heightToHash`, `peakHeight` | `__height_map`, `_peak_height` |
| `pc`, `block`, `forkInfo` | the `add_block` in progress |
| `syncing` | a long sync is carrying `forkInfo` |
| `result` | the last call's `AddBlockResult` or exception |
| `astray` | history: the RELEASE of a block that moves the peak was cancelled, or that of a node's very first block failed |

`add_block` runs under `blockchain.priority_mutex`, so at most one is in
progress. It is cut where it can be interrupted with an effect: validation
(`AddBlock`, `AddBlockSyncing`), the transaction's body with `add_block_record`
(`WriteTxn`), the RELEASE (`Commit`), and the memory update (`UpdateMemory`).
`TxnAborts` is any exception or cancellation inside the transaction;
`ReleaseFails` and `ReleaseCancelled`, enabled by the constant `Faults`, are the
two other endings of a RELEASE, whichever block it is for. After either the
caches keep the record of the block. `UpdateMemory` includes the assertion of
`update_height`, which such a record can make fail after the commit.
`PreValidationFails` is a rejected batch; `SyncBegin`, `SyncSkip`, `SyncEnd` are
the sync around the calls; `Warmup`, `CleanBlockRecord`, `CleanBlockRecords`
the cache; `Restart` is a crash at any point followed by a start.

Rules of body validation other than number 15 depend on the block alone and are
not represented; neither is what `BlockHeightMap` does on a restart, which has
its own module: here the map is read back from the main chain.

### Locks

`asyncio` runs one task at a time, so what lies between two awaits is one step.
`Acquire` is `PriorityMutex.acquire` up to its wait, `Enter` the return from the
wait, `Finally` the finally block, which runs when the body ends (`Exit`) and
when the wait is cancelled (`Cancel`). An element is its task and the number of
its call; that `deque.remove` cannot tell two elements apart (no field of
`_Element` takes part in comparisons) is the definition `Removed`. `skipped` is
a history variable: a wait was cancelled while an earlier one of the same
priority was still on. In `LimitedSemaphore` the `asyncio.Semaphore` inside is
external and modelled with its queue of futures: a waiter that was given a unit
stays in the queue until it runs, and passes the unit on if it is cancelled.
`NodeLocks` composes the two the way the node does: a `new_peak` handler holds
its place while it takes the mutex at high priority, any number of times, and a
transaction takes the mutex at low priority.

The module `Blockchain` (at most one `add_block` in progress) and the module
`MempoolManager` (`job`, one holder) assume what `MutualExclusion` states.

### DBWrapper

The database is the set of the rows written to it. `savepoints` is SQLite's
stack of them, each with the rows there were when it was set, and `queue` holds,
for each connection, the statements its aiosqlite thread has yet to run
(`RunStatement`). A task has a stack of the contexts it entered; `at` says what
it awaits. `OpenWriter` and `OpenReader` are the context managers up to their
first await, `TakeLock`, `EnterWriter`, `TakeConnection`, `EnterReader` what
follows, `Leave`, `Finally`, `Released`, `ReaderEnds` the way out. `Cancel` is a
cancellation at any of these awaits: the statement stays with the thread, and
its result reaches nobody (`Awaited`). An exception in a writer sends ROLLBACK
TO, awaits it, and then sends RELEASE (`Finally`), as the finally block does. After
a cancelled task has left a context, the model lets it go on with whatever
surrounds that context, where an exception may or may not be caught.

`leaked` is a history variable: the connections with a BEGIN, a ROLLBACK or an
outermost SAVEPOINT whose await was cancelled (see "Known deviations").

### Mempool and MempoolManager

A spend bundle is a model value with the coins it spends, its fee, its cost and
the two heights between which it may be included. `Dedup` are the coins it
spends in a way eligible for deduplication. `check_removals` looks for conflicts
over the other coins only (`Conflicts`), whatever the solution, so two items of
the pool may share a coin if the later one spends it as eligible. Solutions are
compared only when a bundle is made (`Bundle`, `Shared`). All eligible spends of
a transaction are taken to have one solution (`Solution`) and to save the same
cost (`SpendCost`). Fee rates are compared by cross-multiplication where the
code compares floating point quotients. The order of arrival (the
column `seq`, the order of Python's dictionaries) is a relation. The sums over
windows of rows that the pool leaves to SQLite are `CumulativeCost`.

The chain is `ChainLedger`, which `Blockchain` implements: `Accept` is what
`add_block` did. `job` is what the holder of the mutex does with new blocks:
add them (`AddBlock` one, `BatchBlock` several), then `NewPeak` up to the first
await, then one transaction at a time of the old pool (`Rebuild`), then of the
caches (`Drain`, `Retry`), then the announcements (`Announce`, or
`AnnounceUnlocked` for `add_block`, which leaves the mutex first). `Submit` is
`add_transaction` up to the await of `pre_validate_spendbundle`, `AddTransaction`
its part under the mutex. `Cancel` strikes at any await of this, `Restart` at
any time. In a long sync the mempool is not told of blocks until `FinishSync`.
`missed` and `cancelled` are history variables: the chain moved and `new_peak`
was not told of everything; a task was cancelled inside it.

Not represented: locks in seconds and relative locks, the limit on the amount of
fees, the limits on the number of items in the caches, the fee estimator.

### ForkPoint

`Lower1`, `Lower2`, `Walk` are iterations of the three loops; `fn` chooses the
function. `find_fork_point_in_chain` peels its first level without a look-up,
which is the same step here. `Blockchain` uses the result as one expression
(`IsForkHeight`); this module and its theorem justify that.

### BlockHeightMap

The database is reduced to its peak. `Start` is `create` with
`_load_blocks_from`, `NewPeak` the commit of a heavier block, `UpdateMap` the
rollback and updates that follow, `FlushHashes` and `FlushSes` the two writes
of `maybe_flush`. `Crash` can strike in between, and `FlushCancelled` is a
cancellation that returns control without the rest. Two history variables mark
what the code does not undo: `tail`, a flush wrote a map over a file that was
longer, which keeps the end of the other chain; `stale`, a start met a summary
of another block at the height of the peak or above, where `create` leaves it.
A file write is taken to happen whole or not at all: torn writes are not
modelled. The windows of 400 and 5000 rows in which the loop reads the database
are not visible in the result and are left out.

### PlotSync

One harvester and its farmer. `pm` is the plot manager, `thread` its refresh
thread, `sender` with `task` and `awaited` the `Sender` and its `_run` task,
`closing` the progress of `on_disconnect`, `receiver` the farmer's `Receiver`,
`toFarmer` and `toHarvester` the connection.

* The thread: `BeginRefresh` lists the directories; `RefreshStarted`,
  `BatchProcessed`, `RefreshDone` are the three events with the sender's method
  each calls; `DropMissing` and `RefreshBatch` are the work in between. An
  assertion that fails in `_add_message` (no sync is active) empties the plot
  manager, as any exception does (`RefreshFails`).
* The task: `SendNextMessage`, `Timeout`, `ReceiveResponse`. Time stamps are
  reduced to what `set_response` asks of them: a time-out marks everything on
  the way as expired. Sync ids are seconds of `clock`, so that two syncs of one
  second, and the id one ahead that this causes, are covered.
* `_reset` is two steps, `Reset` and `ResetRebuilds`, because the thread can
  see the cleared sync id in between. While the second waits in `sync_start`,
  the whole event loop does.
* `ConnectionCloses` drops what is on the way and the farmer's receiver;
  `OnDisconnect`, `ThreadJoined`, `AwaitClosed` are the harvester's side;
  `Handshake` is the next connection. `await_closed` runs before the next
  handshake is handled, as it is scheduled when the old connection closes.

A message is an identifier and a body. The lists in the bodies name files; which
copies of a plot a batch loads and which become duplicates is stated as the
outcome of the loop over the batch (`Opened`, `FirstCopies`, `Taken`), and the order in
which files are handled is their rank (`Sorted`).

The connection is a websocket: it delays, but neither loses nor reorders while
it is open. Each handler of the receiver is one step because the callback it
awaits does not suspend. Files are numbers; `Name` says which are copies of one
plot. Not represented: the cache of opened plots, plot sizes and compression
levels, displayed counters, and exceptions of the thread between the started
and the done event other than the assertion.

## 3. Runs

| run | shows | states |
|---|---|---|
| `blockchain` | all safety properties and the refinement of `ChainLedger`, on the tree below, no faults | 29,269 |
| `leftovers` | with a RELEASE that fails or is cancelled at any block, rejected headers and summaries, and a second genesis block whose chain shares nothing with the first (fork height -1): the peak in memory is always a stored block and the height map its chain (`PeakSurvives`), and the coin table is the peak's until memory and database part (`LedgerUnlessAstray`) | 182,471 |
| `fork_point` | both fork searches, every pair of 13 blocks, and their termination | 2,044 |
| `height_map` | map and summaries after crashes and reorganisations, to longer chains and to shorter ones | 4,206 |
| `plot_sync` | the farmer shows what the plot manager has, and both name the same last sync, whenever they are quiet | 1,841,473 |
| `plot_sync_ends` | every sync ends | 105,192 |
| `locks` | one task at a time, in the right order, nobody forgotten, with cancellations in both queues | 95,912 |
| `db` | atomic and isolated transactions, stable and fresh snapshots, nothing lost, with cancellation at every await | 370,270 |
| `mempool` | the pool fits the chain through replacement, eviction, expiry, a reorganisation and back, a cancellation, a restart or a long sync | 688,773 |
| `cancelled`, `mutex_cancelled`, `mempool_announced` | end in a violation, see below | |

    g - c1 -+- a2 - a3          two forks that overtake each other twice
            |   \- x3           (a2, then b3, a3, b4), a pair of equal weight
            +- b2 -+- b3 -+- b4 (a2, b2), three blocks with bad bodies
                   |      \- z4 (x3, y3, z4), a coin spent on both forks,
                   \- y3        a reward coin created on both

The tree is the smallest on which two reorganisations in a row happen, so that
a coin is created, removed, created and spent again; `BlocksCacheSize = 2` makes
cleaning reach below the forks while they are in use. `PreValDepth = 0` loads
only the parent, the least the code can do; more only warms the cache.
`leftovers` has one fork of this tree and beside it `d1`, which is rejected for
its header, `x3`, rejected for its summary, and `q0 - q1`, another genesis block
with a child heavy enough to replace the chain, until `a3` takes it back. In
`height_map` two forks of which the second, three blocks high, overtakes the
first, four blocks high, and loses to it again.
`FlushThreshold = 2` (1000 in the code) makes flushes happen between any two
reorganisations.

In `plot_sync` three files in batches of two, two of them copies, give a plot
in each batch and a duplicate that can take its plot's place; one time-out is
enough for a message to arrive twice, two refreshes for a sync that reports a
difference, one disk change for a removal or a file that fails or lacks keys,
one failure for an initial refresh after a finished sync, two connections for a
reconnection at any point. `plot_sync_ends` trades files and disk changes for a
second time-out, which makes two copies overtake an answer.

In `locks` three handlers meet two running places and one waiting place, so one
can be cancelled in the gate while two contend for the mutex with two
transactions; four calls of `acquire` are one more than it takes for a holder,
an earlier waiter and a later one that is cancelled; two cancellations can hit
both kinds. In `db` two tasks open three contexts in all, so that one task nests
two of any kind while the other waits or reads; three statements are a write
before, inside and after a nested context or a pair of reads around a commit;
one read connection makes two readers contend; two cancellations let a second
one strike in what the first one set going. In `mempool` the tree has a
transaction block on each fork at different heights, a block that is none on
each, and a return to the first fork; of the five transactions one replaces
another in the pool or keeps it out until a block spends one of its coins, two
wait for a height and conflict, one (`w`) needs the room of one of these, spends
a coin that only one fork has and, as eligible for deduplication, a coin that
`p` spends as well, and three expire.
`SeenMax = 1` makes the set of seen bundles overflow. One task
submits; two would only repeat what blocks do to a transaction between its two
steps. One fault, because a cancellation, a restart and a long sync each end
what the others disturb.

`Converged` and `SyncEnds` set aside, through the history variable `disturbed`,
a reset that cuts into a refresh and a refresh that starts inside a reset. The
first loses plots (see below). The second blocks the harvester: `_reset`
waits on the event loop for a sync that only the event loop can send. The
window is the few instructions between `sender.py` 151 and 272.

### Known deviations

Three runs end in a violation. Each states what a docstring, a test or an
assertion of the code says:

* `cancelled`: a task is cancelled while it awaits the RELEASE. The connection's
  thread commits, the except clause keeps the old `_peak_height`, and the coin
  table is then that of a peak memory does not know of. One cancellation is
  enough: `a2` is committed that way; `b2` extends `c1`, the peak in memory, so
  that nothing is rolled back; and `y3` is accepted although it spends a coin of
  `a2` (`StoredChainsValid`). A restart before `b2` would have repaired it.
* `mutex_cancelled`: a wait for the mutex cancelled behind an earlier one of its
  priority removes that one's element instead of its own. The mutex is later
  handed to the cancelled element, and everybody waits for ever
  (`MutexServesAll`). `locks` and the proofs show that nothing else goes wrong:
  exclusion holds all the same, and until such a cancellation so do order and
  service.
* `mempool_announced`: two waiting transactions become due together and the
  second replaces the first; `new_peak` reports both as added, and the look-up
  of the first fails an assertion (`AnnouncedPresent`).

Others are reproduced by changing a configuration; the passing runs keep clear
of them by the constants or the history variables named.

| what | where | to see it |
|---|---|---|
| a batch rejected for its sub epoch summary leaves records of blocks that were never added in the cache | `multiprocess_validation.py` 292, 299 | `CachesBacked` in `leftovers` |
| so does a failing RELEASE, and a child of such a block is then stored without its parent | `blockchain.py` 448, 467-474 | `StoredConnected` in `leftovers` |
| the RELEASE of the very first block fails and its record stays: a child is committed as the peak although genesis has no row, `update_height` then raises after the commit, genesis itself is refused as `ALREADY_HAVE_BLOCK`, and a node started on this database finds no chain down to genesis and stops | `blockchain.py` 448, 467-474 | `LedgerMatchesPeak` in `leftovers` |
| a flush writes the map of a shorter chain over the file of a longer one and leaves its end; a later start takes the hash there for good | `block_height_map.py` 149-158, 209 | `HashesMatchChain` in `height_map` without `tail` |
| `create` does not remove a summary of another chain at the height of the peak or above | `block_height_map.py` 118-119 | `SesMatchChain` in `height_map` without `stale` |
| an answer after the time-out during a refresh can end in a reset, and the plots loaded after it never reach the farmer | `sender.py` 239 | `ResetConverges` in `plot_sync` |
| the await of an outermost SAVEPOINT is cancelled: the savepoint is set, nobody releases it, and later writers commit nothing, although the comment at 284-287 counts on a transaction per outermost writer | `db_wrapper.py` 240 | `KeptIsAlwaysCommitted` in `db` |
| the await of a reader's BEGIN or ROLLBACK is cancelled: the connection goes back to the pool inside a transaction, and the next reader sees old rows | `db_wrapper.py` 309, 315 | `ReadsAreFresh` in `db` without `leaked`, `MaxOpens = 4`, `MaxDepth = 2` |
| `_finish_sync` reports no removals; if the sync added exactly one transaction block, `new_peak` takes its fast path and keeps what that block spent, so that the next block may be made of spent coins | `full_node.py` 1361 | `BundleUsable` in `mempool` |
| a batch that fails after it moved the peak does not tell the mempool | `full_node.py` 605 | `PoolUnspent` in `mempool` without `missed` |
| `new_peak` does nothing for a peak that is no transaction block, so after a reorganisation or a batch that ends at one the pool stays as it was for the abandoned chain until the next transaction block | `mempool_manager.py` 607 | `PoolUnspent` in `mempool` if `NewPeak` leaves `missed` alone |
| a transaction that waits for the height the peak has just reached is valid for the next block and waits on, although `add` says items are "re-tried once their height requirement is satisfied" (64-65) | `pending_tx_cache.py` 99 | `RetriedInTime` in `mempool` with `>` for `>=` |
| a coin that an earlier item of the pool spends as not eligible and a later one as eligible goes into a bundle twice | `mempool_manager.py` 569, `eligible_coin_spends.py` 62-75 | `BundleSpendsOnce` in `mempool` |
| what a transaction replaces is removed before `add_to_pool` decides, and stays out when it refuses | `mempool_manager.py` 343 | `Admit` |

Smaller disagreements need no run to see. `clean_block_record` clears the
records at the height its docstring calls the minimum to keep
(`blockchain.py` 854 and 860), and stops at the first height without a key
instead of clearing everything below (861). `PeakAvailable` shows that the
record of the peak survives. `advance_fork_info` does not empty the fork for a
block of the main chain, as its docstring says; the fork is merely longer than
necessary, and `CarriedForkInfoOK` holds.

Fairness is assumed in `ForkPoint` (`WF_vars(Next)`): the event loop resumes a
coroutine whose read has completed; and in `PlotSync`: the refresh thread and
the two event loops run, and an open connection delivers. `OnDisconnect` is
strongly fair because a task whose send fails resets over and over and holds
the event loop each time, but sleeps for the time-out in between. Refreshes,
time-outs, failures and connections are not fair. In `NodeLocks` and `DBWrapper`
the event loop resumes every task that can go on, the connections' threads run
what they are sent, and bodies end (those of the node await finite work);
nothing forces a task to begin or to be cancelled. `CHECK_DEADLOCK` is off in
`ForkPoint`, where the call ends, and in `PlotSync`, `NodeLocks`, `DBWrapper` and
`MempoolManager`, where nothing need happen once the bounds are used up or every
block is known; everywhere else deadlock is checked.

## 4. Proofs

Each theorem holds for every value of the constants its module allows. The
hypotheses beyond that are named; each of them is either a known deviation of
section 3 or what sets one aside.

### Blockchain

`BlockTree_proofs` holds facts about ancestors, and that a set of naturals has a
least element, which stands in for induction. `Blockchain_proofs` proves
`TypeCorrect` for every set of faults. Under `NoFault` (the RELEASE neither fails
nor is cancelled, and no batch is rejected for its sub epoch summary: the run
`cancelled` and the first three deviations of the table) it proves

* `Invariance`: `Spec => []Inv`;
* `LedgerCorrect`, `ValidationSound`, `ValidationComplete`, `ApplyNeverFails`,
  `PeakCorrect`, `PeakAlwaysAvailable`, `CachesHoldStored`, `ForkInfoCorrect`:
  the invariants the run `blockchain` checks (`ApplyNeverFails` covers the
  assertion of `update_height` after the commit too);
* `PeakOnlyAdvances`: the action property `PeakAdvances`;
* `LedgerRefinement`: `Spec => ImplementsLedger`.

None of the invariants is inductive alone. `Inv` is `TypeInv` and `LedgerInv`,
whose parts lean on each other: the coin table is the replay of the peak's
chain (`DBInv`) only because the `ForkInfo` that was applied describes the fork
(`ForkInfoOK`); validation is exact only because the coin table is that replay
up to the fork height; the fork height is on the main chain because the height
map is the chain of the peak (`MapInv`); the slow path finds its blocks because
the caches name stored blocks only (`CacheInv`); and the open transaction
already satisfies `DBInv`, so that the commit is a plain assignment (`CallInv`).

The central lemmas say that `include_spends` keeps one height per coin, that
rule 15 against `db` and a `ForkInfo` is `BodyOK`, and that rolling back to the
fork and applying the fork replays the new chain.

### ForkPoint

`ForkPoint_proofs` proves the loop invariant `WalkInvariant` and from it
`LookupForkChainCorrect` and `FindForkPointCorrect`: above the cursors the
chains are apart, the cursors are ancestors of the arguments at the same height,
and the recorded entries are block 2's chain above it.

### BlockHeightMap

`BlockHeightMap_proofs` proves `MapInvariance`, `HashesCorrect` and
`SummariesCorrect` for every block tree: weight and height need not agree, and a
heavier chain may be shorter, as in HDDcoin, where difficulty changes. `MapInv`
holds until a flush leaves a `tail` (`MapUnlessTail`), the summaries until in
addition a start meets a `stale` one (`SummaryUnlessStale`); what happens after
either is a known deviation. That no genesis block includes a summary
(`MapAssumption`) follows from `difficulty_adjustment.py` 160, which allows none
in the first sub epoch.

The files are what makes the invariant hard. After a crash between the two
writes, or a cancelled flush, they stem from different moments and may belong to
different forks. What holds throughout is that the hashes in the one file are a
whole chain of the tree, which may be longer than the peak's (`HashFileInv`), that
the summaries in the other are those of a chain, not necessarily the same
(`SesFileInv`), and that map and file agree below the first dirty height
(`DirtyInv`). A start walks down from the peak until a hash agrees with the
file; below that height two chains that meet are the same (`SamePrefix`).

### DBWrapper

`DBWrapper_proofs` has four layers, each for any number of tasks, connections,
nested contexts, statements and cancellations.

* `BaseInvariance`: how the stacks of contexts, the lock, its waiters, the pool,
  the connections in use and the queues of statements fit together. From it
  follows `NoConnectionLost`.
* `WriterInvariance`. The thread runs statements long after they were sent, and
  runs those whose await was cancelled too, so the rows in the database say
  little about what the tasks believe. The proof follows the trace of states
  from the database as it is through the queue: at its end the savepoints are
  those of the contexts that are open, and no state committed on the way holds a
  row that was undone or belongs to an open writer. Sending a statement extends the trace at its end;
  running one drops its head. `RollbackHolds`, `CommitHolds` and
  `OpenTransactionsHidden` follow.
* `ReaderInvariance`: each reading connection is in a transaction exactly while a
  reader that sent BEGIN is open on it, and its snapshot is what its
  readers have seen; then `ReadsFresh`.
* `SnapshotsStable`: the action property `SnapshotStable`.

`CommitHolds`, `ReadsFresh` and `SnapshotsStable` speak of connections outside `leaked`, as
the properties do: a cancelled outermost SAVEPOINT, BEGIN or ROLLBACK breaks
them (known deviations). `RollbackHolds`, `OpenTransactionsHidden` and
`NoConnectionLost` need no such condition.

### PlotSync

`PlotSync_proofs` proves, for any number of files, batches, time-outs,
refreshes, failures and connections, `SidesInStep`, `LastSyncCorrect` and
`FarmerConverges`.

`SidesInStep` is the protocol without its content. A message that timed out is sent
again, so several copies of it, and several answers, can be on the way. What is
invariant: everything on the way to the farmer is a copy of the sender's next
message; only the last copy can still be answered in time; and the receiver has
either taken up everything before that message, or that message too. This is why a duplicate
is recognised by its number, and why a late answer never advances the sender.

`FarmerConverges` adds what the messages say (`Content`). The receiver has
noted just what the first messages named (`Knowing`, `Told`). While a refresh
runs, what the messages name so far together with what the receiver shows is
what the plot manager has (`Promise`, `Reporting`); when the refresh is over the
same holds of all messages and the last of them is the done message; once that
is taken up the farmer shows the manager's plots. After a failure the manager
is empty and its next sync, an initial one, starts the receiver from nothing.
The history variable `disturbed` sets aside the two cases named in section 3.

### Mempool

`MempoolManager_proofs` proves `MempoolInvariance` for every block tree, set of
transactions, limit, number of tasks and number of faults, and from it
`PoolLocksHold`, `PoolSpendsUnspent` and `PendingRetried`, and beside it
`PoolFreeOfConflicts` and the action property `EvictionsFair`.
The strengthening is about what the parts know of each other. `ToldInv`: unless
something was missed, the mempool's peak is the last transaction block of the
chain (`Current`), or the holder of the mutex, which is about to tell it, has
the coins the new peak spends in its list (`SpentTold`). `UnspentInv`: the coins
of the pool are unspent at the mempool's peak. `WaitingInv`: what waits below
the peak's height is about to be drained. The lemmas they
rest on say what `add_to_pool`, the verdict and the pending cache can put in,
and that a chain without transaction blocks leaves the coins alone
(`LastTxUnspent`). That the fast path is taken only for the very next
transaction block (`NextTxBlock`) is what makes it sound.

`EvictionsFair` needs of the past that the items of the pool are finitely many
and came one after the other (`Ordered`), so that fee rate and arrival order
them totally (`AheadFacts`). Its argument: what `add_to_pool` drops for want of
room lies behind the item at which `get_min_fee_rate` stopped, because sums over
the pool only shrink while conflicting and soon expiring items leave
(`CumulativeSmaller`); and all that stays costs no more than the sum up to the
last item that stays (`LastItem`). That such sums grow with the set and do not
depend on the order in which the fold `SumFunctionOnSet` takes the items
(`FoldExists`, `SumRemove`, `SumMonotone`) is shown without an induction
schema: a smallest set for which it fails would have a smaller one.

`PoolFreeOfConflicts` rests on `Ordered` too, because which of two items may
share a coin depends on which came first: of any two that do, the later one
spends it as eligible (`LaterEligible`), and one of the two is the later.

### Locks

`NodeLocks_proofs` proves, for any number of tasks, priorities, calls and
cancellations, `MutexExcludes`, `MutexNeverIdle`, `ActiveStaysAlive` and
`MutexHandedInOrder`. Because `deque.remove` confuses elements, a deque need not
hold the elements of the tasks that wait; what is invariant in general is the
number of them (`Counted`), which is enough for exclusion and for never idling.
Order and life need more: behind the place of the task inside, a deque holds
the elements of its waiting tasks in the order of their calls (`InOrder`), and
the active element is at the head of one (`Owned`). Both hold until a wait is
cancelled behind an earlier one of its priority.

### Checked by TLC only

* Liveness (`Terminates`, `SyncEnds`, `MutexServes`, `HandlersRun`,
  `WaitersServed`), which is out of the provers' reach.
* The three runs that end in a violation, and `LedgerUnlessAstray` and
  `PeakSurvives` under faults (`leftovers`).

## 5. Plan

1. Proofs: `PeakSurvives` for every fault, and `LedgerUnlessAstray`; that the
   semaphore never admits more than `ActiveLimit` handlers.
2. `TransactionQueue` in front of `add_transaction`.
3. `FullNodeStore` (sub-slots, signage points, future caches), `SyncStore` and
   the scheduling of long sync.
4. An abstract specification of the farmer's plot list, refined by `PlotSync`,
   and one of an atomic, isolated database, refined by `DBWrapper`.

## 6. Not modelled

Header rules, proofs of space and time, difficulty and weight proofs (a verdict
per block, `PreError`); puzzle evaluation and signatures; fee estimation; hints,
subscriptions and wallet notifications; networking and peer discovery; the
wallet, data layer, pools, the rest of farmer and harvester, timelord, daemon, seeder, RPC and GUI.
`PROJECT.json` gives the reason for each.
