--------------------------- MODULE MempoolManager ----------------------------
(***************************************************************************)
(* The mempool manager of src/hddcoin/full_node/mempool_manager.py and its *)
(* callers in full_node.py: transactions are validated off the mutex and   *)
(* added under it, blocks come singly, in batches or from a long sync, and *)
(* after a new peak the pool is updated or rebuilt and the waiting         *)
(* transactions are retried, one await at a time.                          *)
(*                                                                         *)
(* The chain is the abstract ledger that Blockchain implements: its peak   *)
(* and the coins unspent there.  job # NoJob means that the blockchain's   *)
(* mutex is held for blocks; a transaction takes it for one step, since    *)
(* what its awaits could let in (other callers before they ask for the     *)
(* mutex) does not touch what that step reads.                             *)
(***************************************************************************)
EXTENDS ChainLedger, Mempool

CONSTANTS
    TxBlocks,        \* the transaction blocks
    LastTx,          \* the last transaction block of the chain ending in b
    Tasks,           \* tasks that run add_transaction
    NoTx,
    SeenMax,         \* seen_cache_size
    MaxFaults        \* bound on cancellations, restarts and long syncs

(* Only a transaction block creates or spends coins; genesis is one.       *)
ASSUME TxBlockAssumption ==
    /\ Genesis \subseteq TxBlocks /\ TxBlocks \subseteq Blocks
    /\ \A b \in Blocks \ TxBlocks : Adds[b] = {} /\ Spends[b] = {}
    /\ \A t \in Txs : TxSpends[t] \subseteq Coins
    /\ NoTx \notin Txs

ASSUME LastTxAssumption ==
    /\ LastTx \in [Blocks -> TxBlocks]
    /\ \A b \in Blocks :
          /\ HeightOf[LastTx[b]] <= HeightOf[b]
          /\ Anc[b][HeightOf[LastTx[b]]] = LastTx[b]
          /\ \A h \in (HeightOf[LastTx[b]] + 1) .. HeightOf[b] :
                Anc[b][h] \notin TxBlocks

VARIABLES
    mpeak,       \* MempoolManager.peak
    pool,        \* MempoolManager.mempool
    pending,     \* _pending_cache
    conflict,    \* _conflict_cache
    seen,        \* seen_bundle_hashes
    task,        \* the transaction each add_transaction is working on
    syncing,     \* "no", "long", or "finishing" before _finish_sync's mutex
    job,         \* what the holder of the mutex is doing with new blocks
    announcing,  \* the lists peak_post_processing_2 goes through
    aborted,     \* its assertion has failed
    missed,      \* history: the chain moved and the pool was not told all
    cancelled,   \* history: a task was cancelled inside new_peak
    faults       \* cancellations, restarts and long syncs so far

poolVars == <<pool, pending, conflict>>
mempoolVars == <<mpeak, pool, pending, conflict, seen>>
vars == <<ledgerVars, mempoolVars, task, syncing, job, announcing, aborted,
          missed, cancelled, faults>>

------------------------------------------------------------------------------
(* A job.  kind: who holds the mutex, "block" (add_block), "batch"         *)
(* (short_sync_batch) or "sync" (a long sync); pc: "adding" blocks, at     *)
(* "peak" (peak_post_processing), in one of the loops of new_peak          *)
(* ("rebuild", "retry"), or announcing under the mutex ("announce").       *)
NewJob(kind, pc, spent) ==
    [kind |-> kind, pc |-> pc, spent |-> spent, moved |-> pc = "peak",
     todo |-> EmptyQueue, added |-> <<>>]

NoJob == NewJob("none", "idle", {})

------------------------------------------------------------------------------
(* prev_transaction_block_hash                                             *)
PrevTx(b) == IF HeightOf[b] = 0 THEN NoBlock ELSE LastTx[Parent[b]]

(* The coins that the blocks from the fork with q up to b spend: the       *)
(* removals of the state change summary.                                   *)
Removals(q, b) ==
    UNION {Spends[c] : c \in Path(b) \ (IF q = NoBlock THEN {} ELSE Path(q))}

------------------------------------------------------------------------------
(* add_spend_bundle                                                        *)

(* check_removals: a coin that t spends as eligible for deduplication      *)
(* conflicts with nothing, however the other item spends it.               *)
Conflicts(p, t) ==
    {i \in p.items : TxSpends[i] \cap (TxSpends[t] \ Dedup[t]) # {}}

CanReplace(S, t) ==
    /\ \A i \in S : TxSpends[i] \subseteq TxSpends[t]
    /\ Fee[t] * TotalCost(S) > TotalFee(S) * Cost[t]
    /\ Fee[t] - TotalFee(S) >= MinFeeIncrease
    /\ AssertHeight[t] = Max({AssertHeight[i] : i \in S})
    /\ BeforeHeight[t] = Min({BeforeHeight[i] : i \in S})

FeeTooLow(p, t) ==
    /\ AtFullCapacity(p, t)
    /\ ~ (Fee[t] >= MinFpc * Cost[t] /\ BeatsMinFeeRate(p, t))

(* validate_spend_bundle at height h: coins that are not there unspent,    *)
(* cost, fee and time locks that can never hold are final; a height not    *)
(* reached yet is noticed before a conflict.                               *)
Verdict(p, t, h) ==
    CASE \/ ~ TxSpends[t] \subseteq unspent
         \/ Cost[t] > MaxBlockCost
         \/ FeeTooLow(p, t)
         \/ BeforeHeight[t] <= AssertHeight[t]  -> "failed"
      [] OTHER ->
         IF h < AssertHeight[t] THEN "pending"
         ELSE IF h >= BeforeHeight[t] THEN "failed"
         ELSE IF /\ Conflicts(p, t) # {}
                 /\ ~ CanReplace(Conflicts(p, t), t) THEN "conflict"
         ELSE "valid"

(* A mutant: the conflicting items stay.                                   *)
AdmitBeside(p, t) == IF Refuses(p, t) THEN p ELSE AddToPool(p, t)

(* The conflicting items leave before add_to_pool has its say.             *)
Admit(p, t) ==
    LET q == RemoveFromPool(p, Conflicts(p, t))
    IN IF Refuses(q, t) THEN q ELSE AddToPool(q, t)

Succeeds(p, t, h) ==
    \/ t \in p.items
    \/ /\ Verdict(p, t, h) = "valid"
       /\ ~ Refuses(RemoveFromPool(p, Conflicts(p, t)), t)

AddSpendBundle(t, h) ==
    LET v == IF t \in pool.items THEN "present" ELSE Verdict(pool, t, h)
    IN /\ pool' = IF v = "valid" THEN Admit(pool, t) ELSE pool
       /\ pending' = IF v = "pending" THEN AddPending(pending, t) ELSE pending
       /\ conflict' = IF v = "conflict" THEN AddConflict(conflict, t)
                                        ELSE conflict

(* add_and_maybe_pop_seen                                                  *)
AddSeen(q, t) ==
    LET r == Insert(q, t)
    IN Without(r, {i \in r.items :
         Cardinality({j \in r.items : <<i, j>> \in r.before}) >= SeenMax})

RemoveSeen(q, t) == Without(q, {t})

------------------------------------------------------------------------------
(* add_transaction                                                         *)

(* Up to the await of pre_validate_spendbundle.                            *)
Submit(k, t) ==
    /\ task[k] = NoTx /\ syncing # "long"
    /\ IF t \in pool.items
       THEN seen' = RemoveSeen(seen, t) /\ UNCHANGED task
       ELSE /\ t \notin seen.items
            /\ IF mpeak = NoBlock
               THEN seen' = RemoveSeen(AddSeen(seen, t), t) /\ UNCHANGED task
               ELSE seen' = AddSeen(seen, t) /\ task' = [task EXCEPT ![k] = t]
    /\ UNCHANGED <<ledgerVars, mpeak, poolVars, syncing, job, announcing,
                   aborted, missed, cancelled, faults>>

(* pre_validate_spendbundle raises.                                        *)
PreValidateFails(k) ==
    /\ task[k] # NoTx
    /\ seen' = RemoveSeen(seen, task[k])
    /\ task' = [task EXCEPT ![k] = NoTx]
    /\ UNCHANGED <<ledgerVars, mpeak, poolVars, syncing, job, announcing,
                   aborted, missed, cancelled, faults>>

(* Under the mutex, at whatever peak the mempool has by then.              *)
AddTransaction(k) ==
    /\ task[k] # NoTx /\ job = NoJob
    /\ LET t == task[k] IN
       /\ AddSpendBundle(t, HeightOf[mpeak])
       /\ seen' = IF t \in pool.items \/ ~ Succeeds(pool, t, HeightOf[mpeak])
                  THEN RemoveSeen(seen, t) ELSE seen
    /\ task' = [task EXCEPT ![k] = NoTx]
    /\ UNCHANGED <<ledgerVars, mpeak, syncing, job, announcing, aborted,
                   missed, cancelled, faults>>

------------------------------------------------------------------------------
(* Blocks                                                                  *)


AddBlock(b) ==
    /\ job = NoJob
    /\ Accept(b)
    /\ job' = IF peak' = peak THEN NoJob
              ELSE NewJob("block", "peak", Removals(peak, b))
    /\ UNCHANGED <<mempoolVars, task, syncing, announcing, aborted, missed,
                   cancelled, faults>>

(* add_block_batch under short_sync_batch's mutex: removals accumulate.    *)
BatchStarts ==
    /\ job = NoJob /\ syncing = "no"
    /\ job' = NewJob("batch", "adding", {})
    /\ UNCHANGED <<ledgerVars, mempoolVars, task, syncing, announcing,
                   aborted, missed, cancelled, faults>>

(* A long sync's blocks reach the chain only.                              *)
SyncStarts ==
    /\ job = NoJob /\ syncing = "no"
    /\ faults < MaxFaults
    /\ syncing' = "long"
    /\ job' = NewJob("sync", "adding", {})
    /\ faults' = faults + 1
    /\ UNCHANGED <<ledgerVars, mempoolVars, task, announcing, aborted, missed,
                   cancelled>>

BatchBlock(b) ==
    /\ job # NoJob /\ job.pc = "adding"
    /\ Accept(b)
    /\ job' = IF peak' = peak THEN job
              ELSE [job EXCEPT !.spent = @ \cup Removals(peak, b),
                               !.moved = TRUE]
    /\ missed' = (missed \/ (job.kind = "sync" /\ peak' # peak))
    /\ UNCHANGED <<mempoolVars, task, syncing, announcing, aborted, cancelled,
                   faults>>

(* A batch that did not move the peak has nothing to post-process ...      *)
BatchEnds ==
    /\ job # NoJob /\ job.pc = "adding" /\ job.kind = "batch"
    /\ job' = IF job.moved THEN [job EXCEPT !.pc = "peak"] ELSE NoJob
    /\ UNCHANGED <<ledgerVars, mempoolVars, task, syncing, announcing, aborted,
                   missed, cancelled, faults>>

(* ... and one whose later blocks turn out invalid raises before it.       *)
BatchFails ==
    /\ job # NoJob /\ job.pc = "adding" /\ job.kind = "batch"
    /\ job' = NoJob
    /\ missed' = (missed \/ job.moved)
    /\ UNCHANGED <<ledgerVars, mempoolVars, task, syncing, announcing, aborted,
                   cancelled, faults>>

(* The long sync ends or fails and leaves the mutex.                       *)
SyncDone ==
    /\ job # NoJob /\ job.pc = "adding" /\ job.kind = "sync"
    /\ syncing' = "finishing" /\ job' = NoJob
    /\ UNCHANGED <<ledgerVars, mempoolVars, task, announcing, aborted, missed,
                   cancelled, faults>>

(* _finish_sync: peak post-processing with an empty list of removals.      *)
FinishSync ==
    /\ syncing = "finishing" /\ job = NoJob
    /\ syncing' = "no"
    /\ job' = IF peak = NoBlock THEN NoJob ELSE NewJob("sync", "peak", {})
    /\ UNCHANGED <<ledgerVars, mempoolVars, task, announcing, aborted, missed,
                   cancelled, faults>>

------------------------------------------------------------------------------
(* new_peak                                                                *)

(* A mutant: any later peak will do.                                       *)
UseOptimizationAlways == mpeak # NoBlock

UseOptimization == mpeak # NoBlock /\ PrevTx(peak) = mpeak

(* Up to the first await.                                                  *)
NewPeak ==
    /\ job # NoJob /\ job.pc = "peak"
    /\ IF peak \notin TxBlocks \/ mpeak = peak
       THEN /\ job' = [job EXCEPT !.pc = "announce"]
            /\ missed' = (missed \/ mpeak \notin {NoBlock, LastTx[peak]})
            /\ UNCHANGED mempoolVars
       ELSE LET p    == NewTxBlock(pool, HeightOf[peak])
                gone == {i \in p.items : TxSpends[i] \cap job.spent # {}}
            IN /\ mpeak' = peak
               /\ IF UseOptimization
                  THEN /\ pool' = RemoveFromPool(p, gone)
                       /\ seen' = Without(seen, gone)
                       /\ job' = [job EXCEPT !.pc = "rebuild"]
                       /\ UNCHANGED missed
                  ELSE /\ pool' = EmptyPool
                       /\ seen' = EmptyQueue
                       /\ job' = [job EXCEPT !.pc = "rebuild",
                                             !.todo = [items |-> p.items,
                                                       before |-> p.before]]
                       /\ missed' = FALSE
               /\ UNCHANGED <<pending, conflict>>
    /\ UNCHANGED <<ledgerVars, task, syncing, announcing, aborted, cancelled,
                   faults>>

(* The items of the old pool are added to the new one, one by one.         *)
Rebuild(t) ==
    /\ job # NoJob /\ job.pc = "rebuild" /\ First(job.todo, t)
    /\ AddSpendBundle(t, HeightOf[mpeak])
    /\ seen' = IF Succeeds(pool, t, HeightOf[mpeak])
               THEN AddSeen(seen, t) ELSE seen
    /\ job' = [job EXCEPT !.todo = Without(@, {t})]
    /\ UNCHANGED <<ledgerVars, mpeak, task, syncing, announcing, aborted,
                   missed, cancelled, faults>>

(* Both caches are drained for the retries, what was pending goes first.   *)
Drain ==
    /\ job # NoJob /\ job.pc = "rebuild" /\ job.todo.items = {}
    /\ LET due  == Due(pending, HeightOf[mpeak])
           rest == conflict.items \ due
           before(i, j) ==
               \/ i \in due /\ (j \in rest \/ DueBefore(pending, i, j))
               \/ {i, j} \subseteq rest /\ <<i, j>> \in conflict.before
           all == due \cup rest
       IN /\ job' = [job EXCEPT !.pc = "retry",
                !.todo = [items |-> all,
                          before |-> {e \in all \X all : before(e[1], e[2])}]]
          /\ pending' = Without(pending, due)
          /\ conflict' = EmptyQueue
    /\ UNCHANGED <<ledgerVars, mpeak, pool, seen, task, syncing, announcing,
                   aborted, missed, cancelled, faults>>

Retry(t) ==
    /\ job # NoJob /\ job.pc = "retry" /\ First(job.todo, t)
    /\ AddSpendBundle(t, HeightOf[mpeak])
    /\ job' = [job EXCEPT !.todo = Without(@, {t}),
                 !.added = IF Succeeds(pool, t, HeightOf[mpeak])
                           THEN Append(@, t) ELSE @]
    /\ UNCHANGED <<ledgerVars, mpeak, seen, task, syncing, announcing,
                   aborted, missed, cancelled, faults>>

RetriesDone ==
    /\ job # NoJob /\ job.pc = "retry" /\ job.todo.items = {}
    /\ job' = [job EXCEPT !.pc = "announce"]
    /\ UNCHANGED <<ledgerVars, mempoolVars, task, syncing, announcing,
                   aborted, missed, cancelled, faults>>

------------------------------------------------------------------------------
(* peak_post_processing_2 looks each added transaction up and sends it to  *)
(* the peers; add_block leaves the mutex first, the others do not.         *)

LooksUp(s) == s # <<>> => Head(s) \in pool.items

Rest(s) == IF s = <<>> \/ ~ LooksUp(s) THEN <<>> ELSE Tail(s)

(* add_block's first look-up comes before anyone else can run.             *)
Announce ==
    /\ job # NoJob /\ job.pc = "announce"
    /\ aborted' = (aborted \/ ~ LooksUp(job.added))
    /\ LET s == Rest(job.added) IN
       IF job.kind = "block" \/ s = <<>>
       THEN job' = NoJob /\ announcing' = announcing \cup ({s} \ {<<>>})
       ELSE job' = [job EXCEPT !.added = s] /\ UNCHANGED announcing
    /\ UNCHANGED <<ledgerVars, mempoolVars, task, syncing, missed, cancelled,
                   faults>>

AnnounceUnlocked(s) ==
    /\ aborted' = (aborted \/ ~ LooksUp(s))
    /\ announcing' = (announcing \ {s}) \cup ({Rest(s)} \ {<<>>})
    /\ UNCHANGED <<ledgerVars, mempoolVars, task, syncing, job, missed,
                   cancelled, faults>>

------------------------------------------------------------------------------
(* A task cancelled at an await of new_peak or of the announcements.       *)
(* add_block then runs peak_post_processing again, which finds             *)
(* self.peak = new_peak and returns; a batch cancelled before new_peak     *)
(* never tells the mempool.                                                *)
Cancel ==
    /\ faults < MaxFaults
    /\ job # NoJob /\ job.kind # "sync" /\ job.pc # "adding"
    /\ job.kind = "block" => job.pc # "peak"
    /\ job' = NoJob
    /\ missed' = (missed \/ job.pc = "peak")
    /\ cancelled' = TRUE
    /\ faults' = faults + 1
    /\ UNCHANGED <<ledgerVars, mempoolVars, task, syncing, announcing,
                   aborted>>

(* On start the mempool is told the peak, if that is a transaction block.  *)
Restart ==
    /\ faults < MaxFaults
    /\ mpeak' = IF peak \in TxBlocks THEN peak ELSE NoBlock
    /\ pool' = EmptyPool
    /\ pending' = EmptyQueue /\ conflict' = EmptyQueue /\ seen' = EmptyQueue
    /\ task' = [k \in Tasks |-> NoTx]
    /\ syncing' = "no" /\ job' = NoJob /\ announcing' = {} /\ missed' = FALSE
    /\ faults' = faults + 1
    /\ UNCHANGED <<ledgerVars, aborted, cancelled>>

------------------------------------------------------------------------------
Init ==
    /\ LedgerInit
    /\ mpeak = NoBlock /\ pool = EmptyPool
    /\ pending = EmptyQueue /\ conflict = EmptyQueue /\ seen = EmptyQueue
    /\ task = [k \in Tasks |-> NoTx]
    /\ syncing = "no" /\ job = NoJob /\ announcing = {}
    /\ aborted = FALSE /\ missed = FALSE
    /\ cancelled = FALSE /\ faults = 0

Next ==
    \/ \E k \in Tasks : \/ \E t \in Txs : Submit(k, t)
                        \/ PreValidateFails(k)
                        \/ AddTransaction(k)
    \/ \E b \in Blocks : AddBlock(b) \/ BatchBlock(b)
    \/ BatchStarts \/ SyncStarts \/ BatchEnds \/ BatchFails
    \/ SyncDone \/ FinishSync
    \/ \E t \in Txs : Rebuild(t) \/ Retry(t)
    \/ NewPeak \/ Drain \/ RetriesDone
    \/ Announce \/ \E s \in announcing : AnnounceUnlocked(s)
    \/ Cancel \/ Restart

Spec == Init /\ [][Next]_vars

------------------------------------------------------------------------------
(* Properties                                                              *)

(* j came after i, and the coins both spend it spends as eligible.         *)
MayFollow(i, j) ==
    /\ <<i, j>> \in pool.before
    /\ TxSpends[i] \cap TxSpends[j] \subseteq Dedup[j]

(* Of two transactions of the pool that spend the same coin the later one  *)
(* spends it in a way eligible for deduplication, whatever was replaced,   *)
(* evicted, retried or put into a new pool in between (check_removals and  *)
(* remove_from_pool in add_spend_bundle).                                  *)
NoConflicts ==
    \A i, j \in pool.items : i # j => MayFollow(i, j) \/ MayFollow(j, i)

(* Every coin a pooled transaction spends is unspent on the current chain, *)
(* reorganisations, batches and transactions pre-validated before the peak *)
(* moved included, as long as new_peak was told of every transaction block *)
(* that came or went.                                                      *)
PoolUnspent ==
    job = NoJob /\ ~ missed =>
        \A i \in pool.items : TxSpends[i] \subseteq unspent

(* The height conditions of every pooled transaction hold at the peak of   *)
(* the mempool, so each could go into the next block.                      *)
LocksHold ==
    \A i \in pool.items :
        /\ mpeak \in Blocks
        /\ AssertHeight[i] <= HeightOf[mpeak]
        /\ HeightOf[mpeak] < BeforeHeight[i]

(* When a transaction enters, the pool keeps to its limit and whatever     *)
(* left for it, apart from what it replaces, pays no more per cost than it *)
(* (get_min_fee_rate checked before, and add_to_pool evicting after, the   *)
(* conflicting items have left).                                           *)
EvictionFair ==
    [][\A t \in pool'.items \ pool.items :
          /\ TotalCost(pool'.items) <= MaxTotalCost
          /\ \A i \in pool.items \ pool'.items :
                i \in Conflicts(pool, t) \/ ~ HigherRate(i, t)]_pool

(* A transaction that waits for a height is still waiting only if that     *)
(* height is not below the peak's: drain takes it out and it is retried,   *)
(* unless the task that did so was cancelled.                              *)
RetriedInTime ==
    job = NoJob /\ mpeak # NoBlock /\ ~ cancelled =>
        \A i \in pending.items : AssertHeight[i] >= HeightOf[mpeak]

(* peak_post_processing_2 finds every transaction that new_peak reported   *)
(* as added ("assert mempool_item is not None").                           *)
AnnouncedPresent == ~ aborted

(* What create_bundle_from_mempool hands to a farmer for the block after   *)
(* the last transaction block spends only coins that are unspent there.    *)
BundleUsable ==
    job = NoJob /\ mpeak # NoBlock /\ mpeak = LastTx[peak] =>
        \A i \in Bundle(pool) : TxSpends[i] \subseteq unspent

(* It spends no coin twice.                                                *)
BundleSpendsOnce ==
    \A i, j \in Bundle(pool) :
        i # j => TxSpends[i] \cap TxSpends[j] \subseteq Dedup[i] \cap Dedup[j]
==============================================================================
