------------------------------ MODULE Blockchain ------------------------------
(***************************************************************************)
(* Blockchain (consensus/blockchain.py) over its stores: the full_blocks,  *)
(* current_peak and coin_record tables, the block record cache, the full   *)
(* block cache and the height map, with the two ways a full node feeds it: *)
(* one block at a time (FullNode.add_block) and as the batches of a long   *)
(* sync that carries a ForkInfo from one block to the next                 *)
(* (FullNode.add_block_batch).                                             *)
(*                                                                         *)
(* Every mutator runs under blockchain.priority_mutex, so one call is in   *)
(* progress at a time; pc says how far it is.  Between its steps the task  *)
(* is suspended: other tasks look at the state, the call may fail or be    *)
(* cancelled, and the process may crash.                                   *)
(***************************************************************************)
EXTENDS BlockTree, Sequences

CONSTANTS
    BlocksCacheSize,   \* constants.BLOCKS_CACHE_SIZE
    PreValDepth,       \* how far below a block pre-validation loads records
    Faults             \* which outcomes of the RELEASE of a write transaction
                       \* may occur besides success, a subset of
                       \* {"release_fails", "release_cancelled"}

ASSUME CacheAssumption ==
    /\ BlocksCacheSize \in Nat \ {0}
    /\ PreValDepth \in Nat
    /\ Faults \subseteq {"release_fails", "release_cancelled"}

VARIABLES
    db,             \* the committed database
    txn,            \* the database as the open write transaction sees it
    records,        \* __block_records
    cachedHeights,  \* the keys of __heights_in_cache
    blockCache,     \* the entries of block_store.block_cache that have no
                    \* committed row (the others read the same as the row)
    heightToHash,   \* __height_map
    peakHeight,     \* _peak_height, -1 for None
    pc,             \* "idle", or how far the add_block in progress is
    block,          \* the block of that call
    forkInfo,       \* the ForkInfo of that call, or the one a sync carries
    syncing,        \* a long sync carries forkInfo from call to call
    result,         \* what the last call ended with, and for which block
    astray          \* history: a RELEASE ended so that memory and database
                    \* have parted: it failed for the first block of a node,
                    \* or the await of one that moved the peak was cancelled

dbVars  == <<db, txn>>
memVars == <<records, cachedHeights, blockCache, heightToHash, peakHeight>>
callVars == <<pc, block, forkInfo, syncing, result>>
vars == <<dbVars, memVars, callVars, astray>>

------------------------------------------------------------------------------
(* Types.  In a coin table conf[c] is confirmed_index, -1 when the coin    *)
(* has no row, and spent[c] is spent_index, 0 when it is unspent.          *)

DBState ==
    [blocks : SUBSET Blocks, main : SUBSET Blocks, peak : Blocks \cup {NoBlock},
     conf : [Coins -> -1 .. MaxHeight], spent : [Coins -> Heights]]

(* adds[c] (rems[c]) is the height at which the fork creates (spends) c,   *)
(* -1 when additions_since_fork (removals_since_fork) has no entry.        *)
ForkInfos ==
    [fork : -1 .. MaxHeight, peakH : -1 .. MaxHeight,
     peakHash : Blocks \cup {GenesisChallenge, ZeroHash},
     adds : [Coins -> -1 .. MaxHeight], rems : [Coins -> -1 .. MaxHeight],
     hashes : Seq(Blocks)]

AddBlockResult ==
    {"NEW_PEAK", "ADDED_AS_ORPHAN", "INVALID_BLOCK", "ALREADY_HAVE_BLOCK",
     "DISCONNECTED_BLOCK"}

(* Exceptions: an assertion or check of the code failed, or the database   *)
(* operations were interrupted.                                            *)
Exceptions == {"raised", "aborted"}

TypeOK ==
    /\ db \in DBState
    /\ txn \in DBState
    /\ records \subseteq Blocks
    /\ cachedHeights \subseteq Heights
    /\ blockCache \subseteq Blocks
    /\ heightToHash \in [Heights -> Blocks \cup {NoBlock}]
    /\ peakHeight \in -1 .. MaxHeight
    /\ pc \in {"idle", "write", "commit", "committed"}
    /\ block \in Blocks \cup {NoBlock}
    /\ forkInfo \in ForkInfos
    /\ syncing \in BOOLEAN
    /\ result \in [res : AddBlockResult \cup Exceptions \cup {"none"},
                   block : Blocks \cup {NoBlock}]
    /\ astray \in BOOLEAN

------------------------------------------------------------------------------
(* ForkInfo                                                                *)

(* Mutant: the fork starts one block too low.                              *)
EmptyForkBelow(h, hash) ==
    [fork |-> h - 1, peakH |-> h, peakHash |-> hash,
     adds |-> [c \in Coins |-> -1], rems |-> [c \in Coins |-> -1],
     hashes |-> << >>]

(* ForkInfo(h, h, hash) and fork_info.reset(h, hash)                       *)
EmptyFork(h, hash) ==
    [fork |-> h, peakH |-> h, peakHash |-> hash,
     adds |-> [c \in Coins |-> -1], rems |-> [c \in Coins |-> -1],
     hashes |-> << >>]

NoForkInfo == EmptyFork(-1, ZeroHash)

Latest(S) == CHOOSE k \in S : \A j \in S : j <= k

(* A dictionary coin -> height after the blocks of b's chain from height   *)
(* lo on have each entered the coins F gives them; a later entry replaces  *)
(* an earlier one.                                                         *)
Entered(old, F, b, lo) ==
    [c \in Coins |->
        LET at == {k \in lo .. HeightOf[b] : c \in F[Anc[b][k]]}
        IN IF at = {} THEN old[c] ELSE Latest(at)]

(* Mutant: only the spends of b itself are entered.                        *)
IncludeLastSpends(fi, b) ==
    [fork |-> fi.fork, peakH |-> HeightOf[b], peakHash |-> b,
     adds |-> Entered(fi.adds, Adds, b, HeightOf[b]),
     rems |-> Entered(fi.rems, Spends, b, HeightOf[b]),
     hashes |-> fi.hashes \o
                [i \in 1 .. (HeightOf[b] - fi.peakH) |-> Anc[b][fi.peakH + i]]]

(* include_spends for each block of b's chain above the peak of fi, up to  *)
(* and including b: one block when fi ends at b's parent.                  *)
IncludeSpends(fi, b) ==
    [fork |-> fi.fork, peakH |-> HeightOf[b], peakHash |-> b,
     adds |-> Entered(fi.adds, Adds, b, fi.peakH + 1),
     rems |-> Entered(fi.rems, Spends, b, fi.peakH + 1),
     hashes |-> fi.hashes \o
                [i \in 1 .. (HeightOf[b] - fi.peakH) |-> Anc[b][fi.peakH + i]]]

(* Blocks get_full_block finds.                                            *)
FullBlocks == db.blocks \cup blockCache

(* Every block of b's chain above height f and below b can be read back.   *)
StoredAbove(b, f) ==
    \A k \in (f + 1) .. (HeightOf[b] - 1) : Anc[b][k] \in FullBlocks

(* The assertions advance_fork_info makes before it runs blocks: fi ends   *)
(* at the parent of b, or at a lower ancestor of b (uint32() rejects the   *)
(* height -1) with every block in between stored.                          *)
AdvanceOK(fi, b) ==
    /\ fi.peakH <= HeightOf[b] - 1
    /\ fi.peakHash # b
    /\ \/ fi.peakHash = Parent[b] /\ fi.peakH = HeightOf[b] - 1
       \/ /\ fi.peakHash # Parent[b]
          /\ fi.peakH >= 0
          /\ Anc[Parent[b]][fi.peakH] = fi.peakHash
          /\ StoredAbove(b, fi.peakH)

(* advance_fork_info(b, fi): fi then ends at the parent of b.              *)
AdvanceForkInfo(fi, b) ==
    IF fi.peakHash = Parent[b] THEN fi ELSE IncludeSpends(fi, Parent[b])

------------------------------------------------------------------------------
(* Look-ups                                                                *)

(* get_peak                                                                *)
Peak == IF peakHeight = -1 THEN NoBlock ELSE heightToHash[peakHeight]

(* contains_block_from_db, get_block_record_from_db                        *)
ContainsBlock(b) == b \in records \cup db.blocks

IsGenesis(b) == HeightOf[b] = 0

ExtendingMainChain(b) ==
    IsGenesis(b) \/ Peak = NoBlock \/ Parent[b] = Peak

Connected(b) == IsGenesis(b) \/ ContainsBlock(Parent[b])

(* The records pre-validation of a batch that starts with b loads: b's     *)
(* ancestors, from its parent down as far as it needs and finds them.      *)
PreValRecords(b) ==
    {Anc[b][k] : k \in
        {k \in 0 .. (HeightOf[b] - 1) :
            /\ k >= HeightOf[b] - 1 - PreValDepth
            /\ \A j \in k .. (HeightOf[b] - 1) : ContainsBlock(Anc[b][j])}}

HeightsOf(S) == {HeightOf[b] : b \in S}

(* add_block_record for each block of S, and for each block of T followed  *)
(* by remove_block_record, which keeps the key in __heights_in_cache.      *)
AddBlockRecords(S, T) ==
    /\ records' = records \cup S
    /\ cachedHeights' = cachedHeights \cup HeightsOf(S) \cup HeightsOf(T)

(* The ForkInfo add_block builds for a block on a fork when it is given    *)
(* none: from the fork height f on it runs every block of the fork.        *)
ForkInfoFrom(b, f) ==
    IncludeSpends(EmptyFork(f, IF f = -1 THEN ZeroHash ELSE Anc[b][f]),
                  Parent[b])

(* The ForkInfo a caller passed in, reset when b extends the main chain.   *)
PassedForkInfo(b) ==
    IF ExtendingMainChain(b)
    THEN EmptyFork(HeightOf[b] - 1, Parent[b])
    ELSE forkInfo

(* Mutant: no look at removals_since_fork.                                 *)
ValidateIgnoringRemovals(b, fi) ==
    \A c \in Spends[b] \ Adds[b] :
        IF db.conf[c] \in 0 .. fi.fork
        THEN ~ (db.spent[c] # 0 /\ db.spent[c] <= fi.fork)
        ELSE fi.adds[c] # -1

(* Mutant: a coin spent above the fork height counts as spent.             *)
ValidateIgnoringSpentHeight(b, fi) ==
    \A c \in Spends[b] \ Adds[b] :
        /\ fi.rems[c] = -1
        /\ IF db.conf[c] \in 0 .. fi.fork
           THEN db.spent[c] = 0
           ELSE fi.adds[c] # -1

(* validate_block_body, rule 15: every removal that b does not create      *)
(* itself is unspent in the chain below b, as the coin store up to the     *)
(* fork height and fork_info above it tell.                                *)
ValidateBlockBody(b, fi) ==
    \A c \in Spends[b] \ Adds[b] :
        /\ fi.rems[c] = -1
        /\ IF db.conf[c] \in 0 .. fi.fork
           THEN ~ (db.spent[c] # 0 /\ db.spent[c] <= fi.fork)
           ELSE fi.adds[c] # -1

------------------------------------------------------------------------------
(* The end of a call.  A ForkInfo passed in by a sync stays with the sync  *)
(* unless the call fails, which ends the sync; the one of a single call is *)
(* dropped.                                                                *)

EndCall(res, b, fi) ==
    /\ pc' = "idle" /\ block' = NoBlock
    /\ result' = [res |-> res, block |-> b]
    /\ syncing' = (syncing /\ res \notin {"INVALID_BLOCK", "DISCONNECTED_BLOCK"}
                           /\ res \notin Exceptions)
    /\ forkInfo' = IF syncing' THEN fi ELSE NoForkInfo

(* A call that returns or raises before it touches the database.           *)
Return(res, b, fi) ==
    /\ AddBlockRecords(PreValRecords(b), {b})
    /\ EndCall(res, b, fi)
    /\ UNCHANGED <<dbVars, blockCache, heightToHash, peakHeight, astray>>

(* A call that goes on to its database transaction, the first thing of     *)
(* which is add_full_block putting the block into block_cache.             *)
Validated(b, fi) ==
    /\ AddBlockRecords(PreValRecords(b), {b})
    /\ blockCache' = blockCache \cup {b}
    /\ pc' = "write" /\ block' = b
    /\ forkInfo' = IncludeSpends(fi, b)
    /\ result' = [res |-> "none", block |-> NoBlock]
    /\ UNCHANGED <<dbVars, heightToHash, peakHeight, syncing, astray>>

(* add_block up to its transaction, for a block that passed                *)
(* pre-validation with the ForkInfo fi                                     *)
ValidateWith(b, fi) ==
    IF ValidateBlockBody(b, fi)
    THEN Validated(b, fi)
    ELSE Return("INVALID_BLOCK", b, fi)

(* A block whose parent is not known: pre-validation refuses it before it  *)
(* touches a cache.                                                        *)
AddBlockDisconnected(b) ==
    /\ pc = "idle"
    /\ ~ Connected(b)
    /\ EndCall("DISCONNECTED_BLOCK", b, forkInfo)
    /\ UNCHANGED <<dbVars, memVars, astray>>

(* add_block without a ForkInfo                                            *)

AddBlockAlreadyHave(b) ==
    /\ pc = "idle" /\ ~ syncing
    /\ PreError[b] = "none"
    /\ Connected(b) /\ ContainsBlock(b)
    /\ Return("ALREADY_HAVE_BLOCK", b, forkInfo)

AddBlockExtending(b) ==
    /\ pc = "idle" /\ ~ syncing
    /\ PreError[b] = "none"
    /\ Connected(b) /\ ~ ContainsBlock(b)
    /\ ExtendingMainChain(b)
    /\ ValidateWith(b, EmptyFork(HeightOf[b] - 1, Parent[b]))

AddBlockOnFork(b) ==
    /\ pc = "idle" /\ ~ syncing
    /\ PreError[b] = "none"
    /\ Connected(b) /\ ~ ContainsBlock(b)
    /\ ~ ExtendingMainChain(b)
    /\ \E f \in -1 .. MaxHeight :
          /\ IsForkHeight(Peak, Parent[b], f)
          /\ IF StoredAbove(b, f)
             THEN ValidateWith(b, ForkInfoFrom(b, f))
             ELSE Return("raised", b, forkInfo)

AddBlock(b) ==
    \/ AddBlockDisconnected(b)
    \/ AddBlockAlreadyHave(b)
    \/ AddBlockExtending(b)
    \/ AddBlockOnFork(b)

(* add_block with the ForkInfo of a sync.                                  *)
AddBlockSyncing(b) ==
    /\ pc = "idle" /\ syncing
    /\ PreError[b] = "none"
    /\ Connected(b)
    /\ LET fi == PassedForkInfo(b)
           ok == AdvanceOK(fi, b)
       IN \/ /\ ContainsBlock(b) /\ ok
             /\ Return("ALREADY_HAVE_BLOCK", b,
                       IncludeSpends(AdvanceForkInfo(fi, b), b))
          \/ /\ ~ ContainsBlock(b) /\ ok
             /\ ValidateWith(b, AdvanceForkInfo(fi, b))
          \/ /\ ~ ok
             /\ Return("raised", b, fi)

------------------------------------------------------------------------------
(* The write transaction of add_block                                      *)

(* Mutant: the coins spent above h stay spent.                             *)
RollbackKeepingSpent(d, h) ==
    [d EXCEPT
        !.conf  = [c \in Coins |-> IF d.conf[c] > h THEN -1 ELSE d.conf[c]],
        !.spent = [c \in Coins |-> IF d.conf[c] > h THEN 0 ELSE d.spent[c]]]

(* coin_store.rollback_to_block(h)                                         *)
RollbackCoins(d, h) ==
    [d EXCEPT
        !.conf  = [c \in Coins |-> IF d.conf[c] > h THEN -1 ELSE d.conf[c]],
        !.spent = [c \in Coins |-> IF d.conf[c] > h \/ d.spent[c] > h
                                   THEN 0 ELSE d.spent[c]]]

(* coin_store.new_block for every block of the fork succeeds: no coin is   *)
(* inserted twice, and every removal finds an unspent row, inserted before *)
(* or by a block of the fork no later than the one that spends it.         *)
NewBlocksOK(d, fi) ==
    \A c \in Coins :
        /\ fi.adds[c] # -1 => d.conf[c] = -1
        /\ fi.rems[c] # -1 =>
              /\ fi.rems[c] > 0
              /\ d.spent[c] = 0
              /\ d.conf[c] # -1 \/ (fi.adds[c] # -1 /\ fi.adds[c] <= fi.rems[c])

NewBlocks(d, fi) ==
    [d EXCEPT
        !.conf  = [c \in Coins |-> IF fi.adds[c] # -1 THEN fi.adds[c] ELSE d.conf[c]],
        !.spent = [c \in Coins |-> IF fi.rems[c] # -1 THEN fi.rems[c] ELSE d.spent[c]]]

ForkBlocks(fi) == {fi.hashes[i] : i \in 1 .. Len(fi.hashes)}

(* Mutant: a fork height of -1 is taken for 0.                             *)
SetPeakKeepingGenesis(d, b, fi) ==
    [d EXCEPT
        !.main = {x \in d.main : HeightOf[x] <= 0 \/ HeightOf[x] <= fi.fork}
                 \cup ForkBlocks(fi),
        !.peak = b]

(* block_store.rollback(fork_height), set_in_chain(the fork), set_peak(b)  *)
SetPeak(d, b, fi) ==
    [d EXCEPT
        !.main = {x \in d.main : HeightOf[x] <= fi.fork} \cup ForkBlocks(fi),
        !.peak = b]

(* add_full_block                                                          *)
AddFullBlock(d, b) == [d EXCEPT !.blocks = d.blocks \cup {b}]

(* Mutants: an equally heavy block wins; the higher block wins.            *)
Lighter(b) ==
    Peak # NoBlock /\ (IsGenesis(b) \/ Weight[b] < Weight[Peak])
NotHigher(b) ==
    Peak # NoBlock /\ (IsGenesis(b) \/ HeightOf[b] <= HeightOf[Peak])

(* _reconsider_peak leaves the peak alone.                                 *)
NotHeavier(b) ==
    Peak # NoBlock /\ (IsGenesis(b) \/ Weight[b] <= Weight[Peak])

(* Mutant: the coin table is not rolled back.                              *)
ForkBaseAsIs(d, b, fi) == d

(* The coin table _reconsider_peak applies the new blocks to: rolled back  *)
(* unless b extends the peak.                                              *)
ForkBase(d, b, fi) ==
    IF Peak = NoBlock \/ Parent[b] = Peak THEN d ELSE RollbackCoins(d, fi.fork)

ReconsiderPeakOK(d, b, fi) ==
    /\ ForkBlocks(fi) \subseteq d.blocks
    /\ NewBlocksOK(ForkBase(d, b, fi), fi)

ReconsiderPeak(d, b, fi) ==
    IF NotHeavier(b) THEN d
    ELSE SetPeak(NewBlocks(ForkBase(d, b, fi), fi), b, fi)

(* The body of the transaction, then add_block_record, which has no        *)
(* suspension point between it and the RELEASE.                            *)
WriteTxn ==
    /\ pc = "write"
    /\ LET d == AddFullBlock(db, block)
       IN IF NotHeavier(block) \/ ReconsiderPeakOK(d, block, forkInfo)
          THEN /\ txn' = ReconsiderPeak(d, block, forkInfo)
               /\ AddBlockRecords({block}, {})
               /\ pc' = "commit"
               /\ UNCHANGED <<db, blockCache, heightToHash, peakHeight, block, forkInfo,
                              syncing, result, astray>>
          ELSE /\ blockCache' = blockCache \ {block}
               /\ EndCall("raised", block, forkInfo)
               /\ UNCHANGED <<dbVars, records, cachedHeights, heightToHash, peakHeight, astray>>

(* Mutant: the except clause does not undo block_cache.put.                *)
TxnAbortsKeepingCache ==
    /\ pc = "write"
    /\ EndCall("aborted", block, forkInfo)
    /\ UNCHANGED <<dbVars, memVars, astray>>

(* A database operation fails or the task is cancelled inside the          *)
(* transaction: it is rolled back, and so is the cache entry.              *)
TxnAborts ==
    /\ pc = "write"
    /\ blockCache' = blockCache \ {block}
    /\ EndCall("aborted", block, forkInfo)
    /\ UNCHANGED <<dbVars, records, cachedHeights, heightToHash, peakHeight, astray>>

(* RELEASE commits the transaction.                                        *)
Commit ==
    /\ pc = "commit"
    /\ db' = txn
    /\ blockCache' = blockCache \ txn.blocks
    /\ pc' = "committed"
    /\ UNCHANGED <<txn, records, cachedHeights, heightToHash, peakHeight,
                   block, forkInfo, syncing, result, astray>>

NewPeak == db.peak = block

(* __height_map.rollback(fork), then update_height for the fork's blocks   *)
MapAfter(fi) ==
    LET kept == IF fi.fork > 0 THEN fi.fork ELSE 0
    IN [h \in Heights |->
          IF h > fi.fork /\ h <= fi.peakH THEN fi.hashes[h - fi.fork]
          ELSE IF h <= kept THEN heightToHash[h] ELSE NoBlock]

(* update_height asserts that the map reaches up to the height it sets.    *)
MapReaches(fi) == fi.fork >= 0 => heightToHash[fi.fork] # NoBlock

(* Mutant: memory follows although RELEASE failed.                         *)
ReleaseFailsUpdatingMemory ==
    /\ "release_fails" \in Faults
    /\ pc = "commit"
    /\ txn' = db
    /\ blockCache' = blockCache \ {block}
    /\ heightToHash' = IF txn.peak = block THEN MapAfter(forkInfo) ELSE heightToHash
    /\ peakHeight' = IF txn.peak = block THEN HeightOf[block] ELSE peakHeight
    /\ EndCall("aborted", block, forkInfo)
    /\ astray' = (astray \/ Peak = NoBlock)
    /\ UNCHANGED <<db, records, cachedHeights>>

(* RELEASE fails and the transaction is lost; the except clause of         *)
(* add_block drops the cache entry but not the block record.               *)
ReleaseFails ==
    /\ "release_fails" \in Faults
    /\ pc = "commit"
    /\ txn' = db
    /\ blockCache' = blockCache \ {block}
    /\ EndCall("aborted", block, forkInfo)
    /\ astray' = (astray \/ Peak = NoBlock)
    /\ UNCHANGED <<db, records, cachedHeights, heightToHash, peakHeight>>

(* The task is cancelled while it awaits RELEASE, which the connection's   *)
(* thread carries out all the same; the except clause runs.                *)
ReleaseCancelled ==
    /\ "release_cancelled" \in Faults
    /\ pc = "commit"
    /\ db' = txn
    /\ blockCache' = blockCache \ {block}
    /\ EndCall("aborted", block, forkInfo)
    /\ astray' = (astray \/ txn.peak # Peak)
    /\ UNCHANGED <<txn, records, cachedHeights, heightToHash, peakHeight>>

(* After the commit: the height map and _peak_height follow; when the      *)
(* block became the peak, add_block_batch resets the ForkInfo to it.       *)
UpdateMemory ==
    /\ pc = "committed"
    /\ \/ /\ NewPeak /\ MapReaches(forkInfo)
          /\ heightToHash' = MapAfter(forkInfo)
          /\ peakHeight' = HeightOf[block]
          /\ EndCall("NEW_PEAK", block, EmptyFork(HeightOf[block], block))
       \/ /\ NewPeak /\ ~ MapReaches(forkInfo)
          /\ EndCall("raised", block, forkInfo)
          /\ UNCHANGED <<heightToHash, peakHeight>>
       \/ /\ ~ NewPeak
          /\ EndCall("ADDED_AS_ORPHAN", block, forkInfo)
          /\ UNCHANGED <<heightToHash, peakHeight>>
    /\ UNCHANGED <<dbVars, records, cachedHeights, blockCache, astray>>

------------------------------------------------------------------------------
(* Pre-validation of a batch whose last block b is rejected.  The earlier  *)
(* blocks of the batch were put into the record cache on the way; they are *)
(* taken out again when a proof of space is invalid, and left there when a *)
(* sub epoch summary is.                                                   *)
PreValidationFails(b, lo) ==
    /\ pc = "idle"
    /\ PreError[b] # "none"
    /\ lo <= HeightOf[b]
    /\ LET first == Anc[b][lo]
           temps == {Anc[b][k] : k \in lo .. (HeightOf[b] - 1)}
       IN /\ Connected(first)
          /\ ~ ContainsBlock(first)
          /\ \A x \in temps : PreError[x] = "none"
          /\ IF PreError[b] = "ses"
             THEN AddBlockRecords(PreValRecords(first) \cup temps, {})
             ELSE AddBlockRecords(PreValRecords(first), temps)
    /\ EndCall("INVALID_BLOCK", b, forkInfo)
    /\ UNCHANGED <<dbVars, blockCache, heightToHash, peakHeight, astray>>

------------------------------------------------------------------------------
(* Long sync                                                               *)

(* validate_block_batches meets a batch that does not extend the peak and  *)
(* creates a ForkInfo at the block below fork_point_height = f.            *)
SyncBegin(f) ==
    /\ pc = "idle" /\ ~ syncing
    /\ Peak # NoBlock
    /\ f > 0 => heightToHash[f - 1] # NoBlock
    /\ syncing' = TRUE
    /\ forkInfo' = IF f = 0 THEN EmptyFork(-1, ZeroHash)
                            ELSE EmptyFork(f - 1, heightToHash[f - 1])
    /\ UNCHANGED <<dbVars, memVars, pc, block, result, astray>>

(* A leading block of a batch that is known already and above the peak of  *)
(* the ForkInfo: it moves the ForkInfo along.                              *)
SyncSkip(b) ==
    /\ pc = "idle" /\ syncing
    /\ ContainsBlock(b)
    /\ HeightOf[b] > forkInfo.peakH
    /\ \/ /\ heightToHash[HeightOf[b]] = b
          /\ forkInfo' = EmptyFork(HeightOf[b], b)
          /\ UNCHANGED <<pc, block, syncing, result>>
       \/ /\ heightToHash[HeightOf[b]] # b
          /\ AdvanceOK(forkInfo, b)
          /\ forkInfo' = IncludeSpends(AdvanceForkInfo(forkInfo, b), b)
          /\ UNCHANGED <<pc, block, syncing, result>>
       \/ /\ heightToHash[HeightOf[b]] # b
          /\ ~ AdvanceOK(forkInfo, b)
          /\ EndCall("raised", b, forkInfo)
    /\ UNCHANGED <<dbVars, memVars, astray>>

SyncEnd ==
    /\ pc = "idle" /\ syncing
    /\ syncing' = FALSE /\ forkInfo' = NoForkInfo
    /\ UNCHANGED <<dbVars, memVars, pc, block, result, astray>>

------------------------------------------------------------------------------
(* Block record cache                                                      *)

(* warmup(f)                                                               *)
Warmup(f) ==
    /\ pc = "idle" /\ ~ syncing
    /\ peakHeight # -1
    /\ AddBlockRecords({b \in db.blocks : HeightOf[b] \in (f - BlocksCacheSize) .. f}, {})
    /\ UNCHANGED <<dbVars, blockCache, heightToHash, peakHeight, callVars, astray>>

(* Mutant: the window below the peak is not kept.                          *)
CleanedToPeak(h) ==
    LET top == IF peakHeight # -1 /\ h > peakHeight THEN peakHeight ELSE h
    IN {k \in 0 .. top : (k .. top) \subseteq cachedHeights}

(* The heights clean_block_record(h) walks: from h, or the start of the    *)
(* cache window if that is lower, down to the first height with no key.    *)
CleanedHeights(h) ==
    LET top == IF peakHeight # -1 /\ h > peakHeight - BlocksCacheSize
               THEN peakHeight - BlocksCacheSize ELSE h
    IN {k \in 0 .. top : (k .. top) \subseteq cachedHeights}

CleanBlockRecord(h) ==
    /\ pc = "idle"
    /\ h + BlocksCacheSize \in Heights
    /\ records' = {b \in records : HeightOf[b] \notin CleanedHeights(h)}
    /\ cachedHeights' = cachedHeights \ CleanedHeights(h)
    /\ UNCHANGED <<dbVars, blockCache, heightToHash, peakHeight, callVars, astray>>

(* clean_block_records, at the end of peak_post_processing                 *)
CleanBlockRecords ==
    /\ ~ syncing
    /\ Cardinality(records) >= BlocksCacheSize
    /\ peakHeight - BlocksCacheSize >= 0
    /\ CleanBlockRecord(peakHeight - BlocksCacheSize)

------------------------------------------------------------------------------
(* The process dies and starts again: _load_chain_from_store.  The height  *)
(* map is read back from the rows in the main chain, the records from the  *)
(* rows close to the peak.                                                 *)
Restart ==
    /\ LET p == db.peak
           loaded == IF p = NoBlock THEN {}
                     ELSE {b \in db.blocks : HeightOf[b] >= HeightOf[p] - BlocksCacheSize}
       IN /\ p # NoBlock => Path(p) \subseteq db.main
          /\ records' = loaded
          /\ cachedHeights' = HeightsOf(loaded)
          /\ heightToHash' = IF p = NoBlock THEN [h \in Heights |-> NoBlock] ELSE Anc[p]
          /\ peakHeight' = IF p = NoBlock THEN -1 ELSE HeightOf[p]
    /\ txn' = db
    /\ blockCache' = {}
    /\ pc' = "idle" /\ block' = NoBlock
    /\ forkInfo' = NoForkInfo /\ syncing' = FALSE
    /\ result' = [res |-> "none", block |-> NoBlock]
    /\ UNCHANGED <<db, astray>>

------------------------------------------------------------------------------
EmptyDB ==
    [blocks |-> {}, main |-> {}, peak |-> NoBlock,
     conf |-> [c \in Coins |-> -1], spent |-> [c \in Coins |-> 0]]

Init ==
    /\ db = EmptyDB /\ txn = EmptyDB
    /\ records = {} /\ cachedHeights = {} /\ blockCache = {}
    /\ heightToHash = [h \in Heights |-> NoBlock]
    /\ peakHeight = -1
    /\ pc = "idle" /\ block = NoBlock
    /\ forkInfo = NoForkInfo /\ syncing = FALSE
    /\ result = [res |-> "none", block |-> NoBlock]
    /\ astray = FALSE

Next ==
    \/ \E b \in Blocks : AddBlock(b)
    \/ \E b \in Blocks : AddBlockSyncing(b)
    \/ \E b \in Blocks, lo \in Heights : PreValidationFails(b, lo)
    \/ WriteTxn
    \/ TxnAborts
    \/ Commit
    \/ ReleaseFails
    \/ ReleaseCancelled
    \/ UpdateMemory
    \/ \E f \in Heights : SyncBegin(f)
    \/ \E b \in Blocks : SyncSkip(b)
    \/ SyncEnd
    \/ \E f \in Heights : Warmup(f)
    \/ \E h \in Heights : CleanBlockRecord(h)
    \/ CleanBlockRecords
    \/ Restart

Spec == Init /\ [][Next]_vars

------------------------------------------------------------------------------
(* Correctness.                                                            *)

(* The coin table of d holds what replaying d's peak chain from genesis    *)
(* gives: the coins its blocks create, each with the height of its block,  *)
(* and the height of the block that spends it.                             *)
CoinsReplay(d) ==
    \A c \in Coins :
        IF d.peak = NoBlock
        THEN d.conf[c] = -1 /\ d.spent[c] = 0
        ELSE /\ \A h \in 0 .. HeightOf[d.peak] :
                  /\ c \in Adds[Anc[d.peak][h]] <=> d.conf[c] = h
                  /\ c \in Spends[Anc[d.peak][h]] <=> h > 0 /\ d.spent[c] = h
             /\ d.conf[c] <= HeightOf[d.peak]
             /\ d.spent[c] <= HeightOf[d.peak]

(* The rows of d marked in_main_chain are the chain of d's peak.           *)
MainIsPath(d) ==
    d.main = IF d.peak = NoBlock THEN {} ELSE Path(d.peak)

(* Whatever was rolled back, re-applied, interrupted or lost before, the   *)
(* committed coin table is the replay of the committed peak's chain and    *)
(* in_main_chain marks exactly that chain (_reconsider_peak and the one    *)
(* transaction around it).                                                 *)
LedgerMatchesPeak ==
    CoinsReplay(db) /\ MainIsPath(db)

(* The same when the RELEASE may fail or its await be cancelled, whatever  *)
(* leftovers of lost blocks the caches then hold, as long as memory and    *)
(* database have not parted (the except clause of add_block).              *)
LedgerUnlessAstray == astray \/ LedgerMatchesPeak

(* Fork validation is sound: every stored block, on the main chain or an   *)
(* orphan, has its whole chain stored, and that chain is valid by the      *)
(* reference rules, whichever fork height and ForkInfo it was validated    *)
(* against (add_block, validate_block_body).                               *)
StoredChainsValid ==
    \A b \in db.blocks :
        Path(b) \subseteq db.blocks /\ ChainValid(b)

(* Every stored block but a genesis has its parent stored ("We can only    *)
(* accept blocks that are connected to another block we know of").         *)
StoredConnected ==
    \A b \in db.blocks : IsGenesis(b) \/ Parent[b] \in db.blocks

(* Fork validation is complete: a block reported INVALID_BLOCK is invalid  *)
(* by the reference rules; no fork point makes a good block fail.          *)
RejectedIsInvalid ==
    result.res = "INVALID_BLOCK" => ~ ChainValid(result.block)

(* No assertion, look-up or row count check of add_block fails for a block *)
(* offered on its own: the slow path finds every block of the fork and the *)
(* coin table accepts every validated block, on any fork, and once it is   *)
(* committed the height map follows (the assertions in add_block,          *)
(* advance_fork_info, new_block, _set_spent and update_height).  During a  *)
(* sync the batch may be at odds with the ForkInfo, so only the            *)
(* transaction and what follows it is covered.                             *)
ValidatedApplies ==
    /\ pc = "write" =>
          \/ NotHeavier(block)
          \/ ReconsiderPeakOK(AddFullBlock(db, block), block, forkInfo)
    /\ pc = "committed" /\ NewPeak => MapReaches(forkInfo)
    /\ pc = "idle" /\ ~ syncing /\ Peak # NoBlock =>
          \A b \in Blocks :
             Connected(b) /\ ~ ExtendingMainChain(b) =>
                \A f \in -1 .. MaxHeight :
                    IsForkHeight(Peak, Parent[b], f) => StoredAbove(b, f)

(* The committed peak has the greatest weight of all committed blocks.     *)
PeakIsHeaviest ==
    /\ db.peak = NoBlock => db.blocks = {}
    /\ db.peak # NoBlock =>
          db.peak \in db.blocks /\ \A b \in db.blocks : Weight[b] <= Weight[db.peak]

(* Whatever became of a RELEASE, memory never names a block that was lost: *)
(* the peak, when there is one, has a row and a cached record, and the     *)
(* height map is its chain ("in case we fail and need to restore the       *)
(* blockchain state, remember the peak height").                           *)
PeakSurvives ==
    Peak # NoBlock => /\ Peak \in db.blocks \cap records
                      /\ heightToHash = Anc[Peak]

(* At every suspension point get_peak() works and names a committed block: *)
(* the height map agrees with the chain of that block up to _peak_height   *)
(* and ends there, its record is cached, and its row is committed ("make   *)
(* sure to update _peak_height after the transaction is committed").  When *)
(* no call is in progress that block is the committed peak.                *)
PeakAvailable ==
    /\ Peak = NoBlock <=> peakHeight = -1
    /\ PeakSurvives
    /\ pc = "idle" => Peak = db.peak

(* What the caches hold is in the database, or is the block being written: *)
(* contains_block answers for blocks that were added, and get_full_block   *)
(* never serves one that was not.                                          *)
CachesBacked ==
    /\ records \subseteq db.blocks \cup {block}
    /\ blockCache \subseteq {block}

(* The ForkInfo a sync carries describes its fork: it starts at a block of *)
(* the main chain, and adds, rems and hashes are those of every block from *)
(* there to its peak ("additions and removals are from the block following *)
(* this height up to and including the peak_height").                      *)
ForkInfoOK(fi) ==
    /\ fi.fork <= fi.peakH
    /\ fi.peakH >= 0 => fi.peakHash \in Blocks /\ HeightOf[fi.peakHash] = fi.peakH
    /\ fi.fork >= 0 => /\ fi.fork <= peakHeight
                       /\ Anc[fi.peakHash][fi.fork] = heightToHash[fi.fork]
    /\ Len(fi.hashes) = fi.peakH - fi.fork
    /\ \A k \in (fi.fork + 1) .. fi.peakH :
          fi.hashes[k - fi.fork] = Anc[fi.peakHash][k]
    /\ \A c \in Coins :
          /\ \A k \in (fi.fork + 1) .. fi.peakH :
                /\ c \in Adds[Anc[fi.peakHash][k]] <=> fi.adds[c] = k
                /\ c \in Spends[Anc[fi.peakHash][k]] <=> fi.rems[c] = k
          /\ fi.adds[c] \in {-1} \cup (fi.fork + 1) .. fi.peakH
          /\ fi.rems[c] \in {-1} \cup (fi.fork + 1) .. fi.peakH

CarriedForkInfoOK == ForkInfoOK(forkInfo)

(* Committed blocks are never lost, and the committed peak only ever moves *)
(* to a strictly heavier block.                                            *)
PeakAdvances ==
    [][ /\ db.blocks \subseteq db'.blocks
        /\ db.peak # NoBlock /\ db'.peak # db.peak =>
              /\ db'.peak # NoBlock
              /\ Weight[db'.peak] > Weight[db.peak] ]_vars

(* Blockchain implements ChainLedger: one commit accepts one valid block,  *)
(* the peak is the heaviest, and the unspent rows of the coin table are    *)
(* what the peak's chain leaves unspent.                                   *)
Unspent == {c \in Coins : db.conf[c] # -1 /\ db.spent[c] = 0}

Ledger == INSTANCE ChainLedger
          WITH known <- db.blocks, peak <- db.peak, unspent <- Unspent

ImplementsLedger == Ledger!LedgerSpec

==============================================================================
