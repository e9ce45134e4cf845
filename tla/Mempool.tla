------------------------------- MODULE Mempool -------------------------------
(***************************************************************************)
(* The transaction pool of src/hddcoin/full_node/mempool.py and the two    *)
(* caches of pending_tx_cache.py, as operators on their values.            *)
(*                                                                         *)
(* A spend bundle is a model value; what its conditions say is a function  *)
(* of it: the coins it spends, those of them it spends in a way eligible   *)
(* for deduplication, its fee and cost, the height it may not be included  *)
(* before (0: none) and the height it expires at (Never: none).            *)
(* The order of arrival, which SQLite keeps in the column seq and Python's *)
(* dictionaries by themselves, is a relation: <<t, u>> \in q.before says   *)
(* that t came before u.                                                   *)
(***************************************************************************)
EXTENDS Integers, FiniteSets, Sequences, FiniteSetsExt, Functions

CONSTANTS
    Txs,             \* the spend bundles that may be submitted
    TxSpends,        \* the coins of npc_result.conds.spends
    Dedup,           \* those whose spend has the flag ELIGIBLE_FOR_DEDUP
    Solution,        \* how t spends those: solutions are compared for equality
    SpendCost,       \* what running one such spend a second time would cost
    Fee, Cost,
    AssertHeight,    \* assert_height
    BeforeHeight,    \* assert_before_height
    Never,           \* no assert_before_height
    MaxTotalCost,    \* mempool_info.max_size_in_cost
    MaxBlockCost,    \* mempool_info.max_block_clvm_cost
    MinFpc,          \* nonzero_fee_minimum_fpc
    MinFeeIncrease,  \* MEMPOOL_MIN_FEE_INCREASE
    CacheMaxCost,    \* _cache_max_total_cost of both caches
    Soon             \* how many blocks ahead "expires soon" is

ASSUME TxAssumption ==
    /\ Fee \in [Txs -> Nat]
    /\ Cost \in [Txs -> Nat \ {0}]
    /\ AssertHeight \in [Txs -> Nat]
    /\ BeforeHeight \in [Txs -> Nat]
    /\ DOMAIN TxSpends = Txs
    /\ DOMAIN Dedup = Txs /\ \A t \in Txs : Dedup[t] \subseteq TxSpends[t]
    /\ MaxTotalCost \in Nat

TotalCost(S) == SumFunctionOnSet(Cost, S)
TotalFee(S)  == SumFunctionOnSet(Fee, S)

(* The fee per cost of t is above (at least) that of u.                    *)
HigherRate(t, u) == Fee[t] * Cost[u] > Fee[u] * Cost[t]
SameRate(t, u)   == Fee[t] * Cost[u] = Fee[u] * Cost[t]

------------------------------------------------------------------------------
(* Collections that remember the order in which their items came.          *)

EmptyQueue == [items |-> {}, before |-> {}]

Insert(q, t) ==
    IF t \in q.items THEN q
    ELSE [q EXCEPT !.items = @ \cup {t}, !.before = @ \cup (q.items \X {t})]

Without(q, S) ==
    [q EXCEPT !.items = @ \ S,
              !.before = {e \in @ : e[1] \notin S /\ e[2] \notin S}]

(* The item whose turn it is.                                              *)
First(q, t) ==
    t \in q.items /\ \A u \in q.items \ {t} : <<t, u>> \in q.before

------------------------------------------------------------------------------
(* class Mempool: the items and _block_height, 0 in a fresh one.           *)

EmptyPool == [items |-> {}, before |-> {}, height |-> 0]

(* ORDER BY fee_per_cost DESC, seq ASC                                     *)
Ahead(p, i, j) ==
    HigherRate(i, j) \/ (SameRate(i, j) /\ <<i, j>> \in p.before)

(* SUM(cost) OVER (ORDER BY fee_per_cost DESC, seq ASC), over the rows S   *)
CumulativeCost(p, S, i) == TotalCost({j \in S : j = i \/ Ahead(p, j, i)})

AtFullCapacity(p, t) == TotalCost(p.items) + Cost[t] > MaxTotalCost

(* A mutant: paying more than the cheapest is enough.                      *)
BeatsCheapest(p, t) == \E i \in p.items : HigherRate(t, i)

(* get_min_fee_rate drops items from the lowest fee rate up until t fits   *)
(* and returns the rate of the last one dropped: t must pay more than it.  *)
BeatsMinFeeRate(p, t) ==
    \E i \in p.items :
        /\ CumulativeCost(p, p.items, i) - Cost[i] + Cost[t] <= MaxTotalCost
        /\ CumulativeCost(p, p.items, i) + Cost[t] > MaxTotalCost
        /\ HigherRate(t, i)

RemoveFromPool(p, S) == Without(p, S)

(* A mutant: an item lives one block too long.                             *)
NewTxBlockLate(p, h) ==
    [RemoveFromPool(p, {i \in p.items : BeforeHeight[i] < h})
        EXCEPT !.height = h]

(* new_tx_block: what expires at height h leaves, before the height moves. *)
NewTxBlock(p, h) ==
    [RemoveFromPool(p, {i \in p.items : BeforeHeight[i] <= h})
        EXCEPT !.height = h]

ExpiresSoon(p, i) == BeforeHeight[i] < p.height + Soon

(* The items that expire soon may fill one block: those that a further one *)
(* of them, t, would push out of it.                                       *)
SoonOver(p, t) ==
    LET soon == {i \in p.items : ExpiresSoon(p, i)}
    IN {i \in soon : /\ ExpiresSoon(p, t)
                     /\ CumulativeCost(p, soon, i) + Cost[t] > MaxBlockCost}

(* add_to_pool refuses t if one of them pays more per cost than t ...      *)
Refuses(p, t) == \E i \in SoonOver(p, t) : HigherRate(i, t)

(* ... and drops them otherwise, then the items of the lowest fee rates    *)
(* that do not fit beside t.                                               *)
AddToPool(p, t) ==
    LET q    == RemoveFromPool(p, SoonOver(p, t))
        full == {i \in q.items :
                    CumulativeCost(q, q.items, i) > MaxTotalCost - Cost[t]}
    IN Insert(RemoveFromPool(q, full), t)

(* get_deduplication_info: of the coins i spends, those an item taken      *)
(* before it spends and both spend as eligible, in the same way ...        *)
Shared(taken, i) == {c \in Dedup[i] : \E j \in taken : c \in Dedup[j]}

(* ... or in another, which makes it raise and the item is passed over.    *)
SpentOtherwise(taken, i) ==
    \E j \in taken : Dedup[i] \cap Dedup[j] # {} /\ Solution[i] # Solution[j]

(* The items create_bundle_from_mempool_items takes: in order of fee rate, *)
(* up to the first one that does not fit into the block any more.          *)
Bundle(p) ==
    LET Nth(n) == CHOOSE i \in p.items :
                     Cardinality({j \in p.items : Ahead(p, j, i)}) = n - 1
        ItemCost(taken, i) ==
            Cost[i] - SpendCost * Cardinality(Shared(taken, i))
        walk[n \in 0 .. Cardinality(p.items)] ==
            IF n = 0 THEN [taken |-> {}, cost |-> 0, full |-> FALSE]
            ELSE LET w == walk[n - 1]
                     i == Nth(n)
                     c == w.cost + ItemCost(w.taken, i)
                 IN IF w.full \/ SpentOtherwise(w.taken, i) THEN w
                    ELSE IF c > MaxBlockCost THEN [w EXCEPT !.full = TRUE]
                    ELSE [w EXCEPT !.taken = @ \cup {i}, !.cost = c]
    IN walk[Cardinality(p.items)].taken

------------------------------------------------------------------------------
(* class PendingTxCache: over its limit it drops items of the highest      *)
(* assert_height, the earliest of those first.                             *)

EvictedLater(q, i, j) ==
    \/ AssertHeight[j] < AssertHeight[i]
    \/ AssertHeight[j] = AssertHeight[i] /\ <<i, j>> \in q.before

AddPending(q, t) ==
    LET r == Insert(q, t)
    IN Without(r, {i \in r.items :
         TotalCost({j \in r.items : j = i \/ EvictedLater(r, i, j)})
            > CacheMaxCost})

(* A mutant: one height too few.                                           *)
DueLate(q, h) == {i \in q.items : AssertHeight[i] + 1 < h}

(* drain takes the items below the height ...                              *)
Due(q, h) == {i \in q.items : AssertHeight[i] < h}

(* ... in order of height, those of one height in order of arrival.        *)
DueBefore(q, i, j) ==
    \/ AssertHeight[i] < AssertHeight[j]
    \/ AssertHeight[i] = AssertHeight[j] /\ <<i, j>> \in q.before

(* class ConflictTxCache: over its limit it drops the earliest.            *)
AddConflict(q, t) ==
    LET r == Insert(q, t)
    IN Without(r, {i \in r.items :
         TotalCost({j \in r.items : j = i \/ <<i, j>> \in r.before})
            > CacheMaxCost})
==============================================================================
