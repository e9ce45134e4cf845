------------------------------ MODULE MCMempool ------------------------------
(***************************************************************************)
(* A chain with one reorganisation and back, and five transactions.        *)
(*                                                                         *)
(*   g - c1 -+- a2 - a3 - a4     transaction blocks: g, c1, a2, a4, b3     *)
(*           +- b2 - b3          c1 makes coins 1, 2, 3; a2 spends 1 and   *)
(*                               makes 4; b3 spends 1; a4 spends 4         *)
(***************************************************************************)
EXTENDS MempoolManager, TLC

CONSTANTS MCTxs, MCBlocks

MCParent == "g" :> GenesisChallenge @@ "c1" :> "g" @@ "a2" :> "c1" @@
            "a3" :> "a2" @@ "a4" :> "a3" @@ "b2" :> "c1" @@ "b3" :> "b2"
MCHeightOf == "g" :> 0 @@ "c1" :> 1 @@ "a2" :> 2 @@ "a3" :> 3 @@ "a4" :> 4 @@
              "b2" :> 2 @@ "b3" :> 3
MCWeight == "g" :> 1 @@ "c1" :> 2 @@ "a2" :> 3 @@ "a3" :> 4 @@ "a4" :> 6 @@
            "b2" :> 3 @@ "b3" :> 5

MCCoins == 1 .. 4

Only(S, m) == [b \in MCBlocks |-> IF b \in DOMAIN m THEN m[b] ELSE S]

MCAdds   == Only({}, "c1" :> {1, 2, 3} @@ "a2" :> {4})
MCSpends == Only({}, "a2" :> {1} @@ "b3" :> {1} @@ "a4" :> {4})
MCTxBlocks == {"g", "c1", "a2", "a4", "b3"} \cap MCBlocks
MCMaxHeight == 4

OnTree(m) == [b \in MCBlocks |-> m[b]]
TheParent == OnTree(MCParent)
TheHeightOf == OnTree(MCHeightOf)
TheWeight == OnTree(MCWeight)

Up[b \in MCBlocks, n \in 0 .. MCMaxHeight] ==
    IF n = 0 THEN b
    ELSE LET c == Up[b, n - 1] IN IF c \in MCBlocks THEN MCParent[c] ELSE c

MCAnc == [b \in MCBlocks |-> [h \in 0 .. MCMaxHeight |->
            IF h > MCHeightOf[b] THEN NoBlock ELSE Up[b, MCHeightOf[b] - h]]]
TheLastTx == [b \in MCBlocks |-> IF b \in MCTxBlocks THEN b ELSE TheParent[b]]
NoPreError == [b \in MCBlocks |-> "none"]

TheTxs == MCTxs
TheSolution == [t \in MCTxs |-> t]

Tx(spends, dedup, fee, cost, from, until) ==
    [spends |-> spends, dedup |-> dedup, fee |-> fee, cost |-> cost,
     from |-> from, until |-> until]

(* r replaces p; s and u wait for height 2 and u replaces s; w spends what *)
(* only a2 makes and, as eligible for deduplication, the coin of p: beside *)
(* p it is let in, p is not let in beside it.  p, r and w expire at height *)
(* 4, and w needs the room of u.                                           *)
Sample ==
    "p" :> Tx({2}, {}, 1, 1, 0, 4) @@ "r" :> Tx({1, 2}, {}, 12, 3, 0, 4) @@
    "s" :> Tx({3}, {}, 2, 2, 2, Never) @@ "u" :> Tx({3}, {}, 6, 2, 2, Never) @@
    "w" :> Tx({2, 4}, {2}, 4, 3, 0, 4)

TheSpends == [t \in MCTxs |-> Sample[t].spends]
TheDedup  == [t \in MCTxs |-> Sample[t].dedup]
TheFee    == [t \in MCTxs |-> Sample[t].fee]
TheCost   == [t \in MCTxs |-> Sample[t].cost]
TheFrom   == [t \in MCTxs |-> Sample[t].from]
TheUntil  == [t \in MCTxs |-> Sample[t].until]
==============================================================================
