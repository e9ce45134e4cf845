----------------------------- MODULE MCBlockTree -----------------------------
(***************************************************************************)
(* A block tree for the runs: a common block c1 above genesis, two forks   *)
(* a2-a3 and b2-b3-b4 that overtake each other twice, and blocks with bad  *)
(* bodies on both.                                                         *)
(*                                                                         *)
(*   g - c1 -+- a2 - a3          p: made by c1, spent by a2 and by b3      *)
(*           |   \- x3           u: made by c1, spent by b2                *)
(*           +- b2 -+- b3 -+- b4 r: the same reward coin in a2 and in b3   *)
(*                  |      \- z4  e: made and spent within b4              *)
(*                  \- y3                                                  *)
(*   g - d1                     a fork at genesis itself                   *)
(*   q0 - q1                    another genesis, with a heavy child        *)
(* x3 spends p a second time in the fork of a2, y3 spends r, which exists  *)
(* only on the other fork, z4 spends p a second time in the fork of b3.    *)
(***************************************************************************)
EXTENDS BlockTree, TLC

CONSTANT MCBlocks   \* the blocks of this tree that are offered

OfferedBlocks == MCBlocks

OnTree(m) == [b \in MCBlocks |-> m[b]]

MCParent == OnTree(
    "g" :> GenesisChallenge @@ "c1" :> "g" @@ "a2" :> "c1" @@ "a3" :> "a2" @@
    "b2" :> "c1" @@ "b3" :> "b2" @@ "b4" :> "b3" @@
    "x3" :> "a2" @@ "y3" :> "b2" @@ "z4" :> "b3" @@
    "q0" :> GenesisChallenge @@ "q1" :> "q0" @@ "d1" :> "g")

MCHeightOf == OnTree(
    "g" :> 0 @@ "c1" :> 1 @@ "a2" :> 2 @@ "a3" :> 3 @@ "b2" :> 2 @@ "b3" :> 3 @@
    "b4" :> 4 @@ "x3" :> 3 @@ "y3" :> 3 @@ "z4" :> 4 @@ "q0" :> 0 @@ "q1" :> 1 @@
    "d1" :> 1)

MCWeight == OnTree(
    "g" :> 1 @@ "c1" :> 2 @@ "a2" :> 4 @@ "a3" :> 6 @@ "b2" :> 4 @@ "b3" :> 5 @@
    "b4" :> 7 @@ "x3" :> 8 @@ "y3" :> 8 @@ "z4" :> 9 @@ "q0" :> 1 @@ "q1" :> 5 @@
    "d1" :> 2)

MCCoins == {"p", "u", "r", "e"}

Only(S, m) == [b \in MCBlocks |-> IF b \in DOMAIN m THEN m[b] ELSE S]

MCAdds == Only({}, "c1" :> {"p", "u"} @@ "a2" :> {"r"} @@ "b3" :> {"r"} @@
                   "b4" :> {"e"} @@ "q1" :> {"u"})
MCSpends == Only({}, "a2" :> {"p"} @@ "a3" :> {"r"} @@ "b2" :> {"u"} @@
                     "b3" :> {"p"} @@ "b4" :> {"r", "e"} @@
                     "x3" :> {"p"} @@ "y3" :> {"r"} @@ "z4" :> {"p"})

MCMaxHeight == 4

Up[b \in MCBlocks, n \in 0 .. MCMaxHeight] ==
    IF n = 0 THEN b
    ELSE LET c == Up[b, n - 1] IN IF c \in MCBlocks THEN MCParent[c] ELSE c

MCAnc == [b \in MCBlocks |-> [h \in 0 .. MCMaxHeight |->
            IF h > MCHeightOf[b] THEN NoBlock ELSE Up[b, MCHeightOf[b] - h]]]

NoPreError == [b \in MCBlocks |-> "none"]
==============================================================================
