--------------------------- MODULE MCBlockHeightMap ---------------------------
(***************************************************************************)
(* BlockHeightMap on two forks above a common block that overtake each     *)
(* other, with a longer chain and with a shorter one.                      *)
(*                                                                         *)
(*   g - c1 -+- a2 - a3 - a4 - a5                                          *)
(*           +- b2 - b3 - b4 - b5 - b6                                     *)
(***************************************************************************)
EXTENDS BlockHeightMap, TLC

MCBlocks == {"g", "c1", "a2", "a3", "a4", "a5", "b2", "b3", "b4", "b5", "b6"}
MCMaxHeight == 6

MCParent ==
    "g" :> GenesisChallenge @@ "c1" :> "g" @@ "a2" :> "c1" @@ "a3" :> "a2" @@
    "a4" :> "a3" @@ "a5" :> "a4" @@ "b2" :> "c1" @@ "b3" :> "b2" @@ "b4" :> "b3" @@
    "b5" :> "b4" @@ "b6" :> "b5"

MCHeightOf ==
    "g" :> 0 @@ "c1" :> 1 @@ "a2" :> 2 @@ "a3" :> 3 @@ "a4" :> 4 @@ "a5" :> 5 @@
    "b2" :> 2 @@ "b3" :> 3 @@ "b4" :> 4 @@ "b5" :> 5 @@ "b6" :> 6

Up[b \in MCBlocks, n \in 0 .. MCMaxHeight] ==
    IF n = 0 THEN b
    ELSE LET c == Up[b, n - 1] IN IF c \in MCBlocks THEN MCParent[c] ELSE c

MCAnc == [b \in MCBlocks |-> [h \in 0 .. MCMaxHeight |->
            IF h > MCHeightOf[b] THEN NoBlock ELSE Up[b, MCHeightOf[b] - h]]]

(* b3 overtakes a4, a5 overtakes b3, b4 overtakes a5; b5 and b6 do so too. *)
MCWeight ==
    "g" :> 1 @@ "c1" :> 2 @@ "a2" :> 3 @@ "a3" :> 4 @@ "a4" :> 5 @@ "a5" :> 7 @@
    "b2" :> 3 @@ "b3" :> 6 @@ "b4" :> 8 @@ "b5" :> 9 @@ "b6" :> 10

NoCoins == {}
NoneEach == [b \in MCBlocks |-> {}]
NoPreError == [b \in MCBlocks |-> "none"]
==============================================================================
