------------------------------ MODULE BlockTree ------------------------------
(***************************************************************************)
(* The universe of blocks a node may be offered, and the reference         *)
(* definitions the checks are stated against.                              *)
(*                                                                         *)
(* A block is an opaque header hash.  Its fields are functions of it:      *)
(* Parent (prev_header_hash), HeightOf (height), Weight (weight), Spends   *)
(* (the coin ids its generator removes) and Adds (the coins it creates,    *)
(* transaction outputs and included reward coins together).  PreError is   *)
(* the verdict of header pre-validation on the block, which is a function  *)
(* of the block and its ancestors only.                                    *)
(***************************************************************************)
EXTENDS Integers, FiniteSets

CONSTANTS
    Blocks,            \* header hashes of the blocks that may be offered
    NoBlock,           \* absence of a block
    GenesisChallenge,  \* constants.GENESIS_CHALLENGE, prev hash of height 0
    ZeroHash,          \* bytes32([0] * 32)
    MaxHeight,         \* bound on heights
    Parent, HeightOf, Weight,
    Anc,               \* Anc[b][h]: the ancestor of b at height h
    Coins, Adds, Spends,
    PreError           \* "none", "header" or "ses"

Heights == 0 .. MaxHeight

Genesis == {b \in Blocks : HeightOf[b] = 0}

ASSUME HashAssumption ==
    /\ NoBlock \notin Blocks
    /\ GenesisChallenge \notin Blocks
    /\ ZeroHash \notin Blocks
    /\ MaxHeight \in Nat

ASSUME FieldAssumption ==
    /\ Parent \in [Blocks -> Blocks \cup {GenesisChallenge}]
    /\ HeightOf \in [Blocks -> Heights]
    /\ Weight \in [Blocks -> Nat]
    /\ Adds \in [Blocks -> SUBSET Coins]
    /\ Spends \in [Blocks -> SUBSET Coins]
    /\ PreError \in [Blocks -> {"none", "header", "ses"}]

(* A block at height 0 names the genesis challenge; any other one names a  *)
(* block one lower.                                                        *)
ASSUME ParentAssumption ==
    \A b \in Blocks :
        IF HeightOf[b] = 0
        THEN Parent[b] = GenesisChallenge
        ELSE Parent[b] \in Blocks /\ HeightOf[Parent[b]] = HeightOf[b] - 1

(* Anc is the ancestor function of Parent.                                 *)
ASSUME AncAssumption ==
    /\ Anc \in [Blocks -> [Heights -> Blocks \cup {NoBlock}]]
    /\ \A b \in Blocks : \A h \in Heights :
          /\ h > HeightOf[b] => Anc[b][h] = NoBlock
          /\ h = HeightOf[b] => Anc[b][h] = b
          /\ h < HeightOf[b] => Anc[b][h] = Anc[Parent[b]][h]
          /\ h <= HeightOf[b] =>
                /\ Anc[b][h] \in Blocks
                /\ HeightOf[Anc[b][h]] = h
                /\ \A k \in 0 .. h : Anc[Anc[b][h]][k] = Anc[b][k]

(* Every genesis block has the starting weight, no block has less; and a   *)
(* genesis block neither creates nor spends coins (coin_store.new_block    *)
(* asserts the first, _set_spent the second).                              *)
ASSUME GenesisAssumption ==
    \A g \in Genesis :
        /\ \A b \in Blocks : Weight[g] <= Weight[b]
        /\ Adds[g] = {} /\ Spends[g] = {}

------------------------------------------------------------------------------
(* Reference definitions.                                                  *)

(* The blocks from genesis to b.                                           *)
Path(b) == {Anc[b][h] : h \in 0 .. HeightOf[b]}

(* On the chain that ends in b, c was created (spent) strictly below h.    *)
CreatedBelow(b, h, c) == \E k \in 0 .. (h - 1) : c \in Adds[Anc[b][k]]
SpentBelow(b, h, c)   == \E k \in 0 .. (h - 1) : c \in Spends[Anc[b][k]]

(* Every coin b spends is created by b itself, or exists unspent on the    *)
(* chain below b.                                                          *)
BodyOK(b) ==
    \A c \in Spends[b] \ Adds[b] :
        /\ CreatedBelow(b, HeightOf[b], c)
        /\ ~ SpentBelow(b, HeightOf[b], c)

(* Every block of b's chain passes header pre-validation and spends only   *)
(* what the chain below it provides.                                       *)
ChainValid(b) ==
    \A h \in 0 .. HeightOf[b] :
        PreError[Anc[b][h]] = "none" /\ BodyOK(Anc[b][h])

(* A coin id commits to the coin's parent, and a reward coin's parent to   *)
(* the height of the block it rewards, so a chain that spends no coin      *)
(* twice creates none twice.                                               *)
ASSUME CoinCreatedOnce ==
    \A b \in Blocks : ChainValid(b) =>
        \A h, k \in 0 .. HeightOf[b] :
            h # k => Adds[Anc[b][h]] \cap Adds[Anc[b][k]] = {}

(* h is the height of the last block shared by the chains of p and q, -1   *)
(* when they share none.                                                   *)
IsForkHeight(p, q, h) ==
    /\ h \in -1 .. HeightOf[p] /\ h <= HeightOf[q]
    /\ h >= 0 => Anc[p][h] = Anc[q][h]
    /\ \A k \in (h + 1) .. HeightOf[p] :
          k <= HeightOf[q] => Anc[p][k] # Anc[q][k]
==============================================================================
