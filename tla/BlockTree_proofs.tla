--------------------------- MODULE BlockTree_proofs ---------------------------
(***************************************************************************)
(* Ancestors and parents in a block tree, and the least of a set of        *)
(* naturals, which stands in for induction.                                *)
(***************************************************************************)
EXTENDS BlockTree, TLAPS, WellFoundedInduction

(* What a well-founded minimum says about naturals.                      *)
LEMMA NotBelow ==
    ASSUME NEW R, R = {e \in Nat \X Nat : e[1] < e[2]},
           NEW x \in Nat, NEW y \in Nat, ~ (<<y, x>> \in R)
    PROVE  x <= y
  OBVIOUS

(* A set of naturals has a least element.                                  *)
LEMMA LeastNatural ==
    ASSUME NEW S \in SUBSET Nat, S # {}
    PROVE  \E x \in S : \A y \in S : x <= y
  <1> DEFINE R == OpToRel(<, Nat)
  <1>1. R = {e \in Nat \X Nat : e[1] < e[2]}
    BY Zenon DEF OpToRel
  <1>2. PICK x \in S : \A y \in S : ~ (<<y, x>> \in R)
    BY NatLessThanWellFounded, WFMin
  <1> HIDE DEF R
  <1>3. \A y \in S : x <= y
    BY <1>1, <1>2, NotBelow, Zenon
  <1> QED
    BY <1>3

(* What AncAssumption says of one block and one height at or below it.     *)
LEMMA AncFacts ==
    ASSUME NEW b \in Blocks, NEW h \in 0 .. HeightOf[b]
    PROVE  /\ HeightOf[b] \in Heights
           /\ h \in Heights
           /\ Anc[b][h] \in Blocks
           /\ HeightOf[Anc[b][h]] = h
           /\ \A k \in 0 .. h : Anc[Anc[b][h]][k] = Anc[b][k]
           /\ h = HeightOf[b] => Anc[b][h] = b
  <1>1. HeightOf[b] \in Heights
    BY FieldAssumption
  <1>2. h \in Heights
    BY <1>1, HashAssumption DEF Heights
  <1> QED
    BY <1>1, <1>2, AncAssumption, HashAssumption DEF Heights

(* A block above height 0 has its parent's ancestors.                      *)
LEMMA ParentStep ==
    ASSUME NEW b \in Blocks
    PROVE  /\ HeightOf[b] = 0 => Parent[b] = GenesisChallenge
           /\ HeightOf[b] # 0 => /\ Parent[b] \in Blocks
                                 /\ HeightOf[Parent[b]] = HeightOf[b] - 1
                                 /\ HeightOf[b] > 0
                                 /\ \A k \in 0 .. (HeightOf[b] - 1) :
                                       Anc[Parent[b]][k] = Anc[b][k]
  <1>1. HeightOf[b] \in Heights
    BY FieldAssumption
  <1> QED
    BY <1>1, ParentAssumption, AncAssumption, HashAssumption DEF Heights

(* One step down from the ancestor at height h.                            *)
LEMMA AncDown ==
    ASSUME NEW b \in Blocks, NEW h \in 1 .. HeightOf[b]
    PROVE  Parent[Anc[b][h]] = Anc[b][h - 1] /\ Anc[b][h - 1] \in Blocks
  <1>0. HeightOf[b] \in Nat
    BY FieldAssumption, HashAssumption DEF Heights
  <1> DEFINE x == Anc[b][h]
  <1>1. /\ x \in Blocks /\ HeightOf[x] = h
        /\ \A k \in 0 .. h : Anc[x][k] = Anc[b][k]
    BY <1>0, AncFacts
  <1>2. /\ Parent[x] \in Blocks /\ HeightOf[Parent[x]] = h - 1
        /\ Anc[Parent[x]][h - 1] = Anc[x][h - 1]
    BY <1>0, <1>1, ParentStep
  <1>3. Anc[Parent[x]][h - 1] = Parent[x]
    BY <1>0, <1>2, AncFacts
  <1>4. Anc[x][h - 1] = Anc[b][h - 1]
    BY <1>0, <1>1
  <1> QED
    BY <1>2, <1>3, <1>4
==============================================================================
