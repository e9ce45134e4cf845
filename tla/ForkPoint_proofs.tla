--------------------------- MODULE ForkPoint_proofs ---------------------------
(***************************************************************************)
(* The two walks of find_fork_point.py give the fork height, for every     *)
(* block tree and every pair of blocks.                                    *)
(***************************************************************************)
EXTENDS ForkPoint, BlockTree_proofs, FiniteSetTheorems

------------------------------------------------------------------------------
(* The loop invariant.                                                     *)

(* The two cursors are ancestors of the two arguments.                     *)
Cursors ==
    /\ height1 <= HeightOf[tip1] /\ bh1 = Anc[tip1][height1]
    /\ height2 <= HeightOf[tip2] /\ bh2 = Anc[tip2][height2]

(* Only the cursor of the higher chain moves before they are level.        *)
Levelling ==
    /\ height1 # HeightOf[tip1] => height2 = HeightOf[tip2] /\ height1 >= height2
    /\ height2 # HeightOf[tip2] => height1 = HeightOf[tip1] /\ height2 >= height1

(* Above height f the two chains have no block in common.                  *)
ApartAbove(f) ==
    \A k \in (f + 1) .. HeightOf[tip1] :
        k <= HeightOf[tip2] => Anc[tip1][k] # Anc[tip2][k]

(* ret holds the chain of tip2 above height f and nothing else.            *)
Recorded(f) ==
    \A k \in Heights :
        ret[k] = IF k > f /\ k <= HeightOf[tip2] THEN Anc[tip2][k] ELSE NoBlock

(* What has been returned is the fork height.                              *)
Returned ==
    \E f \in -1 .. MaxHeight :
        /\ IsForkHeight(tip1, tip2, f)
        /\ fn = "find" => forkHeight = f
        /\ fn = "lookup" => /\ Recorded(f)
                            /\ forkHash = IF f = -1 THEN ZeroHash ELSE Anc[tip2][f]

WalkInv ==
    /\ TypeOK
    /\ Cursors
    /\ pc \in {"idle", "level"} => Levelling
    /\ pc = "walk" => height1 = height2 /\ ApartAbove(height2)
    /\ pc # "done" /\ fn = "lookup" => Recorded(height2)
    /\ pc = "done" => Returned

LEMMA HeightTypes ==
    /\ MaxHeight \in Nat
    /\ \A b \in Blocks : HeightOf[b] \in Nat /\ HeightOf[b] <= MaxHeight
  BY FieldAssumption, HashAssumption DEF Heights

LEMMA InvInit ==
    ASSUME Init
    PROVE  WalkInv
  <1>1. TypeOK
    BY FieldAssumption, HashAssumption DEF Init, TypeOK, NoEntries, Heights
  <1>2. Cursors
    BY AncFacts, HeightTypes DEF Init, Cursors
  <1>3. Recorded(height2)
    BY HeightTypes DEF Init, Recorded, NoEntries, Heights
  <1> QED
    BY <1>1, <1>2, <1>3 DEF Init, WalkInv, Levelling

LEMMA LowerInv ==
    ASSUME WalkInv, Lower1 \/ Lower2
    PROVE  WalkInv'
  <1>0. TypeOK /\ Cursors /\ Levelling /\ pc = "level" /\ pc' = pc
    BY DEF WalkInv, Lower1, Lower2
  <1>1. CASE Lower1
    <2>1. height1 \in 1 .. HeightOf[tip1] /\ height2 \in Nat /\ tip1 \in Blocks
      BY <1>0, <1>1, HeightTypes DEF TypeOK, Cursors, Lower1, Heights
    <2>2. bh1' = Anc[tip1][height1 - 1] /\ bh1' \in Blocks
      BY <1>0, <1>1, <2>1, AncDown DEF Cursors, Lower1, PrevBlockHash
    <2>3. TypeOK' /\ Cursors'
      BY <1>0, <1>1, <2>1, <2>2, HeightTypes DEF TypeOK, Cursors, Lower1, Heights, result
    <2>4. Levelling'
      BY <1>0, <1>1, <2>1, HeightTypes DEF Levelling, Lower1, TypeOK
    <2>5. fn' = "lookup" => Recorded(height2)'
      BY <1>0, <1>1 DEF Recorded, Lower1, WalkInv
    <2> QED
      BY <1>0, <2>3, <2>4, <2>5 DEF WalkInv
  <1>2. CASE Lower2
    <2>1. height2 \in 1 .. HeightOf[tip2] /\ height1 \in Nat /\ tip2 \in Blocks
      BY <1>0, <1>2, HeightTypes DEF TypeOK, Cursors, Lower2, Heights
    <2>2. bh2' = Anc[tip2][height2 - 1] /\ bh2' \in Blocks
      BY <1>0, <1>2, <2>1, AncDown DEF Cursors, Lower2, PrevBlockHash
    <2>3. TypeOK' /\ Cursors'
      BY <1>0, <1>2, <2>1, <2>2, HeightTypes
      DEF TypeOK, Cursors, Lower2, Heights, result, Record
    <2>4. Levelling'
      BY <1>0, <1>2, <2>1, HeightTypes DEF Levelling, Lower2, TypeOK
    <2>5. fn' = "lookup" => Recorded(height2)'
      BY <1>0, <1>2, <2>1, HeightTypes DEF Recorded, Lower2, WalkInv, Record, Cursors, TypeOK, Heights
    <2> QED
      BY <1>0, <2>3, <2>4, <2>5 DEF WalkInv
  <1> QED
    BY <1>1, <1>2

LEMMA LevelInv ==
    ASSUME WalkInv, Call \/ Level
    PROVE  WalkInv'
  <1>0. TypeOK /\ Cursors /\ Levelling
    BY DEF WalkInv, Call, Level
  <1>1. TypeOK' /\ Cursors' /\ (fn' = "lookup" => Recorded(height2)')
    BY <1>0 DEF WalkInv, TypeOK, Cursors, Recorded, Call, Level, result
  <1>2. CASE Call
    BY <1>0, <1>1, <1>2 DEF WalkInv, Call, Levelling
  <1>3. CASE Level
    <2>1. \A k \in (height2 + 1) .. HeightOf[tip1] : ~ (k <= HeightOf[tip2])
      BY <1>0, <1>3, HeightTypes DEF Level, Levelling, TypeOK, Heights, Cursors
    <2>2. ApartAbove(height2)'
      BY <1>3, <2>1 DEF ApartAbove, Level
    <2> QED
      BY <1>1, <1>3, <2>2 DEF WalkInv, Level
  <1> QED
    BY <1>2, <1>3

LEMMA WalkStepInv ==
    ASSUME WalkInv, Walk
    PROVE  WalkInv'
  <1>0. TypeOK /\ Cursors /\ height1 = height2 /\ ApartAbove(height2) /\ pc' = "walk"
    BY DEF WalkInv, Walk
  <1>1. /\ height2 \in 1 .. HeightOf[tip1] /\ height2 \in 1 .. HeightOf[tip2]
        /\ tip1 \in Blocks /\ tip2 \in Blocks
    BY <1>0, HeightTypes DEF TypeOK, Cursors, Walk, Walkable, Heights
  <1>2. /\ bh1' = Anc[tip1][height2 - 1] /\ bh1' \in Blocks
        /\ bh2' = Anc[tip2][height2 - 1] /\ bh2' \in Blocks
    BY <1>0, <1>1, AncDown DEF Cursors, Walk, PrevBlockHash
  <1>3. TypeOK' /\ Cursors'
    BY <1>0, <1>1, <1>2, HeightTypes DEF TypeOK, Cursors, Walk, Record, Heights, result
  <1>4. ApartAbove(height2)'
    <2>1. Anc[tip1][height2] # Anc[tip2][height2]
      BY <1>0 DEF Cursors, Walk
    <2> QED
      BY <1>0, <1>1, <2>1, HeightTypes DEF ApartAbove, Walk
  <1>5. fn' = "lookup" => Recorded(height2)'
    BY <1>0, <1>1, HeightTypes DEF Recorded, Walk, WalkInv, Record, Cursors, TypeOK, Heights
  <1> QED
    BY <1>0, <1>3, <1>4, <1>5 DEF WalkInv, Walk

LEMMA ReturnInv ==
    ASSUME WalkInv, ReturnShared \/ ReturnApart
    PROVE  WalkInv'
  <1>0. /\ TypeOK /\ Cursors /\ height1 = height2 /\ ApartAbove(height2) /\ pc' = "done"
        /\ UNCHANGED <<fn, tip1, tip2, height1, height2, bh1, bh2>>
        /\ fn = "lookup" => Recorded(height2)
    BY DEF WalkInv, ReturnShared, ReturnApart, Return
  <1>1. /\ height2 \in 0 .. MaxHeight
        /\ height2 <= HeightOf[tip1] /\ height2 <= HeightOf[tip2]
        /\ tip1 \in Blocks /\ tip2 \in Blocks
    BY <1>0, HeightTypes DEF TypeOK, Cursors, Heights
  <1>2. CASE ReturnShared
    <2>1. IsForkHeight(tip1, tip2, height2)
      BY <1>0, <1>1, <1>2, HeightTypes DEF IsForkHeight, ApartAbove, Cursors, ReturnShared
    <2>2. Recorded(height2)' <=> Recorded(height2)
      BY <1>0, <1>2 DEF Recorded, ReturnShared
    <2>3. Returned'
      <3>1. /\ fn' = "find" => forkHeight' = height2
            /\ fn' = "lookup" => forkHash' = Anc[tip2][height2] /\ Recorded(height2)'
        BY <1>0, <1>2, <2>2 DEF ReturnShared, Return, Cursors
      <3>2. height2 # -1 /\ height2 \in -1 .. MaxHeight
        BY <1>1, HeightTypes
      <3>3. \E f \in -1 .. MaxHeight :
              /\ IsForkHeight(tip1, tip2, f)
              /\ fn' = "find" => forkHeight' = f
              /\ fn' = "lookup" => /\ f = height2 /\ Recorded(height2)'
                                   /\ forkHash' = IF f = -1 THEN ZeroHash ELSE Anc[tip2][f]
        BY <2>1, <3>1, <3>2
      <3> QED
        BY <1>0, <3>3 DEF Returned, Recorded, IsForkHeight
    <2>4. TypeOK' /\ Cursors'
      BY <1>0, <1>1, <1>2, HeightTypes DEF TypeOK, Cursors, ReturnShared, Return, Heights
    <2> QED
      BY <1>0, <2>3, <2>4 DEF WalkInv
  <1>3. CASE ReturnApart
    <2>1. height2 = 0 /\ Anc[tip1][0] # Anc[tip2][0]
      BY <1>0, <1>1, <1>3, HeightTypes DEF ReturnApart, Walkable, Cursors
    <2>2. IsForkHeight(tip1, tip2, -1)
      BY <1>0, <1>1, <2>1, HeightTypes DEF IsForkHeight, ApartAbove
    <2>3. fn' = "lookup" => \A k \in Heights :
             ret'[k] = IF k > -1 /\ k <= HeightOf[tip2] THEN Anc[tip2][k] ELSE NoBlock
      BY <1>0, <1>1, <1>3, <2>1, HeightTypes
      DEF ReturnApart, Record, Recorded, Cursors, TypeOK, Heights
    <2>4. /\ fn' = "find" => forkHeight' = -1
          /\ fn' = "lookup" => forkHash' = ZeroHash
      BY <1>0, <1>3 DEF ReturnApart, Return
    <2>5. Returned'
      <3>1. -1 \in -1 .. MaxHeight
        BY HeightTypes
      <3> QED
        BY <1>0, <2>2, <2>3, <2>4, <3>1 DEF Returned, Recorded, IsForkHeight
    <2>6. TypeOK' /\ Cursors'
      BY <1>0, <1>1, <1>3, HeightTypes DEF TypeOK, Cursors, ReturnApart, Record, Return, Heights
    <2> QED
      BY <1>0, <2>5, <2>6 DEF WalkInv
  <1> QED
    BY <1>2, <1>3

LEMMA StutterInv ==
    ASSUME WalkInv, UNCHANGED vars
    PROVE  WalkInv'
  BY DEF WalkInv, vars, result, TypeOK, Cursors, Levelling, ApartAbove, Recorded, Returned, IsForkHeight

(* The loop invariant holds in every reachable state.                      *)
THEOREM WalkInvariant == Spec => []WalkInv
  <1>1. Init => WalkInv
    BY InvInit
  <1>2. WalkInv /\ [Next]_vars => WalkInv'
    BY LowerInv, LevelInv, WalkStepInv, ReturnInv, StutterInv DEF Next
  <1> QED
    BY <1>1, <1>2, PTL DEF Spec

------------------------------------------------------------------------------
LEMMA WalkInvImplies ==
    ASSUME WalkInv
    PROVE  LookupCorrect /\ FindCorrect
  <1> SUFFICES ASSUME WalkInv, pc = "done"
               PROVE  LookupCorrect /\ FindCorrect
    BY DEF LookupCorrect, FindCorrect
  <1>1. PICK f \in -1 .. MaxHeight :
           /\ IsForkHeight(tip1, tip2, f)
           /\ fn = "find" => forkHeight = f
           /\ fn = "lookup" => /\ Recorded(f)
                               /\ forkHash = IF f = -1 THEN ZeroHash ELSE Anc[tip2][f]
    BY DEF WalkInv, Returned
  <1>2. FindCorrect
    BY <1>1 DEF FindCorrect
  <1>3. CASE fn = "lookup"
    <2> DEFINE entries == {h \in Heights : ret[h] # NoBlock}
               top == HeightOf[tip2]
    <2>1. tip2 \in Blocks /\ top \in Nat /\ top <= MaxHeight /\ f <= top /\ f \in Int /\ f >= -1
      BY <1>1, HeightTypes DEF WalkInv, TypeOK, IsForkHeight
    <2>2. \A k \in 0 .. top : Anc[tip2][k] \in Blocks /\ Anc[tip2][k] # NoBlock
      BY <2>1, AncFacts, HashAssumption
    <2>3. entries = (f + 1) .. top
      BY <1>1, <1>3, <2>1, <2>2, HeightTypes DEF Recorded, Heights
    <2>4. Cardinality(entries) = top - f
      <3> HIDE DEF top
      <3>1. f + 1 \in Int /\ top \in Int
        BY <2>1
      <3>2. Cardinality((f + 1) .. top) = IF f + 1 > top THEN 0 ELSE top - (f + 1) + 1
        BY <3>1, FS_Interval
      <3>3. (IF f + 1 > top THEN 0 ELSE top - (f + 1) + 1) = top - f
        BY <2>1
      <3> QED
        BY <2>3, <3>2, <3>3
    <2>5. \A h \in entries : ret[h] = Anc[tip2][h]
      BY <1>1, <1>3, <2>1, <2>3 DEF Recorded, Heights
    <2>6. top - Cardinality(entries) = f
      BY <2>1, <2>4
    <2> HIDE DEF entries, top
    <2>7. LookupCorrect <=>
            LET g == top - Cardinality(entries)
            IN /\ IsForkHeight(tip1, tip2, g)
               /\ entries = (g + 1) .. top
               /\ \A h \in entries : ret[h] = Anc[tip2][h]
               /\ forkHash = IF g = -1 THEN ZeroHash ELSE Anc[tip2][g]
      BY <1>3 DEF LookupCorrect, entries, top
    <2> QED
      BY <1>1, <1>2, <1>3, <2>3, <2>5, <2>6, <2>7
  <1> QED
    BY <1>2, <1>3 DEF LookupCorrect

(* lookup_fork_chain, given any two blocks, returns the entries and the    *)
(* hash add_block and advance_fork_info rely on.                           *)
THEOREM LookupForkChainCorrect == Spec => []LookupCorrect
  BY WalkInvImplies, WalkInvariant, PTL

(* find_fork_point_in_chain, given any two blocks, returns the height of   *)
(* the last one their chains share.                                        *)
THEOREM FindForkPointCorrect == Spec => []FindCorrect
  BY WalkInvImplies, WalkInvariant, PTL
==============================================================================
