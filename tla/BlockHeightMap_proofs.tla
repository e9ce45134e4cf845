------------------------ MODULE BlockHeightMap_proofs ------------------------
(***************************************************************************)
(* The height map and the summaries are those of the committed peak's      *)
(* chain whenever the node runs, for every block tree, every order of      *)
(* weights and every sequence of reorganisations, flushes, cancellations   *)
(* and crashes, until a flush leaves a longer chain's end in the file      *)
(* (tail) or create meets a summary it does not look for (stale).          *)
(***************************************************************************)
EXTENDS BlockHeightMap, BlockTree_proofs, SequenceTheorems, WellFoundedInduction

MaybeBlocks == Blocks \cup {NoBlock}

(* The two maps for the chain that ends in q.                              *)
ChainOf(q) ==
    IF q = NoBlock THEN << >>
    ELSE [i \in 1 .. (HeightOf[q] + 1) |-> Anc[q][i - 1]]

SummaryOf(q) ==
    [h \in Heights |->
        IF q # NoBlock /\ h <= HeightOf[q] /\ Anc[q][h] \in SesBlocks
        THEN Anc[q][h] ELSE NoBlock]

------------------------------------------------------------------------------
(* The inductive invariants.                                               *)

Control ==
    /\ peak \in MaybeBlocks
    /\ firstDirty \in Nat
    /\ pc \in {"down", "run", "committed", "flush", "flush_ses"}
    /\ pc = "committed" => peak \in Blocks

(* The counter has reached the threshold only when a flush is next.        *)
CounterInv ==
    /\ counter \in Nat
    /\ pc \in {"down", "run", "committed", "flush_ses"} => counter < FlushThreshold
    /\ counter <= FlushThreshold + MaxHeight

(* The file is a chain, of a peak the node has had; it may be longer than  *)
(* the chain of the peak.                                                  *)
HashFileInv ==
    \E q \in MaybeBlocks : hashFile = ChainOf(q)

(* The map is the chain of the peak, or still that of an earlier one.      *)
HashInv ==
    /\ InSync => hash = ChainOf(peak)
    /\ \E q \in MaybeBlocks : hash = ChainOf(q)

(* Below the first dirty height the file is what the map is.               *)
DirtyInv ==
    pc # "down" => /\ firstDirty <= Len(hash) /\ firstDirty <= Len(hashFile)
                   /\ \A i \in 1 .. firstDirty : hashFile[i] = hash[i]

MapInv == Control /\ CounterInv /\ HashFileInv /\ HashInv /\ DirtyInv

(* All of this until a flush leaves a tail.                                *)
MapUnlessTail ==
    tail \in BOOLEAN /\ stale \in BOOLEAN /\ (~ tail => MapInv)

(* The summaries in the file are those of a peak the node has had, which   *)
(* need not be the one whose hashes were written last.                     *)
SesFileInv ==
    \E q \in MaybeBlocks : sesFile = SummaryOf(q)

SesInv ==
    /\ InSync => ses = SummaryOf(peak)
    /\ pc = "committed" =>
          \E q \in MaybeBlocks : hash = ChainOf(q) /\ ses = SummaryOf(q)

SummaryInv == SesFileInv /\ SesInv

SummaryUnlessStale == ~ tail /\ ~ stale => SummaryInv

------------------------------------------------------------------------------
(* Heights, chains and forks.                                              *)

LEMMA HeightTypes ==
    /\ MaxHeight \in Nat
    /\ \A b \in Blocks : HeightOf[b] \in Nat /\ HeightOf[b] <= MaxHeight /\ b # NoBlock
  BY FieldAssumption, HashAssumption DEF Heights

LEMMA ChainOfFacts ==
    ASSUME NEW q \in MaybeBlocks
    PROVE  /\ ChainOf(q) \in Seq(Blocks)
           /\ q = NoBlock => ChainOf(q) = << >> /\ Len(ChainOf(q)) = 0
           /\ q # NoBlock => /\ q \in Blocks
                             /\ Len(ChainOf(q)) = HeightOf[q] + 1
                             /\ \A k \in 0 .. HeightOf[q] : ChainOf(q)[k + 1] = Anc[q][k]
  <1>1. CASE q = NoBlock
    BY <1>1 DEF ChainOf
  <1>2. CASE q # NoBlock
    <2>1. q \in Blocks /\ HeightOf[q] \in Nat
      BY <1>2, HeightTypes DEF MaybeBlocks
    <2>2. \A i \in 1 .. (HeightOf[q] + 1) : Anc[q][i - 1] \in Blocks
      BY <2>1, AncFacts
    <2> QED
      BY <1>2, <2>1, <2>2 DEF ChainOf
  <1> QED
    BY <1>1, <1>2

(* Two chains that meet at a height agree below it.                        *)
LEMMA SamePrefix ==
    ASSUME NEW p \in Blocks, NEW q \in Blocks, NEW h \in Nat,
           h <= HeightOf[p], h <= HeightOf[q], Anc[p][h] = Anc[q][h]
    PROVE  \A k \in 0 .. h : Anc[p][k] = Anc[q][k]
  <1>1. h \in 0 .. HeightOf[p] /\ h \in 0 .. HeightOf[q]
    BY HeightTypes
  <1>2. \A k \in 0 .. h : Anc[Anc[p][h]][k] = Anc[p][k]
    BY <1>1, AncFacts
  <1>3. \A k \in 0 .. h : Anc[Anc[q][h]][k] = Anc[q][k]
    BY <1>1, AncFacts
  <1> QED
    BY <1>2, <1>3

(* A bounded set of naturals has a greatest element.                       *)
LEMMA GreatestNatural ==
    ASSUME NEW n \in Nat, NEW S \in SUBSET (-1 .. n), S # {}
    PROVE  \E x \in S : \A y \in S : x >= y
  <1> DEFINE T == {n - x : x \in S}
  <1>0. \A x \in S : n - x \in Nat
    OBVIOUS
  <1>1. T \in SUBSET Nat /\ T # {}
    BY <1>0, Zenon
  <1>2. PICK t \in T : \A u \in T : t <= u
    BY <1>1, LeastNatural
  <1>3. PICK x \in S : t = n - x
    BY <1>2
  <1>4. \A y \in S : x >= y
    BY <1>2, <1>3
  <1> QED
    BY <1>3, <1>4

LEMMA MaxFacts ==
    ASSUME NEW n \in Nat, NEW S \in SUBSET (-1 .. n), S # {}
    PROVE  Max(S) \in S /\ \A y \in S : Max(S) >= y
  BY GreatestNatural DEF Max

LEMMA ForkExists ==
    ASSUME NEW p \in Blocks, NEW q \in Blocks
    PROVE  \E f \in -1 .. MaxHeight : IsForkHeight(p, q, f)
  <1> DEFINE S == {f \in -1 .. HeightOf[p] :
                     f <= HeightOf[q] /\ (f >= 0 => Anc[p][f] = Anc[q][f])}
  <1>0. HeightOf[p] \in Nat /\ HeightOf[q] \in Nat /\ HeightOf[p] <= MaxHeight /\ MaxHeight \in Nat
    BY HeightTypes
  <1>1. -1 \in S
    BY <1>0
  <1>2. S \in SUBSET (-1 .. HeightOf[p]) /\ S # {}
    BY <1>1
  <1>3. PICK f \in S : \A k \in S : f >= k
    <2> HIDE DEF S
    <2> QED
      BY <1>0, <1>2, GreatestNatural
  <1>4. f \in -1 .. HeightOf[p] /\ f <= HeightOf[q] /\ (f >= 0 => Anc[p][f] = Anc[q][f])
    BY <1>3
  <1>5. ASSUME NEW k \in (f + 1) .. HeightOf[p], k <= HeightOf[q], Anc[p][k] = Anc[q][k]
        PROVE  FALSE
    <2>1. k \in S
      BY <1>0, <1>4, <1>5
    <2> QED
      BY <1>0, <1>3, <1>4, <2>1
  <1>6. IsForkHeight(p, q, f)
    BY <1>4, <1>5 DEF IsForkHeight
  <1> QED
    BY <1>0, <1>4, <1>6

(* Below its fork with the chain of p, the chain of q is that of p.        *)
LEMMA ForkShares ==
    ASSUME NEW p \in Blocks, NEW q \in Blocks, NEW f, IsForkHeight(q, p, f)
    PROVE  /\ f \in Int /\ f >= -1 /\ f <= HeightOf[q] /\ f <= HeightOf[p]
           /\ \A k \in 0 .. f : Anc[q][k] = Anc[p][k]
  <1>1. /\ f \in Int /\ f >= -1 /\ f <= HeightOf[q] /\ f <= HeightOf[p]
        /\ f >= 0 => Anc[q][f] = Anc[p][f]
    BY HeightTypes DEF IsForkHeight
  <1>2. CASE f >= 0
    BY <1>1, <1>2, SamePrefix
  <1> QED
    BY <1>1, <1>2

------------------------------------------------------------------------------
(* create: what it keeps of the files.                                     *)

LEMMA StopFacts ==
    ASSUME peak \in Blocks
    PROVE  /\ StopHeight(peak) \in -1 .. (HeightOf[peak] - 1)
           /\ StopHeight(peak) >= 0 => Agrees(StopHeight(peak), peak)
  <1> DEFINE matches == {h \in 0 .. (HeightOf[peak] - 1) : Agrees(h, peak)}
  <1>0. HeightOf[peak] \in Nat
    BY HeightTypes
  <1>1. CASE matches = {}
    BY <1>0, <1>1 DEF StopHeight
  <1>2. CASE matches # {}
    <2>1. matches \in SUBSET (-1 .. HeightOf[peak])
      BY <1>0
    <2>2. Max(matches) \in matches
      <3> HIDE DEF matches
      <3> QED
        BY <1>0, <1>2, <2>1, MaxFacts
    <2>3. StopHeight(peak) = Max(matches)
      BY <1>2 DEF StopHeight
    <2> QED
      BY <1>0, <2>2, <2>3
  <1> QED
    BY <1>1, <1>2

(* Where the file holds a block of the peak's chain it holds the chain.    *)
LEMMA FileShares ==
    ASSUME HashFileInv, peak \in Blocks, NEW h \in 0 .. HeightOf[peak],
           Sized(hashFile, peak)[h + 1] = Anc[peak][h]
    PROVE  /\ h + 1 <= Len(hashFile)
           /\ \A i \in 1 .. (h + 1) : hashFile[i] = Anc[peak][i - 1]
  <1>1. HeightOf[peak] \in Nat /\ Anc[peak][h] \in Blocks
    BY HeightTypes, AncFacts
  <1>2. PICK q \in MaybeBlocks : hashFile = ChainOf(q)
    BY DEF HashFileInv
  <1>3. Len(hashFile) \in Nat
    BY <1>2, ChainOfFacts
  <1>4. h + 1 <= Len(hashFile) /\ hashFile[h + 1] = Anc[peak][h]
    BY <1>1, <1>3, HashAssumption DEF Sized
  <1>5. q \in Blocks /\ h <= HeightOf[q] /\ HeightOf[q] \in Nat
    BY <1>2, <1>4, ChainOfFacts, HeightTypes
  <1>6. \A k \in 0 .. HeightOf[q] : hashFile[k + 1] = Anc[q][k]
    BY <1>2, <1>5, ChainOfFacts, HeightTypes
  <1>7. Anc[q][h] = Anc[peak][h]
    BY <1>4, <1>5, <1>6
  <1>8. \A k \in 0 .. h : Anc[q][k] = Anc[peak][k]
    BY <1>5, <1>7, SamePrefix
  <1>9. \A i \in 1 .. (h + 1) : hashFile[i] = Anc[peak][i - 1]
    <2> TAKE i \in 1 .. (h + 1)
    <2>1. i - 1 \in 0 .. h /\ i - 1 \in 0 .. HeightOf[q] /\ (i - 1) + 1 = i
      BY <1>5
    <2> QED
      BY <1>6, <1>8, <2>1
  <1> QED
    BY <1>4, <1>9

(* What create leaves in memory is the chain of the peak.                  *)
LEMMA StartHash ==
    ASSUME MapInv, Start, peak \in Blocks
    PROVE  /\ hash' = ChainOf(peak)
           /\ firstDirty' \in Nat /\ firstDirty' <= HeightOf[peak] + 1
           /\ firstDirty' <= Len(hashFile)
           /\ \A i \in 1 .. firstDirty' : hashFile[i] = Anc[peak][i - 1]
  <1> DEFINE top  == HeightOf[peak]
             stop == StopHeight(peak)
             old  == Sized(hashFile, peak)
             same == old[top + 1] = peak
  <1>0. peak # NoBlock /\ top \in Nat /\ stop \in Int /\ stop >= -1 /\ stop < top
    BY HeightTypes, StopFacts
  <1>1. /\ hash' = [i \in 1 .. (top + 1) |->
                      IF i > stop + 1 THEN Anc[peak][i - 1] ELSE old[i]]
        /\ firstDirty' = IF stop + 1 < top THEN stop + 1
                         ELSE IF same THEN top + 1 ELSE top
    BY <1>0, Zenon DEF Start
  <1>2. Len(hashFile) \in Nat
    BY ChainOfFacts DEF MapInv, HashFileInv
  <1>3. /\ stop + 1 <= Len(hashFile)
        /\ \A i \in 1 .. (stop + 1) : hashFile[i] = Anc[peak][i - 1]
    <2>1. CASE stop >= 0
      <3>1. old[stop + 1] = Anc[peak][stop] /\ stop \in 0 .. top
        BY <1>0, <2>1, StopFacts DEF Agrees
      <3> QED
        BY <3>1, FileShares DEF MapInv
    <2>2. CASE stop = -1
      BY <1>2, <2>2
    <2> QED
      BY <1>0, <2>1, <2>2
  <1>4. same => /\ top + 1 <= Len(hashFile)
                /\ \A i \in 1 .. (top + 1) : hashFile[i] = Anc[peak][i - 1]
    <2>1. top \in 0 .. top /\ Anc[peak][top] = peak
      BY <1>0, AncFacts
    <2> QED
      BY <2>1, FileShares DEF MapInv
  <1>5. \A i \in 1 .. (stop + 1) : old[i] = hashFile[i]
    BY <1>0, <1>2, <1>3 DEF Sized
  <1> HIDE DEF top, stop, old, same
  <1>6. hash' = [i \in 1 .. (top + 1) |-> Anc[peak][i - 1]]
    BY <1>0, <1>1, <1>3, <1>5
  <1>7. hash' = ChainOf(peak)
    BY <1>0, <1>6 DEF ChainOf, top
  <1>8. /\ firstDirty' \in Nat /\ firstDirty' <= top + 1
        /\ firstDirty' <= Len(hashFile)
        /\ \A i \in 1 .. firstDirty' : hashFile[i] = Anc[peak][i - 1]
    <2>1. CASE stop + 1 < top
      BY <1>0, <1>1, <1>2, <1>3, <2>1
    <2>2. CASE ~ (stop + 1 < top)
      <3>1. stop + 1 = top
        BY <1>0, <2>2
      <3> QED
        BY <1>0, <1>1, <1>2, <1>3, <1>4, <2>2, <3>1
    <2> QED
      BY <2>1, <2>2
  <1> QED
    BY <1>7, <1>8 DEF top

------------------------------------------------------------------------------
(* The hashes, action by action.                                           *)

LEMMA MapInitially ==
    ASSUME Init
    PROVE  MapInv
  <1>1. ChainOf(NoBlock) = << >> /\ NoBlock \in MaybeBlocks
    BY DEF ChainOf, MaybeBlocks
  <1> QED
    BY <1>1, MapAssumption, HashAssumption
    DEF Init, MapInv, Control, CounterInv, HashFileInv, HashInv, DirtyInv, InSync, MaybeBlocks

LEMMA MapStart ==
    ASSUME MapInv, Start
    PROVE  MapInv'
  <1>1. HashFileInv' /\ peak' = peak
    BY DEF MapInv, HashFileInv, Start, files
  <1>2. CASE peak = NoBlock
    <2>1. hash' = << >> /\ counter' = 0 /\ firstDirty' = 0 /\ pc' = "run"
      BY <1>2 DEF Start
    <2>2. hash' = ChainOf(peak') /\ peak' \in MaybeBlocks
      BY <1>1, <1>2, <2>1 DEF ChainOf, MaybeBlocks
    <2>3. Len(hashFile') \in Nat
      BY <1>1, ChainOfFacts DEF HashFileInv
    <2> QED
      BY <1>1, <2>1, <2>2, <2>3, MapAssumption, HashAssumption
      DEF MapInv, Control, CounterInv, HashInv, DirtyInv
  <1>3. CASE peak # NoBlock
    <2>1. peak \in Blocks /\ HeightOf[peak] \in Nat
      BY <1>3, HeightTypes DEF MapInv, Control, MaybeBlocks
    <2>2. /\ hash' = ChainOf(peak) /\ Len(hash') = HeightOf[peak] + 1
          /\ \A i \in 1 .. (HeightOf[peak] + 1) : hash'[i] = Anc[peak][i - 1]
      <3>1. hash' = ChainOf(peak)
        BY <2>1, StartHash
      <3> QED
        BY <1>3, <2>1, <3>1 DEF ChainOf
    <2>3. HashInv'
      BY <1>1, <2>1, <2>2 DEF HashInv, MaybeBlocks
    <2>4. DirtyInv' /\ firstDirty' \in Nat
      <3>1. UNCHANGED hashFile
        BY DEF Start, files
      <3> QED
        BY <2>1, <2>2, <3>1, StartHash DEF DirtyInv
    <2>5. PICK set \in Int : /\ 0 <= set /\ set <= HeightOf[peak] + 1
                             /\ counter' = set
                             /\ pc' = IF set >= FlushThreshold THEN "flush" ELSE "run"
      <3> DEFINE set == HeightOf[peak] - 1 - StopHeight(peak) +
                        (IF Sized(hashFile, peak)[HeightOf[peak] + 1] = peak THEN 0 ELSE 1)
      <3>1. counter' = set /\ pc' = IF set >= FlushThreshold THEN "flush" ELSE "run"
        BY <1>3, Zenon DEF Start
      <3>2. StopHeight(peak) \in -1 .. (HeightOf[peak] - 1)
        BY <2>1, StopFacts
      <3> QED
        BY <2>1, <3>1, <3>2
    <2>6. CounterInv' /\ Control'
      BY <1>1, <2>1, <2>4, <2>5, MapAssumption, HeightTypes DEF CounterInv, Control, MaybeBlocks
    <2> QED
      BY <1>1, <2>3, <2>4, <2>6 DEF MapInv
  <1> QED
    BY <1>2, <1>3

LEMMA MapNewPeak ==
    ASSUME MapInv, NEW b \in Blocks, NewPeak(b)
    PROVE  MapInv'
  <1>1. /\ peak' = b /\ pc' = "committed" /\ pc = "run"
        /\ UNCHANGED <<hash, hashFile, firstDirty, counter>>
    BY DEF NewPeak, memory, files
  <1>2. HashFileInv' /\ HashInv'
    BY <1>1 DEF MapInv, HashFileInv, HashInv, InSync
  <1> QED
    BY <1>1, <1>2 DEF MapInv, Control, CounterInv, DirtyInv, MaybeBlocks

(* The height to which the map is kept is that of the fork with its peak.  *)
LEMMA ForkHeightFacts ==
    ASSUME NEW q \in MaybeBlocks, hash = ChainOf(q), peak \in Blocks
    PROVE  /\ ForkHeight \in Int /\ ForkHeight >= -1 /\ ForkHeight <= HeightOf[peak]
           /\ ForkHeight + 1 <= Len(hash)
           /\ ForkHeight >= 0 => q \in Blocks /\ ForkHeight <= HeightOf[q]
           /\ \A k \in 0 .. ForkHeight : hash[k + 1] = Anc[peak][k] /\ Anc[q][k] = Anc[peak][k]
  <1>0. HeightOf[peak] \in Nat /\ MaxHeight \in Nat /\ HeightOf[peak] <= MaxHeight
    BY HeightTypes
  <1>1. CASE q = NoBlock
    <2>1. hash = << >> /\ ForkHeight = -1
      BY <1>1, ChainOfFacts DEF ForkHeight
    <2> QED
      BY <1>0, <2>1
  <1>2. CASE q # NoBlock
    <2>1. /\ q \in Blocks /\ HeightOf[q] \in Nat /\ Len(hash) = HeightOf[q] + 1
          /\ \A k \in 0 .. HeightOf[q] : hash[k + 1] = Anc[q][k]
      BY <1>2, ChainOfFacts, HeightTypes
    <2>2. hash # << >> /\ hash[Len(hash)] = q
      BY <2>1, AncFacts
    <2>3. ForkHeight = CHOOSE f \in -1 .. MaxHeight : IsForkHeight(q, peak, f)
      BY <2>2 DEF ForkHeight
    <2>4. IsForkHeight(q, peak, ForkHeight)
      BY <2>1, <2>3, ForkExists
    <2>5. /\ ForkHeight \in Int /\ ForkHeight >= -1 /\ ForkHeight <= HeightOf[q]
          /\ ForkHeight <= HeightOf[peak]
          /\ \A k \in 0 .. ForkHeight : Anc[q][k] = Anc[peak][k]
      BY <2>1, <2>4, ForkShares
    <2>6. \A k \in 0 .. ForkHeight : k \in 0 .. HeightOf[q]
      BY <2>1, <2>5
    <2>7. \A k \in 0 .. ForkHeight : hash[k + 1] = Anc[peak][k] /\ Anc[q][k] = Anc[peak][k]
      BY <2>1, <2>5, <2>6
    <2>8. ForkHeight + 1 <= Len(hash)
      BY <2>1, <2>5
    <2> QED
      BY <2>1, <2>5, <2>7, <2>8
  <1> QED
    BY <1>1, <1>2

LEMMA UpdateHash ==
    ASSUME MapInv, UpdateMap
    PROVE  /\ hash' = ChainOf(peak)
           /\ \A i \in 1 .. (ForkHeight + 1) : hash'[i] = hash[i]
  <1> DEFINE f == ForkHeight
             top == HeightOf[peak]
             m == IF f > 0 THEN f ELSE 0
  <1>1. peak \in Blocks
    BY DEF MapInv, Control, UpdateMap
  <1>2. PICK q \in MaybeBlocks : hash = ChainOf(q)
    BY DEF MapInv, HashInv
  <1>3. /\ f \in Int /\ f >= -1 /\ f <= top /\ f + 1 <= Len(hash)
        /\ \A k \in 0 .. f : hash[k + 1] = Anc[peak][k]
        /\ top \in Nat /\ Len(hash) \in Nat /\ hash \in Seq(Blocks)
    BY <1>1, <1>2, ForkHeightFacts, ChainOfFacts, HeightTypes
  <1>4. hash' = [i \in 1 .. (top + 1) |->
                   IF i > f + 1 THEN Anc[peak][i - 1] ELSE Rollback(m).hash[i]]
    BY Zenon DEF UpdateMap
  <1> HIDE DEF f, top
  <1>5. \A i \in 1 .. (f + 1) : Rollback(m).hash[i] = hash[i]
    <2> TAKE i \in 1 .. (f + 1)
    <2> DEFINE n == Minimum(Len(hash), m + 1)
    <2>1. Rollback(m).hash = SubSeq(hash, 1, n)
      BY DEF Rollback
    <2>2. n \in Nat /\ n <= Len(hash) /\ i \in 1 .. n
      BY <1>3 DEF Minimum
    <2> HIDE DEF n
    <2>3. SubSeq(hash, 1, n)[i] = hash[i]
      BY <1>3, <2>2
    <2> QED
      BY <2>1, <2>3
  <1> HIDE DEF m
  <1>6. \A i \in 1 .. (f + 1) : hash[i] = Anc[peak][i - 1]
    <2> TAKE i \in 1 .. (f + 1)
    <2>1. i - 1 \in 0 .. f /\ (i - 1) + 1 = i
      BY <1>3
    <2> QED
      BY <1>3, <2>1
  <1>7. hash' = [i \in 1 .. (top + 1) |-> Anc[peak][i - 1]]
    BY <1>3, <1>4, <1>5, <1>6
  <1>8. peak # NoBlock
    BY <1>1, HeightTypes
  <1>9. hash' = ChainOf(peak)
    BY <1>7, <1>8 DEF ChainOf, top
  <1>10. \A i \in 1 .. (f + 1) : hash'[i] = hash[i]
    BY <1>3, <1>6, <1>7
  <1> QED
    BY <1>9, <1>10 DEF f

LEMMA MapUpdate ==
    ASSUME MapInv, UpdateMap
    PROVE  MapInv'
  <1>1. peak \in Blocks /\ HeightOf[peak] \in Nat /\ HeightOf[peak] <= MaxHeight /\ MaxHeight \in Nat
    BY HeightTypes DEF MapInv, Control, UpdateMap
  <1>2. PICK q \in MaybeBlocks : hash = ChainOf(q)
    BY DEF MapInv, HashInv
  <1>3. /\ ForkHeight \in Int /\ ForkHeight >= -1 /\ ForkHeight <= HeightOf[peak]
        /\ ForkHeight + 1 <= Len(hash) /\ Len(hash) \in Nat
    BY <1>1, <1>2, ForkHeightFacts, ChainOfFacts
  <1>4. /\ hash' = ChainOf(peak) /\ Len(hash') = HeightOf[peak] + 1
        /\ \A i \in 1 .. (ForkHeight + 1) : hash'[i] = hash[i]
    <2>1. peak \in MaybeBlocks /\ peak # NoBlock
      BY <1>1, HeightTypes DEF MaybeBlocks
    <2> QED
      BY <2>1, UpdateHash, ChainOfFacts
  <1>5. /\ firstDirty' = Minimum(firstDirty, ForkHeight + 1)
        /\ counter' = counter + (HeightOf[peak] - ForkHeight)
        /\ pc' = (IF counter' >= FlushThreshold THEN "flush" ELSE "run")
        /\ peak' = peak /\ hashFile' = hashFile /\ pc = "committed"
    BY DEF UpdateMap, DirtyFrom, files
  <1>6. HashFileInv' /\ HashInv'
    BY <1>1, <1>4, <1>5 DEF MapInv, HashFileInv, HashInv, MaybeBlocks
  <1>7. Control' /\ CounterInv'
    BY <1>1, <1>3, <1>5, MapAssumption DEF MapInv, Control, CounterInv, Minimum
  <1>8. DirtyInv'
    <2>1. /\ firstDirty' \in Nat /\ firstDirty' <= firstDirty /\ firstDirty' <= ForkHeight + 1
          /\ firstDirty \in Nat
      BY <1>3, <1>5 DEF MapInv, Control, Minimum
    <2>2. /\ firstDirty <= Len(hashFile)
          /\ \A i \in 1 .. firstDirty : hashFile[i] = hash[i]
      BY <1>5 DEF MapInv, DirtyInv
    <2>3. \A i \in 1 .. firstDirty' : hashFile'[i] = hash'[i]
      BY <1>3, <1>4, <1>5, <2>1, <2>2
    <2>4. Len(hashFile) \in Nat
      BY ChainOfFacts DEF MapInv, HashFileInv
    <2> QED
      BY <1>1, <1>3, <1>4, <1>5, <2>1, <2>2, <2>3, <2>4 DEF DirtyInv
  <1> QED
    BY <1>6, <1>7, <1>8 DEF MapInv

(* What maybe_flush writes makes a file that is not longer the map: below  *)
(* the first dirty height it already is.                                   *)
LEMMA FlushedIsMap ==
    ASSUME MapInv, pc = "flush", ~ (Len(hashFile) > Len(hash))
    PROVE  Overwritten(hashFile) = hash
  <1>1. PICK q \in MaybeBlocks : hashFile = ChainOf(q)
    BY DEF MapInv, HashFileInv
  <1>2. hash = ChainOf(peak) /\ peak \in MaybeBlocks
    BY DEF MapInv, HashInv, InSync, Control
  <1>3. /\ hash \in Seq(Blocks) /\ Len(hash) \in Nat
        /\ Len(hashFile) \in Nat /\ Len(hashFile) <= Len(hash)
    BY <1>1, <1>2, ChainOfFacts
  <1>4. Max({Len(hash), Len(hashFile)}) = Len(hash)
    <2> DEFINE S == {Len(hash), Len(hashFile)}
    <2>1. S \in SUBSET (-1 .. Len(hash)) /\ S # {}
      BY <1>3
    <2>2. Max(S) \in S /\ \A y \in S : Max(S) >= y
      <3> HIDE DEF S
      <3> QED
        BY <1>3, <2>1, MaxFacts
    <2> QED
      BY <1>3, <2>2
  <1>5. /\ firstDirty \in Nat /\ firstDirty <= Len(hashFile)
        /\ \A i \in 1 .. firstDirty : hashFile[i] = hash[i]
    BY DEF MapInv, Control, DirtyInv
  <1>6. CASE hashFile # << >>
    <2>1. Overwritten(hashFile) = [i \in 1 .. Len(hash) |->
             IF i > firstDirty /\ i <= Len(hash) THEN hash[i]
             ELSE IF i <= Len(hashFile) THEN hashFile[i] ELSE ZeroHash]
      BY <1>4, <1>6 DEF Overwritten
    <2>2. \A i \in 1 .. Len(hash) :
             (IF i > firstDirty /\ i <= Len(hash) THEN hash[i]
              ELSE IF i <= Len(hashFile) THEN hashFile[i] ELSE ZeroHash) = hash[i]
      BY <1>3, <1>5
    <2>3. hash = [i \in 1 .. Len(hash) |-> hash[i]]
      BY <1>3
    <2> QED
      BY <2>1, <2>2, <2>3
  <1> QED
    BY <1>6 DEF Overwritten

LEMMA MapFlush ==
    ASSUME MapInv, ~ tail', FlushHashes \/ FlushSes \/ FlushCancelled
    PROVE  MapInv'
  <1>1. InSync /\ InSync' /\ UNCHANGED <<peak, hash>>
    BY DEF FlushHashes, FlushSes, FlushCancelled, InSync, memory
  <1>2. hash = ChainOf(peak) /\ peak \in MaybeBlocks
    BY <1>1 DEF MapInv, HashInv, Control
  <1>3. hashFile' \in {hashFile, hash} /\ (FlushHashes => hashFile' = hash)
    BY FlushedIsMap DEF FlushHashes, FlushSes, FlushCancelled, WriteHashes
  <1>4. Len(hash) \in Nat /\ firstDirty \in Nat
    BY <1>2, ChainOfFacts DEF MapInv, Control
  <1>5. HashFileInv' /\ HashInv'
    <2>1. HashFileInv'
      BY <1>1, <1>2, <1>3 DEF MapInv, HashFileInv
    <2> QED
      BY <1>1, <1>2, <2>1 DEF HashInv
  <1>6. Control' /\ CounterInv'
    BY <1>1, <1>4, MapAssumption, HashAssumption
    DEF MapInv, Control, CounterInv, FlushHashes, FlushSes, FlushCancelled, memory
  <1>7. DirtyInv'
    <2>1. /\ firstDirty <= Len(hash) /\ firstDirty <= Len(hashFile)
          /\ \A i \in 1 .. firstDirty : hashFile[i] = hash[i]
      BY <1>1 DEF MapInv, DirtyInv, InSync
    <2>2. CASE FlushHashes
      BY <1>1, <1>3, <1>4, <2>2 DEF DirtyInv, FlushHashes
    <2>3. CASE ~ FlushHashes
      <3>1. firstDirty' = firstDirty
        BY <2>3 DEF FlushSes, FlushCancelled, memory
      <3> QED
        BY <1>1, <1>3, <2>1, <3>1 DEF DirtyInv
    <2> QED
      BY <2>2, <2>3
  <1> QED
    BY <1>5, <1>6, <1>7 DEF MapInv

LEMMA MapCrash ==
    ASSUME MapInv, Crash \/ UNCHANGED vars
    PROVE  MapInv'
  <1>1. CASE UNCHANGED vars
    BY <1>1 DEF MapInv, Control, CounterInv, HashFileInv, HashInv, DirtyInv, InSync,
                vars, memory, files
  <1>2. CASE Crash
    <2>1. ChainOf(NoBlock) = << >> /\ NoBlock \in MaybeBlocks
      BY DEF ChainOf, MaybeBlocks
    <2> QED
      BY <1>2, <2>1, MapAssumption, HashAssumption
      DEF Crash, MapInv, Control, CounterInv, HashFileInv, HashInv, DirtyInv, InSync, files
  <1> QED
    BY <1>1, <1>2

(* The history variables only ever become true.                            *)
LEMMA HistoryGrows ==
    ASSUME tail \in BOOLEAN, stale \in BOOLEAN, [Next]_vars
    PROVE  /\ tail' \in BOOLEAN /\ stale' \in BOOLEAN
           /\ tail => tail'
           /\ stale => stale'
  BY DEF Next, Start, NewPeak, UpdateMap, FlushHashes, WriteHashes, FlushSes, FlushCancelled,
         Crash, vars

(* The inductive invariant of the hashes, for every block tree: until a    *)
(* flush leaves a tail, map and file are chains of peaks the node has had, *)
(* and they agree below the first dirty height.                            *)
THEOREM MapInvariance == Spec => []MapUnlessTail
  <1>1. Init => MapUnlessTail
    BY MapInitially DEF MapUnlessTail, Init
  <1>2. MapUnlessTail /\ [Next]_vars => MapUnlessTail'
    <2> SUFFICES ASSUME MapUnlessTail, [Next]_vars PROVE MapUnlessTail'
      OBVIOUS
    <2>1. tail' \in BOOLEAN /\ stale' \in BOOLEAN /\ (tail => tail')
      BY HistoryGrows DEF MapUnlessTail
    <2>2. ASSUME ~ tail' PROVE MapInv'
      <3>1. MapInv
        BY <2>1, <2>2 DEF MapUnlessTail
      <3> QED
        BY <2>2, <3>1, MapStart, MapNewPeak, MapUpdate, MapFlush, MapCrash DEF Next
    <2> QED
      BY <2>1, <2>2 DEF MapUnlessTail
  <1> QED
    BY <1>1, <1>2, PTL DEF Spec

(* Whenever the node runs, the height to hash map is the chain of the      *)
(* committed peak, whatever create found in the file and wherever the      *)
(* process had died, until a flush leaves a tail.                          *)
THEOREM HashesCorrect == Spec => []HashesMatchChain
  <1>1. MapUnlessTail => HashesMatchChain
    BY DEF MapUnlessTail, MapInv, HashInv, HashesMatchChain, ChainOf
  <1> QED
    BY <1>1, MapInvariance, PTL

------------------------------------------------------------------------------
(* The summaries, action by action.                                        *)

(* At the height where create stops, the file of summaries is of a chain   *)
(* that has met the peak's; at the peak's height and above it has nothing, *)
(* or what belongs there.                                                  *)
LEMMA StartSes ==
    ASSUME SesFileInv, Start, peak \in Blocks, ~ StaleSummary(peak)
    PROVE  ses' = SummaryOf(peak)
  <1> DEFINE top  == HeightOf[peak]
             stop == StopHeight(peak)
  <1>0. /\ peak # NoBlock /\ top \in Nat /\ top <= MaxHeight /\ MaxHeight \in Nat
        /\ stop \in Int /\ stop >= -1 /\ stop < top /\ Anc[peak][top] = peak
    BY HeightTypes, StopFacts, AncFacts
  <1>1. ses' = [h \in Heights |->
                  IF (h > stop /\ h < top) \/ (h = top /\ peak \in SesBlocks)
                  THEN IF Anc[peak][h] \in SesBlocks THEN Anc[peak][h] ELSE NoBlock
                  ELSE sesFile[h]]
    BY <1>0, Zenon DEF Start
  <1>2. PICK q \in MaybeBlocks : sesFile = SummaryOf(q)
    BY DEF SesFileInv
  <1>3. q # NoBlock => q \in Blocks /\ HeightOf[q] \in Nat
    BY HeightTypes DEF MaybeBlocks
  <1>4. ASSUME NEW h \in Heights, h <= stop
        PROVE  sesFile[h] = SummaryOf(peak)[h]
    <2>1. h \in Nat /\ stop \in Nat /\ stop \in Heights
      BY <1>0, <1>4 DEF Heights
    <2>2. sesFile[stop] = Anc[peak][stop] /\ Anc[peak][stop] \in SesBlocks
      BY <2>1, StopFacts DEF Agrees
    <2>3. Anc[peak][stop] # NoBlock
      BY <2>2, MapAssumption, HashAssumption
    <2>4. q # NoBlock /\ stop <= HeightOf[q] /\ Anc[q][stop] = Anc[peak][stop]
      BY <1>2, <2>1, <2>2, <2>3 DEF SummaryOf
    <2>5. Anc[q][h] = Anc[peak][h]
      BY <1>0, <1>3, <1>4, <2>1, <2>4, SamePrefix
    <2>6. h <= HeightOf[q] /\ h <= HeightOf[peak]
      BY <1>0, <1>3, <1>4, <2>1, <2>4
    <2> QED
      BY <1>0, <1>2, <2>4, <2>5, <2>6 DEF SummaryOf
  <1>5. ASSUME NEW h \in Heights, h >= top, h = top => peak \notin SesBlocks
        PROVE  sesFile[h] = NoBlock /\ SummaryOf(peak)[h] = NoBlock
    <2>0. h \in Nat
      BY DEF Heights
    <2>1. SummaryOf(peak)[h] = NoBlock
      BY <1>0, <1>5, <2>0 DEF SummaryOf
    <2>2. sesFile[h] = peak \/ sesFile[h] = NoBlock
      BY <1>5 DEF StaleSummary
    <2>3. ASSUME sesFile[h] = peak PROVE FALSE
      <3>1. /\ q # NoBlock /\ h <= HeightOf[q] /\ Anc[q][h] = peak /\ peak \in SesBlocks
        BY <1>0, <1>2, <2>3 DEF SummaryOf
      <3>2. HeightOf[peak] = h
        BY <1>3, <2>0, <3>1, AncFacts
      <3> QED
        BY <1>5, <3>1, <3>2
    <2> QED
      BY <2>1, <2>2, <2>3
  <1>6. \A h \in Heights : ses'[h] = SummaryOf(peak)[h]
    <2> TAKE h \in Heights
    <2>0. h \in Nat
      BY DEF Heights
    <2>1. CASE h <= stop
      BY <1>0, <1>1, <1>4, <2>0, <2>1
    <2>2. CASE h > stop /\ h < top
      BY <1>0, <1>1, <2>0, <2>2 DEF SummaryOf
    <2>3. CASE h = top /\ peak \in SesBlocks
      BY <1>0, <1>1, <2>0, <2>3 DEF SummaryOf
    <2>4. CASE h >= top /\ ~ (h = top /\ peak \in SesBlocks)
      BY <1>0, <1>1, <1>5, <2>0, <2>4
    <2> QED
      BY <1>0, <2>0, <2>1, <2>2, <2>3, <2>4
  <1> HIDE DEF top, stop
  <1> QED
    BY <1>1, <1>6 DEF SummaryOf

LEMMA SummaryUpdate ==
    ASSUME MapInv, SesInv, UpdateMap
    PROVE  ses' = SummaryOf(peak)
  <1> DEFINE f == ForkHeight
             top == HeightOf[peak]
             m == IF f > 0 THEN f ELSE 0
  <1>1. /\ peak \in Blocks /\ peak # NoBlock /\ top \in Nat /\ top <= MaxHeight
        /\ Anc[peak][0] \notin SesBlocks
    <2>1. peak \in Blocks /\ peak # NoBlock /\ top \in Nat /\ top <= MaxHeight
      BY HeightTypes DEF MapInv, Control, UpdateMap
    <2>2. HeightOf[Anc[peak][0]] = 0
      BY <2>1, AncFacts
    <2> QED
      BY <2>1, <2>2, MapAssumption DEF Genesis
  <1>2. PICK q \in MaybeBlocks : hash = ChainOf(q) /\ ses = SummaryOf(q)
    BY DEF SesInv, UpdateMap
  <1>3. /\ f \in Int /\ f >= -1 /\ f <= top
        /\ f >= 0 => q \in Blocks /\ f <= HeightOf[q]
        /\ \A k \in 0 .. f : Anc[q][k] = Anc[peak][k]
    BY <1>1, <1>2, ForkHeightFacts
  <1>4. ses' = [k \in Heights |->
                  IF k > f /\ k <= top /\ Anc[peak][k] \in SesBlocks
                  THEN Anc[peak][k] ELSE Rollback(m).ses[k]]
    BY Zenon DEF UpdateMap
  <1> HIDE DEF f, top
  <1>5. ses[0] = NoBlock \/ q = NoBlock \/ Anc[q][0] \in SesBlocks
    BY <1>2, HashAssumption DEF SummaryOf, Heights
  <1>6. q # NoBlock => Anc[q][0] \notin SesBlocks
    <2> SUFFICES ASSUME q # NoBlock PROVE Anc[q][0] \notin SesBlocks
      OBVIOUS
    <2>1. q \in Blocks /\ HeightOf[q] \in Nat
      BY HeightTypes DEF MaybeBlocks
    <2>2. HeightOf[Anc[q][0]] = 0
      BY <2>1, AncFacts
    <2> QED
      BY <2>2, MapAssumption DEF Genesis
  <1>7. \A k \in Heights : Rollback(m).ses[k] = IF k > m THEN NoBlock ELSE ses[k]
    BY DEF Rollback
  <1>8. \A k \in Heights : ses'[k] = SummaryOf(peak)[k]
    <2> TAKE k \in Heights
    <2>0. k \in Nat /\ m \in Nat /\ (f >= 0 => m = f) /\ (f < 0 => m = 0 /\ f = -1)
      BY <1>3 DEF Heights
    <2> HIDE DEF m
    <2>1. CASE k > f /\ k <= top /\ Anc[peak][k] \in SesBlocks
      BY <1>1, <1>4, <2>1 DEF SummaryOf, top
    <2>2. CASE k > f /\ ~ (k <= top /\ Anc[peak][k] \in SesBlocks)
      <3>1. SummaryOf(peak)[k] = NoBlock
        BY <2>2 DEF SummaryOf, top
      <3>2. CASE k > m
        BY <1>4, <1>7, <2>2, <3>1, <3>2
      <3>3. CASE ~ (k > m)
        <4>1. k = 0 /\ m = 0
          BY <1>3, <2>0, <2>2, <3>3
        <4>2. ses[0] = NoBlock
          BY <1>2, <1>5, <1>6, HashAssumption DEF SummaryOf, Heights
        <4> QED
          BY <1>4, <1>7, <2>2, <3>1, <3>3, <4>1, <4>2
      <3> QED
        BY <3>2, <3>3
    <2>3. CASE k <= f
      <3>1. f >= 0 /\ ~ (k > m) /\ k \in 0 .. f
        BY <1>3, <2>0, <2>3
      <3>2. q \in Blocks /\ q # NoBlock /\ k <= HeightOf[q] /\ k <= top /\ Anc[q][k] = Anc[peak][k]
        BY <1>1, <1>3, <2>0, <2>3, <3>1, HeightTypes
      <3>3. ses'[k] = ses[k]
        BY <1>3, <1>4, <1>7, <2>0, <2>3, <3>1
      <3>4. ses[k] = SummaryOf(peak)[k]
        BY <1>1, <1>2, <3>2 DEF SummaryOf, top
      <3> QED
        BY <3>3, <3>4
    <2> QED
      BY <1>3, <2>0, <2>1, <2>2, <2>3
  <1> QED
    BY <1>4, <1>8 DEF SummaryOf

LEMMA SummaryNewPeak ==
    ASSUME MapInv, SummaryInv, NEW b \in Blocks, NewPeak(b)
    PROVE  SummaryInv'
  <1>1. pc' = "committed" /\ pc = "run" /\ UNCHANGED <<hash, ses, sesFile>>
    BY DEF NewPeak, memory, files
  <1>2. hash = ChainOf(peak) /\ ses = SummaryOf(peak) /\ peak \in MaybeBlocks
    BY <1>1 DEF MapInv, SummaryInv, HashInv, SesInv, InSync, Control
  <1>3. SesInv'
    BY <1>1, <1>2 DEF SesInv, InSync
  <1> QED
    BY <1>1, <1>3 DEF SummaryInv, SesFileInv

LEMMA SummaryStart ==
    ASSUME MapInv, SummaryInv, Start, ~ stale'
    PROVE  SummaryInv'
  <1>1. peak' = peak /\ SesFileInv'
    BY DEF Start, files, SummaryInv, SesFileInv
  <1>2. pc' \in {"run", "flush"}
    BY Zenon DEF Start
  <1>3. ses' = SummaryOf(peak)
    <2>1. CASE peak = NoBlock
      BY <2>1 DEF Start, NoSes, SummaryOf
    <2>2. CASE peak # NoBlock
      <3>1. peak \in Blocks /\ ~ StaleSummary(peak)
        BY <2>2 DEF MapInv, Control, MaybeBlocks, Start
      <3> QED
        BY <3>1, StartSes DEF SummaryInv
    <2> QED
      BY <2>1, <2>2
  <1> QED
    BY <1>1, <1>2, <1>3 DEF SummaryInv, SesInv

LEMMA SummaryOthers ==
    ASSUME MapInv, SummaryInv,
           UpdateMap \/ FlushHashes \/ FlushSes \/ FlushCancelled \/ Crash \/ UNCHANGED vars
    PROVE  SummaryInv'
  <1>1. CASE UpdateMap
    <2>1. ses' = SummaryOf(peak) /\ UNCHANGED <<peak, sesFile>> /\ pc' # "committed"
      BY <1>1, SummaryUpdate DEF SummaryInv, UpdateMap, files
    <2> QED
      BY <2>1 DEF SummaryInv, SesFileInv, SesInv
  <1>2. CASE FlushHashes \/ FlushSes \/ FlushCancelled
    <2>1. InSync /\ pc' # "committed" /\ UNCHANGED <<peak, ses>> /\ sesFile' \in {sesFile, ses}
      BY <1>2 DEF FlushHashes, FlushSes, FlushCancelled, InSync, memory
    <2>2. ses = SummaryOf(peak) /\ peak \in MaybeBlocks
      BY <2>1 DEF SummaryInv, SesInv, MapInv, Control
    <2> QED
      BY <2>1, <2>2 DEF SummaryInv, SesFileInv, SesInv
  <1>3. CASE Crash
    BY <1>3 DEF Crash, SummaryInv, SesFileInv, SesInv, InSync, files
  <1>4. CASE UNCHANGED vars
    BY <1>4 DEF SummaryInv, SesFileInv, SesInv, InSync, vars, memory, files
  <1> QED
    BY <1>1, <1>2, <1>3, <1>4

(* The summaries in memory are those of the committed peak's chain, also   *)
(* when the process died between the writes of the two files, until a      *)
(* flush leaves a tail or create meets a stale summary.                    *)
THEOREM SummariesCorrect == Spec => []SesMatchChain
  <1>1. Init => SummaryUnlessStale
    <2>1. SummaryOf(NoBlock) = NoSes
      BY DEF SummaryOf, NoSes
    <2> QED
      BY <2>1 DEF Init, SummaryUnlessStale, SummaryInv, SesFileInv, SesInv, InSync, MaybeBlocks
  <1>2. MapUnlessTail /\ SummaryUnlessStale /\ [Next]_vars => SummaryUnlessStale'
    <2> SUFFICES ASSUME MapUnlessTail, SummaryUnlessStale, [Next]_vars
                 PROVE  SummaryUnlessStale'
      OBVIOUS
    <2>1. (tail => tail') /\ (stale => stale')
      BY HistoryGrows DEF MapUnlessTail
    <2>2. ASSUME ~ tail', ~ stale' PROVE SummaryInv'
      <3>1. MapInv /\ SummaryInv
        BY <2>1, <2>2 DEF MapUnlessTail, SummaryUnlessStale
      <3> QED
        BY <2>2, <3>1, SummaryNewPeak, SummaryStart, SummaryOthers DEF Next
    <2> QED
      BY <2>2 DEF SummaryUnlessStale
  <1>3. SummaryUnlessStale => SesMatchChain
    BY DEF SummaryUnlessStale, SummaryInv, SesInv, SesMatchChain, SummaryOf
  <1> QED
    BY <1>1, <1>2, <1>3, MapInvariance, PTL DEF Spec
==============================================================================
