-------------------------- MODULE Blockchain_proofs --------------------------
(***************************************************************************)
(* Proofs about Blockchain for every block tree, cache size and history of *)
(* calls, syncs, aborts and crashes.  The first part proves its types,     *)
(* whatever fault strikes.  The second proves its inductive invariant when *)
(* none does, neither a failing or cancelled RELEASE nor a batch rejected  *)
(* for its sub epoch summary, and the safety properties that follow.       *)
(***************************************************************************)
EXTENDS Blockchain, BlockTree_proofs, SequenceTheorems, WellFoundedInduction

------------------------------------------------------------------------------
(* Parents, and the latest of several heights                              *)

LEMMA ParentFacts ==
    ASSUME NEW b \in Blocks
    PROVE  /\ IsGenesis(b) => Parent[b] = GenesisChallenge
           /\ ~ IsGenesis(b) => /\ Parent[b] \in Blocks
                                /\ HeightOf[Parent[b]] = HeightOf[b] - 1
                                /\ HeightOf[b] > 0
                                /\ \A k \in 0 .. (HeightOf[b] - 1) :
                                      Anc[Parent[b]][k] = Anc[b][k]
  BY ParentStep DEF IsGenesis

(* The latest of a non-empty set of heights is one of them.                *)
LEMMA LatestIn ==
    ASSUME NEW S, S # {}, S \subseteq Heights
    PROVE  Latest(S) \in S /\ \A j \in S : j <= Latest(S)
  <1> DEFINE T == {MaxHeight - k : k \in S}
  <1>0. MaxHeight \in Nat /\ \A k \in S : k \in Nat /\ k <= MaxHeight
    BY HashAssumption DEF Heights
  <1>1. T \subseteq Nat /\ T # {}
    BY <1>0
  <1>2. PICK m \in T : \A n \in T : ~ (<<n, m>> \in OpToRel(<, Nat))
    BY <1>1, NatLessThanWellFounded, WFMin, Zenon
  <1>3. \A n \in T : ~ (n < m)
    BY <1>1, <1>2 DEF OpToRel
  <1>4. PICK k \in S : m = MaxHeight - k
    BY <1>2
  <1>5. \A j \in S : j <= k
    <2> TAKE j \in S
    <2>1. MaxHeight - j \in T
      OBVIOUS
    <2>2. ~ (MaxHeight - j < MaxHeight - k)
      BY <2>1, <1>3, <1>4
    <2> QED
      BY <2>2, <1>0
  <1> QED
    BY <1>5 DEF Latest

------------------------------------------------------------------------------
(* Coins of a valid chain                                                  *)

LEMMA ChainValidBelow ==
    ASSUME NEW b \in Blocks, ChainValid(b), NEW h \in 0 .. HeightOf[b]
    PROVE  ChainValid(Anc[b][h])
  <1>1. /\ Anc[b][h] \in Blocks /\ HeightOf[Anc[b][h]] = h
        /\ \A k \in 0 .. h : Anc[Anc[b][h]][k] = Anc[b][k]
        /\ HeightOf[b] \in Nat
    BY AncFacts, HashAssumption DEF Heights
  <1> QED
    BY <1>1 DEF ChainValid

(* A block is valid when its parent's chain and its own body are.          *)
LEMMA ChainValidExtends ==
    ASSUME NEW b \in Blocks, PreError[b] = "none",
           ~ IsGenesis(b) => ChainValid(Parent[b])
    PROVE  ChainValid(b) <=> BodyOK(b)
  <1>0. HeightOf[b] \in Nat /\ Anc[b][HeightOf[b]] = b
    BY AncFacts, FieldAssumption, HashAssumption DEF Heights
  <1>1. ASSUME ChainValid(b) PROVE BodyOK(b)
    BY <1>0, <1>1 DEF ChainValid
  <1>2. ASSUME BodyOK(b), NEW h \in 0 .. HeightOf[b]
        PROVE  PreError[Anc[b][h]] = "none" /\ BodyOK(Anc[b][h])
    <2>1. CASE h = HeightOf[b]
      BY <2>1, <1>0, <1>2
    <2>2. CASE h # HeightOf[b]
      <3>1. ~ IsGenesis(b) /\ h \in 0 .. (HeightOf[b] - 1)
        BY <2>2, <1>0 DEF IsGenesis
      <3>2. /\ Parent[b] \in Blocks /\ HeightOf[Parent[b]] = HeightOf[b] - 1
            /\ Anc[Parent[b]][h] = Anc[b][h]
        BY <3>1, ParentFacts
      <3> QED
        BY <3>1, <3>2 DEF ChainValid
    <2> QED
      BY <2>1, <2>2
  <1> QED
    BY <1>1, <1>2 DEF ChainValid

(* A coin spent on a valid chain was created on it, no later.              *)
LEMMA SpentWasCreated ==
    ASSUME NEW b \in Blocks, ChainValid(b), NEW h \in 0 .. HeightOf[b],
           NEW c, c \in Spends[Anc[b][h]]
    PROVE  \E j \in 0 .. h : c \in Adds[Anc[b][j]]
  <1> DEFINE x == Anc[b][h]
  <1>1. /\ x \in Blocks /\ HeightOf[x] = h /\ h \in Nat
        /\ \A k \in 0 .. h : Anc[x][k] = Anc[b][k]
    BY AncFacts, HashAssumption DEF Heights
  <1>2. BodyOK(x)
    BY DEF ChainValid
  <1>3. CASE c \in Adds[x]
    BY <1>1, <1>3
  <1>4. CASE c \notin Adds[x]
    BY <1>1, <1>2, <1>4 DEF BodyOK, CreatedBelow
  <1> QED
    BY <1>3, <1>4

LEMMA SpentLater ==
    ASSUME NEW b \in Blocks, ChainValid(b),
           NEW h \in 0 .. HeightOf[b], NEW k \in 0 .. HeightOf[b], k < h,
           NEW c, c \in Spends[Anc[b][h]], c \in Spends[Anc[b][k]]
    PROVE  FALSE
  <1> DEFINE x == Anc[b][h]
  <1>1. /\ x \in Blocks /\ HeightOf[x] = h /\ h \in Nat /\ k \in Nat
        /\ \A j \in 0 .. h : Anc[x][j] = Anc[b][j]
        /\ HeightOf[b] \in Nat
    BY AncFacts, HashAssumption DEF Heights
  <1>2. BodyOK(x)
    BY DEF ChainValid
  <1>3. SpentBelow(x, h, c)
    BY <1>1 DEF SpentBelow
  <1>4. c \in Adds[x]
    BY <1>1, <1>2, <1>3 DEF BodyOK
  <1>5. PICK j \in 0 .. k : c \in Adds[Anc[b][j]]
    BY SpentWasCreated
  <1>6. j \in 0 .. HeightOf[b] /\ j # h
    BY <1>1, <1>5
  <1> QED
    BY <1>4, <1>5, <1>6, CoinCreatedOnce

(* A valid chain creates, and spends, a coin at one height only.           *)
LEMMA OncePerChain ==
    ASSUME NEW b \in Blocks, ChainValid(b),
           NEW h \in 0 .. HeightOf[b], NEW k \in 0 .. HeightOf[b], NEW c
    PROVE  /\ c \in Adds[Anc[b][h]] /\ c \in Adds[Anc[b][k]] => h = k
           /\ c \in Spends[Anc[b][h]] /\ c \in Spends[Anc[b][k]] => h = k
  <1>0. HeightOf[b] \in Nat
    BY AncFacts, HashAssumption DEF Heights
  <1>1. c \in Adds[Anc[b][h]] /\ c \in Adds[Anc[b][k]] => h = k
    BY CoinCreatedOnce
  <1>2. CASE h < k
    BY <1>1, <1>2, SpentLater
  <1>3. CASE k < h
    BY <1>1, <1>3, SpentLater
  <1> QED
    BY <1>0, <1>1, <1>2, <1>3


------------------------------------------------------------------------------
(* ForkInfo objects                                                        *)

(* fi is a ForkInfo with one entry in hashes for each height it covers.    *)
ForkInfoType(fi) ==
    /\ fi \in ForkInfos
    /\ fi.fork <= fi.peakH
    /\ Len(fi.hashes) = fi.peakH - fi.fork

LEMMA EmptyForkType ==
    ASSUME NEW h \in -1 .. MaxHeight,
           NEW x \in Blocks \cup {GenesisChallenge, ZeroHash}
    PROVE  ForkInfoType(EmptyFork(h, x))
  <1>1. MaxHeight \in Nat /\ -1 \in -1 .. MaxHeight
    BY HashAssumption
  <1>2. << >> \in Seq(Blocks) /\ Len(<< >>) = 0
    OBVIOUS
  <1> QED
    BY <1>1, <1>2 DEF EmptyFork, ForkInfos, ForkInfoType

LEMMA EnteredType ==
    ASSUME NEW old \in [Coins -> -1 .. MaxHeight], NEW F, NEW b \in Blocks,
           NEW lo \in 0 .. (MaxHeight + 1)
    PROVE  Entered(old, F, b, lo) \in [Coins -> -1 .. MaxHeight]
  <1> SUFFICES ASSUME NEW c \in Coins
               PROVE  Entered(old, F, b, lo)[c] \in -1 .. MaxHeight
    BY DEF Entered
  <1> DEFINE at == {k \in lo .. HeightOf[b] : c \in F[Anc[b][k]]}
  <1>0. HeightOf[b] \in 0 .. MaxHeight /\ MaxHeight \in Nat
    BY FieldAssumption, HashAssumption DEF Heights
  <1>1. at \subseteq Heights
    BY <1>0 DEF Heights
  <1>2. at # {} => Latest(at) \in Heights
    BY <1>1, LatestIn
  <1>3. Entered(old, F, b, lo)[c] = IF at = {} THEN old[c] ELSE Latest(at)
    BY DEF Entered
  <1> QED
    BY <1>0, <1>2, <1>3 DEF Heights

(* A list of what is at heights f + 1 .. p, continued up to height q.      *)
LEMMA ConcatHeights ==
    ASSUME NEW S, NEW s \in Seq(S), NEW f \in Int, NEW p \in Int, NEW q \in Int,
           f <= p, p <= q, Len(s) = p - f, NEW G,
           \A k \in (p + 1) .. q : G[k] \in S
    PROVE  LET hs == s \o [i \in 1 .. (q - p) |-> G[p + i]]
           IN /\ hs \in Seq(S)
              /\ Len(hs) = q - f
              /\ \A k \in (f + 1) .. p : hs[k - f] = s[k - f]
              /\ \A k \in (p + 1) .. q : hs[k - f] = G[k]
  <1> DEFINE t == [i \in 1 .. (q - p) |-> G[p + i]]
             hs == s \o t
  <1>1. t \in [1 .. (q - p) -> S] /\ q - p \in Nat
    OBVIOUS
  <1>2. t \in Seq(S) /\ Len(t) = q - p
    BY <1>1
  <1>3. \A k \in (p + 1) .. q : t[k - p] = G[k]
    OBVIOUS
  <1> HIDE DEF t
  <1>4. /\ hs \in Seq(S) /\ Len(hs) = Len(s) + Len(t)
        /\ \A i \in 1 .. (Len(s) + Len(t)) :
              hs[i] = IF i <= Len(s) THEN s[i] ELSE t[i - Len(s)]
    BY <1>2, ConcatProperties
  <1> HIDE DEF hs
  <1>5. Len(hs) = q - f
    BY <1>2, <1>4
  <1>6. \A k \in (f + 1) .. p : hs[k - f] = s[k - f]
    <2> TAKE k \in (f + 1) .. p
    <2>1. k - f \in 1 .. (Len(s) + Len(t)) /\ k - f <= Len(s)
      BY <1>2
    <2> QED
      BY <2>1, <1>4
  <1>7. \A k \in (p + 1) .. q : hs[k - f] = G[k]
    <2> TAKE k \in (p + 1) .. q
    <2>1. /\ k - f \in 1 .. (Len(s) + Len(t)) /\ ~ (k - f <= Len(s))
          /\ (k - f) - Len(s) = k - p
      BY <1>2
    <2>2. hs[k - f] = t[k - p]
      BY <2>1, <1>4
    <2> QED
      BY <2>2, <1>3
  <1> QED
    BY <1>4, <1>5, <1>6, <1>7 DEF hs, t

(* The list of block hashes after IncludeSpends.                           *)
LEMMA IncludeHashes ==
    ASSUME NEW fi, ForkInfoType(fi), NEW b \in Blocks, fi.peakH <= HeightOf[b]
    PROVE  LET hs == IncludeSpends(fi, b).hashes
           IN /\ hs \in Seq(Blocks)
              /\ Len(hs) = HeightOf[b] - fi.fork
              /\ \A k \in (fi.fork + 1) .. fi.peakH :
                    hs[k - fi.fork] = fi.hashes[k - fi.fork]
              /\ \A k \in (fi.peakH + 1) .. HeightOf[b] :
                    hs[k - fi.fork] = Anc[b][k]
  <1>0. /\ HeightOf[b] \in Int /\ fi.peakH \in Int /\ fi.peakH >= -1
        /\ fi.fork \in Int
        /\ fi.hashes \in Seq(Blocks) /\ fi.fork <= fi.peakH
        /\ Len(fi.hashes) = fi.peakH - fi.fork
    BY FieldAssumption, HashAssumption DEF ForkInfoType, ForkInfos, Heights
  <1>1. \A k \in (fi.peakH + 1) .. HeightOf[b] : Anc[b][k] \in Blocks
    BY <1>0, AncFacts
  <1>2. IncludeSpends(fi, b).hashes =
          fi.hashes \o [i \in 1 .. (HeightOf[b] - fi.peakH) |-> Anc[b][fi.peakH + i]]
    BY DEF IncludeSpends
  <1> DEFINE f == fi.fork
             p == fi.peakH
             q == HeightOf[b]
             s == fi.hashes
             G == Anc[b]
             hs == s \o [i \in 1 .. (q - p) |-> G[p + i]]
  <1>3. /\ s \in Seq(Blocks) /\ f \in Int /\ p \in Int /\ q \in Int
        /\ f <= p /\ p <= q /\ Len(s) = p - f
        /\ \A k \in (p + 1) .. q : G[k] \in Blocks
    BY <1>0, <1>1
  <1>4. /\ hs \in Seq(Blocks)
        /\ Len(hs) = q - f
        /\ \A k \in (f + 1) .. p : hs[k - f] = s[k - f]
        /\ \A k \in (p + 1) .. q : hs[k - f] = G[k]
    <2> HIDE DEF f, p, q, s, G
    <2> QED
      BY <1>3, ConcatHeights
  <1> QED
    BY <1>2, <1>4

LEMMA IncludeSpendsType ==
    ASSUME NEW fi, ForkInfoType(fi), NEW b \in Blocks, fi.peakH <= HeightOf[b]
    PROVE  ForkInfoType(IncludeSpends(fi, b))
  <1>1. /\ fi.adds \in [Coins -> -1 .. MaxHeight]
        /\ fi.rems \in [Coins -> -1 .. MaxHeight]
        /\ fi.fork \in -1 .. MaxHeight /\ fi.peakH \in -1 .. MaxHeight
        /\ fi.fork <= fi.peakH
        /\ HeightOf[b] \in 0 .. MaxHeight /\ MaxHeight \in Nat
    BY FieldAssumption, HashAssumption DEF ForkInfoType, ForkInfos, Heights
  <1>2. fi.peakH + 1 \in 0 .. (MaxHeight + 1)
    BY <1>1
  <1>3. /\ Entered(fi.adds, Adds, b, fi.peakH + 1) \in [Coins -> -1 .. MaxHeight]
        /\ Entered(fi.rems, Spends, b, fi.peakH + 1) \in [Coins -> -1 .. MaxHeight]
    BY <1>1, <1>2, EnteredType
  <1>4. /\ IncludeSpends(fi, b).hashes \in Seq(Blocks)
        /\ Len(IncludeSpends(fi, b).hashes) = HeightOf[b] - fi.fork
    BY IncludeHashes
  <1>5. /\ IncludeSpends(fi, b).fork = fi.fork
        /\ IncludeSpends(fi, b).peakH = HeightOf[b]
    BY DEF IncludeSpends
  <1>6. IncludeSpends(fi, b) \in ForkInfos
    BY <1>1, <1>3, <1>4 DEF IncludeSpends, ForkInfos
  <1> QED
    BY <1>1, <1>4, <1>5, <1>6 DEF ForkInfoType


(* After advance_fork_info the ForkInfo ends at the parent of b.           *)
LEMMA AdvanceForkInfoType ==
    ASSUME NEW fi, ForkInfoType(fi), NEW b \in Blocks, AdvanceOK(fi, b)
    PROVE  /\ ForkInfoType(AdvanceForkInfo(fi, b))
           /\ AdvanceForkInfo(fi, b).peakH = HeightOf[b] - 1
           /\ AdvanceForkInfo(fi, b).peakHash = Parent[b]
           /\ AdvanceForkInfo(fi, b).fork = fi.fork
  <1>0. /\ HeightOf[b] \in Int /\ fi.peakH \in Int
    BY FieldAssumption, HashAssumption DEF ForkInfoType, ForkInfos, Heights
  <1>1. CASE fi.peakHash = Parent[b]
    BY <1>1 DEF AdvanceForkInfo, AdvanceOK
  <1>2. CASE fi.peakHash # Parent[b]
    <2>1. fi.peakH >= 0 /\ fi.peakH <= HeightOf[b] - 1
      BY <1>2 DEF AdvanceOK
    <2>2. ~ IsGenesis(b)
      BY <2>1, <1>0 DEF IsGenesis
    <2>3. Parent[b] \in Blocks /\ HeightOf[Parent[b]] = HeightOf[b] - 1
      BY <2>2, ParentFacts
    <2>4. AdvanceForkInfo(fi, b) = IncludeSpends(fi, Parent[b])
      BY <1>2 DEF AdvanceForkInfo
    <2>5. ForkInfoType(IncludeSpends(fi, Parent[b]))
      BY <2>1, <2>3, IncludeSpendsType
    <2> QED
      BY <2>3, <2>4, <2>5 DEF IncludeSpends
  <1> QED
    BY <1>1, <1>2

LEMMA ForkInfoFromType ==
    ASSUME NEW b \in Blocks, ~ IsGenesis(b), NEW f \in -1 .. MaxHeight,
           f <= HeightOf[b] - 1
    PROVE  LET e == EmptyFork(f, IF f = -1 THEN ZeroHash ELSE Anc[b][f])
           IN /\ ForkInfoType(e)
              /\ e.peakH = f /\ e.fork = f
              /\ ForkInfoFrom(b, f) = IncludeSpends(e, Parent[b])
              /\ ForkInfoType(ForkInfoFrom(b, f))
              /\ ForkInfoFrom(b, f).peakH = HeightOf[b] - 1
              /\ ForkInfoFrom(b, f).peakHash = Parent[b]
              /\ ForkInfoFrom(b, f).fork = f
  <1> DEFINE x == IF f = -1 THEN ZeroHash ELSE Anc[b][f]
             e == EmptyFork(f, x)
  <1>0. f \in Int /\ HeightOf[b] \in Int /\ MaxHeight \in Nat
    BY FieldAssumption, HashAssumption DEF Heights
  <1>1. x \in Blocks \cup {GenesisChallenge, ZeroHash}
    <2>1. CASE f = -1
      BY <2>1
    <2>2. CASE f # -1
      <3>1. f \in 0 .. HeightOf[b]
        BY <2>2, <1>0
      <3> QED
        BY <2>2, <3>1, AncFacts
    <2> QED
      BY <2>1, <2>2
  <1>2. Parent[b] \in Blocks /\ HeightOf[Parent[b]] = HeightOf[b] - 1
    BY ParentFacts
  <1>3. ForkInfoType(e) /\ e.peakH = f /\ e.fork = f
    <2> HIDE DEF x
    <2>1. ForkInfoType(e)
      BY <1>1, EmptyForkType
    <2> QED
      BY <2>1 DEF EmptyFork
  <1>4. ForkInfoFrom(b, f) = IncludeSpends(e, Parent[b])
    BY DEF ForkInfoFrom
  <1> HIDE DEF e
  <1>5. ForkInfoType(IncludeSpends(e, Parent[b]))
    BY <1>2, <1>3, IncludeSpendsType
  <1>6. /\ IncludeSpends(e, Parent[b]).peakH = HeightOf[b] - 1
        /\ IncludeSpends(e, Parent[b]).peakHash = Parent[b]
        /\ IncludeSpends(e, Parent[b]).fork = f
    BY <1>2, <1>3 DEF IncludeSpends
  <1> QED
    BY <1>3, <1>4, <1>5, <1>6 DEF e

LEMMA ParentForkType ==
    ASSUME NEW b \in Blocks
    PROVE  /\ ForkInfoType(EmptyFork(HeightOf[b] - 1, Parent[b]))
           /\ EmptyFork(HeightOf[b] - 1, Parent[b]).peakH = HeightOf[b] - 1
           /\ EmptyFork(HeightOf[b] - 1, Parent[b]).fork = HeightOf[b] - 1
           /\ EmptyFork(HeightOf[b] - 1, Parent[b]).peakHash = Parent[b]
  <1>1. HeightOf[b] - 1 \in -1 .. MaxHeight
    BY FieldAssumption, HashAssumption DEF Heights
  <1>2. Parent[b] \in Blocks \cup {GenesisChallenge, ZeroHash}
    BY FieldAssumption
  <1> QED
    BY <1>1, <1>2, EmptyForkType DEF EmptyFork

------------------------------------------------------------------------------
(* Type correctness                                                        *)

TypeInv ==
    /\ TypeOK
    /\ ForkInfoType(forkInfo)
    /\ pc # "idle" => block \in Blocks

Results == AddBlockResult \cup Exceptions \cup {"none"}

CallTypeOK ==
    /\ pc \in {"idle", "write", "commit", "committed"}
    /\ block \in Blocks \cup {NoBlock}
    /\ forkInfo \in ForkInfos
    /\ syncing \in BOOLEAN
    /\ result \in [res : Results, block : Blocks \cup {NoBlock}]
    /\ ForkInfoType(forkInfo)
    /\ pc # "idle" => block \in Blocks

RecordTypeOK == records \subseteq Blocks /\ cachedHeights \subseteq Heights

LEMMA NoForkInfoType == ForkInfoType(NoForkInfo)
  BY EmptyForkType, HashAssumption DEF NoForkInfo

LEMMA EndCallType ==
    ASSUME NEW res \in Results, NEW b \in Blocks, NEW fi, ForkInfoType(fi),
           syncing \in BOOLEAN, EndCall(res, b, fi)
    PROVE  CallTypeOK'
  <1>1. ForkInfoType(forkInfo')
    BY NoForkInfoType DEF EndCall
  <1>2. syncing' \in BOOLEAN
    BY DEF EndCall
  <1>3. /\ pc' \in {"idle", "write", "commit", "committed"}
        /\ block' \in Blocks \cup {NoBlock}
        /\ pc' # "idle" => block' \in Blocks
        /\ result' \in [res : Results, block : Blocks \cup {NoBlock}]
    BY DEF EndCall
  <1> QED
    BY <1>1, <1>2, <1>3 DEF CallTypeOK, ForkInfoType

LEMMA AddRecordsType ==
    ASSUME NEW S \in SUBSET Blocks, NEW T \in SUBSET Blocks,
           RecordTypeOK, AddBlockRecords(S, T)
    PROVE  RecordTypeOK'
  BY FieldAssumption DEF RecordTypeOK, AddBlockRecords, HeightsOf

LEMMA PreValType ==
    ASSUME NEW b \in Blocks
    PROVE  PreValRecords(b) \subseteq Blocks
  <1>1. HeightOf[b] \in Nat
    BY FieldAssumption, HashAssumption DEF Heights
  <1>2. \A k \in 0 .. (HeightOf[b] - 1) : Anc[b][k] \in Blocks
    BY <1>1, AncFacts
  <1> QED
    BY <1>2 DEF PreValRecords

LEMMA ReturnType ==
    ASSUME TypeInv, NEW res \in Results, NEW b \in Blocks,
           NEW fi, ForkInfoType(fi), Return(res, b, fi)
    PROVE  TypeInv'
  <1>1. CallTypeOK'
    BY EndCallType DEF Return, TypeInv, TypeOK
  <1>2. RecordTypeOK'
    BY AddRecordsType, PreValType DEF Return, TypeInv, TypeOK, RecordTypeOK
  <1> QED
    BY <1>1, <1>2 DEF Return, TypeInv, TypeOK, CallTypeOK, RecordTypeOK, dbVars, Results

LEMMA ValidatedType ==
    ASSUME TypeInv, NEW b \in Blocks, NEW fi, ForkInfoType(fi),
           fi.peakH = HeightOf[b] - 1, ValidateWith(b, fi)
    PROVE  TypeInv'
  <1>0. HeightOf[b] \in Nat
    BY FieldAssumption, HashAssumption DEF Heights
  <1>1. CASE Validated(b, fi)
    <2>1. ForkInfoType(IncludeSpends(fi, b))
      BY <1>0, IncludeSpendsType
    <2>2. RecordTypeOK'
      BY <1>1, AddRecordsType, PreValType DEF Validated, TypeInv, TypeOK, RecordTypeOK
    <2>3. ForkInfoType(forkInfo') /\ forkInfo' \in ForkInfos
      BY <1>1, <2>1 DEF Validated, ForkInfoType
    <2>4. result' \in [res : Results, block : Blocks \cup {NoBlock}]
      BY <1>1 DEF Validated, Results
    <2> QED
      BY <1>1, <2>2, <2>3, <2>4
      DEF Validated, TypeInv, TypeOK, RecordTypeOK, dbVars, Results
  <1>2. CASE Return("INVALID_BLOCK", b, fi)
    BY <1>2, ReturnType DEF Results, AddBlockResult
  <1> QED
    BY <1>1, <1>2 DEF ValidateWith


LEMMA AddBlockType ==
    ASSUME TypeInv, NEW b \in Blocks, AddBlock(b)
    PROVE  TypeInv'
  <1>0. ForkInfoType(forkInfo)
    BY DEF TypeInv
  <1>1. CASE AddBlockDisconnected(b)
    <2>1. EndCall("DISCONNECTED_BLOCK", b, forkInfo) /\ UNCHANGED <<dbVars, memVars, astray>>
      BY <1>1 DEF AddBlockDisconnected
    <2>2. CallTypeOK'
      BY <1>0, <2>1, EndCallType DEF Results, AddBlockResult, TypeInv, TypeOK
    <2> QED
      BY <2>1, <2>2 DEF TypeInv, TypeOK, CallTypeOK, RecordTypeOK, dbVars, memVars, Results
  <1>2. CASE AddBlockAlreadyHave(b)
    BY <1>0, <1>2, ReturnType DEF AddBlockAlreadyHave, Results, AddBlockResult
  <1>3. CASE AddBlockExtending(b)
    BY <1>3, ParentForkType, ValidatedType DEF AddBlockExtending
  <1>4. CASE AddBlockOnFork(b)
    <2>1. PICK f \in -1 .. MaxHeight :
             /\ IsForkHeight(Peak, Parent[b], f)
             /\ IF StoredAbove(b, f)
                THEN ValidateWith(b, ForkInfoFrom(b, f))
                ELSE Return("raised", b, forkInfo)
      BY <1>4 DEF AddBlockOnFork
    <2>2. ~ IsGenesis(b)
      BY <1>4 DEF AddBlockOnFork, ExtendingMainChain
    <2>3. f <= HeightOf[b] - 1
      BY <2>1, <2>2, ParentFacts DEF IsForkHeight
    <2>4. CASE StoredAbove(b, f)
      BY <2>1, <2>2, <2>3, <2>4, ForkInfoFromType, ValidatedType
    <2>5. CASE ~ StoredAbove(b, f)
      BY <1>0, <2>1, <2>5, ReturnType DEF Results, Exceptions
    <2> QED
      BY <2>4, <2>5
  <1> QED
    BY <1>1, <1>2, <1>3, <1>4 DEF AddBlock

LEMMA PassedForkInfoType ==
    ASSUME TypeInv, NEW b \in Blocks
    PROVE  ForkInfoType(PassedForkInfo(b))
  BY ParentForkType DEF TypeInv, PassedForkInfo

LEMMA AddBlockSyncingType ==
    ASSUME TypeInv, NEW b \in Blocks, AddBlockSyncing(b)
    PROVE  TypeInv'
  <1> DEFINE fi == PassedForkInfo(b)
             ad == AdvanceForkInfo(fi, b)
  <1>0. ForkInfoType(fi) /\ HeightOf[b] \in Nat
    BY PassedForkInfoType, FieldAssumption, HashAssumption DEF Heights
  <1>1. AdvanceOK(fi, b) => ForkInfoType(ad) /\ ad.peakH = HeightOf[b] - 1
    BY <1>0, AdvanceForkInfoType
  <1>2. CASE AdvanceOK(fi, b) /\ Return("ALREADY_HAVE_BLOCK", b, IncludeSpends(ad, b))
    <2>1. ForkInfoType(IncludeSpends(ad, b))
      BY <1>0, <1>1, <1>2, IncludeSpendsType
    <2> QED
      BY <1>2, <2>1, ReturnType DEF Results, AddBlockResult
  <1>3. CASE AdvanceOK(fi, b) /\ ValidateWith(b, ad)
    BY <1>1, <1>3, ValidatedType
  <1>4. CASE Return("raised", b, fi)
    BY <1>0, <1>4, ReturnType DEF Results, Exceptions
  <1> QED
    BY <1>2, <1>3, <1>4 DEF AddBlockSyncing

LEMMA ReconsiderPeakType ==
    ASSUME NEW d \in DBState, NEW b \in Blocks, NEW fi, ForkInfoType(fi)
    PROVE  /\ RollbackCoins(d, fi.fork) \in DBState
           /\ NewBlocks(d, fi) \in DBState
           /\ SetPeak(d, b, fi) \in DBState
           /\ AddFullBlock(d, b) \in DBState
           /\ fi.rems \in [Coins -> -1 .. MaxHeight]
           /\ fi.adds \in [Coins -> -1 .. MaxHeight]
           /\ ForkBlocks(fi) \subseteq Blocks
  <1>1. /\ fi.rems \in [Coins -> -1 .. MaxHeight]
        /\ fi.adds \in [Coins -> -1 .. MaxHeight]
        /\ fi.hashes \in Seq(Blocks)
        /\ MaxHeight \in Nat
    BY HashAssumption DEF ForkInfoType, ForkInfos
  <1>2. ForkBlocks(fi) \subseteq Blocks
    BY <1>1 DEF ForkBlocks
  <1> DEFINE h == fi.fork
             conf1 == [c \in Coins |-> IF d.conf[c] > h THEN -1 ELSE d.conf[c]]
             spent1 == [c \in Coins |-> IF d.conf[c] > h \/ d.spent[c] > h
                                        THEN 0 ELSE d.spent[c]]
             conf2 == [c \in Coins |-> IF fi.adds[c] # -1 THEN fi.adds[c] ELSE d.conf[c]]
             spent2 == [c \in Coins |-> IF fi.rems[c] # -1 THEN fi.rems[c] ELSE d.spent[c]]
  <1>3. /\ d.conf \in [Coins -> -1 .. MaxHeight]
        /\ d.spent \in [Coins -> Heights]
        /\ 0 \in Heights /\ -1 \in -1 .. MaxHeight
        /\ \A x \in -1 .. MaxHeight : x # -1 => x \in Heights
    BY <1>1 DEF DBState, Heights
  <1>4. /\ conf1 \in [Coins -> -1 .. MaxHeight] /\ spent1 \in [Coins -> Heights]
        /\ conf2 \in [Coins -> -1 .. MaxHeight] /\ spent2 \in [Coins -> Heights]
    <2> HIDE DEF h
    <2> QED
      BY <1>1, <1>3
  <1>6. /\ RollbackCoins(d, h) = [d EXCEPT !.conf = conf1, !.spent = spent1]
        /\ NewBlocks(d, fi) = [d EXCEPT !.conf = conf2, !.spent = spent2]
    BY DEF RollbackCoins, NewBlocks
  <1>7. \A u \in [Coins -> -1 .. MaxHeight], v \in [Coins -> Heights] :
           [d EXCEPT !.conf = u, !.spent = v] \in DBState
    BY DEF DBState
  <1>8. RollbackCoins(d, fi.fork) \in DBState /\ NewBlocks(d, fi) \in DBState
    <2> HIDE DEF h, conf1, spent1, conf2, spent2
    <2>1. RollbackCoins(d, h) \in DBState /\ NewBlocks(d, fi) \in DBState
      BY <1>4, <1>6, <1>7
    <2> QED
      BY <2>1 DEF h
  <1>5. SetPeak(d, b, fi) \in DBState /\ AddFullBlock(d, b) \in DBState
    BY <1>2 DEF SetPeak, AddFullBlock, DBState
  <1> QED
    BY <1>1, <1>2, <1>5, <1>8

LEMMA WriteTxnType ==
    ASSUME TypeInv, block \in Blocks, WriteTxn
    PROVE  TypeInv'
  <1> DEFINE d == AddFullBlock(db, block)
             base == ForkBase(d, block, forkInfo)
  <1>0. ForkInfoType(forkInfo) /\ db \in DBState
    BY DEF TypeInv, TypeOK
  <1>1. d \in DBState
    BY <1>0, ReconsiderPeakType
  <1>2. base \in DBState
    <2> HIDE DEF d
    <2> QED
      BY <1>0, <1>1, ReconsiderPeakType DEF ForkBase
  <1>3. ReconsiderPeak(d, block, forkInfo) \in DBState
    <2> HIDE DEF d
    <2>1. NewBlocks(base, forkInfo) \in DBState
      BY <1>0, <1>2, ReconsiderPeakType
    <2>2. SetPeak(NewBlocks(base, forkInfo), block, forkInfo) \in DBState
      BY <1>0, <2>1, ReconsiderPeakType
    <2> QED
      BY <1>1, <2>2 DEF ReconsiderPeak
  <1>4. CASE NotHeavier(block) \/ ReconsiderPeakOK(d, block, forkInfo)
    <2>1. RecordTypeOK'
      BY <1>4, AddRecordsType DEF WriteTxn, TypeInv, TypeOK, RecordTypeOK
    <2>2. txn' \in DBState
      BY <1>3, <1>4 DEF WriteTxn
    <2> HIDE DEF d
    <2> QED
      BY <1>4, <2>1, <2>2 DEF WriteTxn, TypeInv, TypeOK, RecordTypeOK, d
  <1>5. CASE ~ (NotHeavier(block) \/ ReconsiderPeakOK(d, block, forkInfo))
    <2>1. CallTypeOK'
      BY <1>0, <1>5, EndCallType DEF WriteTxn, TypeInv, TypeOK, Results, Exceptions
    <2> QED
      BY <1>5, <2>1 DEF WriteTxn, TypeInv, TypeOK, CallTypeOK, Results, dbVars
  <1> QED
    BY <1>4, <1>5

LEMMA UpdateMemoryType ==
    ASSUME TypeInv, block \in Blocks, UpdateMemory
    PROVE  TypeInv'
  <1>0. /\ ForkInfoType(forkInfo) /\ HeightOf[block] \in 0 .. MaxHeight
        /\ MaxHeight \in Nat
    BY FieldAssumption, HashAssumption DEF TypeInv, Heights
  <1>1. ForkInfoType(EmptyFork(HeightOf[block], block))
    BY <1>0, EmptyForkType
  <1>2. CallTypeOK'
    BY <1>0, <1>1, EndCallType
    DEF UpdateMemory, TypeInv, TypeOK, Results, Exceptions, AddBlockResult
  <1>3. MapAfter(forkInfo) \in [Heights -> Blocks \cup {NoBlock}]
    <2> SUFFICES ASSUME NEW h \in Heights
                 PROVE  MapAfter(forkInfo)[h] \in Blocks \cup {NoBlock}
      BY DEF MapAfter
    <2>1. CASE h > forkInfo.fork /\ h <= forkInfo.peakH
      <3>1. /\ forkInfo.fork \in Int /\ forkInfo.peakH \in Int /\ h \in Int
            /\ forkInfo.hashes \in Seq(Blocks)
            /\ Len(forkInfo.hashes) = forkInfo.peakH - forkInfo.fork
        BY <1>0 DEF ForkInfoType, ForkInfos, Heights
      <3>2. h - forkInfo.fork \in 1 .. Len(forkInfo.hashes)
        BY <2>1, <3>1
      <3>3. forkInfo.hashes[h - forkInfo.fork] \in Blocks
        BY <3>1, <3>2
      <3> QED
        BY <2>1, <3>3 DEF MapAfter
    <2>2. CASE ~ (h > forkInfo.fork /\ h <= forkInfo.peakH)
      BY <2>2 DEF MapAfter, TypeInv, TypeOK
    <2> QED
      BY <2>1, <2>2
  <1>4. /\ heightToHash' \in [Heights -> Blocks \cup {NoBlock}]
        /\ peakHeight' \in -1 .. MaxHeight
    BY <1>0, <1>3 DEF UpdateMemory, TypeInv, TypeOK
  <1> QED
    BY <1>2, <1>4 DEF UpdateMemory, TypeInv, TypeOK, CallTypeOK, Results, dbVars

(* The record cache alone changes, or a ForkInfo of the right type is set. *)
LEMMA OtherTypes ==
    ASSUME TypeInv
    PROVE  /\ \A b \in Blocks, lo \in Heights : PreValidationFails(b, lo) => TypeInv'
           /\ \A f \in Heights : SyncBegin(f) => TypeInv'
           /\ \A b \in Blocks : SyncSkip(b) => TypeInv'
           /\ SyncEnd => TypeInv'
           /\ \A f \in Heights : Warmup(f) => TypeInv'
           /\ \A h \in Heights : CleanBlockRecord(h) => TypeInv'
           /\ CleanBlockRecords => TypeInv'
  <1>0. ForkInfoType(forkInfo) /\ MaxHeight \in Nat
    BY HashAssumption DEF TypeInv
  <1>1. ASSUME NEW b \in Blocks, NEW lo \in Heights, PreValidationFails(b, lo)
        PROVE  TypeInv'
    <2> DEFINE first == Anc[b][lo]
               temps == {Anc[b][k] : k \in lo .. (HeightOf[b] - 1)}
    <2>1. HeightOf[b] \in Nat /\ lo \in 0 .. HeightOf[b]
      BY <1>1, FieldAssumption, HashAssumption DEF Heights, PreValidationFails
    <2>2. first \in Blocks /\ temps \subseteq Blocks
      BY <2>1, AncFacts
    <2>3. PreValRecords(first) \subseteq Blocks
      BY <2>2, PreValType
    <2>4. RecordTypeOK'
      <3> HIDE DEF first, temps
      <3>1. PICK S \in SUBSET Blocks, T \in SUBSET Blocks : AddBlockRecords(S, T)
        BY <1>1, <2>2, <2>3 DEF PreValidationFails, first, temps
      <3> QED
        BY <3>1, AddRecordsType DEF TypeInv, TypeOK, RecordTypeOK
    <2>5. CallTypeOK'
      BY <1>0, <1>1, EndCallType
      DEF PreValidationFails, TypeInv, TypeOK, Results, AddBlockResult
    <2> QED
      BY <1>1, <2>4, <2>5
      DEF PreValidationFails, TypeInv, TypeOK, CallTypeOK, RecordTypeOK, dbVars, Results
  <1>2. ASSUME NEW f \in Heights, SyncBegin(f)
        PROVE  TypeInv'
    <2>1. ForkInfoType(forkInfo')
      <3>1. CASE f = 0
        BY <1>0, <1>2, <3>1, EmptyForkType DEF SyncBegin
      <3>2. CASE f # 0
        <4>1. f - 1 \in Heights /\ f > 0 /\ f - 1 \in -1 .. MaxHeight
          BY <1>0, <3>2 DEF Heights
        <4>2. heightToHash[f - 1] \in Blocks
          BY <1>2, <4>1 DEF SyncBegin, TypeInv, TypeOK
        <4> QED
          BY <1>2, <3>2, <4>1, <4>2, EmptyForkType DEF SyncBegin
      <3> QED
        BY <3>1, <3>2
    <2> QED
      BY <1>2, <2>1 DEF SyncBegin, TypeInv, TypeOK, ForkInfoType, dbVars, memVars
  <1>3. ASSUME NEW b \in Blocks, SyncSkip(b)
        PROVE  TypeInv'
    <2>0. HeightOf[b] \in Nat /\ HeightOf[b] \in -1 .. MaxHeight
      BY <1>0, FieldAssumption DEF Heights
    <2>1. ForkInfoType(EmptyFork(HeightOf[b], b))
      BY <2>0, EmptyForkType
    <2>2. AdvanceOK(forkInfo, b) =>
             ForkInfoType(IncludeSpends(AdvanceForkInfo(forkInfo, b), b))
      BY <1>0, <2>0, AdvanceForkInfoType, IncludeSpendsType
    <2>3. CallTypeOK'
      <3>1. CASE EndCall("raised", b, forkInfo)
        BY <1>0, <3>1, EndCallType DEF TypeInv, TypeOK, Results, Exceptions
      <3>2. CASE ForkInfoType(forkInfo') /\ UNCHANGED <<pc, block, syncing, result>>
        BY <3>2 DEF TypeInv, TypeOK, CallTypeOK, ForkInfoType, Results
      <3> QED
        BY <1>3, <2>1, <2>2, <3>1, <3>2 DEF SyncSkip
    <2> QED
      BY <1>3, <2>3 DEF SyncSkip, TypeInv, TypeOK, CallTypeOK, Results, dbVars, memVars
  <1>4. ASSUME SyncEnd
        PROVE  TypeInv'
    BY <1>4, NoForkInfoType DEF SyncEnd, TypeInv, TypeOK, ForkInfoType, dbVars, memVars
  <1>5. ASSUME NEW f \in Heights, Warmup(f)
        PROVE  TypeInv'
    <2>1. RecordTypeOK'
      BY <1>5, AddRecordsType DEF Warmup, TypeInv, TypeOK, RecordTypeOK, DBState
    <2> QED
      BY <1>5, <2>1 DEF Warmup, TypeInv, TypeOK, RecordTypeOK, dbVars, callVars
  <1>6. ASSUME NEW h \in Int, CleanBlockRecord(h)
        PROVE  TypeInv'
    BY <1>6 DEF CleanBlockRecord, TypeInv, TypeOK, dbVars, callVars
  <1>7. CleanBlockRecords => TypeInv'
    BY <1>0, <1>6, CacheAssumption DEF CleanBlockRecords, TypeInv, TypeOK
  <1> QED
    BY <1>1, <1>2, <1>3, <1>4, <1>5, <1>6, <1>7 DEF Heights

LEMMA RestartType ==
    ASSUME TypeInv, Restart
    PROVE  TypeInv'
  <1>1. db.peak \in Blocks \cup {NoBlock} /\ db.blocks \subseteq Blocks
    BY DEF TypeInv, TypeOK, DBState
  <1>2. records' \subseteq Blocks /\ cachedHeights' \subseteq Heights
    BY <1>1, FieldAssumption DEF Restart, HeightsOf
  <1>3. heightToHash' \in [Heights -> Blocks \cup {NoBlock}]
    BY <1>1, AncAssumption DEF Restart
  <1>4. peakHeight' \in -1 .. MaxHeight
    BY <1>1, FieldAssumption, HashAssumption DEF Restart, Heights
  <1>5. ForkInfoType(forkInfo')
    BY NoForkInfoType DEF Restart
  <1> QED
    BY <1>2, <1>3, <1>4, <1>5 DEF Restart, TypeInv, TypeOK, ForkInfoType

LEMMA ReleaseTypes ==
    ASSUME TypeInv, TxnAborts \/ Commit \/ ReleaseFails \/ ReleaseCancelled
    PROVE  TypeInv'
  <1>1. CASE Commit
    BY <1>1 DEF Commit, TypeInv, TypeOK
  <1>2. ASSUME EndCall("aborted", block, forkInfo), pc # "idle"
        PROVE  CallTypeOK'
    BY <1>2, EndCallType DEF TypeInv, TypeOK, Results, Exceptions
  <1>3. CASE TxnAborts
    BY <1>2, <1>3 DEF TxnAborts, TypeInv, TypeOK, CallTypeOK, Results, dbVars
  <1>4. CASE ReleaseFails
    BY <1>2, <1>4 DEF ReleaseFails, TypeInv, TypeOK, CallTypeOK, Results
  <1>5. CASE ReleaseCancelled
    BY <1>2, <1>5 DEF ReleaseCancelled, TypeInv, TypeOK, CallTypeOK, Results
  <1> QED
    BY <1>1, <1>3, <1>4, <1>5

LEMMA TypeInit ==
    ASSUME Init
    PROVE  TypeInv
  <1>1. EmptyDB \in DBState
    BY HashAssumption DEF EmptyDB, DBState, Heights
  <1>2. ForkInfoType(forkInfo)
    BY NoForkInfoType DEF Init
  <1>3. -1 \in -1 .. MaxHeight
    BY HashAssumption
  <1> QED
    BY <1>1, <1>2, <1>3 DEF Init, TypeInv, TypeOK, ForkInfoType, Heights

LEMMA TypeStep ==
    ASSUME TypeInv, [Next]_vars
    PROVE  TypeInv'
  <1>1. CASE WriteTxn
    BY <1>1, WriteTxnType DEF TypeInv, WriteTxn
  <1>2. CASE UpdateMemory
    BY <1>2, UpdateMemoryType DEF TypeInv, UpdateMemory
  <1>3. CASE UNCHANGED vars
    BY <1>3 DEF vars, dbVars, memVars, callVars, TypeInv, TypeOK, ForkInfoType
  <1> QED
    BY <1>1, <1>2, <1>3, AddBlockType, AddBlockSyncingType, OtherTypes,
       ReleaseTypes, RestartType DEF Next

(* Every variable keeps its type for every block tree and every fault:     *)
(* heights stay within the bound, a ForkInfo has one hash for each height  *)
(* it covers, and a call in progress has a block.                          *)
THEOREM TypeCorrect == Spec => []TypeOK
  <1>1. Init => TypeInv
    BY TypeInit
  <1>2. TypeInv /\ [Next]_vars => TypeInv'
    BY TypeStep
  <1>3. TypeInv => TypeOK
    BY DEF TypeInv
  <1> QED
    BY <1>1, <1>2, <1>3, PTL DEF Spec

------------------------------------------------------------------------------
NoFault == Faults = {} /\ \A b \in Blocks : PreError[b] # "ses"

(* The database d is consistent: its blocks are closed under ancestors and *)
(* valid, its peak is the heaviest of them, and the coin table and the     *)
(* in_main_chain marks are those of the peak's chain.                      *)
DBInv(d) ==
    /\ d.peak = NoBlock => d.blocks = {}
    /\ d.peak # NoBlock => d.peak \in d.blocks
    /\ \A b \in d.blocks : Weight[b] <= Weight[d.peak]
    /\ \A b \in d.blocks : ChainValid(b)
    /\ \A b \in d.blocks : \A k \in 0 .. HeightOf[b] : Anc[b][k] \in d.blocks
    /\ CoinsReplay(d)
    /\ MainIsPath(d)

(* The height map is that of a stored block, whose record is cached.       *)
MapInv ==
    /\ peakHeight = -1 => heightToHash = [h \in Heights |-> NoBlock]
    /\ peakHeight # -1 =>
          /\ Peak \in db.blocks
          /\ Peak \in records
          /\ HeightOf[Peak] = peakHeight
          /\ heightToHash = Anc[Peak]

CacheInv ==
    /\ records \subseteq db.blocks \cup (IF pc = "commit" THEN {block} ELSE {})
    /\ blockCache \subseteq (IF pc \in {"write", "commit"} THEN {block} ELSE {})

(* What the call in progress has established, by how far it is.            *)
CallInv ==
    /\ pc # "committed" => db.peak = Peak
    /\ pc # "idle" => forkInfo.peakHash = block /\ forkInfo.peakH = HeightOf[block]
    /\ pc = "write" =>
          /\ block \notin db.blocks
          /\ ~ IsGenesis(block) => Parent[block] \in db.blocks
          /\ ChainValid(block)
          /\ ExtendingMainChain(block) => forkInfo.fork = HeightOf[block] - 1
    /\ pc = "commit" =>
          /\ DBInv(txn)
          /\ block \notin db.blocks /\ block \in records
          /\ txn.blocks = db.blocks \cup {block}
          /\ txn.peak # db.peak =>
                /\ txn.peak = block
                /\ db.peak # NoBlock => Weight[block] > Weight[db.peak]
    /\ pc = "committed" =>
          /\ block \in db.blocks /\ block \in records
          /\ db.peak # block => db.peak = Peak

ResultInv == result.res = "INVALID_BLOCK" => ~ ChainValid(result.block)

LedgerInv ==
    /\ DBInv(db)
    /\ MapInv
    /\ CacheInv
    /\ ForkInfoOK(forkInfo)
    /\ CallInv
    /\ ResultInv

------------------------------------------------------------------------------
(* What include_spends leaves in additions_since_fork and                  *)
(* removals_since_fork                                                     *)

(* Each of the dictionaries names the one height at which the fork creates *)
(* (spends) a coin, and goes on doing so as blocks are included.           *)
LEMMA EnteredOK ==
    ASSUME NEW old, NEW F, NEW b \in Blocks, NEW c \in Coins,
           NEW f \in Int, NEW p \in Int, -1 <= f, f <= p, p <= HeightOf[b],
           old[c] \in {-1} \cup (f + 1) .. p,
           \A k \in (f + 1) .. p : c \in F[Anc[b][k]] <=> old[c] = k,
           \A j, k \in 0 .. HeightOf[b] :
              c \in F[Anc[b][j]] /\ c \in F[Anc[b][k]] => j = k
    PROVE  LET e == Entered(old, F, b, p + 1)[c]
           IN /\ e \in {-1} \cup (f + 1) .. HeightOf[b]
              /\ \A k \in (f + 1) .. HeightOf[b] : c \in F[Anc[b][k]] <=> e = k
  <1> DEFINE H == HeightOf[b]
             at == {k \in (p + 1) .. H : c \in F[Anc[b][k]]}
             e == Entered(old, F, b, p + 1)[c]
  <1>0. H \in Nat /\ H <= MaxHeight /\ MaxHeight \in Nat
    BY FieldAssumption, HashAssumption DEF Heights
  <1>1. e = IF at = {} THEN old[c] ELSE Latest(at)
    BY DEF Entered
  <1>2. at \subseteq Heights
    BY <1>0 DEF Heights
  <1> HIDE DEF e, H
  <1>3. CASE at = {}
    <2>1. e = old[c]
      BY <1>1, <1>3
    <2>2. e \in {-1} \cup (f + 1) .. H
      BY <1>0, <2>1 DEF H
    <2>3. ASSUME NEW k \in (f + 1) .. H
          PROVE  c \in F[Anc[b][k]] <=> e = k
      <3>1. CASE k <= p
        BY <2>1, <3>1
      <3>2. CASE k > p
        <4>1. c \notin F[Anc[b][k]]
          BY <1>0, <1>3, <3>2
        <4>2. e # k
          BY <1>0, <2>1, <3>2
        <4> QED
          BY <4>1, <4>2
      <3> QED
        BY <1>0, <3>1, <3>2
    <2> QED
      BY <2>2, <2>3 DEF e, H
  <1>4. CASE at # {}
    <2>1. e \in at
      BY <1>1, <1>2, <1>4, LatestIn
    <2>2. e \in (p + 1) .. H /\ c \in F[Anc[b][e]] /\ e \in 0 .. H
      BY <1>0, <2>1
    <2>3. ASSUME NEW k \in (f + 1) .. H
          PROVE  c \in F[Anc[b][k]] <=> e = k
      <3>1. k \in 0 .. H
        BY <1>0
      <3> QED
        BY <2>2, <3>1 DEF H
    <2>4. e \in (f + 1) .. H
      BY <2>2, <1>0
    <2> QED
      BY <2>3, <2>4 DEF e, H
  <1> QED
    BY <1>3, <1>4

(* The part of ForkInfoOK that is about the fork alone.                    *)
ForkChain(fi) ==
    /\ fi.peakH >= 0 => fi.peakHash \in Blocks /\ HeightOf[fi.peakHash] = fi.peakH
    /\ \A k \in (fi.fork + 1) .. fi.peakH :
          fi.hashes[k - fi.fork] = Anc[fi.peakHash][k]
    /\ \A c \in Coins :
          /\ \A k \in (fi.fork + 1) .. fi.peakH :
                /\ c \in Adds[Anc[fi.peakHash][k]] <=> fi.adds[c] = k
                /\ c \in Spends[Anc[fi.peakHash][k]] <=> fi.rems[c] = k
          /\ fi.adds[c] \in {-1} \cup (fi.fork + 1) .. fi.peakH
          /\ fi.rems[c] \in {-1} \cup (fi.fork + 1) .. fi.peakH

(* The part that ties it to the main chain.                                *)
OnMain(fi) ==
    fi.fork >= 0 => /\ fi.fork <= peakHeight
                    /\ Anc[fi.peakHash][fi.fork] = heightToHash[fi.fork]

LEMMA ForkInfoParts ==
    ASSUME NEW fi, ForkInfoType(fi)
    PROVE  ForkInfoOK(fi) <=> ForkChain(fi) /\ OnMain(fi)
  BY DEF ForkInfoOK, ForkChain, OnMain, ForkInfoType

LEMMA ForkInts ==
    ASSUME NEW fi, ForkInfoType(fi)
    PROVE  /\ fi.fork \in Int /\ fi.peakH \in Int /\ -1 <= fi.fork
           /\ fi.fork <= fi.peakH /\ fi.peakH <= MaxHeight /\ MaxHeight \in Nat
  BY HashAssumption DEF ForkInfoType, ForkInfos

LEMMA EmptyForkChain ==
    ASSUME NEW h \in -1 .. MaxHeight, NEW x \in Blocks \cup {GenesisChallenge, ZeroHash},
           h >= 0 => x \in Blocks /\ HeightOf[x] = h
    PROVE  ForkChain(EmptyFork(h, x))
  <1>1. h \in Int /\ (h + 1) .. h = {}
    OBVIOUS
  <1> QED
    BY <1>1 DEF ForkChain, EmptyFork

(* include_spends up to a valid block b that continues the fork.           *)
LEMMA IncludeChain ==
    ASSUME NEW fi, ForkInfoType(fi), ForkChain(fi), NEW b \in Blocks,
           ChainValid(b), fi.peakH <= HeightOf[b],
           fi.peakH >= 0 => Anc[b][fi.peakH] = fi.peakHash
    PROVE  /\ ForkChain(IncludeSpends(fi, b))
           /\ OnMain(fi) => OnMain(IncludeSpends(fi, b))
           /\ IncludeSpends(fi, b).peakH = HeightOf[b]
           /\ IncludeSpends(fi, b).peakHash = b
           /\ IncludeSpends(fi, b).fork = fi.fork
  <1> DEFINE n == IncludeSpends(fi, b)
             H == HeightOf[b]
             f == fi.fork
             p == fi.peakH
  <1>0. /\ H \in Nat /\ f \in Int /\ p \in Int /\ -1 <= f /\ f <= p /\ p <= H
    BY ForkInts, FieldAssumption, HashAssumption DEF Heights
  <1>1. /\ n.fork = f /\ n.peakH = H /\ n.peakHash = b
        /\ n.adds = Entered(fi.adds, Adds, b, p + 1)
        /\ n.rems = Entered(fi.rems, Spends, b, p + 1)
    BY DEF IncludeSpends
  <1>2. \A k \in 0 .. p : Anc[fi.peakHash][k] = Anc[b][k]
    <2>1. CASE p >= 0
      BY <1>0, <2>1, AncFacts
    <2>2. CASE p < 0
      BY <1>0, <2>2
    <2> QED
      BY <1>0, <2>1, <2>2
  <1>3. \A k \in (f + 1) .. p : k \in 0 .. p
    BY <1>0
  <1>4. /\ \A k \in (f + 1) .. p : n.hashes[k - f] = fi.hashes[k - f]
        /\ \A k \in (p + 1) .. H : n.hashes[k - f] = Anc[b][k]
    BY IncludeHashes
  <1>5. \A k \in (f + 1) .. H : n.hashes[k - f] = Anc[b][k]
    <2> SUFFICES ASSUME NEW k \in (f + 1) .. H
                 PROVE  n.hashes[k - f] = Anc[b][k]
      OBVIOUS
    <2>1. CASE k <= p
      <3>1. k \in (f + 1) .. p
        BY <1>0, <2>1
      <3>2. n.hashes[k - f] = fi.hashes[k - f] /\ fi.hashes[k - f] = Anc[fi.peakHash][k]
        BY <1>4, <3>1 DEF ForkChain
      <3> QED
        BY <1>2, <1>3, <3>1, <3>2
    <2>2. CASE k > p
      <3>1. k \in (p + 1) .. H
        BY <1>0, <2>2
      <3> QED
        BY <1>4, <3>1
    <2> QED
      BY <1>0, <2>1, <2>2
  <1>6. ASSUME NEW c \in Coins
        PROVE  /\ \A k \in (f + 1) .. H :
                     /\ c \in Adds[Anc[b][k]] <=> n.adds[c] = k
                     /\ c \in Spends[Anc[b][k]] <=> n.rems[c] = k
               /\ n.adds[c] \in {-1} \cup (f + 1) .. H
               /\ n.rems[c] \in {-1} \cup (f + 1) .. H
    <2>1. /\ n.adds[c] \in {-1} \cup (f + 1) .. H
          /\ \A k \in (f + 1) .. H : c \in Adds[Anc[b][k]] <=> n.adds[c] = k
      <3> DEFINE old == fi.adds
                 e == Entered(old, Adds, b, p + 1)[c]
      <3>1. \A j, k \in 0 .. HeightOf[b] :
               c \in Adds[Anc[b][j]] /\ c \in Adds[Anc[b][k]] => j = k
        BY OncePerChain
      <3>2. old[c] \in {-1} \cup (f + 1) .. p
        BY DEF ForkChain
      <3>3. \A k \in (f + 1) .. p : c \in Adds[Anc[fi.peakHash][k]] <=> old[c] = k
        BY DEF ForkChain
      <3>4. \A k \in (f + 1) .. p : c \in Adds[Anc[b][k]] <=> old[c] = k
        BY <1>2, <1>3, <3>3
      <3> HIDE DEF f, p, old
      <3>5. /\ e \in {-1} \cup (f + 1) .. HeightOf[b]
            /\ \A k \in (f + 1) .. HeightOf[b] : c \in Adds[Anc[b][k]] <=> e = k
        BY <1>0, <3>1, <3>2, <3>4, EnteredOK
      <3> QED
        BY <1>1, <3>5 DEF f, p, old
    <2>2. /\ n.rems[c] \in {-1} \cup (f + 1) .. H
          /\ \A k \in (f + 1) .. H : c \in Spends[Anc[b][k]] <=> n.rems[c] = k
      <3> DEFINE old == fi.rems
                 e == Entered(old, Spends, b, p + 1)[c]
      <3>1. \A j, k \in 0 .. HeightOf[b] :
               c \in Spends[Anc[b][j]] /\ c \in Spends[Anc[b][k]] => j = k
        BY OncePerChain
      <3>2. old[c] \in {-1} \cup (f + 1) .. p
        BY DEF ForkChain
      <3>3. \A k \in (f + 1) .. p : c \in Spends[Anc[fi.peakHash][k]] <=> old[c] = k
        BY DEF ForkChain
      <3>4. \A k \in (f + 1) .. p : c \in Spends[Anc[b][k]] <=> old[c] = k
        BY <1>2, <1>3, <3>3
      <3> HIDE DEF f, p, old
      <3>5. /\ e \in {-1} \cup (f + 1) .. HeightOf[b]
            /\ \A k \in (f + 1) .. HeightOf[b] : c \in Spends[Anc[b][k]] <=> e = k
        BY <1>0, <3>1, <3>2, <3>4, EnteredOK
      <3> QED
        BY <1>1, <3>5 DEF f, p, old
    <2> QED
      BY <2>1, <2>2
  <1>7. ForkChain(n)
    <2> HIDE DEF n, H, f, p
    <2>1. ForkChain(n) <=>
            /\ H >= 0 => b \in Blocks /\ HeightOf[b] = H
            /\ \A k \in (f + 1) .. H : n.hashes[k - f] = Anc[b][k]
            /\ \A c \in Coins :
                  /\ \A k \in (f + 1) .. H :
                        /\ c \in Adds[Anc[b][k]] <=> n.adds[c] = k
                        /\ c \in Spends[Anc[b][k]] <=> n.rems[c] = k
                  /\ n.adds[c] \in {-1} \cup (f + 1) .. H
                  /\ n.rems[c] \in {-1} \cup (f + 1) .. H
      BY <1>1 DEF ForkChain
    <2> QED
      BY <1>5, <1>6, <2>1 DEF H
  <1>8. OnMain(fi) => OnMain(n)
    <2> HIDE DEF n
    <2>1. f >= 0 => f \in 0 .. p
      BY <1>0
    <2> QED
      BY <1>1, <1>2, <2>1 DEF OnMain
  <1> QED
    BY <1>1, <1>7, <1>8

------------------------------------------------------------------------------
(* validate_block_body looks in the right places                           *)

(* A chain that passes through the main chain's block at height f shares   *)
(* the main chain up to f.                                                 *)
LEMMA SharedBelow ==
    ASSUME TypeInv, MapInv, NEW b \in Blocks, NEW f \in 0 .. HeightOf[b],
           f <= peakHeight, Anc[b][f] = heightToHash[f]
    PROVE  /\ Peak # NoBlock /\ Peak \in Blocks /\ HeightOf[Peak] = peakHeight
           /\ f \in 0 .. HeightOf[Peak]
           /\ \A h \in 0 .. f : Anc[b][h] = Anc[Peak][h]
  <1>0. f \in Nat /\ HeightOf[b] \in Nat /\ peakHeight \in Int
    BY FieldAssumption, HashAssumption DEF Heights, TypeInv, TypeOK
  <1>1. /\ Peak \in Blocks /\ HeightOf[Peak] = peakHeight
        /\ heightToHash = Anc[Peak]
    BY <1>0 DEF MapInv, TypeInv, TypeOK, DBState
  <1>2. f \in 0 .. HeightOf[Peak]
    BY <1>0, <1>1
  <1>3. \A h \in 0 .. f : Anc[Anc[b][f]][h] = Anc[b][h]
    BY AncFacts
  <1>4. \A h \in 0 .. f : Anc[Anc[Peak][f]][h] = Anc[Peak][h]
    BY <1>1, <1>2, AncFacts
  <1> QED
    BY <1>1, <1>2, <1>3, <1>4, HashAssumption

(* Up to the fork height the coin table of the main chain speaks for the   *)
(* fork as well.                                                           *)
LEMMA CoinsAtFork ==
    ASSUME TypeInv, MapInv, NEW d \in DBState, CoinsReplay(d), d.peak = Peak,
           NEW b \in Blocks, NEW f \in Int, -1 <= f, f <= HeightOf[b],
           f >= 0 => f <= peakHeight /\ Anc[b][f] = heightToHash[f],
           NEW c \in Coins, NEW h \in 0 .. f
    PROVE  /\ c \in Adds[Anc[b][h]] <=> d.conf[c] = h
           /\ c \in Spends[Anc[b][h]] <=> h > 0 /\ d.spent[c] = h
  <1>1. f \in 0 .. HeightOf[b]
    BY FieldAssumption, HashAssumption DEF Heights
  <1>2. /\ Peak # NoBlock /\ f \in 0 .. HeightOf[Peak]
        /\ Anc[b][h] = Anc[Peak][h]
        /\ Peak \in Blocks
    BY <1>1, SharedBelow
  <1>3. h \in 0 .. HeightOf[Peak]
    BY <1>2, FieldAssumption, HashAssumption DEF Heights
  <1> QED
    BY <1>2, <1>3 DEF CoinsReplay

(* Rule 15 is exactly the reference rule, whatever the fork height.        *)
LEMMA BodyCheck ==
    ASSUME TypeInv, MapInv, CoinsReplay(db), db.peak = Peak, NEW b \in Blocks,
           ~ IsGenesis(b) => ChainValid(Parent[b]),
           NEW fi, ForkInfoType(fi), ForkChain(fi), OnMain(fi),
           fi.peakHash = Parent[b], fi.peakH = HeightOf[b] - 1
    PROVE  ValidateBlockBody(b, fi) <=> BodyOK(b)
  <1>1. CASE IsGenesis(b)
    <2>1. Spends[b] = {}
      BY <1>1, GenesisAssumption DEF IsGenesis, Genesis
    <2> QED
      BY <2>1 DEF ValidateBlockBody, BodyOK
  <1>2. CASE ~ IsGenesis(b)
    <2> DEFINE f == fi.fork
               H == HeightOf[b]
               q == Parent[b]
    <2>0. /\ f \in Int /\ H \in Nat /\ -1 <= f /\ f <= H - 1 /\ H > 0
          /\ q \in Blocks /\ HeightOf[q] = H - 1
          /\ \A k \in 0 .. (H - 1) : Anc[q][k] = Anc[b][k]
      BY <1>2, ParentFacts, ForkInts, FieldAssumption, HashAssumption DEF Heights
    <2>1. f >= 0 => f <= peakHeight /\ Anc[q][f] = heightToHash[f]
      BY DEF OnMain
    <2>2. f >= 0 => f <= peakHeight /\ Anc[b][f] = heightToHash[f]
      <3>1. f >= 0 => f \in 0 .. (H - 1)
        BY <2>0
      <3> QED
        BY <2>0, <2>1, <3>1
    <2>3. ASSUME NEW c \in Coins
          PROVE  /\ db.conf[c] \in -1 .. MaxHeight /\ db.spent[c] \in Nat
                 /\ fi.adds[c] \in {-1} \cup (f + 1) .. (H - 1)
                 /\ fi.rems[c] \in {-1} \cup (f + 1) .. (H - 1)
      <3>1. db.conf \in [Coins -> -1 .. MaxHeight] /\ db.spent \in [Coins -> Heights]
        BY DEF TypeInv, TypeOK, DBState
      <3>2. Heights \subseteq Nat
        BY HashAssumption DEF Heights
      <3> QED
        BY <3>1, <3>2 DEF ForkChain
    <2>4. ASSUME NEW c \in Coins, NEW h \in 0 .. f
          PROVE  /\ c \in Adds[Anc[b][h]] <=> db.conf[c] = h
                 /\ c \in Spends[Anc[b][h]] <=> h > 0 /\ db.spent[c] = h
      <3> HIDE DEF f
      <3>1. db \in DBState /\ f <= HeightOf[b]
        BY <2>0 DEF TypeInv, TypeOK
      <3> QED
        BY <2>0, <2>2, <3>1, CoinsAtFork
    <2>5. ASSUME NEW c \in Coins, NEW k \in (f + 1) .. (H - 1)
          PROVE  /\ c \in Adds[Anc[b][k]] <=> fi.adds[c] = k
                 /\ c \in Spends[Anc[b][k]] <=> fi.rems[c] = k
      <3>1. /\ c \in Adds[Anc[q][k]] <=> fi.adds[c] = k
            /\ c \in Spends[Anc[q][k]] <=> fi.rems[c] = k
        BY DEF ForkChain
      <3>2. k \in 0 .. (H - 1)
        BY <2>0
      <3> QED
        BY <2>0, <3>1, <3>2
    <2> HIDE DEF f, H, q
    <2>6. ASSUME NEW c \in Coins
          PROVE  CreatedBelow(b, H, c) <=> db.conf[c] \in 0 .. f \/ fi.adds[c] # -1
      <3>1. ASSUME NEW k \in 0 .. (H - 1), c \in Adds[Anc[b][k]]
            PROVE  db.conf[c] \in 0 .. f \/ fi.adds[c] # -1
        <4>1. CASE k <= f
          BY <2>0, <2>4, <3>1, <4>1
        <4>2. CASE k > f
          BY <2>0, <2>5, <3>1, <4>2
        <4> QED
          BY <2>0, <4>1, <4>2
      <3>2. ASSUME db.conf[c] \in 0 .. f
            PROVE  CreatedBelow(b, H, c)
        <4>1. c \in Adds[Anc[b][db.conf[c]]] /\ db.conf[c] \in 0 .. (H - 1)
          BY <2>0, <2>4, <3>2
        <4> QED
          BY <4>1 DEF CreatedBelow
      <3>3. ASSUME fi.adds[c] # -1
            PROVE  CreatedBelow(b, H, c)
        <4>1. fi.adds[c] \in (f + 1) .. (H - 1)
          BY <2>3, <3>3
        <4>2. c \in Adds[Anc[b][fi.adds[c]]] /\ fi.adds[c] \in 0 .. (H - 1)
          BY <2>0, <2>5, <4>1
        <4> QED
          BY <4>2 DEF CreatedBelow
      <3> QED
        BY <3>1, <3>2, <3>3 DEF CreatedBelow
    <2>7. ASSUME NEW c \in Coins
          PROVE  SpentBelow(b, H, c) <=>
                    fi.rems[c] # -1 \/ (db.spent[c] # 0 /\ db.spent[c] <= f)
      <3>1. ASSUME NEW k \in 0 .. (H - 1), c \in Spends[Anc[b][k]]
            PROVE  fi.rems[c] # -1 \/ (db.spent[c] # 0 /\ db.spent[c] <= f)
        <4>1. CASE k <= f
          BY <2>0, <2>4, <3>1, <4>1
        <4>2. CASE k > f
          BY <2>0, <2>5, <3>1, <4>2
        <4> QED
          BY <2>0, <4>1, <4>2
      <3>2. ASSUME db.spent[c] # 0, db.spent[c] <= f
            PROVE  SpentBelow(b, H, c)
        <4>1. db.spent[c] \in 0 .. f /\ db.spent[c] > 0
          BY <2>0, <2>3, <3>2
        <4>2. c \in Spends[Anc[b][db.spent[c]]] /\ db.spent[c] \in 0 .. (H - 1)
          BY <2>0, <2>4, <4>1
        <4> QED
          BY <4>2 DEF SpentBelow
      <3>3. ASSUME fi.rems[c] # -1
            PROVE  SpentBelow(b, H, c)
        <4>1. fi.rems[c] \in (f + 1) .. (H - 1)
          BY <2>3, <3>3
        <4>2. c \in Spends[Anc[b][fi.rems[c]]] /\ fi.rems[c] \in 0 .. (H - 1)
          BY <2>0, <2>5, <4>1
        <4> QED
          BY <4>2 DEF SpentBelow
      <3> QED
        BY <3>1, <3>2, <3>3 DEF SpentBelow
    <2>8. ASSUME NEW c \in Coins, db.spent[c] # 0, db.spent[c] <= f
          PROVE  db.conf[c] \in 0 .. f
      <3> DEFINE h == db.spent[c]
      <3>1. h \in 0 .. f /\ h > 0 /\ h \in 0 .. (H - 1)
        BY <2>0, <2>3, <2>8
      <3>2. c \in Spends[Anc[b][h]]
        BY <2>4, <3>1
      <3> HIDE DEF h
      <3>3. h \in 0 .. HeightOf[q] /\ c \in Spends[Anc[q][h]]
        BY <2>0, <3>1, <3>2
      <3>4. PICK j \in 0 .. h : c \in Adds[Anc[q][j]]
        BY <1>2, <2>0, <3>3, SpentWasCreated DEF q
      <3>5. j \in 0 .. f /\ j \in 0 .. (H - 1)
        BY <2>0, <3>1, <3>4
      <3>6. db.conf[c] = j
        BY <2>0, <2>4, <3>4, <3>5
      <3> QED
        BY <3>5, <3>6
    <2>9. \A c \in Spends[b] : c \in Coins
      BY FieldAssumption
    <2> QED
      BY <2>6, <2>7, <2>8, <2>9 DEF ValidateBlockBody, BodyOK, f, H
  <1> QED
    BY <1>1, <1>2

------------------------------------------------------------------------------
(* _reconsider_peak                                                        *)

(* b is the block of the call, fi its ForkInfo, d the database it reorgs.  *)
Reorg(d, b, fi) ==
    /\ TypeInv /\ MapInv
    /\ d \in DBState /\ CoinsReplay(d) /\ d.peak = Peak
    /\ d.peak # NoBlock => ChainValid(d.peak)
    /\ b \in Blocks /\ ChainValid(b)
    /\ ForkInfoType(fi) /\ ForkChain(fi) /\ OnMain(fi)
    /\ fi.peakHash = b /\ fi.peakH = HeightOf[b]
    /\ ExtendingMainChain(b) => fi.fork = HeightOf[b] - 1
    /\ Peak = NoBlock => IsGenesis(b)

(* Rolled back to the fork height, the coin table is that of b's chain up  *)
(* to there.                                                               *)
LEMMA ForkBaseCoins ==
    ASSUME NEW d, NEW b, NEW fi, Reorg(d, b, fi), NEW c \in Coins
    PROVE  LET e == ForkBase(d, b, fi)
           IN /\ e.conf[c] \in -1 .. fi.fork
              /\ e.spent[c] \in Nat
              /\ e.spent[c] = 0 \/ e.spent[c] <= fi.fork
              /\ \A h \in 0 .. fi.fork :
                    /\ c \in Adds[Anc[b][h]] <=> e.conf[c] = h
                    /\ c \in Spends[Anc[b][h]] <=> h > 0 /\ e.spent[c] = h
  <1> DEFINE f == fi.fork
             H == HeightOf[b]
  <1>0. /\ f \in Int /\ H \in Nat /\ -1 <= f /\ f <= H
        /\ d.conf[c] \in -1 .. MaxHeight /\ d.spent[c] \in Nat
        /\ MaxHeight \in Nat
    <2>1. d.conf \in [Coins -> -1 .. MaxHeight] /\ d.spent \in [Coins -> Heights]
      BY DEF Reorg, DBState
    <2>2. Heights \subseteq Nat
      BY HashAssumption DEF Heights
    <2>3. b \in Blocks /\ HeightOf[b] \in Nat
      BY FieldAssumption, HashAssumption DEF Heights, Reorg
    <2> QED
      BY <2>1, <2>2, <2>3, ForkInts DEF Reorg
  <1>1. f >= 0 => f <= peakHeight /\ Anc[b][f] = heightToHash[f]
    BY DEF OnMain, Reorg
  <1>2. ASSUME NEW h \in 0 .. f
        PROVE  /\ c \in Adds[Anc[b][h]] <=> d.conf[c] = h
               /\ c \in Spends[Anc[b][h]] <=> h > 0 /\ d.spent[c] = h
    <2> HIDE DEF f
    <2> QED
      BY <1>0, <1>1, CoinsAtFork DEF Reorg
  <1>3. CASE Peak = NoBlock
    <2>1. f = -1 /\ d.conf[c] = -1 /\ d.spent[c] = 0
      BY <1>3 DEF Reorg, ExtendingMainChain, IsGenesis, CoinsReplay
    <2>2. ForkBase(d, b, fi) = d
      BY <1>3 DEF ForkBase
    <2> QED
      BY <1>0, <2>1, <2>2
  <1>4. CASE Peak # NoBlock /\ Parent[b] = Peak
    <2>1. f = H - 1
      BY <1>4 DEF Reorg, ExtendingMainChain
    <2>2. Peak \in Blocks
      BY <1>4 DEF Reorg, DBState
    <2>3. ~ IsGenesis(b)
      BY <1>4, <2>2, ParentFacts, HashAssumption DEF Reorg
    <2>4. HeightOf[Peak] = f
      BY <1>4, <2>1, <2>3, ParentFacts DEF Reorg
    <2>5. d.conf[c] <= f /\ d.spent[c] <= f
      BY <1>4, <2>4 DEF Reorg, CoinsReplay
    <2>6. ForkBase(d, b, fi) = d
      BY <1>4 DEF ForkBase
    <2> QED
      BY <1>0, <1>2, <2>5, <2>6
  <1>5. CASE Peak # NoBlock /\ Parent[b] # Peak
    <2> DEFINE e == ForkBase(d, b, fi)
    <2>1. e = RollbackCoins(d, f)
      BY <1>5 DEF ForkBase
    <2>2. /\ e.conf[c] = IF d.conf[c] > f THEN -1 ELSE d.conf[c]
          /\ e.spent[c] = IF d.conf[c] > f \/ d.spent[c] > f THEN 0 ELSE d.spent[c]
      BY <2>1 DEF RollbackCoins, Reorg, DBState
    <2> HIDE DEF f, e
    <2>3. ASSUME NEW h \in 0 .. f, h > 0, d.spent[c] = h
          PROVE  d.conf[c] <= f
      <3>1. c \in Spends[Anc[b][h]] /\ h \in 0 .. HeightOf[b]
        BY <1>0, <1>2, <2>3
      <3>2. PICK j \in 0 .. h : c \in Adds[Anc[b][j]]
        BY <3>1, SpentWasCreated DEF Reorg
      <3>3. j \in 0 .. f
        BY <1>0, <3>2
      <3>4. d.conf[c] = j
        BY <1>2, <3>2, <3>3
      <3> QED
        BY <1>0, <3>3, <3>4
    <2>4. ASSUME NEW h \in 0 .. f
          PROVE  /\ c \in Adds[Anc[b][h]] <=> e.conf[c] = h
                 /\ c \in Spends[Anc[b][h]] <=> h > 0 /\ e.spent[c] = h
      <3>1. d.conf[c] = h <=> e.conf[c] = h
        BY <1>0, <2>2
      <3>2. (h > 0 /\ d.spent[c] = h) <=> (h > 0 /\ e.spent[c] = h)
        BY <1>0, <2>2, <2>3
      <3> QED
        BY <1>2, <3>1, <3>2
    <2>5. /\ e.conf[c] \in -1 .. f /\ e.spent[c] \in Nat
          /\ e.spent[c] = 0 \/ e.spent[c] <= f
      BY <1>0, <2>2
    <2> QED
      BY <2>4, <2>5 DEF e, f
  <1> QED
    BY <1>3, <1>4, <1>5

(* What ForkChain says of the fork that ends in b.                         *)
LEMMA ForkEntries ==
    ASSUME NEW d, NEW b, NEW fi, Reorg(d, b, fi), NEW c \in Coins
    PROVE  /\ fi.fork \in Int /\ -1 <= fi.fork /\ fi.fork <= HeightOf[b]
           /\ HeightOf[b] \in Nat
           /\ fi.adds[c] \in {-1} \cup (fi.fork + 1) .. HeightOf[b]
           /\ fi.rems[c] \in {-1} \cup (fi.fork + 1) .. HeightOf[b]
           /\ \A k \in (fi.fork + 1) .. HeightOf[b] :
                 c \in Adds[Anc[b][k]] <=> fi.adds[c] = k
           /\ \A k \in (fi.fork + 1) .. HeightOf[b] :
                 c \in Spends[Anc[b][k]] <=> fi.rems[c] = k
  <1>1. b \in Blocks /\ HeightOf[b] \in Nat
    BY FieldAssumption, HashAssumption DEF Reorg, Heights
  <1>2. fi.fork \in Int /\ -1 <= fi.fork /\ fi.fork <= HeightOf[b]
    BY ForkInts DEF Reorg
  <1> QED
    BY <1>1, <1>2 DEF Reorg, ForkChain

(* The assertions of new_block and _set_spent hold for a validated fork.   *)
LEMMA NewBlocksSucceed ==
    ASSUME NEW d, NEW b, NEW fi, Reorg(d, b, fi)
    PROVE  NewBlocksOK(ForkBase(d, b, fi), fi)
  <1> DEFINE e == ForkBase(d, b, fi)
             f == fi.fork
             H == HeightOf[b]
  <1> SUFFICES ASSUME NEW c \in Coins
               PROVE  /\ fi.adds[c] # -1 => e.conf[c] = -1
                      /\ fi.rems[c] # -1 =>
                            /\ fi.rems[c] > 0
                            /\ e.spent[c] = 0
                            /\ e.conf[c] # -1 \/ (fi.adds[c] # -1 /\ fi.adds[c] <= fi.rems[c])
    BY DEF NewBlocksOK
  <1>1. /\ f \in Int /\ -1 <= f /\ f <= H /\ H \in Nat
        /\ fi.adds[c] \in {-1} \cup (f + 1) .. H
        /\ fi.rems[c] \in {-1} \cup (f + 1) .. H
        /\ \A k \in (f + 1) .. H : c \in Adds[Anc[b][k]] <=> fi.adds[c] = k
        /\ \A k \in (f + 1) .. H : c \in Spends[Anc[b][k]] <=> fi.rems[c] = k
    BY ForkEntries
  <1>2. /\ e.conf[c] \in -1 .. f /\ e.spent[c] \in Nat
        /\ e.spent[c] = 0 \/ e.spent[c] <= f
        /\ \A h \in 0 .. f : /\ c \in Adds[Anc[b][h]] <=> e.conf[c] = h
                             /\ c \in Spends[Anc[b][h]] <=> h > 0 /\ e.spent[c] = h
    BY ForkBaseCoins
  <1>3. b \in Blocks /\ ChainValid(b)
    BY DEF Reorg
  <1> HIDE DEF e, f
  <1>4. ASSUME fi.adds[c] # -1
        PROVE  e.conf[c] = -1
    <2>1. fi.adds[c] \in (f + 1) .. H /\ fi.adds[c] \in 0 .. H
      BY <1>1, <1>4
    <2>2. c \in Adds[Anc[b][fi.adds[c]]]
      BY <1>1, <2>1
    <2>3. SUFFICES ASSUME e.conf[c] # -1 PROVE FALSE
      OBVIOUS
    <2>4. e.conf[c] \in 0 .. f /\ e.conf[c] \in 0 .. H
      BY <1>1, <1>2, <2>3
    <2>5. c \in Adds[Anc[b][e.conf[c]]]
      BY <1>2, <2>4
    <2>6. fi.adds[c] = e.conf[c]
      BY <1>3, <2>1, <2>2, <2>4, <2>5, OncePerChain
    <2> QED
      BY <1>1, <2>1, <2>4, <2>6
  <1>5. ASSUME fi.rems[c] # -1
        PROVE  /\ fi.rems[c] > 0
               /\ e.spent[c] = 0
               /\ e.conf[c] # -1 \/ (fi.adds[c] # -1 /\ fi.adds[c] <= fi.rems[c])
    <2> DEFINE k == fi.rems[c]
    <2>1. k \in (f + 1) .. H /\ k \in 0 .. H
      BY <1>1, <1>5
    <2>2. c \in Spends[Anc[b][k]]
      BY <1>1, <2>1
    <2> HIDE DEF k
    <2>3. k > 0
      <3>1. SUFFICES ASSUME k = 0 PROVE FALSE
        BY <1>1, <2>1
      <3>2. Anc[b][k] \in Blocks /\ HeightOf[Anc[b][k]] = 0
        BY <1>3, <2>1, <3>1, AncFacts
      <3> QED
        BY <2>2, <3>2, GenesisAssumption DEF Genesis
    <2>4. e.spent[c] = 0
      <3>1. SUFFICES ASSUME e.spent[c] # 0 PROVE FALSE
        OBVIOUS
      <3>2. e.spent[c] \in 0 .. f /\ e.spent[c] > 0 /\ e.spent[c] \in 0 .. H
        BY <1>1, <1>2, <3>1
      <3>3. c \in Spends[Anc[b][e.spent[c]]]
        BY <1>2, <3>2
      <3>4. k = e.spent[c]
        BY <1>3, <2>1, <2>2, <3>2, <3>3, OncePerChain
      <3> QED
        BY <1>1, <2>1, <3>2, <3>4
    <2>5. PICK j \in 0 .. k : c \in Adds[Anc[b][j]]
      BY <1>3, <2>1, <2>2, SpentWasCreated
    <2>6. CASE j <= f
      <3>1. j \in 0 .. f
        BY <1>1, <2>1, <2>5, <2>6
      <3>2. e.conf[c] = j
        BY <1>2, <2>5, <3>1
      <3> QED
        BY <2>3, <2>4, <3>1, <3>2 DEF k
    <2>7. CASE j > f
      <3>1. j \in (f + 1) .. H /\ j <= k /\ j # -1
        BY <1>1, <2>1, <2>5, <2>7
      <3>2. fi.adds[c] = j
        BY <1>1, <2>5, <3>1
      <3> QED
        BY <2>3, <2>4, <3>1, <3>2 DEF k
    <2> QED
      BY <1>1, <2>1, <2>6, <2>7
  <1> QED
    BY <1>4, <1>5

(* The coin table after the reorg is the replay of b's chain.              *)
LEMMA ReorgReplays ==
    ASSUME NEW d, NEW b, NEW fi, Reorg(d, b, fi)
    PROVE  CoinsReplay(SetPeak(NewBlocks(ForkBase(d, b, fi), fi), b, fi))
  <1> DEFINE e == ForkBase(d, b, fi)
             n == NewBlocks(e, fi)
             r == SetPeak(n, b, fi)
             f == fi.fork
             H == HeightOf[b]
  <1>0. b \in Blocks /\ b # NoBlock /\ ChainValid(b)
    BY HashAssumption DEF Reorg
  <1>1. e \in DBState
    BY ReconsiderPeakType DEF Reorg, ForkBase
  <1>2. n \in DBState
    <2> HIDE DEF e
    <2> QED
      BY <1>0, <1>1, ReconsiderPeakType DEF Reorg
  <1>3. r.peak = b /\ r.conf = n.conf /\ r.spent = n.spent
    <2> HIDE DEF n
    <2> QED
      BY <1>2 DEF SetPeak, DBState
  <1>4. ASSUME NEW c \in Coins
        PROVE  /\ r.conf[c] = IF fi.adds[c] # -1 THEN fi.adds[c] ELSE e.conf[c]
               /\ r.spent[c] = IF fi.rems[c] # -1 THEN fi.rems[c] ELSE e.spent[c]
    <2> HIDE DEF e, r
    <2> QED
      BY <1>1, <1>3 DEF NewBlocks, DBState
  <1> HIDE DEF r, n, e
  <1>5. ASSUME NEW c \in Coins
        PROVE  /\ \A h \in 0 .. H :
                    /\ c \in Adds[Anc[b][h]] <=> r.conf[c] = h
                    /\ c \in Spends[Anc[b][h]] <=> h > 0 /\ r.spent[c] = h
               /\ r.conf[c] <= H /\ r.spent[c] <= H
    <2>1. /\ f \in Int /\ -1 <= f /\ f <= H /\ H \in Nat
          /\ fi.adds[c] \in {-1} \cup (f + 1) .. H
          /\ fi.rems[c] \in {-1} \cup (f + 1) .. H
          /\ \A k \in (f + 1) .. H : c \in Adds[Anc[b][k]] <=> fi.adds[c] = k
          /\ \A k \in (f + 1) .. H : c \in Spends[Anc[b][k]] <=> fi.rems[c] = k
      BY ForkEntries
    <2>2. /\ e.conf[c] \in -1 .. f /\ e.spent[c] \in Nat
          /\ e.spent[c] = 0 \/ e.spent[c] <= f
          /\ \A h \in 0 .. f : /\ c \in Adds[Anc[b][h]] <=> e.conf[c] = h
                               /\ c \in Spends[Anc[b][h]] <=> h > 0 /\ e.spent[c] = h
      BY ForkBaseCoins DEF e
    <2>3. /\ r.conf[c] = IF fi.adds[c] # -1 THEN fi.adds[c] ELSE e.conf[c]
          /\ r.spent[c] = IF fi.rems[c] # -1 THEN fi.rems[c] ELSE e.spent[c]
      BY <1>4
    <2> HIDE DEF f, H
    <2>4. r.conf[c] <= H /\ r.spent[c] <= H
      BY <2>1, <2>2, <2>3
    <2>5. \A h \in 0 .. H, k \in 0 .. H :
             /\ c \in Adds[Anc[b][h]] /\ c \in Adds[Anc[b][k]] => h = k
             /\ c \in Spends[Anc[b][h]] /\ c \in Spends[Anc[b][k]] => h = k
      BY <1>0, OncePerChain DEF H
    <2>6. c \notin Spends[Anc[b][0]]
      <3>1. 0 \in 0 .. H
        BY <2>1
      <3>2. Anc[b][0] \in Blocks /\ HeightOf[Anc[b][0]] = 0
        BY <1>0, <3>1, AncFacts DEF H
      <3> QED
        BY <3>2, GenesisAssumption DEF Genesis
    <2>7. ASSUME NEW h \in 0 .. H
          PROVE  c \in Adds[Anc[b][h]] <=> r.conf[c] = h
      <3>1. CASE h > f
        <4>1. h \in (f + 1) .. H
          BY <2>1, <3>1
        <4>2. c \in Adds[Anc[b][h]] <=> fi.adds[c] = h
          BY <2>1, <4>1
        <4>3. fi.adds[c] = h <=> r.conf[c] = h
          BY <2>1, <2>2, <2>3, <3>1
        <4> QED
          BY <4>2, <4>3
      <3>2. CASE h <= f /\ fi.adds[c] = -1
        <4>1. h \in 0 .. f
          BY <2>1, <3>2
        <4> QED
          BY <2>2, <2>3, <3>2, <4>1
      <3>3. CASE h <= f /\ fi.adds[c] # -1
        <4>1. fi.adds[c] \in (f + 1) .. H /\ fi.adds[c] \in 0 .. H
          BY <2>1, <3>3
        <4>2. c \in Adds[Anc[b][fi.adds[c]]] /\ fi.adds[c] # h
          BY <2>1, <3>3, <4>1
        <4> QED
          BY <2>3, <2>5, <3>3, <4>1, <4>2
      <3> QED
        BY <2>1, <3>1, <3>2, <3>3
    <2>8. ASSUME NEW h \in 0 .. H
          PROVE  c \in Spends[Anc[b][h]] <=> h > 0 /\ r.spent[c] = h
      <3>0. CASE h = 0
        BY <2>6, <3>0
      <3>1. CASE h > f /\ h # 0
        <4>1. h \in (f + 1) .. H /\ h > 0
          BY <2>1, <3>1
        <4>2. c \in Spends[Anc[b][h]] <=> fi.rems[c] = h
          BY <2>1, <4>1
        <4>3. fi.rems[c] = h <=> r.spent[c] = h
          BY <2>1, <2>2, <2>3, <3>1
        <4> QED
          BY <4>1, <4>2, <4>3
      <3>2. CASE h <= f /\ fi.rems[c] = -1
        <4>1. h \in 0 .. f
          BY <2>1, <3>2
        <4> QED
          BY <2>2, <2>3, <3>2, <4>1
      <3>3. CASE h <= f /\ fi.rems[c] # -1
        <4>1. fi.rems[c] \in (f + 1) .. H /\ fi.rems[c] \in 0 .. H
          BY <2>1, <3>3
        <4>2. c \in Spends[Anc[b][fi.rems[c]]] /\ fi.rems[c] # h
          BY <2>1, <3>3, <4>1
        <4> QED
          BY <2>3, <2>5, <3>3, <4>1, <4>2
      <3> QED
        BY <2>1, <3>0, <3>1, <3>2, <3>3
    <2> QED
      BY <2>4, <2>7, <2>8
  <1>6. CoinsReplay(r)
    BY <1>0, <1>3, <1>5 DEF CoinsReplay
  <1> QED
    BY <1>6 DEF r, n, e

(* in_main_chain after the reorg marks b's chain.                          *)
LEMMA ReorgMain ==
    ASSUME NEW d, NEW b, NEW fi, Reorg(d, b, fi), MainIsPath(d),
           NEW e \in DBState, e.main = d.main
    PROVE  /\ MainIsPath(SetPeak(e, b, fi))
           /\ ForkBlocks(fi) = {Anc[b][k] : k \in (fi.fork + 1) .. HeightOf[b]}
  <1> DEFINE f == fi.fork
             H == HeightOf[b]
             r == SetPeak(e, b, fi)
  <1>0. /\ b \in Blocks /\ b # NoBlock /\ H \in Nat /\ f \in Int /\ -1 <= f /\ f <= H
        /\ Len(fi.hashes) = H - f
        /\ \A k \in (f + 1) .. H : fi.hashes[k - f] = Anc[b][k]
    <2>1. b \in Blocks /\ b # NoBlock
      BY HashAssumption DEF Reorg
    <2>2. H \in Nat
      BY <2>1, FieldAssumption, HashAssumption DEF Heights
    <2>3. f \in Int /\ -1 <= f /\ f <= H
      BY ForkInts DEF Reorg
    <2>4. Len(fi.hashes) = H - f
      BY DEF Reorg, ForkInfoType
    <2>5. \A k \in (f + 1) .. H : fi.hashes[k - f] = Anc[b][k]
      BY DEF Reorg, ForkChain
    <2> QED
      BY <2>1, <2>2, <2>3, <2>4, <2>5
  <1>1. ForkBlocks(fi) = {Anc[b][k] : k \in (f + 1) .. H}
    <2> HIDE DEF f, H
    <2>1. ASSUME NEW i \in 1 .. Len(fi.hashes)
          PROVE  /\ i + f \in (f + 1) .. H
                 /\ fi.hashes[i] = Anc[b][i + f]
      <3>1. i + f \in (f + 1) .. H /\ (i + f) - f = i
        BY <1>0
      <3> QED
        BY <1>0, <3>1
    <2>2. ASSUME NEW k \in (f + 1) .. H
          PROVE  k - f \in 1 .. Len(fi.hashes) /\ fi.hashes[k - f] = Anc[b][k]
      BY <1>0
    <2> QED
      BY <2>1, <2>2 DEF ForkBlocks
  <1>2. {x \in d.main : HeightOf[x] <= f} = {Anc[b][k] : k \in 0 .. f}
    <2>1. CASE f < 0
      <3>1. \A x \in d.main : x \in Blocks /\ HeightOf[x] \in Nat
        BY FieldAssumption, HashAssumption DEF Reorg, DBState, Heights
      <3>2. 0 .. f = {}
        BY <1>0, <2>1
      <3> HIDE DEF f
      <3> QED
        BY <1>0, <2>1, <3>1, <3>2
    <2>2. CASE f >= 0
      <3>1. f \in 0 .. H /\ f <= peakHeight /\ Anc[b][f] = heightToHash[f]
        BY <1>0, <2>2 DEF Reorg, OnMain
      <3>2. /\ Peak # NoBlock /\ Peak \in Blocks
            /\ f \in 0 .. HeightOf[Peak]
            /\ \A h \in 0 .. f : Anc[b][h] = Anc[Peak][h]
        <4> HIDE DEF f
        <4> QED
          BY <3>1, SharedBelow DEF Reorg
      <3>3. HeightOf[Peak] \in Nat
        BY <3>2, FieldAssumption, HashAssumption DEF Heights
      <3>4. d.main = {Anc[Peak][h] : h \in 0 .. HeightOf[Peak]}
        BY <3>2 DEF Reorg, MainIsPath, Path
      <3>5. \A h \in 0 .. HeightOf[Peak] : HeightOf[Anc[Peak][h]] = h
        BY <3>2, AncFacts
      <3> HIDE DEF f
      <3>6. \A h \in 0 .. f : h \in 0 .. HeightOf[Peak]
        BY <3>2, <3>3
      <3>7. \A h \in 0 .. HeightOf[Peak] : h <= f => h \in 0 .. f
        BY <1>0
      <3>8. \A h \in 0 .. f : h <= f
        BY <1>0
      <3> QED
        BY <3>2, <3>4, <3>5, <3>6, <3>7, <3>8
    <2> QED
      BY <1>0, <2>1, <2>2
  <1>3. r.peak = b /\ r.main = {x \in e.main : HeightOf[x] <= f} \cup ForkBlocks(fi)
    BY DEF SetPeak, DBState
  <1>4. \A k \in 0 .. H : k \in 0 .. f \/ k \in (f + 1) .. H
    BY <1>0
  <1>5. \A k : k \in 0 .. f \/ k \in (f + 1) .. H => k \in 0 .. H
    BY <1>0
  <1>6. r.main = Path(b)
    <2> HIDE DEF r, f, H
    <2>1. Path(b) = {Anc[b][k] : k \in 0 .. H}
      BY DEF Path, H
    <2> QED
      BY <1>1, <1>2, <1>3, <1>4, <1>5, <2>1
  <1> QED
    BY <1>0, <1>1, <1>3, <1>6 DEF MainIsPath

------------------------------------------------------------------------------
(* The ForkInfo a call starts from                                         *)

Inv == TypeInv /\ LedgerInv

(* fi describes a fork that ends just below b.                             *)
ForkBelow(fi, b) ==
    /\ ForkInfoType(fi) /\ ForkChain(fi) /\ OnMain(fi)
    /\ fi.peakHash = Parent[b] /\ fi.peakH = HeightOf[b] - 1

LEMMA IdleFacts ==
    ASSUME Inv, pc = "idle"
    PROVE  /\ records \subseteq db.blocks /\ db.blocks \subseteq Blocks
           /\ blockCache = {} /\ db.peak = Peak
           /\ ForkInfoType(forkInfo) /\ ForkChain(forkInfo) /\ OnMain(forkInfo)
           /\ \A b \in db.blocks : ChainValid(b)
           /\ FullBlocks = db.blocks
           /\ \A b : ContainsBlock(b) <=> b \in db.blocks
  <1>1. records \subseteq db.blocks /\ blockCache = {}
    BY DEF Inv, LedgerInv, CacheInv
  <1>2. db.peak = Peak
    BY DEF Inv, LedgerInv, CallInv
  <1>3. ForkInfoType(forkInfo) /\ ForkChain(forkInfo) /\ OnMain(forkInfo)
    BY ForkInfoParts DEF Inv, LedgerInv, TypeInv
  <1>4. db.blocks \subseteq Blocks
    BY DEF Inv, TypeInv, TypeOK, DBState
  <1> QED
    BY <1>1, <1>2, <1>3, <1>4 DEF Inv, LedgerInv, DBInv, FullBlocks, ContainsBlock

LEMMA ConnectedFacts ==
    ASSUME Inv, pc = "idle", NEW b \in Blocks, Connected(b)
    PROVE  /\ ~ IsGenesis(b) => Parent[b] \in db.blocks /\ ChainValid(Parent[b])
           /\ Peak = NoBlock => IsGenesis(b)
  <1>1. ~ IsGenesis(b) => Parent[b] \in db.blocks
    BY IdleFacts DEF Connected
  <1>2. Peak = NoBlock => db.blocks = {}
    BY IdleFacts DEF Inv, LedgerInv, DBInv
  <1> QED
    BY <1>1, <1>2, IdleFacts

LEMMA ExtendingFork ==
    ASSUME Inv, pc = "idle", NEW b \in Blocks, Connected(b), ExtendingMainChain(b)
    PROVE  ForkBelow(EmptyFork(HeightOf[b] - 1, Parent[b]), b)
  <1> DEFINE h == HeightOf[b] - 1
             e == EmptyFork(h, Parent[b])
  <1>1. ForkInfoType(e) /\ e.peakH = h /\ e.fork = h /\ e.peakHash = Parent[b]
    BY ParentForkType
  <1>2. h \in -1 .. MaxHeight /\ h \in Int
    BY FieldAssumption, HashAssumption DEF Heights
  <1>3. CASE IsGenesis(b)
    <2>1. h = -1
      BY <1>3 DEF IsGenesis
    <2>2. ForkChain(e)
      BY <1>2, <2>1, FieldAssumption, EmptyForkChain
    <2> QED
      BY <1>1, <2>1, <2>2 DEF ForkBelow, OnMain
  <1>4. CASE ~ IsGenesis(b)
    <2>1. Parent[b] \in Blocks /\ HeightOf[Parent[b]] = h
      BY <1>4, ParentFacts
    <2>2. ForkChain(e)
      BY <1>2, <2>1, EmptyForkChain
    <2>3. Parent[b] = Peak /\ Peak # NoBlock
      BY <1>4, ConnectedFacts DEF ExtendingMainChain
    <2>4. peakHeight # -1
      BY <2>3 DEF Peak
    <2>5. HeightOf[Peak] = peakHeight /\ heightToHash = Anc[Peak]
      BY <2>4 DEF Inv, LedgerInv, MapInv
    <2>6. OnMain(e)
      BY <1>1, <2>1, <2>3, <2>5, <1>2 DEF OnMain
    <2> QED
      BY <1>1, <2>2, <2>6 DEF ForkBelow
  <1> QED
    BY <1>3, <1>4

LEMMA OnForkFork ==
    ASSUME Inv, pc = "idle", NEW b \in Blocks, Connected(b), ~ ExtendingMainChain(b),
           NEW f \in -1 .. MaxHeight, IsForkHeight(Peak, Parent[b], f)
    PROVE  ForkBelow(ForkInfoFrom(b, f), b)
  <1> DEFINE q == Parent[b]
             x == IF f = -1 THEN ZeroHash ELSE Anc[b][f]
             e == EmptyFork(f, x)
  <1>0. ~ IsGenesis(b) /\ Peak # NoBlock
    BY DEF ExtendingMainChain
  <1>1. /\ q \in Blocks /\ HeightOf[q] = HeightOf[b] - 1 /\ ChainValid(q)
        /\ \A k \in 0 .. (HeightOf[b] - 1) : Anc[q][k] = Anc[b][k]
        /\ HeightOf[b] \in Nat
    BY <1>0, ParentFacts, ConnectedFacts, FieldAssumption, HashAssumption DEF Heights
  <1>2. f \in Int /\ -1 <= f /\ f <= HeightOf[b] - 1 /\ f <= HeightOf[q]
    BY <1>1 DEF IsForkHeight
  <1>3. /\ ForkInfoType(e) /\ e.peakH = f /\ e.fork = f
        /\ ForkInfoFrom(b, f) = IncludeSpends(e, q)
        /\ ForkInfoType(ForkInfoFrom(b, f))
        /\ ForkInfoFrom(b, f).peakH = HeightOf[b] - 1
        /\ ForkInfoFrom(b, f).peakHash = q
    BY <1>0, <1>2, ForkInfoFromType
  <1>4. f >= 0 => /\ f \in 0 .. (HeightOf[b] - 1)
                  /\ x = Anc[b][f] /\ x = Anc[q][f]
                  /\ x \in Blocks /\ HeightOf[x] = f
    <2>1. f >= 0 => f \in 0 .. (HeightOf[b] - 1) /\ f \in 0 .. HeightOf[b]
      BY <1>1, <1>2
    <2> QED
      BY <1>1, <2>1, AncFacts
  <1>5. ForkChain(e)
    <2>1. x \in Blocks \cup {GenesisChallenge, ZeroHash}
      BY <1>2, <1>4
    <2> HIDE DEF x
    <2> QED
      BY <1>4, <2>1, EmptyForkChain
  <1>6. e.peakHash = x
    BY DEF EmptyFork
  <1>7. OnMain(e)
    <2>1. SUFFICES ASSUME f >= 0
                   PROVE  f <= peakHeight /\ Anc[x][f] = heightToHash[f]
      <3> HIDE DEF e, x
      <3> QED
        BY <1>3, <1>6 DEF OnMain
    <2>2. peakHeight # -1 /\ HeightOf[Peak] = peakHeight /\ heightToHash = Anc[Peak]
      BY <1>0 DEF Peak, Inv, LedgerInv, MapInv
    <2>3. f <= HeightOf[Peak] /\ Anc[Peak][f] = Anc[q][f]
      BY <2>1 DEF IsForkHeight
    <2>4. Anc[x][f] = x
      <3>1. x \in Blocks /\ HeightOf[x] = f /\ f \in 0 .. HeightOf[x]
        BY <1>2, <1>4, <2>1
      <3> QED
        BY <3>1, AncFacts
    <2> QED
      BY <1>4, <2>1, <2>2, <2>3, <2>4
  <1> HIDE DEF e, x
  <1>8. e.peakH <= HeightOf[q] /\ (e.peakH >= 0 => Anc[q][e.peakH] = e.peakHash)
    BY <1>2, <1>3, <1>4, <1>6
  <1>9. ForkChain(IncludeSpends(e, q)) /\ OnMain(IncludeSpends(e, q))
    BY <1>1, <1>3, <1>5, <1>7, <1>8, IncludeChain
  <1> QED
    BY <1>3, <1>9 DEF ForkBelow

LEMMA AdvanceFork ==
    ASSUME NEW fi, ForkInfoType(fi), ForkChain(fi), OnMain(fi), NEW b \in Blocks,
           AdvanceOK(fi, b), ~ IsGenesis(b) => ChainValid(Parent[b])
    PROVE  /\ ForkBelow(AdvanceForkInfo(fi, b), b)
           /\ AdvanceForkInfo(fi, b).fork = fi.fork
  <1> DEFINE q == Parent[b]
             a == AdvanceForkInfo(fi, b)
  <1>1. ForkInfoType(a) /\ a.peakH = HeightOf[b] - 1 /\ a.peakHash = q /\ a.fork = fi.fork
    BY AdvanceForkInfoType
  <1>2. CASE fi.peakHash = q
    BY <1>1, <1>2 DEF AdvanceForkInfo, ForkBelow
  <1>3. CASE fi.peakHash # q
    <2>1. fi.peakH <= HeightOf[b] - 1 /\ fi.peakH >= 0 /\ Anc[q][fi.peakH] = fi.peakHash
      BY <1>3 DEF AdvanceOK
    <2>2. ~ IsGenesis(b)
      BY <2>1, ForkInts, FieldAssumption, HashAssumption DEF IsGenesis, Heights
    <2>3. q \in Blocks /\ HeightOf[q] = HeightOf[b] - 1 /\ ChainValid(q)
      BY <2>2, ParentFacts
    <2>4. ForkChain(IncludeSpends(fi, q)) /\ OnMain(IncludeSpends(fi, q))
      BY <2>1, <2>3, IncludeChain
    <2> QED
      BY <1>1, <1>3, <2>4 DEF AdvanceForkInfo, ForkBelow
  <1> QED
    BY <1>2, <1>3

LEMMA IncludeBelow ==
    ASSUME NEW b \in Blocks, ChainValid(b), NEW fi, ForkBelow(fi, b)
    PROVE  LET n == IncludeSpends(fi, b)
           IN /\ ForkInfoType(n) /\ ForkChain(n) /\ OnMain(n) /\ ForkInfoOK(n)
              /\ n.peakHash = b /\ n.peakH = HeightOf[b] /\ n.fork = fi.fork
  <1> DEFINE n == IncludeSpends(fi, b)
  <1>0. HeightOf[b] \in Nat /\ fi.peakH <= HeightOf[b] /\ fi.peakH = HeightOf[b] - 1
    BY FieldAssumption, HashAssumption DEF Heights, ForkBelow
  <1>1. fi.peakH >= 0 => Anc[b][fi.peakH] = fi.peakHash
    <2> SUFFICES ASSUME HeightOf[b] - 1 >= 0
                 PROVE  Anc[b][HeightOf[b] - 1] = Parent[b]
      BY <1>0 DEF ForkBelow
    <2>1. ~ IsGenesis(b)
      BY <1>0 DEF IsGenesis
    <2>2. /\ Parent[b] \in Blocks /\ HeightOf[Parent[b]] = HeightOf[b] - 1
          /\ Anc[Parent[b]][HeightOf[b] - 1] = Anc[b][HeightOf[b] - 1]
      BY <1>0, <2>1, ParentFacts
    <2>3. HeightOf[b] - 1 \in 0 .. HeightOf[Parent[b]]
      BY <1>0, <2>2
    <2> QED
      BY <2>2, <2>3, AncFacts
  <1>2. ForkInfoType(n)
    BY <1>0, IncludeSpendsType DEF ForkBelow
  <1>3. /\ ForkChain(n) /\ OnMain(n)
        /\ n.peakHash = b /\ n.peakH = HeightOf[b] /\ n.fork = fi.fork
    BY <1>0, <1>1, IncludeChain DEF ForkBelow
  <1>4. ForkInfoOK(n)
    <2> HIDE DEF n
    <2> QED
      BY <1>2, <1>3, ForkInfoParts
  <1> QED
    BY <1>2, <1>3, <1>4

------------------------------------------------------------------------------
(* One step of each kind preserves the invariant                           *)

NoForkOK == ForkInfoOK(NoForkInfo)

LEMMA NoForkInfoOK ==
    ASSUME TypeInv PROVE NoForkOK /\ NoForkOK'
  <1>1. ForkInfoType(NoForkInfo)
    BY NoForkInfoType
  <1>2. ForkChain(NoForkInfo)
    BY EmptyForkChain, HashAssumption DEF NoForkInfo
  <1>3. NoForkInfo.fork = -1
    BY DEF NoForkInfo, EmptyFork
  <1>4. Len(NoForkInfo.hashes) = NoForkInfo.peakH - NoForkInfo.fork
        /\ NoForkInfo.fork <= NoForkInfo.peakH
    BY <1>1 DEF ForkInfoType
  <1> QED
    BY <1>2, <1>3, <1>4 DEF NoForkOK, ForkInfoOK, ForkChain

(* The end of a call, as far as forkInfo and result are concerned.  kept   *)
(* stands for: the sync goes on with fi.                                   *)
LEMMA EndCallInv ==
    ASSUME TypeInv, NEW res, NEW b, NEW fi, EndCall(res, b, fi),
           syncing /\ res \notin {"INVALID_BLOCK", "DISCONNECTED_BLOCK"} /\ res \notin Exceptions
              => ForkInfoOK(fi)',
           res = "INVALID_BLOCK" => ~ ChainValid(b)
    PROVE  pc' = "idle" /\ ForkInfoOK(forkInfo)' /\ ResultInv'
  <1>1. pc' = "idle" /\ ResultInv'
    BY DEF EndCall, ResultInv
  <1>2. CASE syncing'
    <2>1. forkInfo' = fi /\ ForkInfoOK(fi)'
      BY <1>2 DEF EndCall
    <2> QED
      BY <1>1, <2>1 DEF ForkInfoOK
  <1>3. CASE ~ syncing'
    <2>1. forkInfo' = NoForkInfo
      BY <1>3 DEF EndCall
    <2>2. NoForkOK'
      BY NoForkInfoOK
    <2> QED
      BY <1>1, <2>1, <2>2 DEF ForkInfoOK, NoForkOK, NoForkInfo, EmptyFork
  <1> QED
    BY <1>2, <1>3

(* A step that leaves the database and the height map alone.               *)
LEMMA SameChain ==
    ASSUME MapInv, UNCHANGED <<db, heightToHash, peakHeight>>,
           Peak \in records => Peak \in records'
    PROVE  MapInv' /\ Peak' = Peak
  BY DEF MapInv, Peak

(* Such a step that ends with no call in progress.                         *)
LEMMA IdleInv ==
    ASSUME Inv, pc # "committed", pc' = "idle",
           UNCHANGED <<db, heightToHash, peakHeight>>,
           records' \subseteq db.blocks, Peak \in records => Peak \in records',
           blockCache' = {}, ForkInfoOK(forkInfo)', ResultInv'
    PROVE  LedgerInv'
  <1>1. MapInv' /\ Peak' = Peak
    BY SameChain DEF Inv, LedgerInv
  <1>2. DBInv(db)'
    BY DEF Inv, LedgerInv, DBInv, CoinsReplay, MainIsPath
  <1>3. CacheInv'
    BY DEF CacheInv
  <1>4. CallInv'
    BY <1>1 DEF Inv, LedgerInv, CallInv
  <1> QED
    BY <1>1, <1>2, <1>3, <1>4 DEF LedgerInv

LEMMA PreValStored ==
    ASSUME Inv, pc = "idle", NEW b \in Blocks
    PROVE  PreValRecords(b) \subseteq db.blocks
  <1>1. HeightOf[b] \in Nat
    BY FieldAssumption, HashAssumption DEF Heights
  <1> SUFFICES ASSUME NEW k \in 0 .. (HeightOf[b] - 1),
                      \A j \in k .. (HeightOf[b] - 1) : ContainsBlock(Anc[b][j])
               PROVE  Anc[b][k] \in db.blocks
    BY DEF PreValRecords
  <1>2. ContainsBlock(Anc[b][k])
    BY <1>1
  <1> QED
    BY <1>2, IdleFacts

(* ForkInfoOK depends on the state through the height map only.            *)
LEMMA ForkInfoSame ==
    ASSUME NEW fi, ForkInfoOK(fi), UNCHANGED <<heightToHash, peakHeight>>
    PROVE  ForkInfoOK(fi)'
  BY DEF ForkInfoOK

LEMMA ReturnInv ==
    ASSUME Inv, pc = "idle", NEW res, NEW b \in Blocks, NEW fi, Return(res, b, fi),
           syncing /\ res \notin {"INVALID_BLOCK", "DISCONNECTED_BLOCK"} /\ res \notin Exceptions
              => ForkInfoOK(fi),
           res = "INVALID_BLOCK" => ~ ChainValid(b)
    PROVE  LedgerInv'
  <1>1. /\ EndCall(res, b, fi) /\ TypeInv
        /\ UNCHANGED <<db, heightToHash, peakHeight>> /\ blockCache' = {}
        /\ records' = records \cup PreValRecords(b)
    BY IdleFacts DEF Return, Inv, AddBlockRecords, dbVars
  <1>2. syncing /\ res \notin {"INVALID_BLOCK", "DISCONNECTED_BLOCK"} /\ res \notin Exceptions
           => ForkInfoOK(fi)'
    BY <1>1, ForkInfoSame
  <1>3. ForkInfoOK(forkInfo)' /\ ResultInv' /\ pc' = "idle"
    BY <1>1, <1>2, EndCallInv
  <1>4. records' \subseteq db.blocks
    BY <1>1, IdleFacts, PreValStored
  <1> QED
    BY <1>1, <1>3, <1>4, IdleInv

LEMMA ValidateInv ==
    ASSUME Inv, pc = "idle", NEW b \in Blocks, PreError[b] = "none",
           Connected(b), ~ ContainsBlock(b), NEW fi, ForkBelow(fi, b),
           ExtendingMainChain(b) => fi.fork = HeightOf[b] - 1,
           ValidateWith(b, fi)
    PROVE  LedgerInv'
  <1>1. ~ IsGenesis(b) => Parent[b] \in db.blocks /\ ChainValid(Parent[b])
    BY ConnectedFacts
  <1>2. ValidateBlockBody(b, fi) <=> BodyOK(b)
    BY <1>1, IdleFacts, BodyCheck DEF Inv, LedgerInv, DBInv, ForkBelow
  <1>3. ChainValid(b) <=> BodyOK(b)
    BY <1>1, ChainValidExtends
  <1>4. CASE ~ ValidateBlockBody(b, fi)
    <2>1. Return("INVALID_BLOCK", b, fi) /\ ~ ChainValid(b)
      BY <1>2, <1>3, <1>4 DEF ValidateWith
    <2> QED
      BY <2>1, ReturnInv
  <1>5. CASE ValidateBlockBody(b, fi)
    <2> DEFINE n == IncludeSpends(fi, b)
    <2>1. Validated(b, fi) /\ ChainValid(b)
      BY <1>2, <1>3, <1>5 DEF ValidateWith
    <2>2. ForkInfoOK(n) /\ n.peakHash = b /\ n.peakH = HeightOf[b] /\ n.fork = fi.fork
      BY <2>1, IncludeBelow
    <2>3. /\ UNCHANGED <<db, heightToHash, peakHeight>>
          /\ records' = records \cup PreValRecords(b) /\ blockCache' = {b}
          /\ forkInfo' = n /\ pc' = "write" /\ block' = b
          /\ result'.res = "none"
      BY <2>1, IdleFacts DEF Validated, AddBlockRecords, dbVars
    <2> HIDE DEF n
    <2>4. MapInv' /\ Peak' = Peak
      BY <2>3, SameChain DEF Inv, LedgerInv
    <2>5. ForkInfoOK(forkInfo)'
      BY <2>2, <2>3, ForkInfoSame DEF ForkInfoOK
    <2>6. CacheInv'
      BY <2>3, IdleFacts, PreValStored DEF CacheInv
    <2>7. DBInv(db)' /\ ResultInv'
      BY <2>3 DEF Inv, LedgerInv, DBInv, CoinsReplay, MainIsPath, ResultInv
    <2>8. CallInv'
      <3>1. ExtendingMainChain(b)' = ExtendingMainChain(b)
        BY <2>4 DEF ExtendingMainChain
      <3>2. b \notin db.blocks
        BY IdleFacts
      <3> QED
        BY <1>1, <2>1, <2>2, <2>3, <2>4, <3>1, <3>2, IdleFacts DEF CallInv, ExtendingMainChain
    <2> QED
      BY <2>4, <2>5, <2>6, <2>7, <2>8 DEF LedgerInv
  <1> QED
    BY <1>4, <1>5

LEMMA AddBlockInv ==
    ASSUME Inv, NEW b \in Blocks, AddBlock(b)
    PROVE  LedgerInv'
  <1>1. CASE AddBlockDisconnected(b)
    <2>1. /\ EndCall("DISCONNECTED_BLOCK", b, forkInfo) /\ TypeInv
          /\ UNCHANGED <<db, records, blockCache, heightToHash, peakHeight>>
      BY <1>1 DEF AddBlockDisconnected, Inv, dbVars, memVars
    <2>2. ForkInfoOK(forkInfo)' /\ ResultInv' /\ pc' = "idle"
      BY <2>1, EndCallInv
    <2> QED
      BY <1>1, <2>1, <2>2, IdleFacts, IdleInv DEF AddBlockDisconnected
  <1>2. CASE AddBlockAlreadyHave(b)
    BY <1>2, ReturnInv DEF AddBlockAlreadyHave
  <1>3. CASE AddBlockExtending(b)
    <2> DEFINE e == EmptyFork(HeightOf[b] - 1, Parent[b])
    <2>1. /\ pc = "idle" /\ PreError[b] = "none" /\ Connected(b) /\ ~ ContainsBlock(b)
          /\ ExtendingMainChain(b) /\ ValidateWith(b, e)
      BY <1>3 DEF AddBlockExtending
    <2>2. ForkBelow(e, b) /\ e.fork = HeightOf[b] - 1
      BY <2>1, ExtendingFork, ParentForkType
    <2> HIDE DEF e
    <2> QED
      BY <2>1, <2>2, ValidateInv
  <1>4. CASE AddBlockOnFork(b)
    <2>1. /\ pc = "idle" /\ PreError[b] = "none" /\ Connected(b) /\ ~ ContainsBlock(b)
          /\ ~ ExtendingMainChain(b) /\ ~ syncing
      BY <1>4 DEF AddBlockOnFork
    <2>2. PICK f \in -1 .. MaxHeight :
             /\ IsForkHeight(Peak, Parent[b], f)
             /\ IF StoredAbove(b, f)
                THEN ValidateWith(b, ForkInfoFrom(b, f))
                ELSE Return("raised", b, forkInfo)
      BY <1>4 DEF AddBlockOnFork
    <2>3. ForkBelow(ForkInfoFrom(b, f), b)
      BY <2>1, <2>2, OnForkFork
    <2>4. CASE StoredAbove(b, f)
      BY <2>1, <2>2, <2>3, <2>4, ValidateInv
    <2>5. CASE ~ StoredAbove(b, f)
      BY <2>1, <2>2, <2>5, ReturnInv
    <2> QED
      BY <2>4, <2>5
  <1> QED
    BY <1>1, <1>2, <1>3, <1>4 DEF AddBlock

LEMMA AddBlockSyncingInv ==
    ASSUME Inv, NEW b \in Blocks, AddBlockSyncing(b)
    PROVE  LedgerInv'
  <1> DEFINE fi == PassedForkInfo(b)
             ad == AdvanceForkInfo(fi, b)
  <1>1. pc = "idle" /\ PreError[b] = "none" /\ Connected(b)
    BY DEF AddBlockSyncing
  <1>2. ForkInfoType(fi) /\ ForkChain(fi) /\ OnMain(fi)
    <2>1. CASE ExtendingMainChain(b)
      BY <1>1, <2>1, ExtendingFork DEF PassedForkInfo, ForkBelow
    <2>2. CASE ~ ExtendingMainChain(b)
      BY <1>1, <2>2, IdleFacts DEF PassedForkInfo
    <2> QED
      BY <2>1, <2>2
  <1>3. ExtendingMainChain(b) => fi.fork = HeightOf[b] - 1
    BY ParentForkType DEF PassedForkInfo
  <1> HIDE DEF fi
  <1>4. ~ IsGenesis(b) => ChainValid(Parent[b])
    BY <1>1, ConnectedFacts
  <1>5. AdvanceOK(fi, b) => ForkBelow(ad, b) /\ ad.fork = fi.fork
    BY <1>2, <1>4, AdvanceFork
  <1>6. CASE ContainsBlock(b) /\ AdvanceOK(fi, b)
             /\ Return("ALREADY_HAVE_BLOCK", b, IncludeSpends(ad, b))
    <2>1. ChainValid(b)
      BY <1>1, <1>6, IdleFacts
    <2>2. ForkInfoOK(IncludeSpends(ad, b))
      BY <1>5, <1>6, <2>1, IncludeBelow
    <2> QED
      BY <1>1, <1>6, <2>2, ReturnInv
  <1>7. CASE ~ ContainsBlock(b) /\ AdvanceOK(fi, b) /\ ValidateWith(b, ad)
    <2>1. ForkBelow(ad, b) /\ (ExtendingMainChain(b) => ad.fork = HeightOf[b] - 1)
      BY <1>3, <1>5, <1>7
    <2> HIDE DEF ad
    <2> QED
      BY <1>1, <1>7, <2>1, ValidateInv
  <1>8. CASE Return("raised", b, fi)
    BY <1>1, <1>8, ReturnInv DEF Exceptions
  <1> QED
    BY <1>6, <1>7, <1>8 DEF AddBlockSyncing, fi

(* An action that neither uses the database nor a ForkInfo of its own.     *)
LEMMA PreValidationInv ==
    ASSUME NoFault, Inv, NEW b \in Blocks, NEW lo \in Heights, PreValidationFails(b, lo)
    PROVE  LedgerInv'
  <1>1. /\ pc = "idle" /\ PreError[b] = "header" /\ lo <= HeightOf[b]
        /\ EndCall("INVALID_BLOCK", b, forkInfo)
        /\ UNCHANGED <<db, heightToHash, peakHeight>> /\ TypeInv
    BY FieldAssumption DEF PreValidationFails, NoFault, dbVars, Inv
  <1>2. HeightOf[b] \in Nat /\ lo \in 0 .. HeightOf[b] /\ HeightOf[b] \in 0 .. HeightOf[b]
    BY <1>1, FieldAssumption, HashAssumption DEF Heights
  <1>3. Anc[b][lo] \in Blocks /\ Anc[b][HeightOf[b]] = b
    BY <1>2, AncFacts
  <1>4. records' = records \cup PreValRecords(Anc[b][lo]) /\ blockCache' = {}
    BY <1>1, IdleFacts DEF PreValidationFails, AddBlockRecords
  <1>5. ~ ChainValid(b)
    BY <1>1, <1>2, <1>3 DEF ChainValid
  <1>6. pc' = "idle" /\ ForkInfoOK(forkInfo)' /\ ResultInv'
    BY <1>1, <1>5, EndCallInv
  <1>7. records' \subseteq db.blocks
    BY <1>1, <1>3, <1>4, IdleFacts, PreValStored
  <1> QED
    BY <1>1, <1>4, <1>6, <1>7, IdleInv

LEMMA TxnAbortsInv ==
    ASSUME Inv, TxnAborts
    PROVE  LedgerInv'
  <1>1. /\ pc = "write" /\ EndCall("aborted", block, forkInfo) /\ TypeInv
        /\ UNCHANGED <<db, records, heightToHash, peakHeight>>
        /\ blockCache' = blockCache \ {block}
    BY DEF TxnAborts, dbVars, Inv
  <1>2. blockCache' = {} /\ records \subseteq db.blocks
    BY <1>1 DEF Inv, LedgerInv, CacheInv
  <1>3. pc' = "idle" /\ ForkInfoOK(forkInfo)' /\ ResultInv'
    BY <1>1, EndCallInv DEF Exceptions
  <1> QED
    BY <1>1, <1>2, <1>3, IdleInv

LEMMA SyncInv ==
    ASSUME Inv
    PROVE  /\ \A f \in Heights : SyncBegin(f) => LedgerInv'
           /\ \A b \in Blocks : SyncSkip(b) => LedgerInv'
           /\ SyncEnd => LedgerInv'
  <1>0. ASSUME pc = "idle", pc' = pc, result' = result, ForkInfoOK(forkInfo)',
               UNCHANGED <<dbVars, memVars>>
        PROVE  LedgerInv'
    <2>1. ResultInv'
      BY <1>0 DEF ResultInv, Inv, LedgerInv
    <2> QED
      BY <1>0, <2>1, IdleFacts, IdleInv DEF dbVars, memVars
  <1>1. ASSUME NEW f \in Heights, SyncBegin(f)
        PROVE  LedgerInv'
    <2>0. pc = "idle" /\ pc' = pc /\ result' = result /\ UNCHANGED <<dbVars, memVars>>
      BY <1>1 DEF SyncBegin
    <2>1. CASE f = 0
      <3>1. forkInfo' = NoForkInfo
        BY <1>1, <2>1 DEF SyncBegin, NoForkInfo
      <3>2. NoForkOK'
        BY NoForkInfoOK DEF Inv
      <3>3. ForkInfoOK(forkInfo)'
        BY <3>1, <3>2 DEF ForkInfoOK, NoForkOK, NoForkInfo, EmptyFork
      <3> QED
        BY <1>0, <2>0, <3>3
    <2>2. CASE f # 0
      <3> DEFINE h == f - 1
                 x == heightToHash[h]
                 e == EmptyFork(h, x)
      <3>1. h \in Heights /\ h \in Nat /\ h \in -1 .. MaxHeight /\ f > 0 /\ MaxHeight \in Nat
        BY <2>2, HashAssumption DEF Heights
      <3>2. Peak # NoBlock /\ x # NoBlock /\ forkInfo' = e
        BY <1>1, <2>2, <3>1 DEF SyncBegin
      <3>3. peakHeight # -1 /\ peakHeight \in Int /\ Peak \in Blocks
            /\ HeightOf[Peak] = peakHeight /\ heightToHash = Anc[Peak]
        BY <3>2 DEF Peak, Inv, LedgerInv, MapInv, TypeInv, TypeOK, DBState
      <3> HIDE DEF h
      <3>4. h <= HeightOf[Peak]
        BY <3>1, <3>2, <3>3, AncAssumption
      <3>5. h \in 0 .. HeightOf[Peak]
        BY <3>1, <3>3, <3>4
      <3>6. x \in Blocks /\ HeightOf[x] = h /\ h \in 0 .. HeightOf[x]
        BY <3>3, <3>5, <3>1, AncFacts
      <3>7. Anc[x][h] = x
        BY <3>6, AncFacts
      <3> HIDE DEF x
      <3>8. ForkInfoType(e) /\ ForkChain(e)
        BY <3>1, <3>6, EmptyForkType, EmptyForkChain
      <3>9. e.fork = h /\ e.peakHash = x
        BY DEF EmptyFork
      <3> HIDE DEF e
      <3>10. OnMain(e)
        BY <3>3, <3>4, <3>7, <3>9 DEF OnMain, x
      <3>11. ForkInfoOK(e)
        BY <3>8, <3>10, ForkInfoParts
      <3>12. ForkInfoOK(forkInfo)'
        BY <2>0, <3>2, <3>11, ForkInfoSame DEF memVars, ForkInfoOK
      <3> QED
        BY <1>0, <2>0, <3>12
    <2> QED
      BY <2>1, <2>2
  <1>2. ASSUME NEW b \in Blocks, SyncSkip(b)
        PROVE  LedgerInv'
    <2>0. /\ pc = "idle" /\ ContainsBlock(b) /\ UNCHANGED <<dbVars, memVars>>
          /\ HeightOf[b] > forkInfo.peakH
          /\ UNCHANGED <<db, heightToHash, peakHeight, records, blockCache>>
      BY <1>2 DEF SyncSkip, dbVars, memVars
    <2>1. b \in db.blocks /\ ChainValid(b)
      BY <2>0, IdleFacts
    <2>2. CASE /\ heightToHash[HeightOf[b]] = b
               /\ forkInfo' = EmptyFork(HeightOf[b], b)
               /\ UNCHANGED <<pc, block, syncing, result>>
      <3> DEFINE h == HeightOf[b]
                 e == EmptyFork(h, b)
      <3>1. h \in Heights /\ h \in Nat /\ h \in -1 .. MaxHeight /\ h \in 0 .. h
        BY FieldAssumption, HashAssumption DEF Heights
      <3>2. peakHeight # -1
        BY <2>2, <3>1, HashAssumption DEF Inv, LedgerInv, MapInv
      <3>3. /\ Peak \in Blocks /\ HeightOf[Peak] = peakHeight /\ heightToHash = Anc[Peak]
            /\ peakHeight \in Int
        BY <3>2 DEF Inv, LedgerInv, MapInv, TypeInv, TypeOK, DBState
      <3>4. h <= peakHeight
        BY <2>2, <3>1, <3>3, AncAssumption, HashAssumption
      <3>5. Anc[b][h] = b
        BY <3>1, AncFacts
      <3>6. ForkInfoType(e) /\ ForkChain(e)
        BY <3>1, EmptyForkType, EmptyForkChain
      <3>7. e.fork = h /\ e.peakHash = b
        BY DEF EmptyFork
      <3> HIDE DEF e
      <3>8. OnMain(e)
        BY <2>2, <3>4, <3>5, <3>7 DEF OnMain
      <3>9. ForkInfoOK(e)
        BY <3>6, <3>8, ForkInfoParts
      <3>10. ForkInfoOK(forkInfo)'
        BY <2>0, <2>2, <3>9, ForkInfoSame DEF ForkInfoOK, e
      <3> QED
        BY <1>0, <2>0, <2>2, <3>10
    <2>3. CASE /\ AdvanceOK(forkInfo, b)
               /\ forkInfo' = IncludeSpends(AdvanceForkInfo(forkInfo, b), b)
               /\ UNCHANGED <<pc, block, syncing, result>>
      <3> DEFINE ad == AdvanceForkInfo(forkInfo, b)
                 n == IncludeSpends(ad, b)
      <3>1. ~ IsGenesis(b) => ChainValid(Parent[b])
        <4>1. HeightOf[b] \in Nat
          BY FieldAssumption, HashAssumption DEF Heights
        <4>2. ~ IsGenesis(b) =>
                 /\ HeightOf[b] - 1 \in 0 .. HeightOf[b]
                 /\ Anc[b][HeightOf[b] - 1] = Parent[b]
          <5>1. ~ IsGenesis(b) => /\ HeightOf[b] - 1 \in 0 .. (HeightOf[b] - 1)
                                  /\ HeightOf[b] - 1 \in 0 .. HeightOf[b]
            BY <4>1 DEF IsGenesis
          <5> QED
            BY <5>1, ParentFacts, AncFacts
        <4> QED
          BY <2>1, <4>2, ChainValidBelow
      <3>2. ForkBelow(ad, b)
        BY <2>0, <2>3, <3>1, IdleFacts, AdvanceFork
      <3>3. ForkInfoOK(n)
        BY <2>1, <3>2, IncludeBelow
      <3>4. ForkInfoOK(forkInfo)'
        <4> HIDE DEF n
        <4> QED
          BY <2>0, <2>3, <3>3, ForkInfoSame DEF ForkInfoOK, n
      <3> QED
        BY <1>0, <2>0, <2>3, <3>4
    <2>4. CASE EndCall("raised", b, forkInfo)
      <3>1. pc' = "idle" /\ ForkInfoOK(forkInfo)' /\ ResultInv'
        BY <2>4, EndCallInv DEF Inv, Exceptions
      <3> QED
        BY <2>0, <3>1, IdleFacts, IdleInv
    <2> QED
      BY <1>2, <2>2, <2>3, <2>4 DEF SyncSkip
  <1>3. ASSUME SyncEnd
        PROVE  LedgerInv'
    <2>1. pc = "idle" /\ pc' = pc /\ result' = result /\ UNCHANGED <<dbVars, memVars>>
          /\ forkInfo' = NoForkInfo
      BY <1>3 DEF SyncEnd
    <2>2. NoForkOK'
      BY NoForkInfoOK DEF Inv
    <2>3. ForkInfoOK(forkInfo)'
      BY <2>1, <2>2 DEF ForkInfoOK, NoForkOK, NoForkInfo, EmptyFork
    <2> QED
      BY <1>0, <2>1, <2>3
  <1> QED
    BY <1>1, <1>2, <1>3

LEMMA RecordCacheInv ==
    ASSUME Inv
    PROVE  /\ \A f \in Heights : Warmup(f) => LedgerInv'
           /\ \A h \in Int : CleanBlockRecord(h) => LedgerInv'
  <1>0. ASSUME pc = "idle", records' \subseteq db.blocks, Peak \in records => Peak \in records',
               UNCHANGED <<dbVars, blockCache, heightToHash, peakHeight, callVars>>
        PROVE  LedgerInv'
    <2>1. /\ ResultInv' /\ pc' = "idle" /\ blockCache' = {}
          /\ UNCHANGED <<db, heightToHash, peakHeight>>
      BY <1>0, IdleFacts DEF ResultInv, Inv, LedgerInv, callVars, dbVars
    <2>2. ForkInfoOK(forkInfo)'
      BY <1>0 DEF ForkInfoOK, Inv, LedgerInv, callVars
    <2> QED
      BY <1>0, <2>1, <2>2, IdleInv
  <1>1. ASSUME NEW f \in Heights, Warmup(f)
        PROVE  LedgerInv'
    <2>1. records' \subseteq db.blocks /\ (Peak \in records => Peak \in records')
      BY <1>1, IdleFacts DEF Warmup, AddBlockRecords
    <2> QED
      BY <1>0, <1>1, <2>1 DEF Warmup
  <1>2. ASSUME NEW h \in Int, CleanBlockRecord(h)
        PROVE  LedgerInv'
    <2>1. pc = "idle" /\ records' = {b \in records : HeightOf[b] \notin CleanedHeights(h)}
      BY <1>2 DEF CleanBlockRecord
    <2>2. Peak \in records => Peak \in records'
      <3> SUFFICES ASSUME Peak \in records
                   PROVE  HeightOf[Peak] \notin CleanedHeights(h)
        BY <2>1
      <3>1. Peak # NoBlock
        BY HashAssumption DEF Inv, TypeInv, TypeOK
      <3>2. peakHeight # -1 /\ peakHeight \in Int /\ HeightOf[Peak] = peakHeight
        BY <3>1 DEF Peak, Inv, LedgerInv, MapInv, TypeInv, TypeOK
      <3> QED
        BY <3>2, CacheAssumption DEF CleanedHeights
    <2>3. records' \subseteq db.blocks
      BY <2>1, IdleFacts
    <2> QED
      BY <1>0, <1>2, <2>1, <2>2, <2>3 DEF CleanBlockRecord
  <1> QED
    BY <1>1, <1>2

(* The block being written extends a stored chain.                         *)
LEMMA WriteFacts ==
    ASSUME Inv, pc = "write"
    PROVE  LET d == AddFullBlock(db, block)
           IN /\ block \in Blocks /\ d \in DBState
              /\ d.blocks = db.blocks \cup {block}
              /\ d.peak = db.peak /\ d.main = db.main
              /\ \A k \in 0 .. HeightOf[block] : Anc[block][k] \in d.blocks
              /\ CoinsReplay(d) /\ MainIsPath(d)
              /\ Peak = NoBlock => db.blocks = {}
              /\ Peak # NoBlock => Peak \in db.blocks /\ Peak \in Blocks
              /\ Reorg(d, block, forkInfo)
  <1> DEFINE d == AddFullBlock(db, block)
  <1>1. block \in Blocks /\ db \in DBState
    BY DEF Inv, TypeInv, TypeOK
  <1>2. /\ d \in DBState /\ d.blocks = db.blocks \cup {block}
        /\ d.peak = db.peak /\ d.main = db.main /\ d.conf = db.conf /\ d.spent = db.spent
    BY <1>1 DEF AddFullBlock, DBState
  <1> HIDE DEF d
  <1>3. /\ db.peak = Peak /\ ChainValid(block)
        /\ ~ IsGenesis(block) => Parent[block] \in db.blocks
        /\ ExtendingMainChain(block) => forkInfo.fork = HeightOf[block] - 1
        /\ forkInfo.peakHash = block /\ forkInfo.peakH = HeightOf[block]
    BY DEF Inv, LedgerInv, CallInv
  <1>4. HeightOf[block] \in Nat
    BY <1>1, FieldAssumption, HashAssumption DEF Heights
  <1>5. ASSUME NEW k \in 0 .. HeightOf[block]
        PROVE  Anc[block][k] \in d.blocks
    <2>1. CASE k = HeightOf[block]
      BY <1>1, <1>2, <2>1, AncFacts
    <2>2. CASE k # HeightOf[block]
      <3>1. ~ IsGenesis(block) /\ k \in 0 .. (HeightOf[block] - 1)
        BY <1>4, <2>2 DEF IsGenesis
      <3>2. /\ Parent[block] \in db.blocks /\ HeightOf[Parent[block]] = HeightOf[block] - 1
            /\ Anc[Parent[block]][k] = Anc[block][k]
        BY <1>1, <1>3, <3>1, ParentFacts
      <3>3. Anc[Parent[block]][k] \in db.blocks
        BY <3>1, <3>2 DEF Inv, LedgerInv, DBInv
      <3> QED
        BY <1>2, <3>2, <3>3
    <2> QED
      BY <2>1, <2>2
  <1>6. CoinsReplay(d) /\ MainIsPath(d)
    BY <1>2 DEF Inv, LedgerInv, DBInv, CoinsReplay, MainIsPath
  <1>7. /\ Peak = NoBlock => db.blocks = {}
        /\ Peak # NoBlock => Peak \in db.blocks /\ Peak \in Blocks /\ ChainValid(Peak)
    BY <1>1, <1>3 DEF Inv, LedgerInv, DBInv, DBState
  <1>8. ForkInfoType(forkInfo) /\ ForkChain(forkInfo) /\ OnMain(forkInfo)
    BY ForkInfoParts DEF Inv, LedgerInv, TypeInv
  <1>9. Reorg(d, block, forkInfo)
    BY <1>1, <1>2, <1>3, <1>6, <1>7, <1>8 DEF Reorg, Inv, LedgerInv
  <1> QED
    BY <1>1, <1>2, <1>5, <1>6, <1>7, <1>9 DEF d

(* Whatever was validated can be applied.                                  *)
LEMMA WriteSucceeds ==
    ASSUME Inv, pc = "write"
    PROVE  ReconsiderPeakOK(AddFullBlock(db, block), block, forkInfo)
  <1> DEFINE d == AddFullBlock(db, block)
  <1>1. /\ Reorg(d, block, forkInfo) /\ MainIsPath(d) /\ d \in DBState
        /\ \A k \in 0 .. HeightOf[block] : Anc[block][k] \in d.blocks
    BY WriteFacts
  <1> HIDE DEF d
  <1>2. ForkBlocks(forkInfo) = {Anc[block][k] : k \in (forkInfo.fork + 1) .. HeightOf[block]}
    BY <1>1, ReorgMain
  <1>3. \A k \in (forkInfo.fork + 1) .. HeightOf[block] : k \in 0 .. HeightOf[block]
    <2>1. forkInfo.fork \in Int /\ -1 <= forkInfo.fork
      BY <1>1, ForkInts DEF Reorg
    <2>2. HeightOf[block] \in Nat
      BY <1>1, FieldAssumption, HashAssumption DEF Reorg, Heights
    <2> QED
      BY <2>1, <2>2
  <1>4. NewBlocksOK(ForkBase(d, block, forkInfo), forkInfo)
    BY <1>1, NewBlocksSucceed
  <1> QED
    BY <1>1, <1>2, <1>3, <1>4 DEF ReconsiderPeakOK, d

LEMMA WriteTxnInv ==
    ASSUME Inv, WriteTxn
    PROVE  LedgerInv'
  <1> DEFINE d == AddFullBlock(db, block)
             base == ForkBase(d, block, forkInfo)
             r == SetPeak(NewBlocks(base, forkInfo), block, forkInfo)
  <1>0. pc = "write"
    BY DEF WriteTxn
  <1>1. /\ block \in Blocks /\ d \in DBState
        /\ d.blocks = db.blocks \cup {block}
        /\ d.peak = db.peak /\ d.main = db.main
        /\ \A k \in 0 .. HeightOf[block] : Anc[block][k] \in d.blocks
        /\ CoinsReplay(d) /\ MainIsPath(d)
        /\ Peak = NoBlock => db.blocks = {}
        /\ Peak # NoBlock => Peak \in db.blocks /\ Peak \in Blocks
        /\ Reorg(d, block, forkInfo)
    BY <1>0, WriteFacts
  <1>2. /\ txn' = ReconsiderPeak(d, block, forkInfo)
        /\ records' = records \cup {block} /\ pc' = "commit"
        /\ UNCHANGED <<db, blockCache, heightToHash, peakHeight, block, forkInfo, syncing, result>>
    BY <1>0, WriteSucceeds DEF WriteTxn, AddBlockRecords
  <1>3. /\ ReconsiderPeak(d, block, forkInfo) = IF NotHeavier(block) THEN d ELSE r
    BY DEF ReconsiderPeak
  <1>4. /\ base \in DBState /\ base.blocks = d.blocks /\ base.main = d.main
    <2> HIDE DEF d
    <2>1. base \in DBState
      BY <1>1, ReconsiderPeakType DEF Reorg, ForkBase
    <2> QED
      BY <1>1, <2>1 DEF ForkBase, RollbackCoins, DBState
  <1>5. /\ r \in DBState /\ r.blocks = d.blocks /\ r.peak = block
        /\ CoinsReplay(r) /\ MainIsPath(r)
    <2> DEFINE n == NewBlocks(base, forkInfo)
    <2> HIDE DEF d, base
    <2>1. n \in DBState /\ n.blocks = d.blocks /\ n.main = d.main
      <3>1. n \in DBState
        BY <1>1, <1>4, ReconsiderPeakType DEF Reorg
      <3> QED
        BY <1>4, <3>1 DEF NewBlocks, DBState
    <2>2. CoinsReplay(r)
      BY <1>1, ReorgReplays DEF base
    <2> HIDE DEF n
    <2>3. r \in DBState /\ r.blocks = d.blocks /\ r.peak = block
      <3>1. SetPeak(n, block, forkInfo) \in DBState
        BY <1>1, <2>1, ReconsiderPeakType DEF Reorg
      <3> QED
        BY <2>1, <3>1 DEF SetPeak, DBState, n
    <2>4. MainIsPath(r)
      BY <1>1, <2>1, ReorgMain DEF n
    <2> QED
      BY <2>2, <2>3, <2>4
  <1> HIDE DEF d, base, r
  <1>6. db.peak = Peak /\ ChainValid(block) /\ block \notin db.blocks /\ DBInv(db)
    BY <1>0 DEF Inv, LedgerInv, CallInv
  <1>7. \A b \in Blocks : Weight[b] \in Nat
    BY FieldAssumption
  <1>8. /\ \A b \in d.blocks : ChainValid(b)
        /\ \A b \in d.blocks : \A k \in 0 .. HeightOf[b] : Anc[b][k] \in d.blocks
    BY <1>1, <1>6 DEF DBInv
  <1>9. /\ DBInv(txn') /\ txn'.blocks = db.blocks \cup {block}
        /\ txn'.peak # db.peak => /\ txn'.peak = block
                                  /\ db.peak # NoBlock => Weight[block] > Weight[db.peak]
    <2>1. CASE NotHeavier(block)
      <3>1. txn' = d
        BY <1>2, <1>3, <2>1
      <3>2. Peak # NoBlock /\ Weight[block] <= Weight[Peak]
        BY <1>1, <2>1, GenesisAssumption DEF NotHeavier, IsGenesis, Genesis
      <3>3. \A b \in d.blocks : Weight[b] <= Weight[d.peak]
        BY <1>1, <1>6, <3>2 DEF DBInv
      <3> QED
        BY <1>1, <1>6, <1>8, <3>1, <3>2, <3>3 DEF DBInv
    <2>2. CASE ~ NotHeavier(block)
      <3>1. txn' = r
        BY <1>2, <1>3, <2>2
      <3>2. Peak # NoBlock => Weight[block] > Weight[Peak]
        BY <1>1, <1>7, <2>2 DEF NotHeavier
      <3>3. \A b \in d.blocks : Weight[b] <= Weight[block]
        <4> SUFFICES ASSUME NEW b \in d.blocks PROVE Weight[b] <= Weight[block]
          OBVIOUS
        <4>0. b \in Blocks
          BY <1>1 DEF DBState
        <4>1. CASE b = block
          BY <1>7, <4>0, <4>1
        <4>2. CASE b # block
          <5>1. b \in db.blocks /\ Peak # NoBlock
            BY <1>1, <4>2
          <5>2. Weight[b] <= Weight[Peak]
            BY <1>6, <5>1 DEF DBInv
          <5> QED
            BY <1>1, <1>7, <3>2, <4>0, <5>1, <5>2
        <4> QED
          BY <4>1, <4>2
      <3>4. block # NoBlock /\ block \in d.blocks
        BY <1>1, HashAssumption
      <3> QED
        BY <1>1, <1>5, <1>6, <1>8, <3>1, <3>2, <3>3, <3>4 DEF DBInv
    <2> QED
      BY <2>1, <2>2
  <1>10. MapInv' /\ Peak' = Peak
    BY <1>2, SameChain DEF Inv, LedgerInv
  <1>11. CacheInv'
    BY <1>0, <1>2 DEF Inv, LedgerInv, CacheInv
  <1>12. ForkInfoOK(forkInfo)' /\ ResultInv' /\ DBInv(db)'
    BY <1>2, <1>6 DEF Inv, LedgerInv, ForkInfoOK, ResultInv, DBInv, CoinsReplay, MainIsPath
  <1>13. DBInv(txn)'
    BY <1>9 DEF DBInv, CoinsReplay, MainIsPath
  <1>14. CallInv'
    BY <1>0, <1>2, <1>6, <1>9, <1>10, <1>13 DEF Inv, LedgerInv, CallInv
  <1> QED
    BY <1>10, <1>11, <1>12, <1>14 DEF LedgerInv

LEMMA CommitInv ==
    ASSUME Inv, Commit
    PROVE  LedgerInv'
  <1>1. /\ pc = "commit" /\ pc' = "committed" /\ db' = txn
        /\ blockCache' = blockCache \ txn.blocks
        /\ UNCHANGED <<txn, records, heightToHash, peakHeight, block, forkInfo, result>>
    BY DEF Commit
  <1>2. /\ DBInv(txn) /\ block \in records /\ db.peak = Peak
        /\ txn.blocks = db.blocks \cup {block}
        /\ txn.peak # db.peak => txn.peak = block
        /\ forkInfo.peakHash = block /\ forkInfo.peakH = HeightOf[block]
    BY <1>1 DEF Inv, LedgerInv, CallInv
  <1>3. Peak' = Peak
    BY <1>1 DEF Peak
  <1>4. MapInv'
    BY <1>1, <1>2, <1>3 DEF Inv, LedgerInv, MapInv
  <1>5. CacheInv'
    BY <1>1, <1>2 DEF Inv, LedgerInv, CacheInv
  <1>6. ForkInfoOK(forkInfo)' /\ ResultInv'
    BY <1>1 DEF Inv, LedgerInv, ForkInfoOK, ResultInv
  <1>7. DBInv(db)'
    BY <1>1, <1>2 DEF DBInv, CoinsReplay, MainIsPath
  <1>8. CallInv'
    BY <1>1, <1>2, <1>3 DEF CallInv
  <1> QED
    BY <1>4, <1>5, <1>6, <1>7, <1>8 DEF LedgerInv

(* After the commit the height map reaches up to the fork: update_height   *)
(* does not fail.                                                          *)
LEMMA MapFollows ==
    ASSUME Inv, pc = "committed"
    PROVE  /\ MapReaches(forkInfo)
           /\ forkInfo.fork >= 0 =>
                 /\ forkInfo.fork \in 0 .. HeightOf[block] /\ forkInfo.fork <= peakHeight
                 /\ Anc[block][forkInfo.fork] = heightToHash[forkInfo.fork]
                 /\ heightToHash[forkInfo.fork] # NoBlock
  <1>1. /\ ForkInfoType(forkInfo) /\ ForkChain(forkInfo) /\ OnMain(forkInfo)
        /\ forkInfo.peakHash = block /\ forkInfo.peakH = HeightOf[block]
        /\ block \in Blocks /\ TypeInv
    BY ForkInfoParts DEF Inv, LedgerInv, CallInv, TypeInv
  <1>2. /\ forkInfo.fork \in Int /\ forkInfo.fork <= HeightOf[block]
        /\ HeightOf[block] \in Nat
    BY <1>1, ForkInts, FieldAssumption, HashAssumption DEF Heights
  <1>3. forkInfo.fork >= 0 => forkInfo.fork \in 0 .. HeightOf[block]
    BY <1>2
  <1>4. forkInfo.fork >= 0 => /\ forkInfo.fork <= peakHeight
                             /\ Anc[block][forkInfo.fork] = heightToHash[forkInfo.fork]
                             /\ heightToHash[forkInfo.fork] # NoBlock
    BY <1>1, <1>3, AncFacts, HashAssumption DEF OnMain
  <1> QED
    BY <1>3, <1>4 DEF MapReaches

LEMMA UpdateMemoryInv ==
    ASSUME Inv, UpdateMemory
    PROVE  LedgerInv'
  <1>1. /\ pc = "committed" /\ UNCHANGED <<db, records, blockCache>>
        /\ TypeInv /\ block \in Blocks
    BY DEF UpdateMemory, dbVars, Inv, TypeInv
  <1>2. /\ block \in db.blocks /\ block \in records
        /\ db.peak # block => db.peak = Peak
        /\ forkInfo.peakHash = block /\ forkInfo.peakH = HeightOf[block]
    BY <1>1 DEF Inv, LedgerInv, CallInv
  <1>3. records \subseteq db.blocks /\ blockCache = {}
    BY <1>1 DEF Inv, LedgerInv, CacheInv
  <1>4. ForkInfoType(forkInfo) /\ ForkChain(forkInfo) /\ OnMain(forkInfo) /\ ForkInfoOK(forkInfo)
    BY ForkInfoParts DEF Inv, LedgerInv, TypeInv
  <1> DEFINE f == forkInfo.fork
             H == HeightOf[block]
  <1>5. /\ f \in Int /\ -1 <= f /\ f <= H /\ H \in Nat /\ H \in Heights
        /\ peakHeight \in Int /\ MaxHeight \in Nat
    BY <1>1, <1>2, <1>4, ForkInts, FieldAssumption, HashAssumption DEF Heights, TypeInv, TypeOK
  <1>6. f >= 0 => /\ f \in 0 .. H /\ f <= peakHeight
                  /\ Anc[block][f] = heightToHash[f] /\ heightToHash[f] # NoBlock
    BY <1>1, MapFollows
  <1>7. MapReaches(forkInfo)
    BY <1>1, MapFollows
  <1>8. CASE ~ NewPeak
    <2>1. EndCall("ADDED_AS_ORPHAN", block, forkInfo) /\ UNCHANGED <<heightToHash, peakHeight>>
      BY <1>8 DEF UpdateMemory
    <2>3. pc' = "idle" /\ ForkInfoOK(forkInfo)' /\ ResultInv'
      <3>1. \A fi : ForkInfoOK(fi) => ForkInfoOK(fi)'
        BY <2>1, ForkInfoSame
      <3> QED
        BY <1>1, <1>4, <2>1, <3>1, EndCallInv
    <2>4. MapInv' /\ Peak' = Peak
      BY <1>1, <2>1, SameChain DEF Inv, LedgerInv
    <2>5. DBInv(db)' /\ CacheInv'
      BY <1>1, <1>3 DEF Inv, LedgerInv, DBInv, CoinsReplay, MainIsPath, CacheInv
    <2>6. CallInv'
      BY <1>1, <1>2, <1>8, <2>3, <2>4 DEF CallInv, NewPeak
    <2> QED
      BY <2>3, <2>4, <2>5, <2>6 DEF LedgerInv
  <1>9. CASE NewPeak
    <2> DEFINE e == EmptyFork(H, block)
    <2>1. /\ heightToHash' = MapAfter(forkInfo) /\ peakHeight' = H
          /\ EndCall("NEW_PEAK", block, e)
      BY <1>7, <1>9 DEF UpdateMemory
    <2>2. ASSUME NEW h \in Heights
          PROVE  MapAfter(forkInfo)[h] = Anc[block][h]
      <3>0. h \in Nat
        BY HashAssumption DEF Heights
      <3>1. CASE h > f /\ h <= H
        <4>1. h \in (f + 1) .. H
          BY <1>5, <3>0, <3>1
        <4>2. forkInfo.hashes[h - f] = Anc[block][h]
          BY <1>2, <1>4, <4>1 DEF ForkChain
        <4> QED
          BY <1>2, <3>1, <4>2 DEF MapAfter
      <3>2. CASE h <= f
        <4>1. h \in 0 .. f /\ f >= 0 /\ ~ (h > f)
          BY <1>5, <3>0, <3>2
        <4>2. \A k \in 0 .. f : Anc[block][k] = Anc[Peak][k]
          <5> HIDE DEF f
          <5> QED
            BY <1>1, <1>6, <4>1, SharedBelow DEF Inv, LedgerInv
        <4>3. heightToHash = Anc[Peak]
          <5>1. peakHeight # -1
            BY <1>5, <1>6, <4>1
          <5> QED
            BY <5>1 DEF Inv, LedgerInv, MapInv
        <4>4. MapAfter(forkInfo)[h] = heightToHash[h]
          BY <1>5, <3>0, <4>1 DEF MapAfter
        <4> QED
          BY <4>1, <4>2, <4>3, <4>4
      <3>3. CASE h > H
        <4>1. Anc[block][h] = NoBlock
          BY <1>1, <3>3, AncAssumption
        <4>2. ~ (h <= H) /\ h > f /\ h > 0
          BY <1>5, <3>0, <3>3
        <4>3. MapAfter(forkInfo)[h] = NoBlock
          BY <1>2, <1>5, <3>0, <4>2 DEF MapAfter
        <4> QED
          BY <4>1, <4>3
      <3> QED
        BY <1>5, <3>0, <3>1, <3>2, <3>3
    <2>3. heightToHash' = Anc[block]
      <3>1. Anc[block] \in [Heights -> Blocks \cup {NoBlock}]
        BY <1>1, AncAssumption
      <3>2. MapAfter(forkInfo) = [h \in Heights |-> MapAfter(forkInfo)[h]]
        BY DEF MapAfter
      <3> QED
        BY <2>1, <2>2, <3>1, <3>2
    <2>4. Anc[block][H] = block /\ H # -1
      BY <1>1, <1>5, AncFacts
    <2>5. Peak' = block
      BY <2>1, <2>3, <2>4 DEF Peak
    <2>6. MapInv'
      BY <1>1, <1>2, <2>1, <2>3, <2>4, <2>5 DEF MapInv
    <2>7. PICK x : x = e /\ ForkInfoOK(x)'
      <3>1. ForkInfoType(e) /\ ForkChain(e)
        <4>1. H \in -1 .. MaxHeight
          BY <1>5 DEF Heights
        <4> QED
          BY <1>1, <4>1, EmptyForkType, EmptyForkChain
      <3>2. e.fork = H /\ e.peakHash = block
        BY DEF EmptyFork
      <3>3. e.fork >= 0 => /\ e.fork <= peakHeight'
                           /\ Anc[e.peakHash][e.fork] = heightToHash'[e.fork]
        <4> HIDE DEF e
        <4> QED
          BY <1>5, <2>1, <2>3, <3>2
      <3> HIDE DEF e
      <3> QED
        BY <3>1, <3>3 DEF ForkInfoOK, ForkChain, ForkInfoType
    <2>8. pc' = "idle" /\ ForkInfoOK(forkInfo)' /\ ResultInv'
      BY <1>1, <2>1, <2>7, EndCallInv
    <2>9. DBInv(db)' /\ CacheInv'
      BY <1>1, <1>3 DEF Inv, LedgerInv, DBInv, CoinsReplay, MainIsPath, CacheInv
    <2>10. CallInv'
      BY <1>1, <1>9, <2>5, <2>8 DEF CallInv, NewPeak
    <2> QED
      BY <2>6, <2>8, <2>9, <2>10 DEF LedgerInv
  <1> QED
    BY <1>8, <1>9

LEMMA RestartInv ==
    ASSUME Inv, Restart
    PROVE  LedgerInv'
  <1> DEFINE p == db.peak
             loaded == IF p = NoBlock THEN {}
                       ELSE {b \in db.blocks : HeightOf[b] >= HeightOf[p] - BlocksCacheSize}
  <1>1. /\ db' = db /\ records' = loaded /\ blockCache' = {} /\ pc' = "idle"
        /\ heightToHash' = IF p = NoBlock THEN [h \in Heights |-> NoBlock] ELSE Anc[p]
        /\ peakHeight' = IF p = NoBlock THEN -1 ELSE HeightOf[p]
        /\ forkInfo' = NoForkInfo /\ result'.res = "none"
    BY DEF Restart
  <1>2. DBInv(db) /\ p \in Blocks \cup {NoBlock} /\ TypeInv
    BY DEF Inv, LedgerInv, TypeInv, TypeOK, DBState
  <1>3. p # NoBlock => /\ p \in db.blocks /\ HeightOf[p] \in Nat /\ HeightOf[p] # -1
                       /\ Anc[p][HeightOf[p]] = p /\ p \in loaded
    <2>1. p # NoBlock => p \in db.blocks /\ p \in Blocks
      BY <1>2 DEF DBInv
    <2>2. p # NoBlock => HeightOf[p] \in Nat /\ HeightOf[p] \in 0 .. HeightOf[p]
      BY <2>1, FieldAssumption, HashAssumption DEF Heights
    <2> QED
      BY <2>1, <2>2, AncFacts, CacheAssumption
  <1>4. Peak' = p
    BY <1>1, <1>3 DEF Peak
  <1>5. MapInv'
    BY <1>1, <1>3, <1>4 DEF MapInv
  <1>6. CacheInv' /\ ResultInv'
    BY <1>1 DEF CacheInv, ResultInv
  <1>7. ForkInfoOK(forkInfo)'
    <2>1. NoForkOK'
      BY <1>2, NoForkInfoOK
    <2> QED
      BY <1>1, <2>1 DEF ForkInfoOK, NoForkOK, NoForkInfo, EmptyFork
  <1>8. DBInv(db)' /\ CallInv'
    BY <1>1, <1>2, <1>4 DEF DBInv, CoinsReplay, MainIsPath, CallInv
  <1> QED
    BY <1>5, <1>6, <1>7, <1>8 DEF LedgerInv

LEMMA LedgerInit ==
    ASSUME Init
    PROVE  Inv
  <1>1. TypeInv
    BY TypeInit
  <1>2. ForkInfoOK(forkInfo)
    BY <1>1, NoForkInfoOK DEF NoForkOK, Init
  <1>3. DBInv(db)
    BY DEF Init, EmptyDB, DBInv, CoinsReplay, MainIsPath
  <1>4. MapInv /\ CacheInv /\ CallInv /\ ResultInv
    BY DEF Init, EmptyDB, MapInv, CacheInv, CallInv, ResultInv, Peak
  <1> QED
    BY <1>1, <1>2, <1>3, <1>4 DEF Inv, LedgerInv

LEMMA LedgerStep ==
    ASSUME NoFault, Inv, [Next]_vars
    PROVE  Inv'
  <1>0. TypeInv'
    BY TypeStep DEF Inv
  <1>1. CASE UNCHANGED vars
    <2>1. Peak' = Peak
      BY <1>1 DEF vars, memVars, Peak
    <2>2. ForkInfoOK(forkInfo)' /\ ResultInv' /\ CacheInv' /\ MapInv'
      BY <1>1, <2>1 DEF vars, dbVars, memVars, callVars, Inv, LedgerInv,
                        ForkInfoOK, ResultInv, CacheInv, MapInv
    <2>3. DBInv(db)' /\ (DBInv(txn) => DBInv(txn)')
      BY <1>1 DEF vars, dbVars, Inv, LedgerInv, DBInv, CoinsReplay, MainIsPath
    <2>4. CallInv'
      BY <1>1, <2>1, <2>3 DEF vars, dbVars, memVars, callVars, Inv, LedgerInv, CallInv,
                              ExtendingMainChain
    <2> QED
      BY <1>0, <2>2, <2>3, <2>4 DEF Inv, LedgerInv
  <1>2. CASE ReleaseFails \/ ReleaseCancelled
    BY <1>2 DEF ReleaseFails, ReleaseCancelled, NoFault
  <1>3. CASE CleanBlockRecords
    <2>1. peakHeight - BlocksCacheSize \in Int
      BY CacheAssumption DEF Inv, TypeInv, TypeOK
    <2> QED
      BY <1>0, <1>3, <2>1, RecordCacheInv DEF CleanBlockRecords, Inv
  <1>4. CASE \E h \in Heights : CleanBlockRecord(h)
    BY <1>0, <1>4, RecordCacheInv, HashAssumption DEF Inv, Heights
  <1> QED
    BY <1>0, <1>1, <1>2, <1>3, <1>4, AddBlockInv, AddBlockSyncingInv, PreValidationInv,
       WriteTxnInv, TxnAbortsInv, CommitInv, UpdateMemoryInv, SyncInv, RecordCacheInv,
       RestartInv DEF Next, Inv

------------------------------------------------------------------------------
(* Theorems                                                                *)

LEMMA InvImplies ==
    ASSUME Inv
    PROVE  /\ LedgerMatchesPeak /\ StoredChainsValid /\ StoredConnected
           /\ RejectedIsInvalid /\ PeakIsHeaviest /\ PeakAvailable /\ CachesBacked
           /\ CarriedForkInfoOK
  <1>1. LedgerMatchesPeak /\ StoredChainsValid /\ PeakIsHeaviest
    BY DEF Inv, LedgerInv, DBInv, LedgerMatchesPeak, StoredChainsValid, PeakIsHeaviest, Path
  <1>2. StoredConnected
    <2> SUFFICES ASSUME NEW b \in db.blocks, ~ IsGenesis(b)
                 PROVE  Parent[b] \in db.blocks
      BY DEF StoredConnected
    <2>1. b \in Blocks
      BY DEF Inv, TypeInv, TypeOK, DBState
    <2>2. HeightOf[b] \in Nat
      BY <2>1, FieldAssumption, HashAssumption DEF Heights
    <2>3. /\ Parent[b] \in Blocks /\ HeightOf[Parent[b]] = HeightOf[b] - 1
          /\ HeightOf[b] - 1 \in 0 .. (HeightOf[b] - 1)
          /\ HeightOf[b] - 1 \in 0 .. HeightOf[b]
          /\ \A k \in 0 .. (HeightOf[b] - 1) : Anc[Parent[b]][k] = Anc[b][k]
      BY <2>1, <2>2, ParentFacts
    <2>4. Anc[b][HeightOf[b] - 1] = Parent[b]
      BY <2>3, AncFacts
    <2> QED
      BY <2>3, <2>4 DEF Inv, LedgerInv, DBInv
  <1>3. RejectedIsInvalid /\ CarriedForkInfoOK
    BY DEF Inv, LedgerInv, ResultInv, RejectedIsInvalid, CarriedForkInfoOK
  <1>4. CachesBacked
    BY DEF Inv, LedgerInv, CacheInv, CachesBacked
  <1>5. PeakAvailable
    <2>1. peakHeight # -1 => Peak \in Blocks /\ Peak # NoBlock
      BY HashAssumption DEF Inv, LedgerInv, MapInv, TypeInv, TypeOK, DBState
    <2>2. peakHeight = -1 => Peak = NoBlock
      BY DEF Peak
    <2> QED
      BY <2>1, <2>2 DEF Inv, LedgerInv, MapInv, CallInv, PeakAvailable, PeakSurvives
  <1> QED
    BY <1>1, <1>2, <1>3, <1>4, <1>5

(* Every validated block can be applied and every fork can be read back:   *)
(* no assertion of add_block, new_block, _set_spent or update_height       *)
(* fails.                                                                  *)
LEMMA InvApplies ==
    ASSUME Inv
    PROVE  ValidatedApplies
  <1>1. pc = "write" => ReconsiderPeakOK(AddFullBlock(db, block), block, forkInfo)
    BY WriteSucceeds
  <1>2. ASSUME pc = "idle", NEW b \in Blocks, Connected(b), ~ ExtendingMainChain(b),
               NEW f \in -1 .. MaxHeight
        PROVE  StoredAbove(b, f)
    <2>1. ~ IsGenesis(b)
      BY <1>2 DEF ExtendingMainChain
    <2>2. /\ Parent[b] \in db.blocks /\ HeightOf[Parent[b]] = HeightOf[b] - 1
          /\ \A k \in 0 .. (HeightOf[b] - 1) : Anc[Parent[b]][k] = Anc[b][k]
          /\ HeightOf[b] \in Nat
      BY <1>2, <2>1, ConnectedFacts, ParentFacts, FieldAssumption, HashAssumption DEF Heights
    <2>3. \A k \in 0 .. (HeightOf[b] - 1) : Anc[b][k] \in db.blocks
      BY <2>2 DEF Inv, LedgerInv, DBInv
    <2>4. \A k \in (f + 1) .. (HeightOf[b] - 1) : k \in 0 .. (HeightOf[b] - 1)
      BY <2>2
    <2> QED
      BY <2>3, <2>4 DEF StoredAbove, FullBlocks
  <1>3. pc = "committed" => MapReaches(forkInfo)
    BY MapFollows
  <1> QED
    BY <1>1, <1>2, <1>3 DEF ValidatedApplies

(* Only a RELEASE changes the committed database.                          *)
LEMMA OnlyRelease ==
    ASSUME [Next]_vars, ~ Commit, ~ ReleaseCancelled
    PROVE  db' = db
  <1>1. ASSUME NEW b \in Blocks, AddBlock(b) \/ AddBlockSyncing(b)
        PROVE  db' = db
    BY <1>1 DEF AddBlock, AddBlockDisconnected, AddBlockAlreadyHave, AddBlockExtending,
                AddBlockOnFork, AddBlockSyncing, ValidateWith, Validated, Return, dbVars
  <1>2. CASE WriteTxn
    BY <1>2 DEF WriteTxn, dbVars
  <1> QED
    BY <1>1, <1>2
    DEF Next, PreValidationFails, TxnAborts, ReleaseFails, UpdateMemory, SyncBegin,
        SyncSkip, SyncEnd, Warmup, CleanBlockRecord, CleanBlockRecords, Restart, vars, dbVars

LEMMA OthersStutter ==
    ASSUME NoFault, [Next]_vars, ~ Commit
    PROVE  db' = db
  <1>1. ~ ReleaseCancelled
    BY DEF ReleaseCancelled, NoFault
  <1> QED
    BY <1>1, OnlyRelease

LEMMA InvAdvances ==
    ASSUME NoFault, Inv, [Next]_vars
    PROVE  /\ db.blocks \subseteq db'.blocks
           /\ db.peak # NoBlock /\ db'.peak # db.peak =>
                 db'.peak # NoBlock /\ Weight[db'.peak] > Weight[db.peak]
  <1>1. CASE Commit
    <2>1. /\ txn.blocks = db.blocks \cup {block} /\ db' = txn /\ block \in Blocks
          /\ txn.peak # db.peak => /\ txn.peak = block
                                   /\ db.peak # NoBlock => Weight[block] > Weight[db.peak]
      BY <1>1 DEF Commit, Inv, TypeInv, LedgerInv, CallInv
    <2> QED
      BY <2>1, HashAssumption
  <1>2. CASE ~ Commit
    BY <1>2, OthersStutter
  <1> QED
    BY <1>1, <1>2

(* The inductive invariant holds in every reachable state.                 *)
THEOREM Invariance ==
    ASSUME NoFault PROVE Spec => []Inv
  <1>1. Init => Inv
    BY LedgerInit
  <1>2. Inv /\ [Next]_vars => Inv'
    BY LedgerStep
  <1> QED
    BY <1>1, <1>2, PTL DEF Spec

(* The committed coin table is at all times the replay of the committed    *)
(* peak's chain, and in_main_chain marks that chain, through any sequence  *)
(* of reorgs, aborts and crashes.                                          *)
THEOREM LedgerCorrect ==
    ASSUME NoFault PROVE Spec => []LedgerMatchesPeak
  BY Invariance, InvImplies, PTL

(* Only valid chains are stored: what passes the removal check against the *)
(* coin store and the ForkInfo satisfies the reference rule.               *)
THEOREM ValidationSound ==
    ASSUME NoFault PROVE Spec => []StoredChainsValid
  BY Invariance, InvImplies, PTL

(* Only invalid blocks are rejected: the same check refuses no block that  *)
(* satisfies the reference rule, whichever fork it extends.                *)
THEOREM ValidationComplete ==
    ASSUME NoFault PROVE Spec => []RejectedIsInvalid
  BY Invariance, InvImplies, PTL

(* A block that passed validation is applied without a failing assertion.  *)
THEOREM ApplyNeverFails ==
    ASSUME NoFault PROVE Spec => []ValidatedApplies
  BY Invariance, InvApplies, PTL

(* The committed peak is the heaviest committed block.                     *)
THEOREM PeakCorrect ==
    ASSUME NoFault PROVE Spec => []PeakIsHeaviest
  BY Invariance, InvImplies, PTL

(* At every suspension point get_peak() names a committed block whose      *)
(* record is cached and whose chain is the height map.                     *)
THEOREM PeakAlwaysAvailable ==
    ASSUME NoFault PROVE Spec => []PeakAvailable
  BY Invariance, InvImplies, PTL

(* The caches hold no block that is neither stored nor being written.      *)
THEOREM CachesHoldStored ==
    ASSUME NoFault PROVE Spec => []CachesBacked
  BY Invariance, InvImplies, PTL

(* A ForkInfo carried from block to block describes its fork.              *)
THEOREM ForkInfoCorrect ==
    ASSUME NoFault PROVE Spec => []CarriedForkInfoOK
  BY Invariance, InvImplies, PTL

(* Stored blocks are never lost and the peak only moves to heavier blocks. *)
THEOREM PeakOnlyAdvances ==
    ASSUME NoFault PROVE Spec => PeakAdvances
  <1>1. Inv /\ [Next]_vars =>
          [ /\ db.blocks \subseteq db'.blocks
            /\ db.peak # NoBlock /\ db'.peak # db.peak =>
                  /\ db'.peak # NoBlock
                  /\ Weight[db'.peak] > Weight[db.peak] ]_vars
    BY InvAdvances
  <1> QED
    BY <1>1, Invariance, PTL DEF Spec, PeakAdvances

------------------------------------------------------------------------------
(* Refinement                                                              *)

(* The reference definitions are the same in both modules.                 *)
LEMMA SameReference ==
    ASSUME NEW b, NEW h, NEW c
    PROVE  /\ Ledger!CreatedBelow(b, h, c) <=> CreatedBelow(b, h, c)
           /\ Ledger!SpentBelow(b, h, c) <=> SpentBelow(b, h, c)
           /\ Ledger!ChainValid(b) <=> ChainValid(b)
  <1>1. /\ \A x, k, y : Ledger!CreatedBelow(x, k, y) <=> CreatedBelow(x, k, y)
        /\ \A x, k, y : Ledger!SpentBelow(x, k, y) <=> SpentBelow(x, k, y)
    BY DEF Ledger!CreatedBelow, CreatedBelow, Ledger!SpentBelow, SpentBelow
  <1>2. \A x : Ledger!BodyOK(x) <=> BodyOK(x)
    BY <1>1 DEF Ledger!BodyOK, BodyOK
  <1> QED
    BY <1>1, <1>2 DEF Ledger!ChainValid, ChainValid

(* The unspent rows of a replayed coin table.                              *)
LEMMA ReplayUnspent ==
    ASSUME NEW d \in DBState, CoinsReplay(d)
    PROVE  {c \in Coins : d.conf[c] # -1 /\ d.spent[c] = 0} = Ledger!UnspentAt(d.peak)
  <1>1. CASE d.peak = NoBlock
    BY <1>1 DEF CoinsReplay, Ledger!UnspentAt
  <1>2. CASE d.peak # NoBlock
    <2> DEFINE p == d.peak
               H == HeightOf[p]
    <2>1. p \in Blocks /\ H \in Nat /\ (H + 1) - 1 = H
      BY <1>2, FieldAssumption, HashAssumption DEF DBState, Heights
    <2>2. ASSUME NEW c \in Coins
          PROVE  /\ CreatedBelow(p, H + 1, c) <=> d.conf[c] # -1
                 /\ SpentBelow(p, H + 1, c) <=> d.spent[c] # 0
      <3>1. /\ \A h \in 0 .. H : c \in Adds[Anc[p][h]] <=> d.conf[c] = h
            /\ \A h \in 0 .. H : c \in Spends[Anc[p][h]] <=> h > 0 /\ d.spent[c] = h
            /\ d.conf[c] <= H /\ d.spent[c] <= H
        BY <1>2 DEF CoinsReplay
      <3>2. d.conf[c] \in -1 .. MaxHeight /\ d.spent[c] \in Nat /\ MaxHeight \in Nat
        BY HashAssumption DEF DBState, Heights
      <3>3. (d.conf[c] # -1 => d.conf[c] \in 0 .. H) /\ d.spent[c] \in 0 .. H
        BY <2>1, <3>1, <3>2
      <3>4. CreatedBelow(p, H + 1, c) <=> \E k \in 0 .. H : c \in Adds[Anc[p][k]]
        BY <2>1 DEF CreatedBelow
      <3>5. SpentBelow(p, H + 1, c) <=> \E k \in 0 .. H : c \in Spends[Anc[p][k]]
        BY <2>1 DEF SpentBelow
      <3> HIDE DEF p, H
      <3>6. (\E k \in 0 .. H : c \in Adds[Anc[p][k]]) <=> d.conf[c] # -1
        BY <2>1, <3>1, <3>3
      <3>7. (\E k \in 0 .. H : c \in Spends[Anc[p][k]]) <=> d.spent[c] # 0
        BY <2>1, <3>1, <3>2, <3>3
      <3> QED
        BY <3>4, <3>5, <3>6, <3>7
    <2> QED
      BY <1>2, <2>2, SameReference DEF Ledger!UnspentAt
  <1> QED
    BY <1>1, <1>2

LEMMA CommitAccepts ==
    ASSUME NoFault, Inv, Commit
    PROVE  Ledger!Accept(block)
  <1>1. /\ db' = txn /\ DBInv(txn) /\ block \notin db.blocks /\ block \in Blocks
        /\ txn.blocks = db.blocks \cup {block} /\ txn \in DBState
        /\ txn.peak # db.peak =>
              txn.peak = block /\ (db.peak # NoBlock => Weight[block] > Weight[db.peak])
    BY DEF Commit, Inv, LedgerInv, CallInv, TypeInv, TypeOK
  <1>2. ChainValid(block)
    BY <1>1 DEF DBInv
  <1>3. HeightOf[block] = 0 \/ Parent[block] \in db.blocks
    <2> SUFFICES ASSUME ~ IsGenesis(block)
                 PROVE  Parent[block] \in db.blocks
      BY DEF IsGenesis
    <2> DEFINE h == HeightOf[block] - 1
    <2>1. /\ Parent[block] \in Blocks /\ HeightOf[Parent[block]] = h
          /\ \A k \in 0 .. h : Anc[Parent[block]][k] = Anc[block][k]
          /\ h \in 0 .. h /\ h \in 0 .. HeightOf[block] /\ h # HeightOf[block]
      BY <1>1, ParentFacts, FieldAssumption, HashAssumption DEF Heights
    <2>2. Anc[block][h] = Parent[block]
      BY <2>1, AncFacts
    <2>3. Anc[block][h] \in txn.blocks
      BY <1>1, <2>1 DEF DBInv
    <2> QED
      BY <1>1, <2>1, <2>2, <2>3
  <1>4. txn.peak = IF db.peak = NoBlock \/ Weight[block] > Weight[db.peak]
                   THEN block ELSE db.peak
    <2>1. CASE txn.peak # db.peak
      BY <1>1, <2>1
    <2>2. CASE txn.peak = db.peak
      <3>1. txn.peak # NoBlock /\ Weight[block] <= Weight[txn.peak] /\ txn.peak \in Blocks
        BY <1>1 DEF DBInv, DBState
      <3>2. Weight[block] \in Nat /\ Weight[txn.peak] \in Nat
        BY <1>1, <3>1, FieldAssumption
      <3>3. ~ (Weight[block] > Weight[db.peak])
        BY <2>2, <3>1, <3>2
      <3> QED
        BY <2>2, <3>1, <3>3
    <2> QED
      BY <2>1, <2>2
  <1>5. Unspent' = Ledger!UnspentAt(txn.peak)
    BY <1>1, ReplayUnspent DEF DBInv, Unspent
  <1> QED
    BY <1>1, <1>2, <1>3, <1>4, <1>5, SameReference DEF Ledger!Accept

(* Blockchain implements ChainLedger: to an observer of the committed      *)
(* database each commit accepts one valid block, and nothing else happens. *)
THEOREM LedgerRefinement ==
    ASSUME NoFault PROVE Spec => ImplementsLedger
  <1>1. Init => Ledger!LedgerInit
    BY DEF Init, EmptyDB, Unspent, Ledger!LedgerInit
  <1>2. Inv /\ [Next]_vars => [Ledger!LedgerNext]_(Ledger!ledgerVars)
    <2> SUFFICES ASSUME Inv, [Next]_vars
                 PROVE  [Ledger!LedgerNext]_(Ledger!ledgerVars)
      OBVIOUS
    <2>1. CASE Commit
      <3>1. block \in Blocks
        BY <2>1 DEF Commit, Inv, TypeInv
      <3> QED
        BY <2>1, <3>1, CommitAccepts DEF Ledger!LedgerNext
    <2>2. CASE ~ Commit
      BY <2>2, OthersStutter DEF Ledger!ledgerVars, Unspent
    <2> QED
      BY <2>1, <2>2
  <1> QED
    BY <1>1, <1>2, Invariance, PTL DEF Spec, ImplementsLedger, Ledger!LedgerSpec
==============================================================================
