--------------------------- MODULE BlockHeightMap ---------------------------
(***************************************************************************)
(* BlockHeightMap (full_node/block_height_map.py): the height to hash map  *)
(* and the sub epoch summaries of the main chain in memory, the two files  *)
(* that cache them, and their reconciliation with the database when the    *)
(* node starts.                                                            *)
(*                                                                         *)
(* The database is Blockchain's: its peak moves to heavier blocks.  The    *)
(* summary a block includes is identified with the block.  The process may *)
(* die, and the task that flushes may be cancelled, between any two steps. *)
(***************************************************************************)
EXTENDS BlockTree, Sequences, FiniteSetsExt

CONSTANTS
    FlushThreshold,   \* hashes set since the last flush that cause a flush
    SesBlocks         \* the blocks that include a sub epoch summary

(* The first summary is made a sub epoch after genesis.                    *)
ASSUME MapAssumption ==
    /\ FlushThreshold \in Nat \ {0}
    /\ SesBlocks \subseteq Blocks \ Genesis

VARIABLES
    peak,        \* the committed peak of the database
    hash,        \* __height_to_hash, hash[h + 1] being the hash at height h
    ses,         \* __sub_epoch_summaries: height -> block or NoBlock
    counter,     \* __counter
    firstDirty,  \* __first_dirty
    hashFile,    \* the two files; an empty sequence for no file
    sesFile,
    pc,          \* "down", "run", "committed", "flush", "flush_ses"
    tail,        \* history: a flush left the end of a longer chain in the file
    stale        \* history: create met a summary of another block at the
                 \* height of the peak or above

memory == <<hash, ses, counter, firstDirty>>
files  == <<hashFile, sesFile>>
vars   == <<peak, memory, files, pc, tail, stale>>

NoSes == [h \in Heights |-> NoBlock]

TypeOK ==
    /\ peak \in Blocks \cup {NoBlock}
    /\ hash \in Seq(Blocks \cup {ZeroHash})
    /\ hashFile \in Seq(Blocks \cup {ZeroHash})
    /\ ses \in [Heights -> Blocks \cup {NoBlock}]
    /\ sesFile \in [Heights -> Blocks \cup {NoBlock}]
    /\ counter \in 0 .. (FlushThreshold + MaxHeight)
    /\ firstDirty \in Nat
    /\ pc \in {"down", "run", "committed", "flush", "flush_ses"}
    /\ tail \in BOOLEAN /\ stale \in BOOLEAN

Minimum(a, b) == IF a <= b THEN a ELSE b

------------------------------------------------------------------------------
(* create                                                                  *)

(* The file, cut or filled with zeros to the height of p.                  *)
Sized(file, p) ==
    [i \in 1 .. (HeightOf[p] + 1) |-> IF i <= Len(file) THEN file[i] ELSE ZeroHash]

(* At height h the files agree with the chain of p about a summary.        *)
Agrees(h, p) ==
    /\ Anc[p][h] \in SesBlocks
    /\ Sized(hashFile, p)[h + 1] = Anc[p][h]
    /\ sesFile[h] = Anc[p][h]

(* Mutant: a match of the hash alone ends the walk.                        *)
StopsOnHash(p) ==
    LET matches == {h \in 0 .. (HeightOf[p] - 1) :
                       Anc[p][h] \in SesBlocks /\ Sized(hashFile, p)[h + 1] = Anc[p][h]}
    IN IF matches = {} THEN -1 ELSE Max(matches)

(* _load_blocks_from stops at the highest such height below the peak, -1   *)
(* when it walks down to genesis.                                          *)
StopHeight(p) ==
    LET matches == {h \in 0 .. (HeightOf[p] - 1) : Agrees(h, p)}
    IN IF matches = {} THEN -1 ELSE Max(matches)

(* A summary in the file that create neither checks nor replaces           *)
StaleSummary(p) ==
    \E h \in Heights : h >= HeightOf[p] /\ sesFile[h] \notin {p, NoBlock}

(* Everything above the stop height is taken from the database; a summary  *)
(* of the peak is entered, one the file has at its height or above is not  *)
(* removed.  The hash of the peak is set only if it differs.               *)
Start ==
    /\ pc = "down"
    /\ IF peak = NoBlock
       THEN /\ hash' = << >> /\ ses' = NoSes
            /\ counter' = 0 /\ firstDirty' = 0
            /\ pc' = "run"
       ELSE LET top  == HeightOf[peak]
                stop == StopHeight(peak)
                old  == Sized(hashFile, peak)
                same == old[top + 1] = peak
                set  == top - 1 - stop + (IF same THEN 0 ELSE 1)
            IN /\ hash' = [i \in 1 .. (top + 1) |->
                             IF i > stop + 1 THEN Anc[peak][i - 1] ELSE old[i]]
               /\ ses' = [h \in Heights |->
                             IF (h > stop /\ h < top) \/ (h = top /\ peak \in SesBlocks)
                             THEN IF Anc[peak][h] \in SesBlocks THEN Anc[peak][h] ELSE NoBlock
                             ELSE sesFile[h]]
               /\ counter' = set
               /\ firstDirty' = IF stop + 1 < top THEN stop + 1
                                ELSE IF same THEN top + 1 ELSE top
               /\ pc' = IF set >= FlushThreshold THEN "flush" ELSE "run"
    /\ stale' = (stale \/ (peak # NoBlock /\ StaleSummary(peak)))
    /\ UNCHANGED <<peak, files, tail>>

------------------------------------------------------------------------------
(* A block heavier than the peak is committed as the new peak.             *)
NewPeak(b) ==
    /\ pc = "run"
    /\ IF peak = NoBlock THEN HeightOf[b] = 0 ELSE Weight[b] > Weight[peak]
    /\ peak' = b /\ pc' = "committed"
    /\ UNCHANGED <<memory, files, tail, stale>>

(* rollback(h)                                                             *)
Rollback(h) ==
    [hash |-> SubSeq(hash, 1, Minimum(Len(hash), h + 1)),
     ses  |-> [k \in Heights |-> IF k > h THEN NoBlock ELSE ses[k]]]

(* The height up to which the map holds the chain of the new peak.         *)
ForkHeight ==
    IF hash = << >> THEN -1
    ELSE CHOOSE f \in -1 .. MaxHeight : IsForkHeight(hash[Len(hash)], peak, f)

(* Mutant: rollback does not move __first_dirty down.                      *)
DirtyFromTop(f) == Minimum(firstDirty, HeightOf[peak])

(* __first_dirty after rollback and the update_height calls                *)
DirtyFrom(f) == Minimum(firstDirty, f + 1)

(* add_block rolls the map back to the fork, 0 if there is none, and calls *)
(* update_height for the blocks of the new peak's chain above it.          *)
UpdateMap ==
    /\ pc = "committed"
    /\ LET f == ForkHeight
           top == HeightOf[peak]
           kept == Rollback(IF f > 0 THEN f ELSE 0)
       IN /\ hash' = [i \in 1 .. (top + 1) |-> IF i > f + 1 THEN Anc[peak][i - 1] ELSE kept.hash[i]]
          /\ ses' = [k \in Heights |->
                        IF k > f /\ k <= top /\ Anc[peak][k] \in SesBlocks
                        THEN Anc[peak][k] ELSE kept.ses[k]]
          /\ firstDirty' = DirtyFrom(f)
          /\ counter' = counter + (top - f)
    /\ pc' = IF counter' >= FlushThreshold THEN "flush" ELSE "run"
    /\ UNCHANGED <<peak, files, tail, stale>>

------------------------------------------------------------------------------
(* maybe_flush                                                             *)

(* The file after the map has been written over it from the first dirty    *)
(* height on; a longer file keeps its tail.                                *)
Overwritten(file) ==
    IF file = << >> THEN hash
    ELSE [i \in 1 .. Max({Len(hash), Len(file)}) |->
            IF i > firstDirty /\ i <= Len(hash) THEN hash[i]
            ELSE IF i <= Len(file) THEN file[i] ELSE ZeroHash]

(* The map is written to the file.                                         *)
WriteHashes ==
    /\ hashFile' = Overwritten(hashFile)
    /\ tail' = (tail \/ Len(hashFile) > Len(hash))

FlushHashes ==
    /\ pc = "flush"
    /\ WriteHashes
    /\ counter' = 0
    /\ firstDirty' = Len(hash)
    /\ pc' = "flush_ses"
    /\ UNCHANGED <<peak, hash, ses, sesFile, stale>>

(* The summaries replace the other file.                                   *)
FlushSes ==
    /\ pc = "flush_ses"
    /\ sesFile' = ses
    /\ pc' = "run"
    /\ UNCHANGED <<peak, memory, hashFile, tail, stale>>

(* The task is cancelled while it writes a file: the write may still have  *)
(* happened, but nothing after it does.                                    *)
FlushCancelled ==
    /\ \/ pc = "flush" /\ WriteHashes
       \/ pc \in {"flush", "flush_ses"} /\ UNCHANGED <<hashFile, tail>>
    /\ counter' = 0
    /\ pc' = "run"
    /\ UNCHANGED <<peak, hash, ses, firstDirty, sesFile, stale>>

------------------------------------------------------------------------------
Crash ==
    /\ pc # "down"
    /\ hash' = << >> /\ ses' = NoSes /\ counter' = 0 /\ firstDirty' = 0
    /\ pc' = "down"
    /\ UNCHANGED <<peak, files, tail, stale>>

Init ==
    /\ peak = NoBlock
    /\ hash = << >> /\ ses = NoSes /\ counter = 0 /\ firstDirty = 0
    /\ hashFile = << >> /\ sesFile = NoSes
    /\ pc = "down"
    /\ tail = FALSE /\ stale = FALSE

Next ==
    \/ Start
    \/ \E b \in Blocks : NewPeak(b)
    \/ UpdateMap
    \/ FlushHashes
    \/ FlushSes
    \/ FlushCancelled
    \/ Crash

Spec == Init /\ [][Next]_vars

------------------------------------------------------------------------------
InSync == pc \in {"run", "flush", "flush_ses"}

(* Whenever the node runs, and whatever the files held when it started,    *)
(* the map is the chain of the committed peak ("the path from genesis to   *)
(* the peak, no orphan blocks"; "until we hit a match in the existing map, *)
(* at which point we can assume all previous blocks have already been      *)
(* populated"), unless a flush after a reorganisation to a shorter chain   *)
(* left the end of the longer one in the file.                             *)
HashesMatchChain ==
    InSync /\ ~ tail =>
        hash = IF peak = NoBlock THEN << >>
               ELSE [i \in 1 .. (HeightOf[peak] + 1) |-> Anc[peak][i - 1]]

(* The summaries in memory are those of the chain of the committed peak    *)
(* ("Note: ONLY for the blocks in the path to the peak"), unless the file  *)
(* held others where create does not look for them.                        *)
SesMatchChain ==
    InSync /\ ~ tail /\ ~ stale =>
        \A h \in Heights :
            ses[h] = IF peak # NoBlock /\ h <= HeightOf[peak] /\ Anc[peak][h] \in SesBlocks
                     THEN Anc[peak][h] ELSE NoBlock
==============================================================================
