------------------------------ MODULE ForkPoint ------------------------------
(***************************************************************************)
(* lookup_fork_chain and find_fork_point_in_chain                          *)
(* (consensus/find_fork_point.py): the walk down two chains to the last    *)
(* block they share.  One step is one iteration of a loop, which awaits    *)
(* prev_block_hash.  Blockchain uses the answer in one step; this module   *)
(* shows that the loops give it.                                           *)
(***************************************************************************)
EXTENDS BlockTree

VARIABLES
    fn,        \* "lookup" or "find", the function that is called
    tip1,      \* its arguments block_1 and block_2
    tip2,
    pc,        \* "idle", "level" (first two loops), "walk" (last one), "done"
    height1, height2,
    bh1, bh2,
    ret,       \* ret[h]: the hash recorded at height h, NoBlock for no entry
    forkHash,  \* the hash lookup_fork_chain returns
    forkHeight \* the height find_fork_point_in_chain returns

result == <<forkHash, forkHeight>>
vars == <<fn, tip1, tip2, pc, height1, height2, bh1, bh2, ret, result>>

NoEntries == [h \in Heights |-> NoBlock]

TypeOK ==
    /\ fn \in {"lookup", "find"}
    /\ tip1 \in Blocks /\ tip2 \in Blocks
    /\ pc \in {"idle", "level", "walk", "done"}
    /\ height1 \in Heights /\ height2 \in Heights
    /\ bh1 \in Blocks /\ bh2 \in Blocks
    /\ ret \in [Heights -> Blocks \cup {NoBlock}]
    /\ forkHash \in Blocks \cup {NoBlock, ZeroHash}
    /\ forkHeight \in -1 .. MaxHeight

(* prev_block_hash: the record's prev_hash, from the cache or the database *)
PrevBlockHash(b) == Parent[b]

Init ==
    /\ fn \in {"lookup", "find"}
    /\ tip1 \in Blocks /\ tip2 \in Blocks
    /\ pc = "idle"
    /\ height1 = HeightOf[tip1] /\ height2 = HeightOf[tip2]
    /\ bh1 = tip1 /\ bh2 = tip2
    /\ ret = NoEntries /\ forkHash = NoBlock /\ forkHeight = -1

Call ==
    /\ pc = "idle"
    /\ pc' = "level"
    /\ UNCHANGED <<fn, tip1, tip2, height1, height2, bh1, bh2, ret, result>>

(* The hash at height h of block_2's chain is recorded by lookup only.     *)
Record(h, b) ==
    ret' = IF fn = "lookup" THEN [ret EXCEPT ![h] = b] ELSE ret

(* while height_1 > height_2 *)
Lower1 ==
    /\ pc = "level" /\ height1 > height2
    /\ bh1' = PrevBlockHash(bh1)
    /\ height1' = height1 - 1
    /\ UNCHANGED <<fn, tip1, tip2, pc, height2, bh2, ret, result>>

(* Mutant: the hash of the block below is recorded.                        *)
Lower2RecordingPrev ==
    /\ pc = "level" /\ height2 > height1
    /\ bh2' = PrevBlockHash(bh2)
    /\ Record(height2, bh2')
    /\ height2' = height2 - 1
    /\ UNCHANGED <<fn, tip1, tip2, pc, height1, bh1, result>>

(* while height_2 > height_1 *)
Lower2 ==
    /\ pc = "level" /\ height2 > height1
    /\ Record(height2, bh2)
    /\ bh2' = PrevBlockHash(bh2)
    /\ height2' = height2 - 1
    /\ UNCHANGED <<fn, tip1, tip2, pc, height1, bh1, result>>

Level ==
    /\ pc = "level" /\ height1 = height2
    /\ pc' = "walk"
    /\ UNCHANGED <<fn, tip1, tip2, height1, height2, bh1, bh2, ret, result>>

(* Mutant: the walk stops one block too early.                            *)
WalkBelow(h) == h > 1

Walkable(h) == h > 0

(* while height > 0, the chains still apart *)
Walk ==
    /\ pc = "walk" /\ Walkable(height2) /\ bh1 # bh2
    /\ Record(height2, bh2)
    /\ bh1' = PrevBlockHash(bh1) /\ bh2' = PrevBlockHash(bh2)
    /\ height1' = height1 - 1 /\ height2' = height2 - 1
    /\ UNCHANGED <<fn, tip1, tip2, pc, result>>

(* lookup_fork_chain returns a hash, find_fork_point_in_chain a height.    *)
Return(hash, height) ==
    /\ pc' = "done"
    /\ forkHash' = IF fn = "lookup" THEN hash ELSE forkHash
    /\ forkHeight' = IF fn = "find" THEN height ELSE forkHeight

(* The chains meet.                                                        *)
ReturnShared ==
    /\ pc = "walk" /\ bh1 = bh2
    /\ Return(bh2, height2)
    /\ UNCHANGED <<fn, tip1, tip2, height1, height2, bh1, bh2, ret>>

(* Mutant: height 0 is not taken for the bottom.                           *)
ReturnApartBelowZero ==
    /\ pc = "walk" /\ height2 < 0 /\ bh1 # bh2
    /\ Record(0, bh2)
    /\ Return(ZeroHash, -1)
    /\ UNCHANGED <<fn, tip1, tip2, height1, height2, bh1, bh2>>

(* They are apart all the way down.                                        *)
ReturnApart ==
    /\ pc = "walk" /\ ~ Walkable(height2) /\ bh1 # bh2
    /\ Record(0, bh2)
    /\ Return(ZeroHash, -1)
    /\ UNCHANGED <<fn, tip1, tip2, height1, height2, bh1, bh2>>

Next ==
    \/ Call \/ Lower1 \/ Lower2 \/ Level \/ Walk \/ ReturnShared \/ ReturnApart

(* The event loop resumes a coroutine whose awaited read has completed.    *)
Spec == Init /\ [][Next]_vars /\ WF_vars(Next)

------------------------------------------------------------------------------
(* What add_block and advance_fork_info take the answer of                 *)
(* lookup_fork_chain for: with n entries the chains part n blocks below    *)
(* block_2, the entries are exactly block_2's chain above that height, and *)
(* the hash is the shared block's, zeros when nothing is shared.           *)
LookupCorrect ==
    pc = "done" /\ fn = "lookup" =>
        LET entries == {h \in Heights : ret[h] # NoBlock}
            fork == HeightOf[tip2] - Cardinality(entries)
        IN /\ IsForkHeight(tip1, tip2, fork)
           /\ entries = (fork + 1) .. HeightOf[tip2]
           /\ \A h \in entries : ret[h] = Anc[tip2][h]
           /\ forkHash = IF fork = -1 THEN ZeroHash ELSE Anc[tip2][fork]

(* find_fork_point_in_chain returns the height of the last shared block,   *)
(* -1 when the chains share none.                                          *)
FindCorrect ==
    pc = "done" /\ fn = "find" => IsForkHeight(tip1, tip2, forkHeight)

(* Both functions return, whatever the two heights.                        *)
Terminates == <>(pc = "done")
==============================================================================
