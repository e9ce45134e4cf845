----------------------------- MODULE MCBlockchain -----------------------------
(***************************************************************************)
(* Blockchain on the block tree of MCBlockTree.                            *)
(***************************************************************************)
EXTENDS Blockchain, MCBlockTree

(* d1 fails the proof of space check, x3 the sub epoch summary one.        *)
SomePreErrors == Only("none", "d1" :> "header" @@ "x3" :> "ses")
==============================================================================
