----------------------------- MODULE MCForkPoint -----------------------------
(***************************************************************************)
(* ForkPoint for every pair of blocks of the tree of MCBlockTree.          *)
(***************************************************************************)
EXTENDS ForkPoint, MCBlockTree
==============================================================================
