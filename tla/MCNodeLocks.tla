----------------------------- MODULE MCNodeLocks -----------------------------
(***************************************************************************)
(* NodeLocks with three handlers for two running places and one waiting    *)
(* place, and two transactions.                                            *)
(***************************************************************************)
EXTENDS NodeLocks
==============================================================================
