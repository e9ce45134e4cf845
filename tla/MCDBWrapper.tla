----------------------------- MODULE MCDBWrapper -----------------------------
(***************************************************************************)
(* DBWrapper with two tasks and one read connection.                       *)
(***************************************************************************)
EXTENDS DBWrapper
==============================================================================
