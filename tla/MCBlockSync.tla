----------------------------- MODULE MCBlockSync -----------------------------
(***************************************************************************)
(* BlockSync for TLC: a leader and a node that follows it.                 *)
(***************************************************************************)
EXTENDS BlockSync
=============================================================================
