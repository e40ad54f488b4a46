--------------------------- MODULE MCStateStorage ---------------------------
(***************************************************************************)
(* StateStorage for TLC: four blocks in pages of two, so that a page may   *)
(* be partial, and the chain may grow past the next one.                   *)
(***************************************************************************)
EXTENDS StateStorage
=============================================================================
