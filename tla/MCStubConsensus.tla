--------------------------- MODULE MCStubConsensus ---------------------------
(***************************************************************************)
(* StubConsensus for TLC: a leader and two nodes, of which one may be out  *)
(* of sync, as the deployment configures it.                               *)
(***************************************************************************)
EXTENDS StubConsensus
=============================================================================
