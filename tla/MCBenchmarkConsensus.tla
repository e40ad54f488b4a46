------------------------- MODULE MCBenchmarkConsensus -------------------------
(***************************************************************************)
(* BenchmarkConsensus for TLC: two nodes, either of which may lead.        *)
(***************************************************************************)
EXTENDS BenchmarkConsensus
=============================================================================
