--------------------------- MODULE MCBlockStorage ---------------------------
(***************************************************************************)
(* BlockStorage for TLC: two forks of height 3, a block that skips its     *)
(* parent, one with a bad version and one with a bad signature.            *)
(***************************************************************************)
EXTENDS BlockStorage

MCBlock(hash, height, prev, version, verified) ==
  [hash |-> hash, height |-> height, prevBlockHash |-> prev,
   version |-> version, verified |-> verified]

MCGenesis == MCBlock("g", 0, "", 0, TRUE)

MCBlocks == { MCGenesis,
              MCBlock("a1", 1, "g", 0, TRUE),
              MCBlock("b1", 1, "g", 0, TRUE),
              MCBlock("a2", 2, "a1", 0, TRUE),
              MCBlock("b2", 2, "b1", 0, TRUE),
              MCBlock("a3", 3, "a2", 0, TRUE),
              MCBlock("skip", 2, "g", 0, TRUE),      \* right parent, wrong height
              MCBlock("version", 1, "g", 1, TRUE),
              MCBlock("forged", 1, "g", 0, FALSE) }

MCLimits == {1, 2, 3}
=============================================================================
