------------------------------- MODULE Ledger -------------------------------
(***************************************************************************)
(* What the block storage of a node promises to everything that reads it:  *)
(* the blocks it has ever served as closed form one chain that starts at   *)
(* the genesis block, and the chain only grows, by one block at a time,    *)
(* each linked to the block before it by height and by hash.               *)
(*                                                                         *)
(* This is the abstract specification that module BlockStorage implements. *)
(***************************************************************************)
EXTENDS Integers, Sequences

CONSTANTS Blocks,        \* the blocks there are (records, see BlockStorage)
          GenesisBlock

VARIABLE chain           \* the closed blocks; chain[h + 1] has height h

(***************************************************************************)
(* b may follow p: the two checks of verifyNewBlock that look at the chain.*)
(***************************************************************************)
Follows(b, p) == b.height = p.height + 1 /\ b.prevBlockHash = p.hash

Init == chain = <<>>

Append1(b) ==
  /\ IF chain = <<>> THEN b = GenesisBlock ELSE Follows(b, chain[Len(chain)])
  /\ chain' = Append(chain, b)

Next == \E b \in Blocks : Append1(b)

Spec == Init /\ [][Next]_chain
=============================================================================
