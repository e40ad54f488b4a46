---------------------------- MODULE BlockBuilder ----------------------------
(***************************************************************************)
(* The block builders of the nodes (block-builder.ts) over their block     *)
(* storages, as both consensus algorithms use them: the poll timer,        *)
(* appendNextBlock from await to await (two calls of it may overlap), the  *)
(* cached last block, and commitBlock.                                     *)
(*                                                                         *)
(* A block is its place in the sequence of all blocks made; 0 is genesis.  *)
(* A storage is the last block it serves, which names a chain; its addBlock*)
(* and the sync that brings it blocks of other nodes are one step each     *)
(* here (modules BlockStorage and BlockSync have their steps).             *)
(***************************************************************************)
EXTENDS Integers, Sequences, FiniteSets

CONSTANTS
  Nodes,
  None,      \* BlockBuilder.lastBlock is undefined
  Slots,     \* calls of appendNextBlock of one node that may overlap: 1..k
  MaxHeight, \* bound: no block is made above it
  MaxBlocks, \* bound: blocks made
  MaxFaults  \* bound: faults and empty pools

ASSUME BuilderAssumption ==
  /\ None \notin Nat /\ Slots = 1..Cardinality(Slots)
  /\ MaxHeight \in Nat /\ MaxBlocks \in Nat /\ MaxFaults \in Nat

VARIABLES
  made,    \* the blocks made so far, on any node
  tip,     \* per node, lastBlock of its block storage
  syncing, \* the nodes whose block storage is syncing with a peer
  builder, \* per node, its BlockBuilder
  faults,  \* what was used of the bound
  mishaps  \* history: what went wrong, in the terms of the consensus

builderVars == <<made, tip, syncing, builder, faults>>

\* What its hash covers: prev stands for prevBlockHash, and with on, the block
\* after which the state was that the virtual machine read, for the body.
Block == [prev : 0..MaxBlocks, height : 1..MaxHeight, on : 0..MaxBlocks]
Blocks == 0..Len(made)

HeightOf(b) == IF b = 0 THEN 0 ELSE made[b].height

\* Header and body of the block after prev; it is signed on the way out.
buildNextBlock(prev, on) == [prev |-> prev, height |-> HeightOf(prev) + 1, on |-> on]

\* The chain that ends with a block.
ChainOf(b) ==
  LET chain[x \in Blocks] == IF x = 0 THEN {0} ELSE {x} \cup chain[made[x].prev]
  IN  chain[b]

\* A call of appendNextBlock: the storage told it the last block, which it
\* has not yet taken; it has that block as base and builds the next one; the
\* block is built and is for the consensus to take; the storage is adding
\* it; the storage has added it, which commitBlock has not yet heard.
Slot == [stage : {"idle", "fetch", "build", "built", "adding", "added"}, base : 0..MaxBlocks]
IdleSlot == [stage |-> "idle", base |-> 0]

Builder == [last : 0..MaxBlocks \cup {None}, polling : BOOLEAN, slot : [Slots -> Slot]]
NewBuilder == [last |-> None, polling |-> FALSE, slot |-> [s \in Slots |-> IdleSlot]]

BuilderTypeOK ==
  /\ made \in Seq(Block) /\ Len(made) <= MaxBlocks
  /\ tip \in [Nodes -> Blocks]
  /\ syncing \subseteq Nodes
  /\ builder \in [Nodes -> Builder]
  /\ faults \in 0..MaxFaults

BuilderInit ==
  /\ made = <<>>
  /\ tip = [n \in Nodes |-> 0]
  /\ builder = [n \in Nodes |-> NewBuilder]
  /\ faults = 0

-----------------------------------------------------------------------------
(***************************************************************************)
(* BlockBuilder.                                                           *)
(***************************************************************************)
SetSlot(n, s, stage, base) ==
  [builder EXCEPT ![n].slot[s] = [stage |-> stage, base |-> base]]

UseFault(fault) ==
  /\ fault => faults < MaxFaults
  /\ faults' = IF fault THEN faults + 1 ELSE faults

\* Mutant: the storage is not asked when no last block is remembered.
AppendNextBlock_NeverFetches(n, s) ==
  /\ builder[n].slot[s].stage = "idle"
  /\ builder' = [SetSlot(n, s, "build", builder[n].last) EXCEPT ![n].polling = FALSE]

\* appendNextBlock stops the timer and takes the last block it remembers;
\* the first time it asks the storage.
AppendNextBlock(n, s) ==
  LET last == builder[n].last
  IN  /\ builder[n].slot[s].stage = "idle"
      /\ builder' = [IF last = None THEN SetSlot(n, s, "fetch", tip[n])
                     ELSE SetSlot(n, s, "build", last)
                     EXCEPT ![n].polling = FALSE]

\* Another call of appendNextBlock is under way.
Overlaps(n, s) == \E t \in Slots \ {s} : builder[n].slot[t].stage # "idle"

\* The timer fires.  (That it does in a call that is slow counts as a fault.)
PollForPendingTransactions(n, s) ==
  /\ builder[n].polling
  /\ \A t \in 1..(s - 1) : builder[n].slot[t].stage # "idle"
  /\ AppendNextBlock(n, s)
  /\ UseFault(Overlaps(n, s))
  /\ UNCHANGED <<made, tip, syncing>>

\* The storage's answer is taken, whatever was committed meanwhile.
getOrFetchLastBlock(n, s) ==
  LET answer == builder[n].slot[s].base
  IN  /\ builder[n].slot[s].stage = "fetch"
      /\ builder' = [SetSlot(n, s, "build", answer) EXCEPT ![n].last = answer]
      /\ UNCHANGED <<made, tip, syncing, faults>>

\* The pending transactions are executed on the state the storage serves,
\* and make the block after base.  From here on base is the block itself.
buildBlockFromPendingTransactions(n, s) ==
  LET base == builder[n].slot[s].base
  IN  /\ builder[n].slot[s].stage = "build"
      /\ Len(made) < MaxBlocks /\ HeightOf(base) < MaxHeight
      /\ made' = Append(made, buildNextBlock(base, tip[n]))
      /\ builder' = SetSlot(n, s, "built", Len(made) + 1)
      /\ UNCHANGED <<tip, syncing, faults>>

\* The pool is empty, or the pool, the storage or the virtual machine fails:
\* the timer is started again.
NothingBuilt(n, s) ==
  /\ builder[n].slot[s].stage \in {"fetch", "build"}
  /\ faults < MaxFaults
  /\ faults' = faults + 1
  /\ builder' = [SetSlot(n, s, "idle", 0) EXCEPT ![n].polling = TRUE]
  /\ UNCHANGED <<made, tip, syncing>>

-----------------------------------------------------------------------------
(***************************************************************************)
(* The block storage.                                                      *)
(***************************************************************************)

\* Mutant: the hash of the previous block is not compared.
verifyNewBlock_HeightOnly(n, b) == b # 0 /\ made[b].height = HeightOf(tip[n]) + 1

\* BlockStorage.verifyNewBlock: the block follows the last one.
verifyNewBlock(n, b) == b # 0 /\ made[b].prev = tip[n]

\* Mutant: whatever block comes is taken.
addBlock_Unverified(n, b, ok, fault) ==
  /\ ok /\ ~ fault
  /\ tip' = [tip EXCEPT ![n] = b]

\* addBlock adds the block, or not: it is rejected or a fault.  While it is
\* syncing, the storage logs and drops it and answers that all is well.
addBlock(n, b, ok, fault) ==
  \/ /\ verifyNewBlock(n, b) /\ ok /\ ~ fault
     /\ tip' = [tip EXCEPT ![n] = b]
  \/ /\ IF n \in syncing THEN ok ELSE ~ ok
     /\ fault = verifyNewBlock(n, b)
     /\ UNCHANGED tip

\* Mutant: lastBlock is kept.
commitBlock_KeepsLast(n, b) ==
  \E ok, fault \in BOOLEAN :
    /\ addBlock(n, b, ok, fault)
    /\ UseFault(fault)
    /\ UNCHANGED builder

\* commitBlock: lastBlock becomes the block if addBlock says so.
commitBlock(n, b) ==
  \E ok, fault \in BOOLEAN :
    /\ addBlock(n, b, ok, fault)
    /\ UseFault(fault)
    /\ builder' = [builder EXCEPT ![n].last = IF ok THEN b ELSE @]

\* A peer says it has more blocks.
StartSync(n) ==
  /\ n \notin syncing
  /\ \E m \in Nodes : HeightOf(tip[m]) > HeightOf(tip[n])
  /\ syncing' = syncing \cup {n}
  /\ UNCHANGED <<made, tip, builder>>

\* A peer sends the block that follows.  The builder is not told.
SyncBlock(n, m) ==
  /\ n \in syncing
  /\ \E b \in Blocks \ {0} :
       /\ b \in ChainOf(tip[m]) /\ verifyNewBlock(n, b)
       /\ tip' = [tip EXCEPT ![n] = b]
  /\ UNCHANGED <<made, syncing, builder, faults>>

\* The next poll of the block storage.
EndSync(n) ==
  /\ n \in syncing
  /\ syncing' = syncing \ {n}
  /\ UNCHANGED <<made, tip, builder, faults>>

-----------------------------------------------------------------------------
\* The last block of one node is not on the chain of another's, nor after it.
Forked ==
  \E n, m \in Nodes : tip[n] \notin ChainOf(tip[m]) /\ tip[m] \notin ChainOf(tip[n])

\* A storage holds a block whose diff was computed on another state than
\* that after its parent.
WrongState ==
  \E n \in Nodes : \E b \in ChainOf(tip[n]) \ {0} : made[b].on # made[b].prev

(* The diff of every block on a node's chain was computed on the state     *)
(* after its parent, unless a storage did not add a block that followed    *)
(* its last one (benchmark consensus), or the leader broadcast a block     *)
(* that its own storage did not add (stub consensus).                      *)
WrongStateOnlyIfNotAdded == WrongState => "not added" \in mishaps

\* A builder that remembers another block than its storage's last one.
Stale(n) == builder[n].last # None /\ builder[n].last # tip[n]
=============================================================================
