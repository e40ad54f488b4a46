---------------------------- MODULE StubConsensus ----------------------------
(***************************************************************************)
(* The stub consensus (stub-consensus.ts): a configured leader builds the  *)
(* blocks, adds each to its own storage and broadcasts it; the other nodes *)
(* add what they receive and report their height; at every heartbeat the   *)
(* leader looks at the heights and either lets its builder poll for a new  *)
(* block or broadcasts its last block again.                               *)
(***************************************************************************)
EXTENDS BlockBuilder

CONSTANTS
  Leader,             \* config.leaderNodeName
  AcceptableUnsynced, \* config.acceptableUnsyncedNodes
  MaxInFlight         \* bound: messages in flight at a heartbeat

Peers == Nodes \ {Leader}

ASSUME StubAssumption ==
  /\ BuilderAssumption
  /\ Leader \in Nodes /\ AcceptableUnsynced \in Nat
  /\ MaxInFlight \in Nat

VARIABLES
  heights,  \* lastBlockHeightByNodeName
  msgs      \* gossip messages in flight, delivered in any order

stubVars == <<made, tip, syncing, builder, faults, heights, msgs, mishaps>>

\* Two calls of appendNextBlock were under way at a time; the leader's
\* storage did not add a block that the leader then broadcast.
StubMishaps == {"overlap", "not added"}

CommitBlock(p, b) == [type |-> "CommitBlock", to |-> p, block |-> b]
MyLastBlockHeight(p, h) == [type |-> "MyLastBlockHeight", from |-> p, height |-> h]
Message ==
  {CommitBlock(p, b) : p \in Peers, b \in 0..MaxBlocks}
    \cup {MyLastBlockHeight(p, h) : p \in Peers, h \in 0..MaxHeight}

StubTypeOK ==
  /\ BuilderTypeOK
  /\ heights \in [Peers -> 0..MaxHeight \cup {None}]
  /\ msgs \subseteq Message
  /\ mishaps \subseteq StubMishaps

StubInit ==
  /\ BuilderInit
  /\ syncing = Peers  \* a peer does not look at addBlock's answer: all one
  /\ heights = [p \in Peers |-> None]
  /\ msgs = {}
  /\ mishaps = {}

-----------------------------------------------------------------------------
(***************************************************************************)
(* The leader.                                                             *)
(***************************************************************************)
broadcastCommitBlock(b) == msgs' = msgs \cup {CommitBlock(p, b) : p \in Peers}

EnoughNodesSynced ==
  /\ Cardinality({p \in Peers : heights[p] # None}) >= Cardinality(Nodes) - AcceptableUnsynced - 1
  /\ Cardinality({p \in Peers : heights[p] \notin {None, HeightOf(tip[Leader])}})
       <= AcceptableUnsynced

\* Mutant: nothing is broadcast while the nodes are not synchronized.
onLeaderHeartbeatTick_NoBroadcast ==
  /\ Cardinality(msgs) <= MaxInFlight
  /\ builder' = IF EnoughNodesSynced THEN [builder EXCEPT ![Leader].polling = TRUE] ELSE builder
  /\ UNCHANGED <<made, tip, syncing, faults, heights, msgs, mishaps>>

onLeaderHeartbeatTick ==
  /\ Cardinality(msgs) <= MaxInFlight
  /\ IF EnoughNodesSynced
     THEN builder' = [builder EXCEPT ![Leader].polling = TRUE] /\ UNCHANGED msgs
     ELSE broadcastCommitBlock(tip[Leader]) /\ UNCHANGED builder
  /\ UNCHANGED <<made, tip, syncing, faults, heights, mishaps>>

\* The builder's timer fires.
LeaderPolls(s) ==
  /\ PollForPendingTransactions(Leader, s)
  /\ mishaps' = IF Overlaps(Leader, s) THEN mishaps \cup {"overlap"} ELSE mishaps
  /\ UNCHANGED <<heights, msgs>>

LeaderBuilds(s) ==
  /\ \/ getOrFetchLastBlock(Leader, s)
     \/ buildBlockFromPendingTransactions(Leader, s)
  /\ UNCHANGED <<heights, msgs, mishaps>>

LeaderBuildsNothing(s) ==
  /\ NothingBuilt(Leader, s)
  /\ UNCHANGED <<heights, msgs, mishaps>>

\* Mutant: the block is broadcast before it is added.
BeginCommit_BroadcastsFirst(s) ==
  LET b == builder[Leader].slot[s].base
  IN  /\ builder[Leader].slot[s].stage = "built"
      /\ verifyNewBlock(Leader, b)
      /\ builder' = SetSlot(Leader, s, "adding", b)
      /\ broadcastCommitBlock(b)
      /\ UNCHANGED <<made, tip, syncing, faults, heights, mishaps>>

\* The storage verifies the block of onNewBlockBuild and is adding it.
BeginCommit(s) ==
  LET b == builder[Leader].slot[s].base
  IN  /\ builder[Leader].slot[s].stage = "built"
      /\ verifyNewBlock(Leader, b)
      /\ builder' = SetSlot(Leader, s, "adding", b)
      /\ UNCHANGED <<made, tip, syncing, faults, heights, msgs, mishaps>>

\* Disk and pool are done: the block is what the storage serves.
EndCommit(s) ==
  /\ builder[Leader].slot[s].stage = "adding"
  /\ tip' = [tip EXCEPT ![Leader] = builder[Leader].slot[s].base]
  /\ builder' = SetSlot(Leader, s, "added", builder[Leader].slot[s].base)
  /\ UNCHANGED <<made, syncing, faults, heights, msgs, mishaps>>

\* Mutant: commitBlock does not remember the block.
Broadcast_KeepsLast(s) ==
  LET b == builder[Leader].slot[s].base
  IN  /\ builder[Leader].slot[s].stage = "added"
      /\ builder' = SetSlot(Leader, s, "idle", 0)
      /\ broadcastCommitBlock(b)
      /\ UNCHANGED <<made, tip, syncing, faults, heights, mishaps>>

\* addBlock answers: commitBlock sets lastBlock, and the block is broadcast.
Broadcast(s) ==
  LET b == builder[Leader].slot[s].base
  IN  /\ builder[Leader].slot[s].stage = "added"
      /\ builder' = [SetSlot(Leader, s, "idle", 0) EXCEPT ![Leader].last = b]
      /\ broadcastCommitBlock(b)
      /\ UNCHANGED <<made, tip, syncing, faults, heights, mishaps>>

\* The storage rejects the block, or the disk or the pool fails.  onCommitted
\* logs that, and the block is broadcast all the same; a storage that is
\* syncing does not even tell, and lastBlock is set.
BroadcastNotAdded(s) ==
  LET b == builder[Leader].slot[s].base
  IN  /\ \/ /\ builder[Leader].slot[s].stage = "built" /\ ~ verifyNewBlock(Leader, b)
            /\ UNCHANGED faults
         \/ /\ builder[Leader].slot[s].stage = "adding"
            /\ faults < MaxFaults
            /\ faults' = faults + 1
      /\ builder' = [SetSlot(Leader, s, "idle", 0)
                     EXCEPT ![Leader].last = IF Leader \in syncing THEN b ELSE @]
      /\ broadcastCommitBlock(b)
      /\ mishaps' = mishaps \cup {"not added"}
      /\ UNCHANGED <<made, tip, syncing, heights>>

OnMyLastBlockHeight(m) ==
  /\ m.type = "MyLastBlockHeight"
  /\ heights' = [heights EXCEPT ![m.from] = m.height]
  /\ msgs' = msgs \ {m}
  /\ UNCHANGED <<made, tip, syncing, builder, faults, mishaps>>

\* The consensus of the leader restarts; a block that its storage, another
\* process, was adding gets there or not.  (It counts as a fault.)
LeaderRestarts ==
  /\ UseFault(TRUE)
  /\ builder' = [builder EXCEPT ![Leader] = NewBuilder]
  /\ heights' = [p \in Peers |-> None]
  /\ \/ UNCHANGED tip
     \/ \E s \in Slots :
          /\ builder[Leader].slot[s].stage = "adding"
          /\ tip' = [tip EXCEPT ![Leader] = builder[Leader].slot[s].base]
  /\ UNCHANGED <<made, syncing, msgs, mishaps>>

-----------------------------------------------------------------------------
(***************************************************************************)
(* The other nodes, the block sync and the network.                        *)
(***************************************************************************)

\* The node adds the block or not, and reports the height it has.  (The
\* last block its own builder remembers is never used.)
OnCommitBlock(m) ==
  /\ m.type = "CommitBlock"
  /\ \E ok, fault \in BOOLEAN : addBlock(m.to, m.block, ok, fault) /\ UseFault(fault)
  /\ msgs' = (msgs \ {m}) \cup {MyLastBlockHeight(m.to, HeightOf(tip'[m.to]))}
  /\ UNCHANGED <<made, syncing, builder, heights, mishaps>>

LoseMessage(m) ==
  /\ faults < MaxFaults
  /\ faults' = faults + 1
  /\ msgs' = msgs \ {m}
  /\ UNCHANGED <<made, tip, syncing, builder, heights, mishaps>>

LeaderSyncs ==
  /\ (StartSync(Leader) /\ UNCHANGED faults) \/ EndSync(Leader)
  /\ UNCHANGED <<heights, msgs, mishaps>>

ReceiveBlock(n) ==
  /\ \E m \in Nodes : SyncBlock(n, m)
  /\ UNCHANGED <<heights, msgs, mishaps>>

-----------------------------------------------------------------------------
Commit(s) == BeginCommit(s) \/ EndCommit(s) \/ Broadcast(s)
Deliver(m) == OnCommitBlock(m) \/ OnMyLastBlockHeight(m)

StubNext ==
  \/ onLeaderHeartbeatTick \/ LeaderRestarts
  \/ \E s \in Slots :
       \/ LeaderPolls(s) \/ LeaderBuilds(s) \/ LeaderBuildsNothing(s)
       \/ Commit(s) \/ BroadcastNotAdded(s)
  \/ \E m \in msgs : Deliver(m) \/ LoseMessage(m)
  \/ LeaderSyncs
  \/ \E n \in Nodes : ReceiveBlock(n)

StubSpec == StubInit /\ [][StubNext]_stubVars

\* Timers fire, promises resolve, and a message that is not lost arrives.
\* A sync that is asked for often enough brings a block (BlockSync!Converges).
StubFairSpec ==
  /\ StubSpec
  /\ WF_stubVars(onLeaderHeartbeatTick)
  /\ WF_stubVars(\E s \in Slots : LeaderPolls(s))
  /\ WF_stubVars(\E s \in Slots : LeaderBuilds(s) \/ Commit(s))
  /\ \A m \in Message : WF_stubVars(m \in msgs /\ Deliver(m))
  /\ WF_stubVars(LeaderSyncs)
  /\ \A n \in Nodes : SF_stubVars(ReceiveBlock(n))

-----------------------------------------------------------------------------
(***************************************************************************)
(* Correctness.                                                            *)
(***************************************************************************)

(* The nodes hold different blocks of one height only after two calls of   *)
(* appendNextBlock overlapped (the virtual machine was slower than a       *)
(* heartbeat) or the leader broadcast a block its own storage did not add: *)
(* lost messages, late reports, restarts of the leader and syncs never     *)
(* fork the chain.                                                         *)
ForkOnlyByMishap == Forked => mishaps # {}

(* The block the leader's builder remembers is the last one of its storage *)
(* (or the storage just took the next one and the answer is on its way),   *)
(* unless one of the two happened.  A builder that fell behind builds      *)
(* blocks its own storage rejects.                                         *)
BuilderFollowsStorage ==
  Stale(Leader) =>
    mishaps # {} \/ \E s \in Slots : builder[Leader].slot[s].stage = "added"

(* A block that a node's storage serves stays on the chain it serves,      *)
(* unless one of the two happened: although the leader's storage does not  *)
(* verify again a block it has been adding, and messages come late, out of *)
(* order or again, no later block takes the place of a served one.         *)
ServedBlocksStay ==
  [][mishaps = {} => \A n \in Nodes : tip[n] \in ChainOf(tip'[n])]_stubVars

(* Whatever messages are lost and whenever the leader restarts, all nodes  *)
(* get all the blocks, unless one of the two happened.                     *)
AllNodesCatchUp ==
  <>(mishaps # {}) \/ <>[](\A n \in Nodes : HeightOf(tip[n]) = MaxHeight)
=============================================================================
