------------------------- MODULE BenchmarkConsensus -------------------------
(***************************************************************************)
(* The benchmark consensus (benchmark-consensus.ts): the blocks are the    *)
(* entries of a log that the gaggle library replicates.  At every commit   *)
(* event a node pulls the entries it has not seen yet and adds them to its *)
(* storage; the leader builds the next block when it has seen them all.    *)
(*                                                                         *)
(* Gaggle is external: here it is one log of committed entries, which      *)
(* every node learns of some time, and a leader whose entries are          *)
(* committed in their order or lost when another is elected.               *)
(***************************************************************************)
EXTENDS BlockBuilder

CONSTANTS
  Runs,        \* calls of onCommitted of one node that may overlap
  MaxElections \* bound: elections while there is a leader

ASSUME BenchmarkAssumption ==
  /\ BuilderAssumption
  /\ MaxElections \in Nat

VARIABLES
  log,       \* the committed entries
  appended,  \* the leader's entries that are not committed yet
  leader,    \* the node for which gaggle's isLeader() holds
  commit,    \* per node, gaggle's getCommitIndex(): of the last entry, from 0
  index,     \* per node, benchmarkIndex
  waiting,   \* the nodes whose leaderInterval runs
  run,       \* per node, the calls of onCommitted under way
  elections, \* what was used of the bound
  seen       \* history: per node, the entries given to the storage since its start

gaggle == <<log, appended, leader, commit, elections>>
vars == <<made, tip, syncing, builder, faults, log, appended, leader, commit, index,
          waiting, run, elections, seen, mishaps>>

\* "late answer": the last block that a builder had asked for came after one
\* it committed meanwhile; "not added": a storage did not add an entry that
\* followed its last block; "dropped": a storage that was syncing answered
\* that it added a block that it dropped; "overtaken": an entry was rejected
\* that a sync had brought before; "getBlocks": gaggle did not give the
\* entries; "builds", "commits": two calls of appendNextBlock, or of
\* onCommitted, were under way at a time.
Mishaps == {"late answer", "not added", "dropped", "overtaken", "getBlocks", "builds", "commits"}

Indices == -1..(MaxBlocks - 1)
Entry(i) == log[i + 1]

\* upto: the commit index the call read; next: the next entry to add.
IdleRun == [active |-> FALSE, upto |-> -1, next |-> 0]
Run == [active : BOOLEAN, upto : Indices, next : 0..MaxBlocks]

TypeOK ==
  /\ BuilderTypeOK
  /\ log \in Seq(1..MaxBlocks) /\ appended \in Seq(1..MaxBlocks)
  /\ leader \in Nodes \cup {None}
  /\ commit \in [Nodes -> Indices]
  /\ index \in [Nodes -> Indices]
  /\ waiting \subseteq Nodes
  /\ run \in [Nodes -> [Runs -> Run]]
  /\ elections \in 0..MaxElections
  /\ seen \in [Nodes -> SUBSET (0..(MaxBlocks - 1))]
  /\ mishaps \subseteq Mishaps

Init ==
  /\ BuilderInit
  /\ syncing = {}
  /\ log = <<>> /\ appended = <<>>
  /\ leader = None
  /\ commit = [n \in Nodes |-> -1]
  /\ index = [n \in Nodes |-> -1]
  /\ waiting = {}
  /\ run = [n \in Nodes |-> [r \in Runs |-> IdleRun]]
  /\ elections = 0
  /\ seen = [n \in Nodes |-> {}]
  /\ mishaps = {}

Blame(kind, happened) == mishaps' = IF happened THEN mishaps \cup {kind} ELSE mishaps

-----------------------------------------------------------------------------
(***************************************************************************)
(* onLeaderElected, with the node's benchmarkIndex as it is then.          *)
(***************************************************************************)
InSync(n, i) == i >= commit[n]

\* The slot of the next call of appendNextBlock.  (One that overlaps another
\* counts as a fault; it is left out when the bound is used up.)
FreeSlot(n, s) ==
  /\ builder[n].slot[s].stage = "idle"
  /\ \A t \in 1..(s - 1) : builder[n].slot[t].stage # "idle"
  /\ Overlaps(n, s) => faults < MaxFaults

onLeaderElected(n, isLeader, i) ==
  \/ /\ isLeader /\ InSync(n, i)
     /\ \/ \E s \in Slots :
             /\ FreeSlot(n, s) /\ AppendNextBlock(n, s)
             /\ UseFault(Overlaps(n, s))
             /\ Blame("builds", Overlaps(n, s))
        \/ /\ \A s \in Slots : ~ FreeSlot(n, s)
           /\ UNCHANGED <<builder, faults, mishaps>>
     /\ waiting' = waiting \ {n}
  \/ /\ isLeader /\ ~ InSync(n, i)
     /\ waiting' = waiting \cup {n}
     /\ UNCHANGED <<builder, faults, mishaps>>
  \/ /\ ~ isLeader
     /\ waiting' = waiting \ {n}
     /\ UNCHANGED <<builder, faults, mishaps>>

\* Gaggle elects a leader; what the old one had appended may be lost.
Election(n) ==
  /\ leader # n
  /\ elections < MaxElections \/ leader = None
  /\ elections' = IF leader = None THEN elections ELSE elections + 1
  /\ leader' = n
  /\ appended' \in {<<>>, appended}
  /\ onLeaderElected(n, TRUE, index[n])
  /\ UNCHANGED <<made, tip, syncing, log, commit, index, run, seen>>

\* The leaderInterval: the leader looks again.
LeaderIntervalTick(n) ==
  /\ n \in waiting
  /\ onLeaderElected(n, leader = n, index[n])
  /\ UNCHANGED <<made, tip, syncing, gaggle, index, run, seen>>

-----------------------------------------------------------------------------
(***************************************************************************)
(* The builder.                                                            *)
(***************************************************************************)
\* The timer fires, also one that was started in an earlier leadership.
Poll(n, s) ==
  /\ PollForPendingTransactions(n, s)
  /\ Blame("builds", Overlaps(n, s))
  /\ UNCHANGED <<gaggle, index, waiting, run, seen>>

Build(n, s) ==
  /\ \/ /\ getOrFetchLastBlock(n, s)
        /\ Blame("late answer", builder[n].last \notin {None, builder[n].slot[s].base})
     \/ buildBlockFromPendingTransactions(n, s) /\ UNCHANGED mishaps
  /\ UNCHANGED <<gaggle, index, waiting, run, seen>>

BuildsNothing(n, s) ==
  /\ NothingBuilt(n, s)
  /\ UNCHANGED <<gaggle, index, waiting, run, seen, mishaps>>

\* Mutant: the leader adds the block before the log has it.
onNewBlockBuild_AddsFirst(n, s) ==
  LET b == builder[n].slot[s].base
  IN  /\ builder[n].slot[s].stage = "built"
      /\ appended' = IF leader = n THEN Append(appended, b) ELSE appended
      /\ tip' = IF leader = n /\ verifyNewBlock(n, b) THEN [tip EXCEPT ![n] = b] ELSE tip
      /\ builder' = SetSlot(n, s, "idle", 0)
      /\ UNCHANGED <<made, syncing, faults, log, leader, commit, elections, index, waiting,
                     run, seen, mishaps>>

\* A leader appends its block to the log; another node drops it.
onNewBlockBuild(n, s) ==
  /\ builder[n].slot[s].stage = "built"
  /\ appended' = IF leader = n THEN Append(appended, builder[n].slot[s].base) ELSE appended
  /\ builder' = SetSlot(n, s, "idle", 0)
  /\ UNCHANGED <<made, tip, syncing, faults, log, leader, commit, elections, index, waiting,
                 run, seen, mishaps>>

\* The entry has reached enough nodes in gaggle's messages, which the
\* RPCConnector hands to gossip and gets from it.
GaggleCommits ==
  /\ appended # <<>>
  /\ log' = Append(log, Head(appended))
  /\ appended' = Tail(appended)
  /\ UNCHANGED <<made, tip, syncing, builder, faults, leader, commit, elections, index,
                 waiting, run, seen, mishaps>>

-----------------------------------------------------------------------------
(***************************************************************************)
(* onCommitted.                                                            *)
(***************************************************************************)
\* A commit event: the call reads the commit index and asks for the entries
\* after benchmarkIndex.  (One that overlaps another counts as a fault.)
onCommitted(n, r) ==
  /\ ~ run[n][r].active /\ \A q \in 1..(r - 1) : run[n][q].active
  /\ \E i \in (commit[n] + 1)..(Len(log) - 1) :
       /\ commit' = [commit EXCEPT ![n] = i]
       /\ run' = [run EXCEPT ![n][r] = [active |-> TRUE, upto |-> i, next |-> index[n] + 1]]
  /\ LET overlaps == \E q \in Runs : run[n][q].active
     IN  UseFault(overlaps) /\ Blame("commits", overlaps)
  /\ UNCHANGED <<made, tip, syncing, builder, log, appended, leader, elections,
                 index, waiting, seen>>

\* getBlocks fails, which nothing catches: the event has no effect.
onCommittedFails(n) ==
  /\ \E i \in (commit[n] + 1)..(Len(log) - 1) : commit' = [commit EXCEPT ![n] = i]
  /\ UseFault(TRUE) /\ Blame("getBlocks", TRUE)
  /\ UNCHANGED <<made, tip, syncing, builder, log, appended, leader, elections, index,
                 waiting, run, seen>>

\* The next entry is added to the storage, which may reject it: that is
\* logged, and the next one follows.
CommitEntry(n, r) ==
  LET i == run[n][r].next
  IN  /\ run[n][r].active /\ i <= run[n][r].upto
      /\ commitBlock(n, Entry(i))
      /\ mishaps' = mishaps
           \cup (IF verifyNewBlock(n, Entry(i)) /\ UNCHANGED tip THEN {"not added"} ELSE {})
           \cup (IF builder'[n].last = Entry(i) /\ tip'[n] # Entry(i) THEN {"dropped"} ELSE {})
           \cup (IF Entry(i) \in ChainOf(tip[n]) /\ i \notin seen[n] THEN {"overtaken"} ELSE {})
      /\ run' = [run EXCEPT ![n][r].next = i + 1]
      /\ seen' = [seen EXCEPT ![n] = @ \cup {i}]
      /\ UNCHANGED <<made, syncing, gaggle, index, waiting>>

\* Mutant: the commit index is read again after the awaits.
EndRun_ReadsAgain(n, r) ==
  /\ run[n][r].active /\ run[n][r].next > run[n][r].upto
  /\ index' = [index EXCEPT ![n] = commit[n]]
  /\ run' = [run EXCEPT ![n][r] = IdleRun]
  /\ onLeaderElected(n, leader = n, commit[n])
  /\ UNCHANGED <<made, tip, syncing, gaggle, seen>>

\* Mutant: benchmarkIndex is not set.
EndRun_KeepsIndex(n, r) ==
  /\ run[n][r].active /\ run[n][r].next > run[n][r].upto
  /\ run' = [run EXCEPT ![n][r] = IdleRun]
  /\ onLeaderElected(n, leader = n, index[n])
  /\ UNCHANGED <<made, tip, syncing, gaggle, index, seen>>

\* All were given to the storage: benchmarkIndex becomes the index that was
\* read before the awaits, and the leader may go on.
EndRun(n, r) ==
  /\ run[n][r].active /\ run[n][r].next > run[n][r].upto
  /\ index' = [index EXCEPT ![n] = run[n][r].upto]
  /\ run' = [run EXCEPT ![n][r] = IdleRun]
  /\ onLeaderElected(n, leader = n, run[n][r].upto)
  /\ UNCHANGED <<made, tip, syncing, gaggle, seen>>

-----------------------------------------------------------------------------
(***************************************************************************)
(* Restarts, and the block sync.                                           *)
(***************************************************************************)
\* The consensus of a node restarts, with an empty log: it hears of all
\* entries again.  Its storage, another process, stays as it is.
Restart(n) ==
  /\ UseFault(TRUE)
  /\ builder' = [builder EXCEPT ![n] = NewBuilder]
  /\ commit' = [commit EXCEPT ![n] = -1]
  /\ index' = [index EXCEPT ![n] = -1]
  /\ waiting' = waiting \ {n}
  /\ run' = [run EXCEPT ![n] = [r \in Runs |-> IdleRun]]
  /\ seen' = [seen EXCEPT ![n] = {}]
  /\ leader' = IF leader = n THEN None ELSE leader
  /\ UNCHANGED <<made, tip, syncing, log, appended, elections, mishaps>>

\* (That a node is noticed to be behind counts as a fault.)
Sync(n) ==
  /\ (StartSync(n) /\ UseFault(TRUE)) \/ EndSync(n) \/ (\E m \in Nodes : SyncBlock(n, m))
  /\ UNCHANGED <<gaggle, index, waiting, run, seen, mishaps>>

-----------------------------------------------------------------------------
Work(n) ==
  \/ LeaderIntervalTick(n)
  \/ \E s \in Slots : Build(n, s) \/ onNewBlockBuild(n, s)
  \/ \E r \in Runs : CommitEntry(n, r) \/ EndRun(n, r)

Next ==
  \/ GaggleCommits
  \/ \E n \in Nodes :
       \/ Election(n) \/ Work(n) \/ Restart(n) \/ Sync(n)
       \/ \E s \in Slots : Poll(n, s) \/ BuildsNothing(n, s)
       \/ onCommittedFails(n)
       \/ \E r \in Runs : onCommitted(n, r)

Spec == Init /\ [][Next]_vars

\* Timers fire, promises resolve, gaggle replicates what it is given, tells
\* of it, and always has a leader again; the pool is not empty for ever.
FairSpec ==
  /\ Spec
  /\ WF_vars(GaggleCommits)
  /\ WF_vars(leader = None /\ \E n \in Nodes : Election(n))
  /\ \A n \in Nodes :
       /\ WF_vars(Work(n))
       /\ WF_vars(\E s \in Slots : Poll(n, s))
       /\ WF_vars(\E r \in Runs : onCommitted(n, r))

-----------------------------------------------------------------------------
(***************************************************************************)
(* Correctness.                                                            *)
(***************************************************************************)

(* A node never moves benchmarkIndex past an entry that it has not given   *)
(* to its storage since it started, though calls of onCommitted overlap    *)
(* and each sets the index it read before its awaits.                      *)
NoEntrySkipped == \A n \in Nodes : 0..index[n] \subseteq seen[n]

(* The storages hold different blocks of one height only if one of them    *)
(* did not add an entry that followed its last block: overlapping builds,  *)
(* changes of the leader, restarts and syncs never fork the chain.         *)
ForkOnlyIfNotAdded == Forked => "not added" \in mishaps

(* A leader that has seen the whole log remembers the last block of its    *)
(* storage, so that the block it builds next can be added, unless a sync   *)
(* brought a block before the log did, a late answer of the storage        *)
(* replaced a newer block, or the storage did not add a block that follows *)
(* its last, or hid that it dropped one.                                   *)
LeaderKnowsItsTip ==
  \A n \in Nodes :
    /\ leader = n /\ index[n] = Len(log) - 1
    /\ \A s \in Slots : builder[n].slot[s].stage # "fetch"
    /\ \A r \in Runs : ~ run[n][r].active
    => ~ Stale(n) \/ mishaps \cap {"overtaken", "late answer", "not added", "dropped"} # {}

(* Every node gets through the log some time, so that a leader that waits  *)
(* for that goes on, unless calls of onCommitted overlapped (the last to   *)
(* end may set an older index) or gaggle did not give the entries.         *)
NodesGetInSync ==
  \/ <>(mishaps \cap {"commits", "getBlocks"} # {})
  \/ \A n \in Nodes : <>[](index[n] = Len(log) - 1)
=============================================================================
