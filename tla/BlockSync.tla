------------------------------ MODULE BlockSync ------------------------------
(***************************************************************************)
(* The block storage services of several nodes (block-storage-service.ts   *)
(* with block-storage-sync.ts): the addBlock calls of their consensus, and *)
(* the protocol by which a node that missed blocks gets them from a peer.  *)
(*                                                                         *)
(* All nodes follow one chain (forks at one node are the subject of module *)
(* BlockStorage), so a block stands for its height.  A call of addBlock is *)
(* its verification, then its end: between the two it waits for the disk   *)
(* and the transaction pool, and other work of the node goes on.           *)
(***************************************************************************)
EXTENDS Integers, FiniteSets, FiniteSetsExt

CONSTANTS Nodes,
          Leader,             \* the node whose consensus makes new blocks
          None,               \* no peer (sync.node is undefined)
          BatchSize,          \* config.batchSize
          BatchesPerInterval, \* config.batchesPerInterval
          Pollers,            \* bound: the nodes whose poll timer runs
          MaxHeight,          \* bound: the chain ends here
          MaxInFlight,        \* bound: messages of earlier polls in flight at the next
          MaxFaults           \* bound: lost messages and failed writes or reports

ASSUME SyncAssumption ==
  /\ Leader \in Nodes /\ None \notin Nodes /\ Pollers \subseteq Nodes
  /\ BatchSize \in Nat \ {0} /\ BatchesPerInterval \in Nat \ {0}
  /\ MaxHeight \in Nat /\ MaxFaults \in Nat /\ MaxInFlight \in Nat

VARIABLES
  tip,    \* the height of the last block the leader's consensus made
  last,   \* per node, the height of blockStorage.lastBlock
  stored, \* per node, the heights of the blocks on its disk
  queue,  \* per node, the blocks in the queue of BlockStorageSync
  peer,   \* per node, sync.node
  job,    \* per node, the run of its poll and the run of its addBlock RPC
  msgs,   \* gossip messages in flight
  faults  \* how many messages were lost and writes or reports failed

vars == <<tip, last, stored, queue, peer, job, msgs, faults>>

Heights == 1..MaxHeight

\* todo: the blocks still to be added; cur: the one being added, 0 if none.
\* A second poll or RPC while one of its kind runs is left out (a bound).
Kinds == {"poll", "rpc"}
Job == [running : BOOLEAN, todo : SUBSET Heights, cur : 0..MaxHeight]
NoJob == [running |-> FALSE, todo |-> {}, cur |-> 0]

Message ==
  [type : {"HasNewBlocksMessage", "SendNewBlocks"}, from : Nodes, to : Nodes, height : 0..MaxHeight]
    \cup
  [type : {"HasNewBlocksResponse"}, from : Nodes, to : Nodes, hasNewBlocks : BOOLEAN]
    \cup
  [type : {"SendNewBlocksResponse"}, from : Nodes, to : Nodes, blocks : SUBSET Heights]

TypeOK ==
  /\ tip \in 0..MaxHeight
  /\ last \in [Nodes -> 0..MaxHeight]
  /\ stored \in [Nodes -> SUBSET Heights]
  /\ queue \in [Nodes -> SUBSET Heights]
  /\ peer \in [Nodes -> Nodes \cup {None}]
  /\ job \in [Nodes -> [Kinds -> Job]]
  /\ msgs \subseteq Message
  /\ faults \in 0..MaxFaults

Init ==
  /\ tip = 0
  /\ last = [n \in Nodes |-> 0]
  /\ stored = [n \in Nodes |-> {}]
  /\ queue = [n \in Nodes |-> {}]
  /\ peer = [n \in Nodes |-> None]
  /\ job = [n \in Nodes |-> [k \in Kinds |-> NoJob]]
  /\ msgs = {}
  /\ faults = 0

-----------------------------------------------------------------------------
(***************************************************************************)
(* addBlock and appendBlocks.                                              *)
(***************************************************************************)
\* The peer a storage syncs with.
isSyncing(n) == peer[n] # None
isSyncingWith(n, m) == peer[n] = m
on(n, m) == peer' = [peer EXCEPT ![n] = m]
off(n) == peer' = [peer EXCEPT ![n] = None]

StartJob(n, k, blocks) ==
  /\ ~ job[n][k].running
  /\ job' = [job EXCEPT ![n][k] = [running |-> TRUE, todo |-> blocks, cur |-> 0]]

\* The leader's consensus makes the block after the last one it committed.
NewBlock ==
  /\ tip < MaxHeight
  /\ last[Leader] = tip
  /\ tip' = tip + 1
  /\ UNCHANGED <<last, stored, queue, peer, job, msgs, faults>>

\* The RPC addBlock: while syncing the block joins the queue, which is then
\* drained; otherwise it is added by itself.  (Outside a sync a block at or
\* below lastBlock is rejected with no effect; that call is left out.)
AddBlock(n, h) ==
  /\ h <= tip
  /\ last[n] < h \/ isSyncing(n)
  /\ IF isSyncing(n)
     THEN /\ StartJob(n, "rpc", queue[n] \cup {h})
          /\ queue' = [queue EXCEPT ![n] = {}]
     ELSE /\ StartJob(n, "rpc", {h})
          /\ UNCHANGED queue
  /\ UNCHANGED <<tip, last, stored, peer, msgs, faults>>

\* Mutant: any later height is accepted.
verifyNewBlock_AnyLater(n, h) == h > last[n]

verifyNewBlock(n, h) == h = last[n] + 1

\* The next block in the order of heights is verified; one that does not
\* follow lastBlock is logged and dropped.
BeginAdd(n, k) ==
  /\ job[n][k].cur = 0
  /\ \E h \in job[n][k].todo :
       /\ \A i \in job[n][k].todo : h <= i
       /\ job' = [job EXCEPT ![n][k] =
            [job[n][k] EXCEPT !.todo = @ \ {h}, !.cur = IF verifyNewBlock(n, h) THEN h ELSE 0]]
  /\ UNCHANGED <<tip, last, stored, queue, peer, msgs, faults>>

\* The block is on disk and reported, and becomes lastBlock.
EndAdd(n, k) ==
  /\ job[n][k].cur # 0
  /\ stored' = [stored EXCEPT ![n] = @ \cup {job[n][k].cur}]
  /\ last' = [last EXCEPT ![n] = job[n][k].cur]
  /\ job' = [job EXCEPT ![n][k].cur = 0]
  /\ UNCHANGED <<tip, queue, peer, msgs, faults>>

\* The write or the report fails; the block may be on disk already.
AddFails(n, k) ==
  /\ faults < MaxFaults /\ faults' = faults + 1
  /\ job[n][k].cur # 0
  /\ stored' \in {stored, [stored EXCEPT ![n] = @ \cup {job[n][k].cur}]}
  /\ job' = [job EXCEPT ![n][k].cur = 0]
  /\ UNCHANGED <<tip, last, queue, peer, msgs>>

-----------------------------------------------------------------------------
(***************************************************************************)
(* The timer of pollForNewBlocks, and the messages.                        *)
(***************************************************************************)
Requests == {"HasNewBlocksMessage", "SendNewBlocks"}

\* What is left in flight of the polls of n: its requests, and the answers.
InFlight(n) == { m \in msgs : n = IF m.type \in Requests THEN m.from ELSE m.to }

\* Mutant: the poll does not switch the sync off.
PollForNewBlocks_KeepsPeer(n) ==
  /\ Cardinality(InFlight(n)) <= MaxInFlight
  /\ StartJob(n, "poll", queue[n])
  /\ queue' = [queue EXCEPT ![n] = {}]
  /\ UNCHANGED <<tip, last, stored, peer, msgs, faults>>

\* sync.off(), then appendBlocks drains the queue.
PollForNewBlocks(n) ==
  /\ Cardinality(InFlight(n)) <= MaxInFlight
  /\ StartJob(n, "poll", queue[n])
  /\ queue' = [queue EXCEPT ![n] = {}]
  /\ off(n)
  /\ UNCHANGED <<tip, last, stored, msgs, faults>>

\* appendBlocks or addBlock is done; a poll goes on to its broadcast.
EndJob(n, k) ==
  /\ job[n][k].running /\ job[n][k].cur = 0 /\ job[n][k].todo = {}
  /\ job' = [job EXCEPT ![n][k] = NoJob]
  /\ msgs' = IF k = "rpc" THEN msgs
             ELSE msgs \cup { [type |-> "HasNewBlocksMessage", from |-> n, to |-> m,
                               height |-> last[n]] : m \in Nodes \ {n} }
  /\ UNCHANGED <<tip, last, stored, queue, peer, faults>>

hasNewBlocks(n, height) == last[n] > height

OnHasNewBlocksMessage(m) ==
  /\ m \in msgs /\ m.type = "HasNewBlocksMessage"
  /\ msgs' = (msgs \ {m}) \cup
       {[type |-> "HasNewBlocksResponse", from |-> m.to, to |-> m.from,
         hasNewBlocks |-> hasNewBlocks(m.to, m.height)]}
  /\ UNCHANGED <<tip, last, stored, queue, peer, job, faults>>

OnHasNewBlocksResponse(m) ==
  /\ m \in msgs /\ m.type = "HasNewBlocksResponse"
  /\ LET n == m.to IN
       \/ /\ ~ m.hasNewBlocks /\ isSyncingWith(n, m.from)
          /\ off(n)
          /\ msgs' = msgs \ {m}
       \/ /\ m.hasNewBlocks /\ ~ isSyncing(n)
          /\ on(n, m.from)
          /\ msgs' = (msgs \ {m}) \cup
               {[type |-> "SendNewBlocks", from |-> n, to |-> m.from, height |-> last[n]]}
       \/ /\ IF m.hasNewBlocks THEN isSyncing(n) ELSE ~ isSyncingWith(n, m.from)
          /\ msgs' = msgs \ {m}
          /\ UNCHANGED peer
  /\ UNCHANGED <<tip, last, stored, queue, job, faults>>

\* Mutant: the range runs one block past lastBlock.
Batches_PastTheEnd(n, height) ==
  { (height + 1 + i * BatchSize)..Min({last[n] + 1, height + (i + 1) * BatchSize}) :
      i \in 0..(BatchesPerInterval - 1) } \ {{}}

\* getBlocks(height, batchSize * batchSize), cut into batches.
Batches(n, height) ==
  LET upto == Min({last[n], height + BatchSize * BatchSize})
      batch(i) == {h \in Heights : /\ height + i * BatchSize < h
                                   /\ h <= height + (i + 1) * BatchSize
                                   /\ h <= upto}
  IN  { batch(i) : i \in 0..(BatchesPerInterval - 1) } \ {{}}

OnSendNewBlocks(m) ==
  /\ m \in msgs /\ m.type = "SendNewBlocks"
  /\ msgs' = (msgs \ {m}) \cup
       { [type |-> "SendNewBlocksResponse", from |-> m.to, to |-> m.from, blocks |-> b] :
           b \in Batches(m.to, m.height) }
  /\ UNCHANGED <<tip, last, stored, queue, peer, job, faults>>

\* The blocks are queued, whoever sent them and whether or not n is syncing.
OnSendNewBlocksResponse(m) ==
  /\ m \in msgs /\ m.type = "SendNewBlocksResponse"
  /\ queue' = [queue EXCEPT ![m.to] = @ \cup m.blocks]
  /\ msgs' = msgs \ {m}
  /\ UNCHANGED <<tip, last, stored, peer, job, faults>>

LoseMessage(m) ==
  /\ faults < MaxFaults /\ faults' = faults + 1
  /\ m \in msgs
  /\ msgs' = msgs \ {m}
  /\ UNCHANGED <<tip, last, stored, queue, peer, job>>

-----------------------------------------------------------------------------
Next ==
  \/ NewBlock
  \/ \E n \in Nodes, h \in Heights : AddBlock(n, h)
  \/ \E n \in Nodes, k \in Kinds : BeginAdd(n, k)
  \/ \E n \in Nodes, k \in Kinds : EndAdd(n, k)
  \/ \E n \in Nodes, k \in Kinds : AddFails(n, k)
  \/ \E n \in Pollers : PollForNewBlocks(n)
  \/ \E n \in Nodes, k \in Kinds : EndJob(n, k)
  \/ \E m \in msgs : OnHasNewBlocksMessage(m)
  \/ \E m \in msgs : OnHasNewBlocksResponse(m)
  \/ \E m \in msgs : OnSendNewBlocks(m)
  \/ \E m \in msgs : OnSendNewBlocksResponse(m)
  \/ \E m \in msgs : LoseMessage(m)

Spec == Init /\ [][Next]_vars

(***************************************************************************)
(* Fairness, all of it weak.  The event loop runs every continuation, the  *)
(* poll timer fires again and again, gossip delivers what it does not      *)
(* lose, and the leader's consensus offers its block to its own storage    *)
(* until it is in.                                                         *)
(***************************************************************************)
Fairness ==
  /\ \A n \in Nodes, k \in Kinds :
       WF_vars(BeginAdd(n, k)) /\ WF_vars(EndAdd(n, k)) /\ WF_vars(EndJob(n, k))
  /\ \A n \in Pollers : WF_vars(PollForNewBlocks(n))
  /\ WF_vars(AddBlock(Leader, tip))
  /\ \A m \in { x \in Message : x.from # x.to } :
       WF_vars(\/ OnHasNewBlocksMessage(m) \/ OnHasNewBlocksResponse(m)
               \/ OnSendNewBlocks(m) \/ OnSendNewBlocksResponse(m))

FairSpec == Spec /\ Fairness

-----------------------------------------------------------------------------
(***************************************************************************)
(* Properties.                                                             *)
(***************************************************************************)
(* Whatever runs of appendBlocks and addBlock overlap, every block up to   *)
(* lastBlock is on disk, so that getBlocks never meets a missing key.      *)
NoGapBelowLastBlock == \A n \in Nodes : 1..last[n] \subseteq stored[n]

(* Every node gets every block and stays there, although messages are      *)
(* lost, batches overtake each other, and writes fail.                     *)
Converges == <>[](\A n \in Nodes : last[n] = tip)
=============================================================================
