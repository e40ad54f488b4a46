--------------------------- MODULE BlockSyncProofs ---------------------------
(***************************************************************************)
(* For any nodes, heights, batch sizes and numbers of faults: the types,   *)
(* and that overlapping runs of appendBlocks and addBlock never leave a    *)
(* gap below lastBlock.                                                    *)
(***************************************************************************)
EXTENDS BlockSync, TLAPS

Jobs == [Nodes -> [Kinds -> Job]]

\* The runs after one of them is set to j.
Written(n, k, j) == job' = [job EXCEPT ![n][k] = j]

(* A run may be replaced by any run.                                       *)
LEMMA JobWritten ==
  ASSUME job \in Jobs, NEW n \in Nodes, NEW k \in Kinds, NEW j \in Job, Written(n, k, j)
  PROVE  job' \in Jobs
BY DEF Jobs, Written

(* All the other runs stay as they were.                                   *)
LEMMA JobAfter ==
  ASSUME job \in Jobs, NEW n \in Nodes, NEW k \in Kinds, NEW j, Written(n, k, j)
  PROVE  \A m \in Nodes, i \in Kinds :
           job'[m][i] = IF m = n /\ i = k THEN j ELSE job[m][i]
BY DEF Jobs, Written

(* A run keeps its type when its block is done.                            *)
LEMMA JobCleared ==
  ASSUME job \in Jobs, NEW n \in Nodes, NEW k \in Kinds,
         job' = [job EXCEPT ![n][k].cur = 0]
  PROVE  \E j \in Job : j.cur = 0 /\ Written(n, k, j)
<1> DEFINE j == [running |-> job[n][k].running, todo |-> job[n][k].todo, cur |-> 0]
<1>1. job[n][k] \in Job
  BY DEF Jobs
<1>2. j \in Job /\ [job[n][k] EXCEPT !.cur = 0] = j
  BY <1>1, SyncAssumption DEF Job
<1>3. [job EXCEPT ![n][k].cur = 0] = [job EXCEPT ![n][k] = [job[n][k] EXCEPT !.cur = 0]]
  BY DEF Jobs
<1> QED
  BY <1>2, <1>3 DEF Written

(* A run that starts is well-typed.                                        *)
LEMMA JobStart ==
  ASSUME job \in Jobs, NEW n \in Nodes, NEW k \in Kinds, NEW b \in SUBSET Heights,
         StartJob(n, k, b)
  PROVE  job' \in Jobs
<1>1. [running |-> TRUE, todo |-> b, cur |-> 0] \in Job
  BY SyncAssumption DEF Job
<1> QED
  BY <1>1, JobWritten DEF StartJob, Written

(* A run that takes its next block has verified it, or has none under way. *)
LEMMA JobBegins ==
  ASSUME job \in Jobs, NEW n \in Nodes, NEW k \in Kinds, BeginAdd(n, k)
  PROVE  \E j \in Job : Written(n, k, j) /\ j.cur \in {0, last[n] + 1}
<1>1. job[n][k] \in Job /\ job[n][k].todo \in SUBSET Heights
  BY DEF Jobs, Job
<1>2. PICK h \in job[n][k].todo : job' = [job EXCEPT ![n][k] =
        [job[n][k] EXCEPT !.todo = job[n][k].todo \ {h},
                          !.cur = IF verifyNewBlock(n, h) THEN h ELSE 0]]
  BY DEF BeginAdd
<1> DEFINE t == job[n][k].todo \ {h}
           c == IF verifyNewBlock(n, h) THEN h ELSE 0
<1>3. t \in SUBSET Heights /\ c \in 0..MaxHeight /\ c \in {0, last[n] + 1}
  BY <1>1, SyncAssumption DEF Heights, verifyNewBlock
<1> HIDE DEF t, c
<1>4. [job[n][k] EXCEPT !.todo = t, !.cur = c]
        = [running |-> job[n][k].running, todo |-> t, cur |-> c]
  <2> DEFINE r == job[n][k]
             s == [running |-> r.running, todo |-> t, cur |-> r.cur]
  <2>1. [r EXCEPT !.todo = t] = s
    BY <1>1 DEF Job
  <2>2. [s EXCEPT !.cur = c] = [running |-> r.running, todo |-> t, cur |-> c]
    OBVIOUS
  <2> HIDE DEF s
  <2> QED
    BY <2>1, <2>2
<1>5. [running |-> job[n][k].running, todo |-> t, cur |-> c] \in Job
  BY <1>1, <1>3 DEF Job
<1>6. Written(n, k, [running |-> job[n][k].running, todo |-> t, cur |-> c])
  BY <1>2, <1>4 DEF Written, t, c
<1> QED
  BY <1>3, <1>5, <1>6

(* The four forms of a message.                                            *)
LEMMA MessageForms ==
  ASSUME NEW n \in Nodes, NEW m \in Nodes
  PROVE  /\ \A h \in 0..MaxHeight, t \in Requests :
              [type |-> t, from |-> n, to |-> m, height |-> h] \in Message
         /\ \A b \in BOOLEAN :
              [type |-> "HasNewBlocksResponse", from |-> n, to |-> m, hasNewBlocks |-> b]
                \in Message
         /\ \A b \in SUBSET Heights :
              [type |-> "SendNewBlocksResponse", from |-> n, to |-> m, blocks |-> b] \in Message
BY DEF Message, Requests

(* What the receiver of a message relies on.                               *)
LEMMA MessageParts ==
  ASSUME NEW m \in Message
  PROVE  /\ m.from \in Nodes /\ m.to \in Nodes
         /\ m.type = "SendNewBlocksResponse" => m.blocks \in SUBSET Heights
BY DEF Message

-----------------------------------------------------------------------------
(* The initial states are well-typed.                                      *)
LEMMA TypeInit == Init => TypeOK
BY SyncAssumption DEF Init, TypeOK, Job, NoJob

(* So is what every action makes of a well-typed state.                    *)
LEMMA TypeStep == TypeOK /\ [Next]_vars => TypeOK'
<1> SUFFICES ASSUME TypeOK, [Next]_vars PROVE TypeOK'
  OBVIOUS
<1>0. job \in Jobs /\ Pollers \subseteq Nodes /\ MaxHeight \in Nat /\ MaxFaults \in Nat
  BY SyncAssumption DEF TypeOK, Jobs
<1>1. CASE NewBlock
  BY <1>0, <1>1 DEF NewBlock, TypeOK
<1>2. CASE \E n \in Nodes, h \in Heights : AddBlock(n, h)
  <2> PICK n \in Nodes, h \in Heights : AddBlock(n, h)
    BY <1>2
  <2>1. \E b \in SUBSET Heights : StartJob(n, "rpc", b)
    BY DEF AddBlock, TypeOK
  <2>2. job' \in Jobs
    BY <1>0, <2>1, JobStart DEF Kinds
  <2> QED
    BY <2>2 DEF AddBlock, TypeOK, Jobs
<1>3. CASE \E n \in Nodes, k \in Kinds : BeginAdd(n, k)
  <2> PICK n \in Nodes, k \in Kinds : BeginAdd(n, k)
    BY <1>3
  <2>2. job' \in Jobs
    BY <1>0, JobBegins, JobWritten
  <2> QED
    BY <2>2 DEF BeginAdd, TypeOK, Jobs
<1>4. CASE \E n \in Nodes, k \in Kinds : EndAdd(n, k)
  <2> PICK n \in Nodes, k \in Kinds : EndAdd(n, k)
    BY <1>4
  <2>1. job[n][k].cur \in Heights
    BY <1>0 DEF EndAdd, Jobs, Job, Heights
  <2>2. job' \in Jobs
    BY <1>0, JobCleared, JobWritten DEF EndAdd
  <2> QED
    BY <1>0, <2>1, <2>2 DEF EndAdd, TypeOK, Jobs, Heights
<1>5. CASE \E n \in Nodes, k \in Kinds : AddFails(n, k)
  <2> PICK n \in Nodes, k \in Kinds : AddFails(n, k)
    BY <1>5
  <2>1. job[n][k].cur \in Heights
    BY <1>0 DEF AddFails, Jobs, Job, Heights
  <2>2. job' \in Jobs
    BY <1>0, JobCleared, JobWritten DEF AddFails
  <2> QED
    BY <1>0, <2>1, <2>2 DEF AddFails, TypeOK, Jobs
<1>6. CASE \E n \in Pollers : PollForNewBlocks(n)
  <2> PICK n \in Nodes : PollForNewBlocks(n)
    BY <1>0, <1>6
  <2>1. \E b \in SUBSET Heights : StartJob(n, "poll", b)
    BY DEF PollForNewBlocks, TypeOK
  <2>2. job' \in Jobs
    BY <1>0, <2>1, JobStart DEF Kinds
  <2> QED
    BY <2>2 DEF PollForNewBlocks, off, TypeOK, Jobs
<1>7. CASE \E n \in Nodes, k \in Kinds : EndJob(n, k)
  <2> PICK n \in Nodes, k \in Kinds : EndJob(n, k)
    BY <1>7
  <2>1. job' \in Jobs
    <3>1. NoJob \in Job
      BY <1>0 DEF NoJob, Job
    <3> QED
      BY <1>0, <3>1, JobWritten DEF EndJob, Written
  <2>2. msgs' \subseteq Message
    <3>1. \A m \in Nodes : [type |-> "HasNewBlocksMessage", from |-> n, to |-> m,
                            height |-> last[n]] \in Message
      BY MessageForms DEF TypeOK, Requests
    <3> QED
      BY <3>1 DEF EndJob, TypeOK
  <2> QED
    BY <2>1, <2>2 DEF EndJob, TypeOK, Jobs
<1>8. CASE \E m \in msgs : OnHasNewBlocksMessage(m)
  <2> PICK m \in Message : OnHasNewBlocksMessage(m)
    BY <1>8 DEF TypeOK
  <2>1. hasNewBlocks(m.to, m.height) \in BOOLEAN
    BY DEF hasNewBlocks
  <2>2. msgs' \subseteq Message
    BY <2>1, MessageParts, MessageForms DEF OnHasNewBlocksMessage, TypeOK
  <2> QED
    BY <2>2 DEF OnHasNewBlocksMessage, TypeOK
<1>9. CASE \E m \in msgs : OnHasNewBlocksResponse(m)
  <2> PICK m \in Message : OnHasNewBlocksResponse(m)
    BY <1>9 DEF TypeOK
  <2>1. m.from \in Nodes /\ m.to \in Nodes /\ last[m.to] \in 0..MaxHeight
    BY MessageParts DEF TypeOK
  <2>2. [type |-> "SendNewBlocks", from |-> m.to, to |-> m.from, height |-> last[m.to]]
          \in Message
    BY <2>1, MessageForms DEF Requests
  <2>3. msgs' \subseteq Message
    BY <2>2 DEF OnHasNewBlocksResponse, TypeOK
  <2>4. peer' \in [Nodes -> Nodes \cup {None}]
    BY <2>1 DEF OnHasNewBlocksResponse, on, off, TypeOK
  <2> QED
    BY <2>3, <2>4 DEF OnHasNewBlocksResponse, TypeOK
<1>10. CASE \E m \in msgs : OnSendNewBlocks(m)
  <2> PICK m \in Message : OnSendNewBlocks(m)
    BY <1>10 DEF TypeOK
  <2>1. Batches(m.to, m.height) \subseteq SUBSET Heights
    BY DEF Batches
  <2>2. msgs' \subseteq Message
    BY <2>1, MessageParts, MessageForms DEF OnSendNewBlocks, TypeOK
  <2> QED
    BY <2>2 DEF OnSendNewBlocks, TypeOK
<1>11. CASE \E m \in msgs : OnSendNewBlocksResponse(m)
  <2> PICK m \in Message : OnSendNewBlocksResponse(m)
    BY <1>11 DEF TypeOK
  <2> QED
    BY MessageParts DEF OnSendNewBlocksResponse, TypeOK
<1>12. CASE \E m \in msgs : LoseMessage(m)
  BY <1>0, <1>12 DEF LoseMessage, TypeOK
<1>13. CASE UNCHANGED vars
  BY <1>13 DEF vars, TypeOK
<1> QED
  BY <1>1, <1>2, <1>3, <1>4, <1>5, <1>6, <1>7, <1>8, <1>9, <1>10, <1>11, <1>12, <1>13
     DEF Next

(* Heights, queues, the runs of appendBlocks and the messages keep their   *)
(* types: no batch and no message names a block beyond the chain's bound.  *)
THEOREM TypeCorrect == Spec => []TypeOK
<1> QED
  BY TypeInit, TypeStep, PTL DEF Spec

-----------------------------------------------------------------------------
(***************************************************************************)
(* A block under way was verified against a lastBlock below which nothing  *)
(* was missing, and nothing is ever taken from the disk.                   *)
(***************************************************************************)
PrefixStored(n, h) == \A i \in 1..h : i \in stored[n]

NoGap ==
  \A n \in Nodes :
    /\ PrefixStored(n, last[n])
    /\ \A k \in Kinds : job[n][k].cur # 0 => PrefixStored(n, job[n][k].cur - 1)

(* The storages start at the genesis block with nothing above it.          *)
LEMMA NoGapInit == Init => NoGap
BY DEF Init, NoGap, PrefixStored, NoJob

(* An addBlock that ends extends the disk by the block after a stored      *)
(* prefix; every other step leaves disk, lastBlock and the blocks under    *)
(* way as they are, or starts a block right after lastBlock.               *)
LEMMA NoGapStep == TypeOK /\ NoGap /\ [Next]_vars => NoGap'
<1> SUFFICES ASSUME TypeOK, NoGap, [Next]_vars PROVE NoGap'
  OBVIOUS
<1>0. job \in Jobs /\ Pollers \subseteq Nodes
  BY SyncAssumption DEF TypeOK, Jobs
<1>a. ASSUME NEW n \in Nodes, NEW k \in Kinds, NEW j, j.cur = 0,
             Written(n, k, j), UNCHANGED <<last, stored>>
      PROVE  NoGap'
  <2>1. \A m \in Nodes, i \in Kinds : job'[m][i].cur \in {0, job[m][i].cur}
    BY <1>0, <1>a, JobAfter
  <2> QED
    BY <1>a, <2>1 DEF NoGap, PrefixStored
<1>b. ASSUME UNCHANGED <<last, stored, job>>
      PROVE  NoGap'
  BY <1>b DEF NoGap, PrefixStored
<1>1. CASE \E n \in Nodes, h \in Heights : AddBlock(n, h)
  <2> PICK n \in Nodes, h \in Heights : AddBlock(n, h)
    BY <1>1
  <2>1. \E b : Written(n, "rpc", [running |-> TRUE, todo |-> b, cur |-> 0])
    BY DEF AddBlock, StartJob, Written
  <2> QED
    BY <1>a, <2>1 DEF AddBlock, Kinds
<1>2. CASE \E n \in Nodes, k \in Kinds : BeginAdd(n, k)
  <2> PICK n \in Nodes, k \in Kinds : BeginAdd(n, k)
    BY <1>2
  <2>1. PICK j \in Job : Written(n, k, j) /\ j.cur \in {0, last[n] + 1}
    BY <1>0, JobBegins
  <2>2. \A m \in Nodes, i \in Kinds :
          job'[m][i].cur = IF m = n /\ i = k THEN j.cur ELSE job[m][i].cur
    BY <1>0, <2>1, JobAfter
  <2>3. UNCHANGED <<last, stored>> /\ last[n] \in Int
    BY DEF BeginAdd, TypeOK
  <2> QED
    BY <2>1, <2>2, <2>3 DEF NoGap, PrefixStored
<1>3. CASE \E n \in Nodes, k \in Kinds : EndAdd(n, k)
  <2> PICK n \in Nodes, k \in Kinds : EndAdd(n, k)
    BY <1>3
  <2> DEFINE c == job[n][k].cur
  <2>1. c \in Nat /\ \A i \in 1..(c - 1) : i \in stored[n]
    BY <1>0 DEF EndAdd, Jobs, Job, NoGap, PrefixStored
  <2>2. /\ stored' = [stored EXCEPT ![n] = stored[n] \cup {c}]
        /\ last' = [last EXCEPT ![n] = c]
    BY DEF EndAdd, TypeOK
  <2>3. \A m \in Nodes, i \in Kinds : job'[m][i].cur \in {0, job[m][i].cur}
    BY <1>0, JobCleared, JobAfter DEF EndAdd
  <2> HIDE DEF c
  <2>4. \A m \in Nodes : stored[m] \subseteq stored'[m]
    BY <2>2 DEF TypeOK
  <2>5. PrefixStored(n, last[n])'
    <3>1. \A i \in 1..c : i \in 1..(c - 1) \/ i = c
      BY <2>1
    <3> QED
      BY <2>1, <2>2, <3>1 DEF TypeOK, PrefixStored
  <2> QED
    BY <2>2, <2>3, <2>4, <2>5 DEF TypeOK, NoGap, PrefixStored
<1>4. CASE \E n \in Nodes, k \in Kinds : AddFails(n, k)
  <2> PICK n \in Nodes, k \in Kinds : AddFails(n, k)
    BY <1>4
  <2>1. last' = last /\ \A m \in Nodes : stored[m] \subseteq stored'[m]
    BY DEF AddFails, TypeOK
  <2>2. \A m \in Nodes, i \in Kinds : job'[m][i].cur \in {0, job[m][i].cur}
    BY <1>0, JobCleared, JobAfter DEF AddFails
  <2> QED
    BY <2>1, <2>2 DEF NoGap, PrefixStored
<1>5. CASE \E n \in Pollers : PollForNewBlocks(n)
  <2> PICK n \in Nodes : PollForNewBlocks(n)
    BY <1>0, <1>5
  <2>1. /\ Written(n, "poll", [running |-> TRUE, todo |-> queue[n], cur |-> 0])
        /\ UNCHANGED <<last, stored>>
    BY DEF PollForNewBlocks, StartJob, Written
  <2> QED
    BY <1>a, <2>1 DEF Kinds
<1>6. CASE \E n \in Nodes, k \in Kinds : EndJob(n, k)
  <2> PICK n \in Nodes, k \in Kinds : EndJob(n, k)
    BY <1>6
  <2>1. Written(n, k, NoJob) /\ NoJob.cur = 0 /\ UNCHANGED <<last, stored>>
    BY DEF EndJob, NoJob, Written
  <2> HIDE DEF NoJob
  <2> QED
    BY <1>a, <2>1
<1>7. CASE NewBlock \/ UNCHANGED vars
  BY <1>b, <1>7 DEF NewBlock, vars
<1>8. CASE \E m \in msgs : \/ OnHasNewBlocksMessage(m) \/ OnHasNewBlocksResponse(m)
                           \/ OnSendNewBlocks(m) \/ OnSendNewBlocksResponse(m)
                           \/ LoseMessage(m)
  BY <1>b, <1>8 DEF OnHasNewBlocksMessage, OnHasNewBlocksResponse, OnSendNewBlocks,
     OnSendNewBlocksResponse, LoseMessage
<1> QED
  BY <1>1, <1>2, <1>3, <1>4, <1>5, <1>6, <1>7, <1>8 DEF Next

(* Although the poll and the RPC call addBlock at one time, which its      *)
(* comment forbids (block-storage.ts:81), on one chain the overlapping     *)
(* calls never leave a missing block below lastBlock: getBlocks finds      *)
(* every key it asks for.                                                  *)
THEOREM OverlapLeavesNoGap == Spec => []NoGapBelowLastBlock
<1>1. TypeOK /\ NoGap => NoGapBelowLastBlock
  BY DEF TypeOK, NoGap, PrefixStored, NoGapBelowLastBlock
<1> QED
  BY <1>1, TypeCorrect, NoGapInit, NoGapStep, PTL DEF Spec
=============================================================================
