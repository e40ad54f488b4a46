--------------------------- MODULE TransactionPool ---------------------------
(***************************************************************************)
(* The transaction pool service of the node that builds the blocks: the    *)
(* pending pool, the committed pool, their clean-up timers, and the way of *)
(* a transaction from a client or a peer into a block and back as a        *)
(* receipt.                                                                *)
(*                                                                         *)
(* A transaction stands for its id (the hash of header and body).  Time is *)
(* the node's clock in ticks; the timestamp in a transaction comes from    *)
(* the client, whose clock may run ahead of the node's by MaxSkew.         *)
(***************************************************************************)
EXTENDS Integers, FiniteSets

CONSTANTS Txs,               \* the transactions clients and peers send
          Timestamp,         \* header.timestamp of each
          ValidTxs,          \* those with version 0, a good signature and good addresses
          PendingLifespan,   \* transactionLifespanMs of the pending pool
          CommittedLifespan, \* transactionLifespanMs of the committed pool
          MaxSkew,           \* how far a timestamp may be ahead of the node's clock
          VerifySubscription,\* validation asks the subscription manager, over RPC
          BlockSizeLimit,    \* config.blockSizeLimit of the block builder
          MaxTime            \* bound: the clock stops here

ASSUME PoolAssumption ==
  /\ Timestamp \in [Txs -> Nat]
  /\ PendingLifespan \in Nat /\ CommittedLifespan \in Nat
  /\ MaxSkew \in Nat /\ MaxTime \in Nat

None == -1                   \* no entry in the committed pool
Sources == {"rpc", "gossip"}

VARIABLES
  now,        \* Date.now()
  pending,    \* the keys of pendingTransactions
  committed,  \* committedTransactions: the entryTimestamp of each id, or None
  validating, \* calls of storePendingTransaction that await the validator
  announced,  \* the transactions broadcast to the other nodes
  block,      \* the transactions of the block being built, {} when none is
  commits,    \* history: in how many blocks each transaction was committed
  overlap     \* history: those committed while a validation of them was awaited

vars == <<now, pending, committed, validating, announced, block, commits, overlap>>

TypeOK ==
  /\ now \in 0..MaxTime
  /\ pending \subseteq Txs
  /\ committed \in [Txs -> 0..MaxTime \cup {None}]
  /\ validating \subseteq [tx : Txs, src : Sources]
  /\ announced \subseteq Txs
  /\ block \subseteq Txs
  /\ commits \in [Txs -> Nat]
  /\ overlap \subseteq Txs

Init ==
  /\ now = 0
  /\ pending = {}
  /\ committed = [tx \in Txs |-> None]
  /\ validating = {}
  /\ announced = {}
  /\ block = {}
  /\ commits = [tx \in Txs |-> 0]
  /\ overlap = {}

-----------------------------------------------------------------------------
isExpired(timestamp, lifespan) == timestamp + lifespan < now
isTransactionExpired(tx) == isExpired(Timestamp[tx], PendingLifespan)

\* CommittedTransactionPool
hasTransactionWithId(tx) == committed[tx] # None

\* Mutant: only the pending pool is asked.
IsUnique_PendingOnly(tx) == tx \notin pending

\* validateTransactionUniqueOrThrow
IsUnique(tx) == tx \notin pending /\ ~ hasTransactionWithId(tx)

\* The end of storePendingTransaction, and for a client's transaction the
\* broadcast that addNewPendingTransaction makes after it.
Store(tx, src) ==
  /\ pending' = pending \cup {tx}
  /\ announced' = IF src = "rpc" THEN announced \cup {tx} ELSE announced

\* A transaction of a client or a peer is handled up to its first real wait: the uniqueness and expiry checks, and
\* the checks of the validator that need no other service.  Without a
\* subscription check nothing is waited for and the transaction is stored.
Receive(tx, src) ==
  /\ Timestamp[tx] <= now + MaxSkew
  /\ IsUnique(tx)
  /\ ~ isTransactionExpired(tx)
  /\ tx \in ValidTxs
  /\ IF VerifySubscription
     THEN /\ validating' = validating \cup {[tx |-> tx, src |-> src]}
          /\ UNCHANGED <<pending, announced>>
     ELSE /\ Store(tx, src)
          /\ UNCHANGED validating
  /\ UNCHANGED <<now, committed, block, commits, overlap>>

addNewPendingTransaction(tx) == Receive(tx, "rpc")

\* A peer's message of type newTransaction; others are dropped.
gossipMessageReceived(tx) == Receive(tx, "gossip")

\* The subscription manager answers that the subscription is valid.
ValidationSucceeds(v) ==
  /\ v \in validating
  /\ validating' = validating \ {v}
  /\ Store(v.tx, v.src)
  /\ UNCHANGED <<now, committed, block, commits, overlap>>

\* It answers that it is not, or the call fails.
ValidationFails(v) ==
  /\ v \in validating
  /\ validating' = validating \ {v}
  /\ UNCHANGED <<now, pending, committed, announced, block, commits, overlap>>

-----------------------------------------------------------------------------
\* The block builder takes getAllPendingTransactions, capped at its limit.
BuildBlock ==
  /\ block = {}
  /\ \E S \in SUBSET pending :
       /\ S # {}
       /\ \/ S = pending /\ Cardinality(S) <= BlockSizeLimit
          \/ Cardinality(S) = BlockSizeLimit
       /\ block' = S
  /\ UNCHANGED <<now, pending, committed, validating, announced, commits, overlap>>

\* The virtual machine fails, or the block is not appended.
BuildFails ==
  /\ block # {}
  /\ block' = {}
  /\ UNCHANGED <<now, pending, committed, validating, announced, commits, overlap>>

\* Mutant: the committed pool keeps an expiry time in place of the entry time.
addCommittedTransactions_KeepsExpiry(txs) ==
  [tx \in Txs |-> IF tx \in txs THEN now + CommittedLifespan ELSE committed[tx]]

\* The receipts of a block enter the committed pool.
addCommittedTransactions(txs) ==
  [tx \in Txs |-> IF tx \in txs THEN now ELSE committed[tx]]

\* The block is appended and block storage calls markCommittedTransactions.
MarkCommittedTransactions ==
  /\ block # {}
  /\ committed' = addCommittedTransactions(block)
  /\ pending' = pending \ block
  /\ block' = {}
  /\ commits' = [tx \in Txs |-> IF tx \in block THEN commits[tx] + 1 ELSE commits[tx]]
  /\ overlap' = overlap \cup { tx \in block : \E v \in validating : v.tx = tx }
  /\ UNCHANGED <<now, validating, announced>>

-----------------------------------------------------------------------------
\* Mutant: the condition is the wrong way round.
ClearExpiredPending_Inverted ==
  /\ pending' = { tx \in pending : isTransactionExpired(tx) }
  /\ UNCHANGED <<now, committed, validating, announced, block, commits, overlap>>

\* Mutant: the committed pool has the lifespan of the pending pool.
ClearExpiredCommitted_PendingLifespan ==
  /\ committed' = [tx \in Txs |->
       IF committed[tx] # None /\ isExpired(committed[tx], PendingLifespan)
       THEN None ELSE committed[tx]]
  /\ UNCHANGED <<now, pending, validating, announced, block, commits, overlap>>

\* What the clean-up timers of the two pools do.
ClearExpiredPending ==
  /\ pending' = { tx \in pending : ~ isTransactionExpired(tx) }
  /\ UNCHANGED <<now, committed, validating, announced, block, commits, overlap>>

ClearExpiredCommitted ==
  /\ committed' = [tx \in Txs |->
       IF committed[tx] # None /\ isExpired(committed[tx], CommittedLifespan)
       THEN None ELSE committed[tx]]
  /\ UNCHANGED <<now, pending, validating, announced, block, commits, overlap>>

\* A timer is stopped when it fires, and started again at the end.
CleanupTimer == ClearExpiredPending \/ ClearExpiredCommitted

Tick ==
  /\ now < MaxTime
  /\ now' = now + 1
  /\ UNCHANGED <<pending, committed, validating, announced, block, commits, overlap>>

-----------------------------------------------------------------------------
Next ==
  \/ \E tx \in Txs : addNewPendingTransaction(tx) \/ gossipMessageReceived(tx)
  \/ \E v \in validating : ValidationSucceeds(v)
  \/ \E v \in validating : ValidationFails(v)
  \/ BuildBlock
  \/ BuildFails
  \/ MarkCommittedTransactions
  \/ CleanupTimer
  \/ Tick

Spec == Init /\ [][Next]_vars

(***************************************************************************)
(* The timers fire again and again, time passes, and every call of the     *)
(* subscription manager is answered or fails.                              *)
(***************************************************************************)
Fairness ==
  /\ WF_vars(Tick)
  /\ WF_vars(ClearExpiredPending)
  /\ WF_vars(ClearExpiredCommitted)
  /\ \A v \in [tx : Txs, src : Sources] :
       WF_vars(ValidationSucceeds(v) \/ ValidationFails(v))

FairSpec == Spec /\ Fairness

-----------------------------------------------------------------------------
(***************************************************************************)
(* Properties.                                                             *)
(***************************************************************************)
\* TransactionPoolService.getTransactionStatus: the pending pool is asked first.
CommittedStatus(tx) == IF hasTransactionWithId(tx) THEN "COMMITTED" ELSE "NOT_FOUND"
Status(tx) == IF tx \in pending THEN "PENDING" ELSE CommittedStatus(tx)

(* The pools forget a committed transaction only when no copy of it can    *)
(* enter any more.                                                         *)
LifespansCover == PendingLifespan + MaxSkew <= CommittedLifespan

(* A transaction gets into a second block only if a second validation of   *)
(* it was awaited when it was committed.                                   *)
DoubleCommitOnlyByRace ==
  \A tx \in Txs : commits[tx] > 1 => tx \in overlap

(* transaction-pool/README.md: a transaction with the hash of one that is  *)
(* already in a pool "will be dropped and therefore will never be          *)
(* committed to a future block".                                           *)
NeverCommittedTwice == \A tx \in Txs : commits[tx] <= 1

(* What a client is told never goes back from COMMITTED to PENDING, unless *)
(* a validation raced with the commit.                                     *)
CommittedStaysCommitted ==
  [][\A tx \in Txs \ overlap : Status(tx) = "COMMITTED" => Status(tx)' # "PENDING"]_vars

(* Nothing stays in the pending pool for ever: every transaction in it is  *)
(* committed or cleaned up, also one whose validation outlasted its        *)
(* lifespan.                                                               *)
PendingPoolDrains ==
  \A tx \in Txs : Timestamp[tx] + PendingLifespan < MaxTime =>
     (tx \in pending ~> tx \notin pending)
=============================================================================
