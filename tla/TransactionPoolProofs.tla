------------------------ MODULE TransactionPoolProofs ------------------------
(***************************************************************************)
(* Theorems about TransactionPool for any transactions, timestamps,        *)
(* lifespans and clock skew: when the pools prevent a second commit.       *)
(***************************************************************************)
EXTENDS TransactionPool, TLAPS

(* Every step keeps the variables in their sets.                           *)
LEMMA TypeStep == TypeOK /\ [Next]_vars => TypeOK'
<1> SUFFICES ASSUME TypeOK, [Next]_vars PROVE TypeOK'
  OBVIOUS
<1> USE PoolAssumption DEF TypeOK, None
<1>1. CASE \E tx \in Txs, src \in Sources : Receive(tx, src)
  BY <1>1 DEF Receive, Store
<1>2. CASE \E v \in validating : ValidationSucceeds(v)
  BY <1>2 DEF ValidationSucceeds, Store
<1>3. CASE \E v \in validating : ValidationFails(v)
  BY <1>3 DEF ValidationFails
<1>4. CASE BuildBlock
  BY <1>4 DEF BuildBlock
<1>5. CASE BuildFails
  BY <1>5 DEF BuildFails
<1>6. CASE MarkCommittedTransactions
  BY <1>6 DEF MarkCommittedTransactions, addCommittedTransactions
<1>7. CASE ClearExpiredPending
  BY <1>7 DEF ClearExpiredPending
<1>8. CASE ClearExpiredCommitted
  BY <1>8 DEF ClearExpiredCommitted
<1>9. CASE Tick
  BY <1>9 DEF Tick
<1>10. CASE UNCHANGED vars
  BY <1>10 DEF vars
<1> QED
  BY <1>1, <1>2, <1>3, <1>4, <1>5, <1>6, <1>7, <1>8, <1>9, <1>10
  DEF Next, Sources, addNewPendingTransaction, gossipMessageReceived, CleanupTimer

(* The pools, the block and the clock stay in their sets.                  *)
THEOREM TypeCorrect == Spec => []TypeOK
<1>1. Init => TypeOK
  BY PoolAssumption DEF Init, TypeOK
<1> QED
  BY <1>1, TypeStep, PTL DEF Spec

-----------------------------------------------------------------------------
(***************************************************************************)
(* What holds of the pools whatever the lifespans are.                     *)
(***************************************************************************)
\* On its way through the node, between Receive and the committed pool.
Validating(tx) == \E v \in validating : v.tx = tx
Underway(tx) == tx \in pending \/ tx \in block \/ Validating(tx)

\* What is under way was received, so its timestamp is bounded by the clock;
\* a committed entry remembers a time at which that was so.
TimestampsBounded ==
  \A tx \in Txs :
    /\ Underway(tx) => Timestamp[tx] <= now + MaxSkew
    /\ committed[tx] # None => /\ commits[tx] >= 1
                               /\ Timestamp[tx] <= committed[tx] + MaxSkew

\* A transaction with an entry in the committed pool is nowhere else.
EntryExcludes ==
  \A tx \in Txs \ overlap : committed[tx] # None => ~ Underway(tx)

PoolInv == TypeOK /\ TimestampsBounded /\ EntryExcludes

(* Every action keeps the invariant of the two pools.                      *)
LEMMA PoolInvStep == PoolInv /\ [Next]_vars => PoolInv'
<1> SUFFICES ASSUME PoolInv, [Next]_vars PROVE PoolInv'
  OBVIOUS
<1>0. TypeOK /\ TypeOK'
  BY TypeStep DEF PoolInv
<1> USE PoolAssumption DEF None, Underway, Validating, TimestampsBounded, EntryExcludes, TypeOK
<1>1. CASE \E tx \in Txs, src \in Sources : Receive(tx, src)
  BY <1>0, <1>1 DEF PoolInv, Receive, Store, IsUnique, hasTransactionWithId
<1>2. CASE \E v \in validating : ValidationSucceeds(v)
  BY <1>0, <1>2 DEF PoolInv, ValidationSucceeds, Store
<1>3. CASE \E v \in validating : ValidationFails(v)
  BY <1>0, <1>3 DEF PoolInv, ValidationFails
<1>4. CASE BuildBlock
  BY <1>0, <1>4 DEF PoolInv, BuildBlock
<1>5. CASE BuildFails
  BY <1>0, <1>5 DEF PoolInv, BuildFails
<1>6. CASE MarkCommittedTransactions
  BY <1>0, <1>6 DEF PoolInv, MarkCommittedTransactions, addCommittedTransactions
<1>7. CASE ClearExpiredPending
  BY <1>0, <1>7 DEF PoolInv, ClearExpiredPending
<1>8. CASE ClearExpiredCommitted
  BY <1>0, <1>8 DEF PoolInv, ClearExpiredCommitted
<1>9. CASE Tick
  BY <1>0, <1>9 DEF PoolInv, Tick
<1>10. CASE UNCHANGED vars
  BY <1>0, <1>10 DEF PoolInv, vars
<1> QED
  BY <1>1, <1>2, <1>3, <1>4, <1>5, <1>6, <1>7, <1>8, <1>9, <1>10
  DEF Next, Sources, addNewPendingTransaction, gossipMessageReceived, CleanupTimer

(* It holds in every state that TransactionPool reaches.                   *)
LEMMA PoolInvariance == Spec => []PoolInv
<1>1. Init => PoolInv
  BY PoolAssumption DEF Init, PoolInv, TypeOK, TimestampsBounded, EntryExcludes,
                        Underway, Validating, None
<1> QED
  BY <1>1, PoolInvStep, PTL DEF Spec

(* Whatever the lifespans are, getTransactionStatus never tells a client   *)
(* PENDING right after COMMITTED, unless a validation raced the commit.    *)
THEOREM StatusNeverRegresses == Spec => CommittedStaysCommitted
<1>1. PoolInv /\ [Next]_vars =>
        [\A tx \in Txs \ overlap : Status(tx) = "COMMITTED" => Status(tx)' # "PENDING"]_vars
  <2> SUFFICES ASSUME PoolInv, Next, NEW tx \in Txs \ overlap, Status(tx) = "COMMITTED"
               PROVE  Status(tx)' # "PENDING"
    OBVIOUS
  <2>1. committed[tx] # None /\ tx \notin pending /\ ~ Validating(tx)
    BY DEF Status, CommittedStatus, hasTransactionWithId, PoolInv, EntryExcludes, Underway
  <2>2. tx \notin pending'
    BY <2>1 DEF Next, addNewPendingTransaction, gossipMessageReceived, Receive, IsUnique, hasTransactionWithId, Store, ValidationSucceeds, ValidationFails,
                Validating, BuildBlock, BuildFails, MarkCommittedTransactions, CleanupTimer,
                ClearExpiredPending, ClearExpiredCommitted, Tick
  <2> QED
    BY <2>2 DEF Status, CommittedStatus
<1> QED
  BY <1>1, PoolInvariance, PTL DEF Spec, CommittedStaysCommitted

-----------------------------------------------------------------------------
(***************************************************************************)
(* What holds when the committed pool remembers long enough.               *)
(***************************************************************************)
\* Committed once, a transaction is remembered or too old to be received.
CommittedOnce ==
  \A tx \in Txs \ overlap :
    /\ commits[tx] <= 1
    /\ commits[tx] = 1 => /\ ~ Underway(tx)
                          /\ committed[tx] # None \/ isTransactionExpired(tx)

(* No action commits a transaction again outside the race.                 *)
LEMMA CommittedOnceStep ==
  ASSUME LifespansCover PROVE PoolInv /\ CommittedOnce /\ [Next]_vars => CommittedOnce'
<1> SUFFICES ASSUME PoolInv, CommittedOnce, [Next]_vars PROVE CommittedOnce'
  OBVIOUS
<1>0. TypeOK
  BY DEF PoolInv
<1> USE PoolAssumption
    DEF None, Underway, Validating, CommittedOnce, TypeOK, isTransactionExpired, isExpired
<1>1. CASE \E tx \in Txs, src \in Sources : Receive(tx, src)
  BY <1>0, <1>1 DEF Receive, Store, IsUnique, hasTransactionWithId
<1>2. CASE \E v \in validating : ValidationSucceeds(v)
  BY <1>0, <1>2 DEF ValidationSucceeds, Store
<1>3. CASE \E v \in validating : ValidationFails(v)
  BY <1>0, <1>3 DEF ValidationFails
<1>4. CASE BuildBlock
  BY <1>0, <1>4 DEF BuildBlock
<1>5. CASE BuildFails
  BY <1>0, <1>5 DEF BuildFails
<1>6. CASE MarkCommittedTransactions
  BY <1>0, <1>6 DEF MarkCommittedTransactions, addCommittedTransactions
<1>7. CASE ClearExpiredPending
  BY <1>0, <1>7 DEF ClearExpiredPending
<1>8. CASE ClearExpiredCommitted
  BY <1>0, <1>8 DEF ClearExpiredCommitted, PoolInv, TimestampsBounded, LifespansCover
<1>9. CASE Tick
  BY <1>0, <1>9 DEF Tick
<1>10. CASE UNCHANGED vars
  BY <1>0, <1>10 DEF vars
<1> QED
  BY <1>1, <1>2, <1>3, <1>4, <1>5, <1>6, <1>7, <1>8, <1>9, <1>10
  DEF Next, Sources, addNewPendingTransaction, gossipMessageReceived, CleanupTimer

(* With lifespans that cover each other that is so for ever.               *)
LEMMA CommittedOnceInvariance == ASSUME LifespansCover PROVE Spec => []CommittedOnce
<1>1. Init => CommittedOnce
  BY DEF Init, CommittedOnce
<1> QED
  BY <1>1, PoolInvariance, CommittedOnceStep, PTL DEF Spec

(* If the committed pool keeps an entry at least as long as a transaction  *)
(* can be accepted (its lifespan plus the clock skew), a transaction is in *)
(* two blocks only if a validation raced its commit.                       *)
THEOREM OnlyARaceCommitsTwice ==
  ASSUME LifespansCover PROVE Spec => []DoubleCommitOnlyByRace
<1>1. TypeOK /\ CommittedOnce => DoubleCommitOnlyByRace
  BY DEF TypeOK, CommittedOnce, DoubleCommitOnlyByRace
<1> QED
  BY <1>1, TypeCorrect, CommittedOnceInvariance, PTL

(* Without the subscription check there is nothing to race with: the       *)
(* promise of transaction-pool/README.md holds for covering lifespans.     *)
THEOREM WithoutSubscriptionsNoDoubleCommit ==
  ASSUME LifespansCover, ~ VerifySubscription PROVE Spec => []NeverCommittedTwice
<1> DEFINE NoRace == validating = {} /\ overlap = {}
<1>1. Init => NoRace
  BY DEF Init
<1>2. NoRace /\ [Next]_vars => NoRace'
  BY DEF Next, vars, addNewPendingTransaction, gossipMessageReceived, Receive, Store, ValidationSucceeds, ValidationFails, BuildBlock,
         BuildFails, MarkCommittedTransactions, CleanupTimer, ClearExpiredPending,
         ClearExpiredCommitted, Tick
<1>3. TypeOK /\ NoRace /\ CommittedOnce => NeverCommittedTwice
  BY DEF TypeOK, CommittedOnce, NeverCommittedTwice
<1> QED
  BY <1>1, <1>2, <1>3, TypeCorrect, CommittedOnceInvariance, PTL DEF Spec
=============================================================================
