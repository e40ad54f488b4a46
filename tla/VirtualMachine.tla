--------------------------- MODULE VirtualMachine ---------------------------
(***************************************************************************)
(* processTransactionSet (virtual-machine.ts, state-cache.ts,              *)
(* contract-state-accessor.ts, processor.ts) as one node's BlockBuilder    *)
(* uses it: the pending transactions are executed one after the other on   *)
(* forked caches, over a state that is read key by key while the chain may *)
(* grow, and the block that comes out is added to the block storage.       *)
(*                                                                         *)
(* The state storage is taken at its promise (StateStorage!ReadsAreFresh): *)
(* readKeys answers from the state after some block that was the last one  *)
(* at a moment of the call.  addBlock of the block storage is one step, as *)
(* module BlockStorage has its steps.  A block is named by its height.     *)
(***************************************************************************)
EXTENDS Contracts, FiniteSets, SequencesExt

CONSTANTS
  None,            \* BlockBuilder.lastBlock is undefined
  BlockSizeLimit,  \* config.blockSizeLimit
  MaxSent,         \* bound: transactions that clients send
  MaxForeign,      \* bound: blocks that arrive from other nodes
  MaxFaults        \* bound: failed readKeys and addBlock calls

ASSUME VirtualMachineAssumption ==
  /\ None \notin Nat /\ BlockSizeLimit \in Nat \ {0}
  /\ MaxSent \in Nat /\ MaxForeign \in Nat /\ MaxFaults \in Nat

VARIABLES
  sent,      \* the transactions clients sent, in the order of the pool
  pending,   \* those in the pending pool
  chain,     \* the blocks above the genesis block
  lastBlock, \* BlockBuilder.lastBlock
  job,       \* the run of appendNextBlock with its processTransactionSet
  foreign, faults \* what was used of the bounds

vars == <<sent, pending, chain, lastBlock, job, foreign, faults>>

\* after is the state after the block: the state before it and its diff.
Block == [txs : Seq(Transactions), receipts : Seq(BOOLEAN), after : Stores]

\* base: the last block as appendNextBlock got it; receipts: so far, their
\* number is the position in txs; cache: the stateCache of the set; loaded:
\* the values that the current transaction has loaded.
Job == [stage : {"idle", "pool", "run"}, base : Nat, txs : Seq(Transactions),
        receipts : Seq(BOOLEAN), cache : Stores, loaded : Seq(Int)]

Idle == [stage |-> "idle", base |-> 0, txs |-> <<>>, receipts |-> <<>>,
         cache |-> NothingStored, loaded |-> <<>>]

TypeOK ==
  /\ sent \in Seq(Transactions)
  /\ pending \subseteq Transactions
  /\ chain \in Seq(Block)
  /\ lastBlock \in Nat \cup {None}
  /\ job \in Job
  /\ foreign \in 0..MaxForeign /\ faults \in 0..MaxFaults

Init ==
  /\ sent = <<>> /\ pending = {} /\ chain = <<>>
  /\ lastBlock = None
  /\ job = Idle
  /\ foreign = 0 /\ faults = 0

StateAfter(h) == IF h = 0 THEN NothingStored ELSE chain[h].after
State == StateAfter(Len(chain))

\* A diff laid over a state.
Apply(state, diff) == [k \in Keys |-> IF diff[k] = NoValue THEN state[k] ELSE diff[k]]

OnChain == UNION {ToSet(chain[h].txs) : h \in DOMAIN chain}

-----------------------------------------------------------------------------
(***************************************************************************)
(* What the transactions of a block promise: each is executed wholly or    *)
(* not at all, on the state that the ones before it left.                  *)
(***************************************************************************)
ValuesAt(state, keys) == [i \in DOMAIN keys |-> OrZero(state[keys[i]])]

Succeeds(state, t) ==
  LET vals == ValuesAt(state, Loads(t))
  IN  \A n \in 0..Len(vals) : ~ FailsValidation(t, SubSeq(vals, 1, n))

Effect(state, t) ==
  IF Succeeds(state, t) THEN Stored(state, Writes(t, ValuesAt(state, Loads(t)))) ELSE state

\* The states between the transactions of a block: state n is after the n-th.
States(state, txs) ==
  LET after[n \in 0..Len(txs)] == IF n = 0 THEN state ELSE Effect(after[n - 1], txs[n])
  IN  after

Execute(state, txs) == States(state, txs)[Len(txs)]

Receipts(state, txs) ==
  [i \in DOMAIN txs |-> Succeeds(States(state, txs)[i - 1], txs[i])]

-----------------------------------------------------------------------------
(***************************************************************************)
(* The surroundings: clients, other nodes, the pool's clock.               *)
(***************************************************************************)
SendTransaction(t) ==
  /\ t \notin ToSet(sent) /\ Len(sent) < MaxSent
  /\ sent' = Append(sent, t)
  /\ pending' = pending \cup {t}
  /\ UNCHANGED <<chain, lastBlock, job, foreign, faults>>

\* A block of another node arrives by the block sync: it was executed there.
ForeignBlock(t) ==
  /\ foreign < MaxForeign
  /\ t \notin OnChain /\ ~ FailsUnexpectedly(t)
  /\ foreign' = foreign + 1
  /\ chain' = Append(chain, [txs |-> <<t>>, receipts |-> <<Succeeds(State, t)>>,
                             after |-> Effect(State, t)])
  /\ sent' = IF t \in ToSet(sent) THEN sent ELSE Append(sent, t)
  /\ pending' = pending \ {t}
  /\ UNCHANGED <<lastBlock, job, faults>>

\* A transaction that makes its block fail leaves the pool when it expires.
Expire(t) ==
  /\ FailsUnexpectedly(t) /\ t \in pending
  /\ pending' = pending \ {t}
  /\ UNCHANGED <<sent, chain, lastBlock, job, foreign, faults>>

-----------------------------------------------------------------------------
(***************************************************************************)
(* BlockBuilder.appendNextBlock around the virtual machine.                *)
(***************************************************************************)
AppendNextBlock ==
  /\ job.stage = "idle"
  /\ lastBlock' = IF lastBlock = None THEN Len(chain) ELSE lastBlock
  /\ job' = [job EXCEPT !.stage = "pool", !.base = lastBlock']
  /\ UNCHANGED <<sent, pending, chain, foreign, faults>>

EmptyPool ==
  /\ job.stage = "pool" /\ pending = {}
  /\ job' = Idle
  /\ UNCHANGED <<sent, pending, chain, lastBlock, foreign, faults>>

Before(t, u) == \E i, j \in DOMAIN sent : i < j /\ sent[i] = t /\ sent[j] = u

\* The first n pending transactions, in the order of the pool.
AreFirst(txs, n) ==
  /\ \A i, j \in 1..n : i < j => Before(txs[i], txs[j])
  /\ \A t \in pending \ ToSet(txs) : Before(txs[n], t)

GetAllPendingTransactions ==
  /\ job.stage = "pool" /\ pending # {}
  /\ \E n \in 1..BlockSizeLimit : \E txs \in [1..n -> pending] :
       /\ n = BlockSizeLimit \/ n = Cardinality(pending)
       /\ AreFirst(txs, n)
       /\ job' = [job EXCEPT !.stage = "run", !.txs = txs]
  /\ UNCHANGED <<sent, pending, chain, lastBlock, foreign, faults>>

\* Mutant: a block is accepted whatever its parent is.
verifyNewBlock_AnyParent == TRUE

\* BlockStorage.verifyNewBlock: the block was built on the last one.
verifyNewBlock == job.base = Len(chain)

Executed == job.stage = "run" /\ Len(job.receipts) = Len(job.txs)

\* commitBlock: the storage adds the block, reports its transactions to the
\* pool, and the block becomes the builder's last one.
CommitBlock ==
  /\ Executed /\ verifyNewBlock
  /\ chain' = Append(chain, [txs |-> job.txs, receipts |-> job.receipts,
                             after |-> Apply(State, job.cache)])
  /\ pending' = pending \ ToSet(job.txs)
  /\ lastBlock' = job.base + 1
  /\ job' = Idle
  /\ UNCHANGED <<sent, foreign, faults>>

\* The storage rejects a block that does not follow its last one.
CommitBlockRejected ==
  /\ Executed /\ ~ verifyNewBlock
  /\ job' = Idle
  /\ UNCHANGED <<sent, pending, chain, lastBlock, foreign, faults>>

\* addBlock fails: nothing is added and lastBlock is kept.
CommitBlockFails ==
  /\ Executed /\ faults < MaxFaults
  /\ faults' = faults + 1
  /\ job' = Idle
  /\ UNCHANGED <<sent, pending, chain, lastBlock, foreign>>

-----------------------------------------------------------------------------
(***************************************************************************)
(* VirtualMachine.processTransactionSet.                                   *)
(***************************************************************************)
Running == job.stage = "run" /\ Len(job.receipts) < Len(job.txs)
Current == job.txs[Len(job.receipts) + 1]

Failed == FailsValidation(Current, job.loaded)
Complete == ~ Failed /\ Len(job.loaded) = Len(Loads(Current))

\* Mutant: a key that was never stored is not taken for 0.
Load_Undefined ==
  LET key == Loads(Current)[Len(job.loaded) + 1]
  IN  job' = [job EXCEPT !.loaded =
                Append(@, IF job.cache[key] # NoValue THEN job.cache[key] ELSE State[key])]

\* Mutant: the cache of the set is not asked first.
Load_PastTheCache ==
  LET key == Loads(Current)[Len(job.loaded) + 1]
  IN  job' = [job EXCEPT !.loaded = Append(@, OrZero(State[key]))]

\* ContractStateReadOnlyAccessor.load: the cache, else the state storage.
\* (The fork of a transaction holds no store of its own when it loads.)
Load ==
  LET key == Loads(Current)[Len(job.loaded) + 1]
  IN  job' = [job EXCEPT !.loaded =
                Append(@, OrZero(IF job.cache[key] # NoValue THEN job.cache[key] ELSE State[key]))]

\* One key is loaded.
LoadKey ==
  /\ Running /\ ~ FailsUnexpectedly(Current) /\ ~ Failed /\ ~ Complete
  /\ Load
  /\ UNCHANGED <<sent, pending, chain, lastBlock, foreign, faults>>

\* The transaction ends well: its fork is merged.
Merge ==
  /\ Running /\ ~ FailsUnexpectedly(Current) /\ Complete
  /\ job' = [job EXCEPT !.cache = Stored(job.cache, Writes(Current, job.loaded)),
                        !.receipts = Append(@, TRUE), !.loaded = <<>>]
  /\ UNCHANGED <<sent, pending, chain, lastBlock, foreign, faults>>

\* Mutant: an expected failure ends the set, like an unexpected one.
FailExpected_EndsTheSet ==
  /\ Running /\ ~ FailsUnexpectedly(Current) /\ Failed
  /\ job' = Idle
  /\ UNCHANGED <<sent, pending, chain, lastBlock, foreign, faults>>

\* A ValidationError: the fork is dropped, the set goes on.
FailExpected ==
  /\ Running /\ ~ FailsUnexpectedly(Current) /\ Failed
  /\ job' = [job EXCEPT !.receipts = Append(@, FALSE), !.loaded = <<>>]
  /\ UNCHANGED <<sent, pending, chain, lastBlock, foreign, faults>>

\* Any other error ends the whole set: the builder polls again.
FailUnexpected ==
  /\ Running /\ FailsUnexpectedly(Current)
  /\ job' = Idle
  /\ UNCHANGED <<sent, pending, chain, lastBlock, foreign, faults>>

\* readKeys fails, which a contract does not catch.
LoadFails ==
  /\ Running /\ ~ FailsUnexpectedly(Current) /\ ~ Failed /\ ~ Complete
  /\ job.cache[Loads(Current)[Len(job.loaded) + 1]] = NoValue
  /\ faults < MaxFaults
  /\ faults' = faults + 1
  /\ job' = Idle
  /\ UNCHANGED <<sent, pending, chain, lastBlock, foreign>>

-----------------------------------------------------------------------------
Step ==
  \/ AppendNextBlock \/ EmptyPool \/ GetAllPendingTransactions
  \/ LoadKey \/ Merge \/ FailExpected \/ FailUnexpected
  \/ CommitBlock \/ CommitBlockRejected

Next ==
  \/ \E t \in Transactions : SendTransaction(t) \/ ForeignBlock(t) \/ Expire(t)
  \/ Step \/ LoadFails \/ CommitBlockFails

Spec == Init /\ [][Next]_vars

\* The poll timer and the promises run; the pool's clean-up timer runs.
FairSpec ==
  /\ Spec
  /\ WF_vars(Step)
  /\ \A t \in Transactions : WF_vars(Expire(t))

-----------------------------------------------------------------------------
(***************************************************************************)
(* Correctness.                                                            *)
(***************************************************************************)

(* Every block of the chain is the all-or-nothing execution of its         *)
(* transactions, in their order, on the state after its parent, with       *)
(* receipts that say which succeeded; though the builder may have kept its *)
(* last block since long before, and a set reads the state in many calls   *)
(* while blocks of other nodes arrive.                                     *)
BlocksAreAtomicExecutions ==
  \A h \in DOMAIN chain :
    /\ chain[h].after = Execute(StateAfter(h - 1), chain[h].txs)
    /\ chain[h].receipts = Receipts(StateAfter(h - 1), chain[h].txs)

\* The accounts that come back from the cache as they were.
Survives(t) == Short[t.from] = t.from /\ Short[t.to] = t.to

Total(state) == FoldFunction(+, 0, [a \in Accounts |-> OrZero(state[Kin(a)])])

(* A block changes the sum of the KinAtn balances only by financing an     *)
(* account, by a transfer of an account to itself (both balances are read  *)
(* before either is stored, so the amount is made anew), or when an        *)
(* account holds the separator of the cache's keys and its balance is      *)
(* stored under another account's.                                         *)
MoneyIsMadeOnlyByFinancing ==
  \A h \in DOMAIN chain :
    (\A i \in DOMAIN chain[h].txs :
       LET t == chain[h].txs[i]
       IN  \/ t.method \notin {"kin.transfer", "kin.financeAccount"}
           \/ t.method = "kin.transfer" /\ t.from # t.to /\ Survives(t))
    => Total(chain[h].after) = Total(StateAfter(h - 1))

(* Whatever a set reads while the chain grows: a balance of KinAtn is      *)
(* never negative and never leaves the integers a number holds exactly,    *)
(* and the pool always holds a whole number of allocations, so that it     *)
(* comes to 0, where it is filled again.                                   *)
BalancesInRange ==
  \A h \in DOMAIN chain : InRange(chain[h].after)

\* A block came by sync, and the builder's last block is behind it.
Behind == foreign > 0 /\ lastBlock # None /\ lastBlock < Len(chain)

(* Whatever transactions that fail are pending with it, a valid            *)
(* transaction is committed some time, unless the builder fell behind a    *)
(* block that came by sync (its last block is fetched only once).          *)
SentIsCommitted ==
  \A t \in Transactions :
    ~ FailsUnexpectedly(t) =>
      (t \in pending ~> (t \in OnChain \/ Behind))
=============================================================================
