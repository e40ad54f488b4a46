------------------------ MODULE VirtualMachineProofs ------------------------
(***************************************************************************)
(* For any accounts, transactions, block size, pool of allocations and     *)
(* largest number, whatever a transaction set reads while the chain grows: *)
(* the types; that what the contracts store stays in its range; that every *)
(* block is the one-by-one execution of its transactions on the state      *)
(* after its parent; and which transactions change the sum of the          *)
(* balances.                                                               *)
(***************************************************************************)
EXTENDS VirtualMachine, FiniteSetTheorems, NaturalsInduction, WellFoundedInduction, TLAPS

-----------------------------------------------------------------------------
(***************************************************************************)
(* Keys and what may be stored under them.                                 *)
(***************************************************************************)
LEMMA KeyForms ==
  ASSUME NEW a \in Accounts
  PROVE  /\ Kin(a) \in Keys /\ FooBar(a) \in Keys
         /\ EventCounter(a) \in Keys /\ TextMessage(a) \in Keys
         /\ Values(Kin(a)) = 0..MaxSafeInteger /\ Values(FooBar(a)) = Int
         /\ Values(EventCounter(a)) = Nat /\ Values(TextMessage(a)) = Nat
<1>1. Kin(a) # Pool /\ FooBar(a) # Pool /\ EventCounter(a) # Pool /\ TextMessage(a) # Pool
  BY ContractsAssumption DEF Pool, Kin, FooBar, EventCounter, TextMessage
<1>2. Kin(a) \in Keys /\ FooBar(a) \in Keys /\ EventCounter(a) \in Keys /\ TextMessage(a) \in Keys
  BY DEF Keys, Kin, FooBar, EventCounter, TextMessage
<1> QED
  BY <1>1, <1>2 DEF Values, Kin, FooBar, EventCounter, TextMessage

(* The pool of KinAtn has a key and a range of its own.                    *)
LEMMA PoolKey == Pool \in Keys /\ Values(Pool) = PoolValues
BY DEF Keys, Values

(* Splitting a key of the cache again gives a key of the same contract.    *)
LEMMA DecodedKey ==
  ASSUME NEW k \in Keys
  PROVE  decodeMapKey(k) \in Keys /\ Values(decodeMapKey(k)) = Values(k)
<1>1. CASE k = Pool
  BY <1>1 DEF decodeMapKey
<1>2. CASE k # Pool
  <2>1. PICK c \in {"kin", "foobar", "eventCounter", "textMessage"}, a \in Accounts : k = <<c, a>>
    BY <1>2 DEF Keys
  <2>2. Short[a] \in Accounts /\ decodeMapKey(k) = <<c, Short[a]>>
    BY <1>2, <2>1, ContractsAssumption DEF decodeMapKey
  <2>3. <<c, Short[a]>> \in Keys /\ <<c, Short[a]>> # Pool
    BY <2>1, <2>2, ContractsAssumption DEF Keys, Pool, Kin
  <2> QED
    BY <1>2, <2>1, <2>2, <2>3 DEF Values
<1> QED
  BY <1>1, <1>2

(* What is stored under a key is an integer, and an unset key counts as one.*)
LEMMA ValuesAreIntegers ==
  ASSUME NEW k \in Keys
  PROVE  Values(k) \subseteq Int /\ 0 \in Values(k)
<1>1. PoolValues \subseteq Int /\ 0 \in PoolValues
  BY ContractsAssumption DEF PoolValues
<1> QED
  BY <1>1, ContractsAssumption DEF Values

(* The pool keeps a whole number of allocations.                           *)
LEMMA PoolReduced ==
  ASSUME NEW v \in PoolValues
  PROVE  reduceFromPool(v) \in PoolValues
<1> DEFINE D == DefaultBalance
<1>1. D \in Nat \ {0} /\ Allocations \in Nat \ {0}
  BY ContractsAssumption
<1>2. PICK i \in 0..Allocations : v = D * i
  BY DEF PoolValues
<1> DEFINE n == IF v = 0 THEN Allocations - 1 ELSE i - 1
<1>3. n \in 0..Allocations
  BY <1>1, <1>2
<1>4. reduceFromPool(v) = D * n
  <2>1. CASE v = 0
    <3>1. D * Allocations - D = D * (Allocations - 1)
      BY <1>1
    <3> QED
      BY <2>1, <3>1 DEF reduceFromPool
  <2>2. CASE v # 0
    <3>1. D * i - D = D * (i - 1)
      BY <1>1, <1>2
    <3> QED
      BY <1>2, <2>2, <3>1 DEF reduceFromPool
  <2> QED
    BY <2>1, <2>2
<1> QED
  BY <1>3, <1>4 DEF PoolValues

-----------------------------------------------------------------------------
(***************************************************************************)
(* What a method stores, from values in their range that it did not refuse.*)
(***************************************************************************)
LEMMA WritesInRange ==
  ASSUME NEW t \in Transactions, NEW vals \in Seq(Int), Len(vals) = Len(Loads(t)),
         \A i \in 1..Len(vals) : vals[i] \in Values(Loads(t)[i]),
         ~ FailsValidation(t, vals)
  PROVE  /\ DOMAIN Writes(t, vals) \in {{}, {1}, {1, 2}}
         /\ \A i \in DOMAIN Writes(t, vals) :
              /\ Writes(t, vals)[i].key \in Keys
              /\ Writes(t, vals)[i].value \in Values(Writes(t, vals)[i].key)
<1>0. /\ t.method \in Methods /\ t.from \in Accounts /\ t.to \in Accounts /\ t.amount \in Int
      /\ MaxSafeInteger \in Nat /\ DefaultBalance \in 0..MaxSafeInteger
  BY ContractsAssumption DEF Transaction
<1>1. CASE t.method = "kin.transfer"
  <2>1. Loads(t) = <<Kin(t.from), Kin(t.to)>>
    BY <1>1 DEF Loads
  <2>2. Len(vals) = 2 /\ vals[1] \in 0..MaxSafeInteger /\ vals[2] \in 0..MaxSafeInteger
    BY <1>0, <2>1, KeyForms
  <2>3. t.amount > 0 /\ vals[1] >= t.amount /\ vals[2] <= MaxSafeInteger - t.amount
    BY <1>0, <1>1, <2>2 DEF FailsValidation
  <2>4. vals[1] - t.amount \in 0..MaxSafeInteger /\ vals[2] + t.amount \in 0..MaxSafeInteger
    BY <1>0, <2>2, <2>3
  <2>5. Writes(t, vals) = <<Write(Kin(t.from), vals[1] - t.amount),
                            Write(Kin(t.to), vals[2] + t.amount)>>
    BY <1>1 DEF Writes, transfer
  <2> QED
    BY <1>0, <2>4, <2>5, KeyForms DEF Write
<1>2. CASE t.method = "kin.financeAccount"
  <2>1. Loads(t) = <<Pool>>
    BY <1>2 DEF Loads
  <2>2. vals[1] \in PoolValues
    BY <2>1, PoolKey
  <2>3. Writes(t, vals) = <<Write(Kin(t.to), DefaultBalance),
                            Write(Pool, reduceFromPool(vals[1]))>>
    BY <1>2 DEF Writes, financeAccount
  <2> QED
    BY <1>0, <2>2, <2>3, KeyForms, PoolKey, PoolReduced DEF Write
<1>3. CASE t.method = "foobar.transfer"
  <2>1. Loads(t) = <<FooBar(t.from), FooBar(t.to)>>
    BY <1>3 DEF Loads
  <2>2. vals[1] \in Int /\ vals[2] \in Int
    BY <1>0, <2>1, KeyForms
  <2>3. Writes(t, vals) = <<Write(FooBar(t.from), vals[1] - t.amount),
                            Write(FooBar(t.to), vals[2] + t.amount)>>
    BY <1>3 DEF Writes, fooBarTransfer
  <2> QED
    BY <1>0, <2>2, <2>3, KeyForms DEF Write
<1>4. CASE t.method = "foobar.initBalance"
  <2>1. Writes(t, vals) = <<Write(FooBar(t.to), t.amount)>>
    BY <1>4 DEF Writes, initBalance
  <2> QED
    BY <1>0, <2>1, KeyForms DEF Write
<1>5. CASE t.method = "eventCounter.reportEvent"
  <2>1. Loads(t) = <<EventCounter(t.to)>>
    BY <1>5 DEF Loads
  <2>2. vals[1] \in Nat
    BY <1>0, <2>1, KeyForms
  <2>3. Writes(t, vals) = <<Write(EventCounter(t.to), vals[1] + 1)>>
    BY <1>5 DEF Writes, reportEvent
  <2> QED
    BY <1>0, <2>2, <2>3, KeyForms DEF Write
<1>6. CASE t.method = "textMessage.sendMessage"
  <2>1. Loads(t) = <<TextMessage(t.to)>>
    BY <1>6 DEF Loads
  <2>2. vals[1] \in Nat
    BY <1>0, <2>1, KeyForms
  <2>3. Writes(t, vals) = <<Write(TextMessage(t.to), vals[1] + 1)>>
    BY <1>6 DEF Writes, sendMessage
  <2> QED
    BY <1>0, <2>2, <2>3, KeyForms DEF Write
<1>7. CASE t.method = "unknown"
  BY <1>7 DEF Writes
<1> QED
  BY <1>0, <1>1, <1>2, <1>3, <1>4, <1>5, <1>6, <1>7 DEF Methods

(* A map of keys stays in its range when such stores are made in it.       *)
LEMMA StoredInRange ==
  ASSUME NEW map \in Stores, InRange(map), NEW writes,
         DOMAIN writes \in {{}, {1}, {1, 2}},
         \A i \in DOMAIN writes : /\ writes[i].key \in Keys
                                  /\ writes[i].value \in Values(writes[i].key)
  PROVE  Stored(map, writes) \in Stores /\ InRange(Stored(map, writes))
<1>1. ASSUME NEW k \in Keys
      PROVE  Stored(map, writes)[k] \in Values(k) \cup {NoValue}
  <2> DEFINE at == {i \in DOMAIN writes : decodeMapKey(writes[i].key) = k}
             last == CHOOSE i \in at : \A j \in at : j <= i
  <2>1. CASE at = {}
    BY <2>1 DEF Stored, InRange
  <2>2. CASE at # {}
    <3>1. at \subseteq {1, 2}
      OBVIOUS
    <3>2. \E i \in at : \A j \in at : j <= i
      BY <2>2, <3>1
    <3>3. last \in at
      BY <3>2
    <3>4. writes[last].value \in Values(k)
      BY <3>3, DecodedKey
    <3>5. Stored(map, writes)[k] = writes[last].value
      BY <2>2 DEF Stored
    <3> QED
      BY <3>4, <3>5
  <2> QED
    BY <2>1, <2>2
<1>2. Stored(map, writes) \in Stores
  <2>1. \A k \in Keys : Stored(map, writes)[k] \in Int \cup {NoValue}
    BY <1>1, ValuesAreIntegers
  <2> QED
    BY <2>1 DEF Stored, Stores
<1> QED
  BY <1>1, <1>2 DEF InRange

(* The methods load keys of the contracts.                                 *)
LEMMA LoadsAreKeys ==
  ASSUME NEW t \in Transactions
  PROVE  Loads(t) \in Seq(Keys)
<1>1. t.method \in Methods /\ t.from \in Accounts /\ t.to \in Accounts
  BY ContractsAssumption DEF Transaction
<1>2. CASE t.method = "kin.transfer"
  BY <1>1, <1>2, KeyForms DEF Loads
<1>3. CASE t.method = "kin.financeAccount"
  BY <1>1, <1>3, PoolKey DEF Loads
<1>4. CASE t.method = "foobar.transfer"
  BY <1>1, <1>4, KeyForms DEF Loads
<1>5. CASE t.method = "eventCounter.reportEvent"
  BY <1>1, <1>5, KeyForms DEF Loads
<1>6. CASE t.method = "textMessage.sendMessage"
  BY <1>1, <1>6, KeyForms DEF Loads
<1>7. CASE t.method \in {"foobar.initBalance", "unknown"}
  BY <1>7 DEF Loads
<1> QED
  BY <1>1, <1>2, <1>3, <1>4, <1>5, <1>6, <1>7 DEF Methods

(* What a key holds counts as a value of the key, unset as 0.              *)
LEMMA OrZeroInRange ==
  ASSUME NEW store \in Stores, InRange(store), NEW k \in Keys
  PROVE  OrZero(store[k]) \in Values(k) /\ OrZero(store[k]) \in Int
BY ValuesAreIntegers DEF InRange, OrZero

(* The effect of a transaction of another node's block.                    *)
LEMMA EffectInRange ==
  ASSUME NEW store \in Stores, InRange(store), NEW t \in Transactions
  PROVE  Effect(store, t) \in Stores /\ InRange(Effect(store, t))
<1> DEFINE vals == ValuesAt(store, Loads(t))
<1>1. /\ vals \in Seq(Int) /\ Len(vals) = Len(Loads(t))
      /\ \A i \in 1..Len(vals) : vals[i] \in Values(Loads(t)[i])
  <2>1. Loads(t) \in Seq(Keys)
    BY LoadsAreKeys
  <2>2. \A i \in DOMAIN Loads(t) : /\ OrZero(store[Loads(t)[i]]) \in Int
                                   /\ OrZero(store[Loads(t)[i]]) \in Values(Loads(t)[i])
    BY <2>1, OrZeroInRange
  <2>3. Len(Loads(t)) \in Nat /\ DOMAIN Loads(t) = 1..Len(Loads(t))
    BY <2>1
  <2>4. vals \in [1..Len(Loads(t)) -> Int]
    BY <2>2, <2>3 DEF ValuesAt
  <2>5. vals \in Seq(Int) /\ Len(vals) = Len(Loads(t))
    <3> HIDE DEF vals
    <3> QED BY <2>3, <2>4
  <2> QED
    BY <2>2, <2>3, <2>5 DEF ValuesAt
<1>2. CASE Succeeds(store, t)
  <2>1. ~ FailsValidation(t, SubSeq(vals, 1, Len(vals)))
    BY <1>1, <1>2 DEF Succeeds
  <2>2. SubSeq(vals, 1, Len(vals)) = vals
    <3> HIDE DEF vals
    <3> QED BY <1>1
  <2> HIDE DEF vals
  <2> DEFINE w == Writes(t, vals)
  <2>3. /\ DOMAIN w \in {{}, {1}, {1, 2}}
        /\ \A i \in DOMAIN w : w[i].key \in Keys /\ w[i].value \in Values(w[i].key)
    <3>1. ~ FailsValidation(t, vals)
      BY <2>1, <2>2
    <3> QED
      BY <1>1, <3>1, WritesInRange
  <2> HIDE DEF w
  <2>4. Stored(store, w) \in Stores /\ InRange(Stored(store, w))
    BY <2>3, StoredInRange
  <2> QED
    BY <1>2, <2>4 DEF Effect, vals, w
<1>3. CASE ~ Succeeds(store, t)
  BY <1>3 DEF Effect
<1> QED
  BY <1>2, <1>3

(* A diff in range laid over a state in range.                             *)
LEMMA ApplyInRange ==
  ASSUME NEW store \in Stores, InRange(store), NEW diff \in Stores, InRange(diff)
  PROVE  Apply(store, diff) \in Stores /\ InRange(Apply(store, diff))
BY DEF Apply, Stores, InRange

(* The empty cache, and the state after genesis.                           *)
LEMMA NothingInRange == NothingStored \in Stores /\ InRange(NothingStored)
BY DEF NothingStored, Stores, InRange

-----------------------------------------------------------------------------
(***************************************************************************)
(* The inductive invariant: the cache of a set and the values that its     *)
(* current transaction has loaded are in their range too.                  *)
(***************************************************************************)
LoadedOK ==
  IF Running
  THEN /\ Len(job.loaded) <= Len(Loads(Current))
       /\ \A i \in 1..Len(job.loaded) : job.loaded[i] \in Values(Loads(Current)[i])
  ELSE job.loaded = <<>>

IInv ==
  /\ TypeOK
  /\ BalancesInRange
  /\ InRange(job.cache)
  /\ LoadedOK

(* The state that readKeys answers from.                                   *)
LEMMA StateInRange ==
  ASSUME TypeOK, BalancesInRange
  PROVE  State \in Stores /\ InRange(State)
<1>1. CASE Len(chain) = 0
  BY <1>1, NothingInRange DEF State, StateAfter
<1>2. CASE Len(chain) # 0
  <2>1. Len(chain) \in DOMAIN chain /\ chain[Len(chain)] \in Block
    BY <1>2 DEF TypeOK
  <2> QED
    BY <1>2, <2>1 DEF State, StateAfter, BalancesInRange, Block
<1> QED
  BY <1>1, <1>2

(* A block that is added with a state in its range.                        *)
LEMMA ChainGrows ==
  ASSUME TypeOK, BalancesInRange, NEW b \in Block, InRange(b.after), chain' = Append(chain, b)
  PROVE  chain' \in Seq(Block) /\ BalancesInRange'
<1>1. chain \in Seq(Block)
  BY DEF TypeOK
<1>2. chain' \in Seq(Block)
  BY <1>1
<1>3. \A h \in DOMAIN chain' : chain'[h] = IF h = Len(chain) + 1 THEN b ELSE chain[h]
  BY <1>1
<1>4. \A h \in DOMAIN chain' : h = Len(chain) + 1 \/ h \in DOMAIN chain
  BY <1>1
<1> QED
  BY <1>2, <1>3, <1>4 DEF BalancesInRange

(* The run is over.                                                        *)
LEMMA IdleOK ==
  Idle \in Job /\ InRange(Idle.cache) /\ Idle.stage # "run" /\ Idle.loaded = <<>>
BY NothingInRange DEF Idle, Job

(* Nothing is stored and nothing runs.                                     *)
LEMMA IInvInit == Init => IInv
BY IdleOK, VirtualMachineAssumption
   DEF Init, IInv, TypeOK, BalancesInRange, LoadedOK, Running

(* When the run ends and the chain stays, only the counters matter.        *)
LEMMA RunEnds ==
  ASSUME IInv, job' = Idle, UNCHANGED <<sent, chain, foreign>>,
         pending' \subseteq Transactions, lastBlock' \in Nat \cup {None},
         faults' \in 0..MaxFaults
  PROVE  IInv'
BY IdleOK DEF IInv, TypeOK, BalancesInRange, LoadedOK, Running

(* When the run stays, and the chain grows or stays.                       *)
LEMMA RunStays ==
  ASSUME IInv, job' = job, sent' \in Seq(Transactions), pending' \subseteq Transactions,
         chain' \in Seq(Block), BalancesInRange', UNCHANGED <<lastBlock, faults>>,
         foreign' \in 0..MaxForeign
  PROVE  IInv'
BY DEF IInv, TypeOK, LoadedOK, Running, Current

(* When the run goes on.                                                   *)
LEMMA RunGoesOn ==
  ASSUME IInv, job' \in Job, InRange(job'.cache), LoadedOK', lastBlock' \in Nat \cup {None},
         UNCHANGED <<sent, pending, chain, foreign, faults>>
  PROVE  IInv'
BY DEF IInv, TypeOK, BalancesInRange

\* The run as a record of its fields.
Run(s, b, x, r, c, l) ==
  [stage |-> s, base |-> b, txs |-> x, receipts |-> r, cache |-> c, loaded |-> l]

(* The fields that the steps of a run set.                                 *)
LEMMA RunForm ==
  ASSUME NEW j \in Job
  PROVE  j = Run(j.stage, j.base, j.txs, j.receipts, j.cache, j.loaded)
BY DEF Job, Run

(* appendNextBlock starts a run, and the pool gives it its transactions.   *)
LEMMA RunBegins ==
  ASSUME NEW j \in Job, NEW s, NEW b, NEW x
  PROVE  /\ [j EXCEPT !.stage = s, !.base = b] = Run(s, b, j.txs, j.receipts, j.cache, j.loaded)
         /\ [j EXCEPT !.stage = s, !.txs = x] = Run(s, j.base, x, j.receipts, j.cache, j.loaded)
<1> DEFINE staged == Run(s, j.base, j.txs, j.receipts, j.cache, j.loaded)
<1>1. [j EXCEPT !.stage = s] = staged
  BY DEF Job, Run
<1>2. [staged EXCEPT !.base = b] = Run(s, b, j.txs, j.receipts, j.cache, j.loaded)
  BY DEF Run
<1>3. [staged EXCEPT !.txs = x] = Run(s, j.base, x, j.receipts, j.cache, j.loaded)
  BY DEF Run
<1> HIDE DEF staged
<1> QED
  BY <1>1, <1>2, <1>3

(* A transaction ends with its receipt, or loads a value.                  *)
LEMMA RunReceives ==
  ASSUME NEW j \in Job, NEW r, NEW l
  PROVE  [j EXCEPT !.receipts = r, !.loaded = l] = Run(j.stage, j.base, j.txs, r, j.cache, l)
<1> DEFINE whole == Run(j.stage, j.base, j.txs, j.receipts, j.cache, j.loaded)
           received == Run(j.stage, j.base, j.txs, r, j.cache, j.loaded)
<1>1. j = whole
  BY RunForm
<1>2. [whole EXCEPT !.receipts = r] = received
  BY DEF Run
<1>3. [received EXCEPT !.loaded = l] = Run(j.stage, j.base, j.txs, r, j.cache, l)
  BY DEF Run
<1> HIDE DEF whole, received
<1> QED
  BY <1>1, <1>2, <1>3

(* The fork of a transaction is merged.                                    *)
LEMMA RunMerges ==
  ASSUME job \in Job, Merge
  PROVE  job' = Run(job.stage, job.base, job.txs, Append(job.receipts, TRUE),
                    Stored(job.cache, Writes(Current, job.loaded)), <<>>)
<1> DEFINE c == Stored(job.cache, Writes(Current, job.loaded))
           r == Append(job.receipts, TRUE)
           nothing == <<>>
           whole == Run(job.stage, job.base, job.txs, job.receipts, job.cache, job.loaded)
           cached == Run(job.stage, job.base, job.txs, job.receipts, c, job.loaded)
           received == Run(job.stage, job.base, job.txs, r, c, job.loaded)
<1>1. job' = [job EXCEPT !.cache = c, !.receipts = r, !.loaded = nothing]
  BY DEF Merge
<1> HIDE DEF c, r, nothing
<1>2. job = whole
  BY RunForm
<1>3. [whole EXCEPT !.cache = c] = cached
  BY DEF Run
<1>4. [cached EXCEPT !.receipts = r] = received
  BY DEF Run
<1>5. [received EXCEPT !.loaded = nothing] = Run(job.stage, job.base, job.txs, r, c, nothing)
  BY DEF Run
<1> HIDE DEF whole, cached, received
<1>6. job' = Run(job.stage, job.base, job.txs, r, c, nothing)
  BY <1>1, <1>2, <1>3, <1>4, <1>5
<1> QED
  BY <1>6 DEF c, r, nothing

(* A transaction that begins has loaded nothing out of range.              *)
LEMMA NothingLoaded ==
  ASSUME job' \in Job, job'.loaded = <<>>
  PROVE  LoadedOK'
<1>1. CASE Running'
  <2>1. Current' \in Transactions
    BY <1>1 DEF Running, Current, Job
  <2>2. Len(Loads(Current')) \in Nat
    BY <2>1, LoadsAreKeys
  <2> QED
    BY <1>1, <2>2 DEF LoadedOK
<1> QED
  BY <1>1 DEF LoadedOK

(* Every action keeps the invariant.                                       *)
LEMMA IInvStep == IInv /\ [Next]_vars => IInv'
<1> SUFFICES ASSUME IInv, [Next]_vars PROVE IInv'
  OBVIOUS
<1>0. /\ TypeOK /\ BalancesInRange /\ MaxFaults \in Nat /\ MaxForeign \in Nat /\ job \in Job
      /\ State \in Stores /\ InRange(State)
  BY VirtualMachineAssumption, StateInRange DEF IInv, TypeOK
<1>1. CASE \E t \in Transactions : SendTransaction(t) \/ Expire(t)
  <2> PICK t \in Transactions : SendTransaction(t) \/ Expire(t)
    BY <1>1
  <2>1. /\ sent' \in Seq(Transactions) /\ pending' \subseteq Transactions
        /\ UNCHANGED <<chain, lastBlock, job, foreign, faults>>
    <3>1. sent \in Seq(Transactions) /\ pending \subseteq Transactions
      BY <1>0 DEF TypeOK
    <3>2. CASE SendTransaction(t)
      BY <3>1, <3>2 DEF SendTransaction
    <3>3. CASE Expire(t)
      BY <3>1, <3>3 DEF Expire
    <3> QED
      BY <3>2, <3>3
  <2> QED
    BY <1>0, <2>1, RunStays DEF TypeOK, BalancesInRange
<1>2. CASE \E t \in Transactions : ForeignBlock(t)
  <2> PICK t \in Transactions : ForeignBlock(t)
    BY <1>2
  <2> DEFINE b == [txs |-> <<t>>, receipts |-> <<Succeeds(State, t)>>, after |-> Effect(State, t)]
  <2>1. Effect(State, t) \in Stores /\ InRange(Effect(State, t))
    BY <1>0, EffectInRange
  <2>2. <<t>> \in Seq(Transactions) /\ <<Succeeds(State, t)>> \in Seq(BOOLEAN)
    BY DEF Succeeds
  <2>3. b \in Block /\ b.after = Effect(State, t)
    BY <2>1, <2>2 DEF Block
  <2>4. chain' = Append(chain, b)
    BY DEF ForeignBlock
  <2>5. chain' \in Seq(Block) /\ BalancesInRange'
    <3> HIDE DEF b
    <3> QED BY <1>0, <2>1, <2>3, <2>4, ChainGrows
  <2>6. sent' \in Seq(Transactions) /\ pending' \subseteq Transactions /\ foreign' \in 0..MaxForeign
    BY <1>0 DEF ForeignBlock, TypeOK
  <2> QED
    BY <2>5, <2>6, RunStays DEF ForeignBlock
<1>3. CASE AppendNextBlock
  <2>1. lastBlock' \in Nat /\ job' = [job EXCEPT !.stage = "pool", !.base = lastBlock']
        /\ UNCHANGED <<sent, pending, chain, foreign, faults>>
    BY <1>0, <1>3 DEF AppendNextBlock, TypeOK
  <2>2. job' = Run("pool", lastBlock', job.txs, job.receipts, job.cache, job.loaded)
    BY <1>0, <2>1, RunBegins
  <2>3. job' \in Job /\ job'.cache = job.cache /\ job'.loaded = <<>>
    BY <1>0, <1>3, <2>1, <2>2 DEF AppendNextBlock, Job, Run, IInv, LoadedOK, Running
  <2> QED
    BY <2>1, <2>3, NothingLoaded, RunGoesOn DEF IInv
<1>4. CASE GetAllPendingTransactions
  <2>1. PICK n \in 1..BlockSizeLimit : \E txs \in [1..n -> pending] :
          job' = [job EXCEPT !.stage = "run", !.txs = txs]
    BY <1>4 DEF GetAllPendingTransactions
  <2>2. PICK txs \in [1..n -> pending] : job' = [job EXCEPT !.stage = "run", !.txs = txs]
    BY <2>1
  <2>3. txs \in Seq(Transactions)
    BY <1>0, <2>2, VirtualMachineAssumption DEF TypeOK
  <2>4. job' = Run("run", job.base, txs, job.receipts, job.cache, job.loaded)
    BY <1>0, <2>2, RunBegins
  <2>5. job' \in Job /\ job'.cache = job.cache /\ job'.loaded = <<>>
    BY <1>0, <1>4, <2>3, <2>4
       DEF GetAllPendingTransactions, Job, Run, IInv, LoadedOK, Running
  <2> QED
    BY <1>0, <1>4, <2>5, NothingLoaded, RunGoesOn DEF GetAllPendingTransactions, IInv, TypeOK
<1>5. CASE LoadKey
  <2> DEFINE key == Loads(Current)[Len(job.loaded) + 1]
             v == OrZero(IF job.cache[key] # NoValue THEN job.cache[key] ELSE State[key])
  <2>1. /\ Running /\ Len(job.loaded) < Len(Loads(Current)) /\ Current \in Transactions
        /\ \A i \in 1..Len(job.loaded) : job.loaded[i] \in Values(Loads(Current)[i])
        /\ job.loaded \in Seq(Int) /\ Loads(Current) \in Seq(Keys)
    <3>1. Running /\ ~ Failed /\ ~ Complete
      BY <1>5 DEF LoadKey
    <3>2. Current \in Transactions /\ job.loaded \in Seq(Int)
      BY <1>0, <3>1 DEF Running, Current, Job
    <3>3. Loads(Current) \in Seq(Keys)
      BY <3>2, LoadsAreKeys
    <3> QED
      BY <3>1, <3>2, <3>3 DEF IInv, LoadedOK, Complete
  <2>2. key \in Keys
    BY <2>1
  <2>3. v \in Values(key) /\ v \in Int
    <3> HIDE DEF key
    <3>1. job.cache \in Stores /\ InRange(job.cache)
      BY <1>0 DEF IInv, Job
    <3> QED
      BY <1>0, <2>2, <3>1, OrZeroInRange
  <2>4. job' = [job EXCEPT !.loaded = Append(job.loaded, v)]
    BY <1>5 DEF LoadKey, Load
  <2> HIDE DEF v
  <2>5. job' = Run(job.stage, job.base, job.txs, job.receipts, job.cache, Append(job.loaded, v))
    BY <1>0, <2>4 DEF Job, Run
  <2>6. job' \in Job /\ job'.cache = job.cache /\ job'.loaded = Append(job.loaded, v)
    BY <1>0, <2>1, <2>3, <2>5 DEF Job, Run
  <2>7. Running' /\ Current' = Current
    BY <2>1, <2>5 DEF Running, Current, Run
  <2>8. LoadedOK'
    <3>1. \A i \in 1..Len(job'.loaded) : job'.loaded[i] \in Values(Loads(Current)[i])
      BY <2>1, <2>3, <2>6
    <3>2. Len(job'.loaded) <= Len(Loads(Current))
      BY <2>1, <2>3, <2>6
    <3> QED
      BY <2>7, <3>1, <3>2 DEF LoadedOK
  <2> QED
    BY <1>0, <1>5, <2>6, <2>8, RunGoesOn DEF LoadKey, IInv, TypeOK
<1>6. CASE Merge
  <2> DEFINE c == Stored(job.cache, Writes(Current, job.loaded))
             r == Append(job.receipts, TRUE)
  <2>1. Running /\ Complete
    BY <1>6 DEF Merge
  <2>2. /\ Current \in Transactions /\ job.loaded \in Seq(Int)
        /\ job.cache \in Stores /\ InRange(job.cache)
    BY <1>0, <2>1 DEF Running, Current, Job, IInv
  <2>3. /\ Len(job.loaded) = Len(Loads(Current)) /\ ~ FailsValidation(Current, job.loaded)
        /\ \A i \in 1..Len(job.loaded) : job.loaded[i] \in Values(Loads(Current)[i])
    BY <2>1 DEF Complete, Failed, IInv, LoadedOK
  <2>4. c \in Stores /\ InRange(c)
    BY <2>2, <2>3, WritesInRange, StoredInRange
  <2>5. r \in Seq(BOOLEAN) /\ <<>> \in Seq(Int)
    BY <1>0 DEF Job
  <2>6. job' = Run(job.stage, job.base, job.txs, r, c, <<>>)
    BY <1>0, <1>6, RunMerges
  <2> HIDE DEF c, r
  <2>7. job' \in Job /\ job'.cache = c /\ job'.loaded = <<>>
    BY <1>0, <2>4, <2>5, <2>6 DEF Job, Run
  <2> QED
    BY <1>0, <1>6, <2>4, <2>7, NothingLoaded, RunGoesOn DEF Merge, TypeOK
<1>7. CASE FailExpected
  <2> DEFINE r == Append(job.receipts, FALSE)
             nothing == <<>>
  <2>1. r \in Seq(BOOLEAN) /\ nothing \in Seq(Int)
    BY <1>0 DEF Job
  <2>2. job' = [job EXCEPT !.receipts = r, !.loaded = nothing]
    BY <1>7 DEF FailExpected
  <2> HIDE DEF r, nothing
  <2>3. job' = Run(job.stage, job.base, job.txs, r, job.cache, nothing)
    BY <1>0, <2>2, RunReceives
  <2>4. job' \in Job /\ job'.cache = job.cache /\ job'.loaded = <<>>
    BY <1>0, <2>1, <2>3 DEF Job, Run, nothing
  <2> QED
    BY <1>0, <1>7, <2>4, NothingLoaded, RunGoesOn DEF FailExpected, IInv, TypeOK
<1>8. CASE CommitBlock
  <2> DEFINE b == [txs |-> job.txs, receipts |-> job.receipts, after |-> Apply(State, job.cache)]
  <2>1. Apply(State, job.cache) \in Stores /\ InRange(Apply(State, job.cache))
    BY <1>0, ApplyInRange DEF IInv, Job
  <2>2. b \in Block /\ b.after = Apply(State, job.cache)
    BY <1>0, <2>1 DEF Block, Job
  <2>3. chain' = Append(chain, b)
    BY <1>8 DEF CommitBlock
  <2>4. chain' \in Seq(Block) /\ BalancesInRange'
    <3> HIDE DEF b
    <3> QED BY <1>0, <2>1, <2>2, <2>3, ChainGrows
  <2>5. /\ pending' \subseteq Transactions /\ lastBlock' \in Nat /\ job' = Idle
        /\ UNCHANGED <<sent, foreign, faults>>
    BY <1>0, <1>8 DEF CommitBlock, TypeOK, Job
  <2>6. job' \in Job /\ InRange(job'.cache) /\ LoadedOK'
    BY <2>5, IdleOK, NothingLoaded DEF Idle
  <2> QED
    BY <1>0, <2>4, <2>5, <2>6 DEF IInv, TypeOK
<1>9. CASE EmptyPool \/ FailUnexpected \/ CommitBlockRejected \/ LoadFails \/ CommitBlockFails
  <2>1. /\ job' = Idle /\ UNCHANGED <<sent, chain, foreign, pending, lastBlock>>
        /\ faults' \in 0..MaxFaults
    BY <1>0, <1>9 DEF EmptyPool, FailUnexpected, CommitBlockRejected, LoadFails,
       CommitBlockFails, TypeOK
  <2> QED
    BY <1>0, <2>1, RunEnds DEF TypeOK
<1>10. CASE UNCHANGED vars
  BY <1>0, <1>10, RunStays DEF vars, TypeOK, BalancesInRange
<1> QED
  BY <1>1, <1>2, <1>3, <1>4, <1>5, <1>6, <1>7, <1>8, <1>9, <1>10 DEF Next, Step

(* The invariant holds in every state that VirtualMachine reaches.         *)
THEOREM Invariance == Spec => []IInv
<1> QED
  BY IInvInit, IInvStep, PTL DEF Spec

(* Blocks, receipts, cache and loaded values keep their types: an unset    *)
(* key never reaches a contract as anything but a number.                  *)
THEOREM TypeCorrect == Spec => []TypeOK
<1>1. IInv => TypeOK
  BY DEF IInv
<1> QED
  BY Invariance, <1>1, PTL

(* No KinAtn balance is ever below 0 or above the largest exact number,    *)
(* and the pool always holds a whole number of allocations, whatever was   *)
(* read while the chain grew and whichever keys the cache confused.        *)
THEOREM BalancesStayInRange == Spec => []BalancesInRange
<1>1. IInv => BalancesInRange
  BY DEF IInv
<1> QED
  BY Invariance, <1>1, PTL

-----------------------------------------------------------------------------
(***************************************************************************)
(* The blocks are atomic executions.                                       *)
(***************************************************************************)
(* A set of numbers has a least one: what induction over data rests on.    *)
LEMMA LeastNumber ==
  ASSUME NEW T \in SUBSET Nat, T # {}
  PROVE  \E x \in T : \A y \in T : x <= y
<1> DEFINE R == OpToRel(<, Nat)
<1>1. IsWellFoundedOn(R, Nat)
  BY NatLessThanWellFounded
<1>2. \A x, y \in Nat : x < y => <<x, y>> \in R
  BY DEF OpToRel
<1> HIDE DEF R
<1>3. PICK x \in T : \A y \in T : <<y, x>> \notin R
  BY <1>1, WFMin
<1>4. \A y \in T : x \in Nat /\ y \in Nat /\ ~ (y < x)
  BY <1>2, <1>3
<1> QED
  BY <1>4

(* The recursive definition of the states between transactions has a       *)
(* solution.                                                               *)
LEMMA StatesEquation ==
  ASSUME NEW state, NEW txs, Len(txs) \in Nat
  PROVE  /\ States(state, txs)[0] = state
         /\ \A n \in 1..Len(txs) :
              States(state, txs)[n] = Effect(States(state, txs)[n - 1], txs[n])
<1> DEFINE F(f, n) == IF n = 0 THEN state ELSE Effect(f[n - 1], txs[n])
           Solves(f, k) == f = [n \in 0..k |-> F(f, n)]
           Bad == {k \in 0..Len(txs) : ~ \E f : Solves(f, k)}
<1>1. ASSUME NEW k \in 1..Len(txs), NEW f, Solves(f, k - 1)
      PROVE  \E g : Solves(g, k)
  <2> DEFINE g == [n \in 0..k |-> F(f, n)]
  <2>1. \A n \in 0..(k - 1) : n \in 0..k /\ f[n] = F(f, n)
    <3>1. \A n \in 0..(k - 1) : n \in 0..k
      OBVIOUS
    <3>2. \A n \in 0..(k - 1) : f[n] = F(f, n)
      BY <1>1
    <3> QED
      BY <3>1, <3>2
  <2>2. \A n \in 0..k : g[n] = F(f, n)
    OBVIOUS
  <2>3. \A n \in 0..(k - 1) : g[n] = f[n]
    <3> HIDE DEF g, F
    <3> QED
      BY <2>1, <2>2
  <2>4. \A n \in 0..k : F(g, n) = F(f, n)
    <3>1. \A n \in 0..k : n # 0 => n - 1 \in 0..(k - 1)
      OBVIOUS
    <3> HIDE DEF g
    <3> QED
      BY <2>3, <3>1
  <2>5. [n \in 0..k |-> F(g, n)] = [n \in 0..k |-> F(f, n)]
    <3> HIDE DEF g, F
    <3> QED
      BY <2>4
  <2> QED
    BY <2>5
<1>2. \E f : Solves(f, 0)
  <2> DEFINE f == [n \in 0..0 |-> state]
  <2>1. f = [n \in 0..0 |-> F(f, n)]
    OBVIOUS
  <2> QED
    BY <2>1
<1>3. Bad = {}
  <2> SUFFICES ASSUME Bad # {} PROVE FALSE
    OBVIOUS
  <2>1. Bad \in SUBSET Nat
    OBVIOUS
  <2> HIDE DEF Bad
  <2>2. PICK k \in Bad : \A j \in Bad : k <= j
    BY <2>1, LeastNumber
  <2>3. k \in 0..Len(txs) /\ ~ \E f : Solves(f, k)
    BY DEF Bad
  <2> HIDE DEF Solves
  <2>4. k \in 1..Len(txs) /\ k - 1 \in 0..Len(txs)
    BY <1>2, <2>3
  <2>5. k - 1 \notin Bad
    BY <2>2, <2>4
  <2>6. \E f : Solves(f, k - 1)
    BY <2>4, <2>5 DEF Bad
  <2> QED
    BY <1>1, <2>3, <2>4, <2>6
<1>4. Solves(States(state, txs), Len(txs))
  <2>1. States(state, txs) = CHOOSE f : Solves(f, Len(txs))
    BY DEF States
  <2> HIDE DEF Solves
  <2>2. \E f : Solves(f, Len(txs))
    BY <1>3
  <2> QED
    BY <2>1, <2>2
<1> HIDE DEF F
<1>5. \A n \in 0..Len(txs) : States(state, txs)[n] = F(States(state, txs), n)
  BY <1>4
<1>6. 0 \in 0..Len(txs) /\ \A n \in 1..Len(txs) : n \in 0..Len(txs) /\ n # 0
  OBVIOUS
<1> QED
  BY <1>5, <1>6 DEF F

(* Stores in the cache of a set are stores in the state under it.          *)
LEMMA ApplyStored ==
  ASSUME NEW map \in Stores, NEW cache \in Stores, NEW writes,
         DOMAIN writes \in {{}, {1}, {1, 2}}, \A i \in DOMAIN writes : writes[i].value \in Int
  PROVE  Apply(map, Stored(cache, writes)) = Stored(Apply(map, cache), writes)
<1>1. ASSUME NEW k \in Keys
      PROVE  Apply(map, Stored(cache, writes))[k] = Stored(Apply(map, cache), writes)[k]
  <2> DEFINE at == {i \in DOMAIN writes : decodeMapKey(writes[i].key) = k}
             last == CHOOSE i \in at : \A j \in at : j <= i
             v == writes[last].value
  <2>1. CASE at = {}
    <3>1. Stored(cache, writes)[k] = cache[k]
      BY <2>1 DEF Stored
    <3>2. Stored(Apply(map, cache), writes)[k] = Apply(map, cache)[k]
      BY <2>1 DEF Stored
    <3> QED
      BY <3>1, <3>2 DEF Apply
  <2>2. CASE at # {}
    <3>1. at \subseteq {1, 2}
      OBVIOUS
    <3>2. \E i \in at : \A j \in at : j <= i
      BY <2>2, <3>1
    <3>3. last \in at
      BY <3>2
    <3>4. v \in Int /\ v # NoValue
      BY <3>3, ContractsAssumption
    <3>5. Stored(cache, writes)[k] = v /\ Stored(Apply(map, cache), writes)[k] = v
      BY <2>2 DEF Stored
    <3> HIDE DEF v
    <3> QED
      BY <3>4, <3>5 DEF Apply
  <2> QED
    BY <2>1, <2>2
<1> QED
  BY <1>1 DEF Apply, Stored

(* What a transaction loads, in a state.                                   *)
LEMMA LoadedValues ==
  ASSUME NEW state \in Stores, NEW t \in Transactions
  PROVE  /\ ValuesAt(state, Loads(t)) \in Seq(Int)
         /\ Len(ValuesAt(state, Loads(t))) = Len(Loads(t))
         /\ \A i \in 1..Len(Loads(t)) : ValuesAt(state, Loads(t))[i] = OrZero(state[Loads(t)[i]])
<1> DEFINE vals == ValuesAt(state, Loads(t))
<1>1. /\ Loads(t) \in Seq(Keys) /\ Len(Loads(t)) \in Nat
      /\ DOMAIN Loads(t) = 1..Len(Loads(t))
  BY LoadsAreKeys
<1>2. \A i \in DOMAIN Loads(t) : OrZero(state[Loads(t)[i]]) \in Int
  BY <1>1 DEF Stores, OrZero
<1>3. vals \in [1..Len(Loads(t)) -> Int]
  BY <1>1, <1>2 DEF ValuesAt
<1>4. \A i \in 1..Len(Loads(t)) : vals[i] = OrZero(state[Loads(t)[i]])
  BY <1>1 DEF ValuesAt
<1> HIDE DEF vals
<1>5. vals \in Seq(Int) /\ Len(vals) = Len(Loads(t))
  BY <1>1, <1>3
<1> QED
  BY <1>4, <1>5 DEF vals

\* The values are the first of those that the transaction loads in a state,
\* and it did not fail on any but the last of them.
LoadedFrom(state, t, vals) ==
  /\ vals \in Seq(Int) /\ Len(vals) <= Len(Loads(t))
  /\ \A i \in 1..Len(vals) : vals[i] = OrZero(state[Loads(t)[i]])
  /\ \A n \in 0..(Len(vals) - 1) : ~ FailsValidation(t, SubSeq(vals, 1, n))

(* The first values are the first of all.                                  *)
LEMMA LoadedPrefixes ==
  ASSUME NEW state \in Stores, NEW t \in Transactions, NEW vals, LoadedFrom(state, t, vals)
  PROVE  \A n \in 0..Len(vals) :
           /\ SubSeq(ValuesAt(state, Loads(t)), 1, n) = SubSeq(vals, 1, n)
           /\ n = Len(vals) => SubSeq(vals, 1, n) = vals
<1> DEFINE all == ValuesAt(state, Loads(t))
<1>1. /\ all \in Seq(Int) /\ Len(all) = Len(Loads(t)) /\ Len(vals) <= Len(all)
      /\ vals \in Seq(Int) /\ \A i \in 1..Len(vals) : vals[i] = all[i]
  BY LoadedValues DEF LoadedFrom
<1> HIDE DEF all
<1> SUFFICES ASSUME NEW n \in 0..Len(vals)
             PROVE  /\ SubSeq(all, 1, n) = SubSeq(vals, 1, n)
                    /\ n = Len(vals) => SubSeq(vals, 1, n) = vals
  BY DEF all
<1>2. n \in 0..Len(vals) /\ n <= Len(all) /\ Len(vals) \in Nat /\ Len(all) \in Nat
  BY <1>1
<1>3. SubSeq(all, 1, n) = [i \in 1..n |-> all[i]] /\ SubSeq(vals, 1, n) = [i \in 1..n |-> vals[i]]
  BY <1>1, <1>2
<1>4. \A i \in 1..n : vals[i] = all[i]
  BY <1>1, <1>2
<1>5. n = Len(vals) => SubSeq(vals, 1, n) = vals
  BY <1>1
<1> QED
  BY <1>3, <1>4, <1>5

(* A transaction that fails on what it loaded has no effect in this state; *)
(* one that loaded all and does not fail has all its effects.              *)
LEMMA LoadedDecides ==
  ASSUME NEW state \in Stores, NEW t \in Transactions, NEW vals, LoadedFrom(state, t, vals)
  PROVE  /\ FailsValidation(t, vals) => ~ Succeeds(state, t)
         /\ ~ FailsValidation(t, vals) /\ Len(vals) = Len(Loads(t))
              => Succeeds(state, t) /\ ValuesAt(state, Loads(t)) = vals
<1> DEFINE all == ValuesAt(state, Loads(t))
<1>0. /\ all \in Seq(Int) /\ Len(all) = Len(Loads(t)) /\ vals \in Seq(Int)
      /\ Len(vals) \in Nat /\ Len(vals) <= Len(all) /\ Len(all) \in Nat
  BY LoadedValues DEF LoadedFrom
<1>1. \A n \in 0..Len(vals) :
        SubSeq(all, 1, n) = SubSeq(vals, 1, n) /\ (n = Len(vals) => SubSeq(vals, 1, n) = vals)
  BY LoadedPrefixes
<1>2. Succeeds(state, t) <=> \A n \in 0..Len(all) : ~ FailsValidation(t, SubSeq(all, 1, n))
  BY DEF Succeeds
<1> HIDE DEF all
<1>3. Len(vals) \in 0..Len(vals) /\ Len(vals) \in 0..Len(all)
  BY <1>0
<1>4. SubSeq(all, 1, Len(vals)) = vals
  BY <1>1, <1>3
<1>5. ASSUME FailsValidation(t, vals) PROVE ~ Succeeds(state, t)
  BY <1>2, <1>3, <1>4, <1>5
<1>6. ASSUME ~ FailsValidation(t, vals), Len(vals) = Len(all)
      PROVE  Succeeds(state, t) /\ all = vals
  <2>1. all = vals
    BY <1>0, <1>4, <1>6
  <2>2. \A n \in 0..Len(vals) : n = Len(vals) \/ n \in 0..(Len(vals) - 1)
    BY <1>0
  <2>3. \A n \in 0..Len(vals) : ~ FailsValidation(t, SubSeq(vals, 1, n))
    BY <1>1, <1>6, <2>2 DEF LoadedFrom
  <2> QED
    BY <1>2, <2>1, <2>3
<1> QED
  BY <1>0, <1>5, <1>6 DEF all

\* What a run has from the chain: its base is no later than the last block,
\* and it has executed nothing before the pool answers.
BaseOK ==
  /\ lastBlock \in 0..Len(chain) \cup {None}
  /\ job.base <= Len(chain)
  /\ job.stage = "idle" => job = Idle
  /\ job.stage = "pool" => job.cache = NothingStored /\ job.receipts = <<>>

\* A run that has read one state only: its cache, laid over that, is the
\* state after the transactions so far, and the current one loads from it.
RunIs(state, j) ==
  LET k == Len(j.receipts)
      after == States(state, j.txs)
  IN  /\ k <= Len(j.txs)
      /\ Apply(state, j.cache) = after[k]
      /\ \A i \in 1..k : j.receipts[i] = Succeeds(after[i - 1], j.txs[i])
      /\ k < Len(j.txs) => LoadedFrom(after[k], j.txs[k + 1], j.loaded)

\* So is every run whose block the storage would still accept.
RunOK == job.stage = "run" /\ job.base = Len(chain) => RunIs(State, job)

AtomicInv == IInv /\ BaseOK /\ RunOK /\ BlocksAreAtomicExecutions

(* Blocks stay what they are when the chain does, or grows by another.     *)
LEMMA BlocksGrow ==
  ASSUME TypeOK, BlocksAreAtomicExecutions, NEW b, chain' = Append(chain, b),
         b.after = Execute(State, b.txs), b.receipts = Receipts(State, b.txs)
  PROVE  BlocksAreAtomicExecutions'
<1>1. chain \in Seq(Block) /\ Len(chain) \in Nat /\ DOMAIN chain = 1..Len(chain)
  BY DEF TypeOK
<1>2. /\ DOMAIN chain' = 1..(Len(chain) + 1) /\ chain'[Len(chain) + 1] = b
      /\ \A h \in 1..Len(chain) : chain'[h] = chain[h]
  BY <1>1
<1>3. \A h \in 0..Len(chain) : StateAfter(h)' = StateAfter(h)
  BY <1>1, <1>2 DEF StateAfter
<1> SUFFICES ASSUME NEW h \in DOMAIN chain'
             PROVE  /\ chain'[h].after = Execute(StateAfter(h - 1)', chain'[h].txs)
                    /\ chain'[h].receipts = Receipts(StateAfter(h - 1)', chain'[h].txs)
  BY DEF BlocksAreAtomicExecutions, Execute, Receipts, States, Effect, Succeeds
<1>4. h - 1 \in 0..Len(chain) /\ StateAfter(h - 1)' = StateAfter(h - 1)
  BY <1>1, <1>2, <1>3
<1>5. CASE h \in 1..Len(chain)
  BY <1>1, <1>2, <1>4, <1>5 DEF BlocksAreAtomicExecutions
<1>6. CASE h = Len(chain) + 1
  <2>1. StateAfter(h - 1) = State
    BY <1>1, <1>6 DEF State
  <2> QED
    BY <1>2, <1>4, <1>6, <2>1
<1> QED
  BY <1>1, <1>2, <1>5, <1>6

(* The transaction of a run is over, and the state after it is the cache's.*)
LEMMA RunTakesOne ==
  ASSUME NEW state, NEW j \in Job, RunIs(state, j), Len(j.receipts) < Len(j.txs), NEW c, NEW ok,
         NEW before, before = States(state, j.txs)[Len(j.receipts)],
         NEW t, t = j.txs[Len(j.receipts) + 1],
         Apply(state, c) = Effect(before, t), ok = Succeeds(before, t)
  PROVE  RunIs(state, Run(j.stage, j.base, j.txs, Append(j.receipts, ok), c, <<>>))
<1> DEFINE k == Len(j.receipts)
           after == States(state, j.txs)
           r == Append(j.receipts, ok)
           w == Run(j.stage, j.base, j.txs, r, c, <<>>)
<1>1. /\ j.txs \in Seq(Transactions) /\ j.receipts \in Seq(BOOLEAN)
      /\ k \in Nat /\ k < Len(j.txs) /\ Len(j.txs) \in Nat
  BY DEF Job
<1>2. /\ Len(r) = k + 1 /\ r[k + 1] = ok /\ \A i \in 1..k : r[i] = j.receipts[i]
  BY <1>1
<1>3. k + 1 \in 1..Len(j.txs) /\ k + 1 - 1 = k
  BY <1>1
<1>4. \A i \in 1..k : j.receipts[i] = Succeeds(after[i - 1], j.txs[i])
  BY DEF RunIs
<1> HIDE DEF k
<1>5. w.txs = j.txs /\ w.receipts = r /\ w.cache = c /\ w.loaded = <<>>
  BY DEF Run
<1>6. before = after[k] /\ t = j.txs[k + 1]
  BY DEF k
<1> HIDE DEF after, r, w
<1>7. Apply(state, c) = after[k + 1]
  <2>1. after[k + 1] = Effect(after[k + 1 - 1], j.txs[k + 1])
    BY <1>1, <1>3, StatesEquation DEF after
  <2>2. after[k + 1] = Effect(after[k], j.txs[k + 1])
    BY <1>3, <2>1, Zenon
  <2> QED
    BY <1>6, <2>2, Zenon
<1>8. \A i \in 1..(k + 1) : r[i] = Succeeds(after[i - 1], j.txs[i])
  <2> TAKE i \in 1..(k + 1)
  <2>1. i \in 1..k \/ (i = k + 1 /\ i - 1 = k)
    BY <1>1
  <2> QED
    BY <1>2, <1>4, <1>6, <2>1
<1>9. k + 1 < Len(j.txs) => LoadedFrom(after[k + 1], j.txs[k + 1 + 1], <<>>)
  <2> SUFFICES ASSUME k + 1 < Len(j.txs) PROVE LoadedFrom(after[k + 1], j.txs[k + 1 + 1], <<>>)
    OBVIOUS
  <2>1. j.txs[k + 1 + 1] \in Transactions
    BY <1>1
  <2>2. Len(Loads(j.txs[k + 1 + 1])) \in Nat
    BY <2>1, LoadsAreKeys
  <2> QED
    BY <2>2 DEF LoadedFrom
<1>10. k + 1 <= Len(j.txs)
  BY <1>1
<1>11. States(state, w.txs) = after
  BY <1>5 DEF after
<1>12. RunIs(state, w)
  <2> HIDE DEF LoadedFrom
  <2> QED
    BY <1>2, <1>5, <1>7, <1>8, <1>9, <1>10, <1>11 DEF RunIs
<1> QED
  BY <1>12 DEF w, r

(* A run that the pool has just given its transactions.                    *)
LEMMA RunIsNew ==
  ASSUME NEW state \in Stores, NEW j \in Job,
         j.cache = NothingStored, j.receipts = <<>>, j.loaded = <<>>
  PROVE  RunIs(state, j)
<1>1. j.txs \in Seq(Transactions) /\ Len(j.txs) \in Nat
  BY DEF Job
<1>2. Apply(state, j.cache) = state
  BY DEF Apply, NothingStored, Stores
<1>3. States(state, j.txs)[0] = state
  BY <1>1, StatesEquation
<1>4. 0 < Len(j.txs) => LoadedFrom(States(state, j.txs)[0], j.txs[0 + 1], j.loaded)
  <2> SUFFICES ASSUME 0 < Len(j.txs) PROVE LoadedFrom(States(state, j.txs)[0], j.txs[0 + 1], <<>>)
    OBVIOUS
  <2>1. j.txs[0 + 1] \in Transactions
    BY <1>1
  <2>2. Len(Loads(j.txs[0 + 1])) \in Nat
    BY <2>1, LoadsAreKeys
  <2> QED
    BY <2>2 DEF LoadedFrom
<1>5. Len(j.receipts) = 0 /\ 0 <= Len(j.txs)
  BY <1>1
<1> HIDE DEF LoadedFrom
<1> QED
  BY <1>2, <1>3, <1>4, <1>5 DEF RunIs

(* The current transaction loads its next value, and does not fail before. *)
LEMMA RunLoadsOne ==
  ASSUME NEW state \in Stores, NEW j \in Job, RunIs(state, j), Len(j.receipts) < Len(j.txs),
         NEW t, t = j.txs[Len(j.receipts) + 1], Len(j.loaded) < Len(Loads(t)),
         ~ FailsValidation(t, j.loaded),
         NEW v \in Int, v = OrZero(Apply(state, j.cache)[Loads(t)[Len(j.loaded) + 1]])
  PROVE  RunIs(state, Run(j.stage, j.base, j.txs, j.receipts, j.cache, Append(j.loaded, v)))
<1> DEFINE k == Len(j.receipts)
           n == Len(j.loaded)
           l == Append(j.loaded, v)
           w == Run(j.stage, j.base, j.txs, j.receipts, j.cache, l)
           now == States(state, j.txs)[k]
<1>1. /\ k < Len(j.txs) /\ t = j.txs[k + 1] /\ j.loaded \in Seq(Int) /\ n \in Nat
      /\ Apply(state, j.cache) = now /\ LoadedFrom(now, t, j.loaded)
  BY DEF RunIs, Job
<1>2. /\ w.txs = j.txs /\ w.receipts = j.receipts /\ w.cache = j.cache /\ w.loaded = l
  BY DEF Run
<1>3. t \in Transactions /\ Len(Loads(t)) \in Nat
  <2>1. t \in Transactions
    BY DEF Job
  <2> QED
    BY <2>1, LoadsAreKeys
<1> HIDE DEF now, w
<1>4. /\ l \in Seq(Int) /\ Len(l) = n + 1 /\ l[n + 1] = v
      /\ \A i \in 1..n : l[i] = j.loaded[i]
      /\ \A i \in 0..n : SubSeq(l, 1, i) = SubSeq(j.loaded, 1, i)
      /\ SubSeq(j.loaded, 1, n) = j.loaded
  BY <1>1
<1> HIDE DEF l
<1>5. LoadedFrom(now, t, l)
  <2>1. \A i \in 1..(n + 1) : l[i] = OrZero(now[Loads(t)[i]])
    <3> TAKE i \in 1..(n + 1)
    <3>1. i \in 1..n \/ i = n + 1
      BY <1>1
    <3> QED
      BY <1>1, <1>4, <3>1 DEF LoadedFrom
  <2>2. \A i \in 0..n : ~ FailsValidation(t, SubSeq(l, 1, i))
    <3> TAKE i \in 0..n
    <3>1. i \in 0..(n - 1) \/ i = n
      BY <1>1
    <3> QED
      BY <1>1, <1>4, <3>1 DEF LoadedFrom
  <2>3. Len(l) <= Len(Loads(t)) /\ Len(l) - 1 = n
    BY <1>1, <1>3, <1>4
  <2> QED
    BY <1>4, <2>1, <2>2, <2>3 DEF LoadedFrom
<1> HIDE DEF n
<1>6. RunIs(state, w)
  <2> HIDE DEF LoadedFrom
  <2> QED
    BY <1>1, <1>2, <1>5 DEF RunIs, now
<1> QED
  BY <1>6 DEF w, l

(* A run that has executed all its transactions.                           *)
LEMMA RunIsDone ==
  ASSUME NEW state, NEW j \in Job, RunIs(state, j), Len(j.receipts) = Len(j.txs)
  PROVE  /\ Apply(state, j.cache) = Execute(state, j.txs)
         /\ j.receipts = Receipts(state, j.txs)
<1>1. Apply(state, j.cache) = Execute(state, j.txs)
  BY DEF RunIs, Execute
<1>2. \A i \in 1..Len(j.txs) : j.receipts[i] = Succeeds(States(state, j.txs)[i - 1], j.txs[i])
  BY DEF RunIs
<1>3. /\ j.receipts = [i \in 1..Len(j.txs) |-> j.receipts[i]]
      /\ DOMAIN j.txs = 1..Len(j.txs)
  BY DEF Job
<1>4. j.receipts = [i \in 1..Len(j.txs) |-> Succeeds(States(state, j.txs)[i - 1], j.txs[i])]
  BY <1>2, <1>3
<1> QED
  BY <1>1, <1>3, <1>4 DEF Receipts

(* The chain is as it was.                                                 *)
LEMMA ChainStays ==
  ASSUME AtomicInv, chain' = chain
  PROVE  /\ State' = State /\ BlocksAreAtomicExecutions'
         /\ Len(chain) \in Nat /\ job \in Job
<1>1. \A h : StateAfter(h)' = StateAfter(h)
  BY DEF StateAfter
<1>2. State' = State
  BY DEF State, StateAfter
<1>3. BlocksAreAtomicExecutions'
  BY <1>1 DEF AtomicInv, BlocksAreAtomicExecutions
<1> QED
  BY <1>2, <1>3 DEF AtomicInv, IInv, TypeOK

(* The run stays as it is, is over, or goes on.                            *)
LEMMA AtomicStays ==
  ASSUME AtomicInv, job' = job, chain' = chain, lastBlock' = lastBlock
  PROVE  BaseOK' /\ RunOK' /\ BlocksAreAtomicExecutions'
<1>1. BaseOK'
  BY ChainStays DEF AtomicInv, BaseOK
<1>2. RunOK'
  BY ChainStays DEF AtomicInv, RunOK
<1> QED
  BY <1>1, <1>2, ChainStays

(* A run may end at any time.                                              *)
LEMMA AtomicEnds ==
  ASSUME AtomicInv, job' = Idle, chain' = chain, lastBlock' = lastBlock
  PROVE  BaseOK' /\ RunOK' /\ BlocksAreAtomicExecutions'
<1>1. BaseOK'
  BY ChainStays DEF AtomicInv, BaseOK, Idle
<1>2. RunOK'
  BY DEF RunOK, Idle
<1> QED
  BY <1>1, <1>2, ChainStays

(* A step of a run that keeps RunOK keeps the invariant.                   *)
LEMMA AtomicGoesOn ==
  ASSUME AtomicInv, chain' = chain, lastBlock' = lastBlock,
         job.stage = "run", job'.stage = "run", job'.base = job.base,
         RunIs(State, job) => RunIs(State, job')
  PROVE  BaseOK' /\ RunOK' /\ BlocksAreAtomicExecutions'
<1>1. BaseOK'
  BY ChainStays DEF AtomicInv, BaseOK
<1>2. RunOK'
  BY ChainStays DEF AtomicInv, RunOK
<1> QED
  BY <1>1, <1>2, ChainStays

(* No block, no run.                                                       *)
LEMMA AtomicInvInit == Init => AtomicInv
<1> SUFFICES ASSUME Init PROVE AtomicInv
  OBVIOUS
<1>1. BaseOK /\ RunOK /\ BlocksAreAtomicExecutions
  BY DEF Init, BaseOK, RunOK, BlocksAreAtomicExecutions, Idle
<1> QED
  BY <1>1, IInvInit DEF AtomicInv

(* Every action keeps the invariant.                                       *)
LEMMA AtomicInvStep == AtomicInv /\ [Next]_vars => AtomicInv'
<1> SUFFICES ASSUME AtomicInv, [Next]_vars PROVE BaseOK' /\ RunOK' /\ BlocksAreAtomicExecutions'
  BY IInvStep DEF AtomicInv
<1>0. /\ TypeOK /\ LoadedOK /\ BaseOK /\ BlocksAreAtomicExecutions /\ job \in Job
      /\ State \in Stores /\ Len(chain) \in Nat /\ chain \in Seq(Block)
      /\ job.cache \in Stores /\ InRange(job.cache)
  BY StateInRange DEF AtomicInv, IInv, TypeOK, Job
<1>1. CASE \E t \in Transactions : SendTransaction(t) \/ Expire(t)
  <2>1. job' = job /\ chain' = chain /\ lastBlock' = lastBlock
    BY <1>1 DEF SendTransaction, Expire
  <2> QED
    BY <2>1, AtomicStays
<1>2. CASE \E t \in Transactions : ForeignBlock(t)
  <2> PICK t \in Transactions : ForeignBlock(t)
    BY <1>2
  <2> DEFINE b == [txs |-> <<t>>, receipts |-> <<Succeeds(State, t)>>, after |-> Effect(State, t)]
  <2>1. chain' = Append(chain, b) /\ job' = job /\ lastBlock' = lastBlock
    BY DEF ForeignBlock
  <2>2. /\ States(State, <<t>>)[0] = State
        /\ States(State, <<t>>)[1] = Effect(State, t)
    <3>1. Len(<<t>>) = 1 /\ <<t>>[1] = t
      OBVIOUS
    <3>2. /\ States(State, <<t>>)[0] = State
          /\ States(State, <<t>>)[1] = Effect(States(State, <<t>>)[1 - 1], <<t>>[1])
      BY <3>1, StatesEquation
    <3> QED
      BY <3>1, <3>2
  <2>3. b.after = Execute(State, b.txs)
    BY <2>2 DEF Execute
  <2>4. b.receipts = Receipts(State, b.txs)
    <3>1. Receipts(State, <<t>>) = [i \in {1} |-> Succeeds(States(State, <<t>>)[i - 1], <<t>>[i])]
      BY DEF Receipts
    <3>2. Succeeds(States(State, <<t>>)[1 - 1], <<t>>[1]) = Succeeds(State, t)
      BY <2>2
    <3>3. Receipts(State, <<t>>) = [i \in {1} |-> Succeeds(State, t)]
      BY <3>1, <3>2
    <3> QED
      BY <3>3
  <2> HIDE DEF b
  <2>5. BlocksAreAtomicExecutions'
    BY <1>0, <2>1, <2>3, <2>4, BlocksGrow
  <2>6. Len(chain') = Len(chain) + 1
    BY <1>0, <2>1
  <2>7. BaseOK'
    BY <1>0, <2>1, <2>6 DEF BaseOK, Job
  <2>8. RunOK'
    BY <1>0, <2>1, <2>6 DEF BaseOK, RunOK, Job
  <2> QED
    BY <2>5, <2>7, <2>8
<1>3. CASE AppendNextBlock
  <2>1. /\ lastBlock' \in 0..Len(chain) /\ chain' = chain
        /\ job.stage = "idle" /\ job = Idle
        /\ job' = [job EXCEPT !.stage = "pool", !.base = lastBlock']
    BY <1>0, <1>3 DEF AppendNextBlock, BaseOK
  <2>2. job' = Run("pool", lastBlock', job.txs, job.receipts, job.cache, job.loaded)
    BY <1>0, <2>1, RunBegins
  <2>3. /\ job'.stage = "pool" /\ job'.base = lastBlock'
        /\ job'.cache = NothingStored /\ job'.receipts = <<>>
    BY <2>1, <2>2 DEF Run, Idle
  <2>4. BaseOK'
    BY <2>1, <2>3 DEF BaseOK
  <2>5. RunOK'
    BY <2>3 DEF RunOK
  <2> QED
    BY <2>1, <2>4, <2>5, ChainStays
<1>4. CASE GetAllPendingTransactions
  <2>1. PICK n \in 1..BlockSizeLimit : \E txs \in [1..n -> pending] :
          job' = [job EXCEPT !.stage = "run", !.txs = txs]
    BY <1>4 DEF GetAllPendingTransactions
  <2>2. PICK txs \in [1..n -> pending] : job' = [job EXCEPT !.stage = "run", !.txs = txs]
    BY <2>1
  <2>3. job' = Run("run", job.base, txs, job.receipts, job.cache, job.loaded)
    BY <1>0, <2>2, RunBegins
  <2>4. /\ job.stage = "pool" /\ chain' = chain /\ lastBlock' = lastBlock
        /\ job.cache = NothingStored /\ job.receipts = <<>> /\ job.loaded = <<>>
    BY <1>0, <1>4 DEF GetAllPendingTransactions, BaseOK, LoadedOK, Running
  <2>5. /\ job'.stage = "run" /\ job'.base = job.base /\ job'.cache = NothingStored
        /\ job'.receipts = <<>> /\ job'.loaded = <<>>
    BY <2>3, <2>4 DEF Run
  <2>6. job' \in Job
    BY IInvStep DEF AtomicInv, IInv, TypeOK
  <2>7. RunIs(State, job')
    BY <1>0, <2>5, <2>6, RunIsNew
  <2>8. BaseOK'
    BY <1>0, <2>4, <2>5 DEF BaseOK
  <2>9. RunOK'
    BY <2>4, <2>7, ChainStays DEF RunOK
  <2> QED
    BY <2>4, <2>8, <2>9, ChainStays
<1>5. CASE LoadKey
  <2> DEFINE key == Loads(Current)[Len(job.loaded) + 1]
             v == OrZero(IF job.cache[key] # NoValue THEN job.cache[key] ELSE State[key])
  <2>1. /\ job.stage = "run" /\ Len(job.receipts) < Len(job.txs)
        /\ Len(job.loaded) < Len(Loads(Current)) /\ Current \in Transactions
        /\ ~ FailsValidation(Current, job.loaded)
        /\ Loads(Current) \in Seq(Keys) /\ job.loaded \in Seq(Int)
    <3>1. Running /\ ~ Failed /\ ~ Complete
      BY <1>5 DEF LoadKey
    <3>2. Current \in Transactions /\ job.loaded \in Seq(Int)
      BY <1>0, <3>1 DEF Running, Current, Job
    <3>3. Loads(Current) \in Seq(Keys)
      BY <3>2, LoadsAreKeys
    <3> QED
      BY <1>0, <3>1, <3>2, <3>3 DEF LoadedOK, Complete, Failed, Running
  <2>2. key \in Keys
    BY <2>1
  <2>3. v \in Int /\ v = OrZero(Apply(State, job.cache)[key])
    <3> HIDE DEF key
    <3> QED
      BY <1>0, <2>2 DEF Apply, OrZero, Stores
  <2>4. job' = [job EXCEPT !.loaded = Append(job.loaded, v)]
    BY <1>5 DEF LoadKey, Load
  <2>5. chain' = chain /\ lastBlock' = lastBlock
    BY <1>5 DEF LoadKey
  <2> HIDE DEF v
  <2>6. job' = Run(job.stage, job.base, job.txs, job.receipts, job.cache, Append(job.loaded, v))
    BY <1>0, <2>4 DEF Job, Run
  <2>7. RunIs(State, job) => RunIs(State, job')
    BY <1>0, <2>1, <2>3, <2>6, RunLoadsOne DEF Current
  <2>8. job'.stage = "run" /\ job'.base = job.base
    BY <2>1, <2>6 DEF Run
  <2> QED
    BY <2>1, <2>5, <2>7, <2>8, AtomicGoesOn
<1>6. CASE Merge
  <2> DEFINE w == Writes(Current, job.loaded)
             c == Stored(job.cache, w)
             state == States(State, job.txs)[Len(job.receipts)]
  <2>1. /\ job.stage = "run" /\ Len(job.receipts) < Len(job.txs) /\ Running
        /\ Current \in Transactions /\ Current = job.txs[Len(job.receipts) + 1]
        /\ job.loaded \in Seq(Int) /\ Len(job.loaded) = Len(Loads(Current))
        /\ \A i \in 1..Len(job.loaded) : job.loaded[i] \in Values(Loads(Current)[i])
        /\ ~ FailsValidation(Current, job.loaded)
    BY <1>0, <1>6 DEF Merge, Running, Complete, Failed, Current, Job, LoadedOK
  <2>2. job' = Run(job.stage, job.base, job.txs, Append(job.receipts, TRUE), c, <<>>)
    BY <1>0, <1>6, RunMerges
  <2>3. chain' = chain /\ lastBlock' = lastBlock
    BY <1>6 DEF Merge
  <2>4. DOMAIN w \in {{}, {1}, {1, 2}} /\ \A i \in DOMAIN w : w[i].value \in Int
    <3>1. /\ DOMAIN w \in {{}, {1}, {1, 2}}
          /\ \A i \in DOMAIN w : w[i].key \in Keys /\ w[i].value \in Values(w[i].key)
      BY <2>1, WritesInRange
    <3> QED
      BY <3>1, ValuesAreIntegers
  <2>5. ASSUME RunIs(State, job) PROVE RunIs(State, job')
    <3>1. Apply(State, job.cache) = state /\ LoadedFrom(state, Current, job.loaded)
      BY <2>1, <2>5 DEF RunIs
    <3>2. state \in Stores
      BY <1>0, <3>1 DEF Apply, Stores
    <3> HIDE DEF state
    <3>3. Succeeds(state, Current) /\ ValuesAt(state, Loads(Current)) = job.loaded
      BY <2>1, <3>1, <3>2, LoadedDecides
    <3> HIDE DEF w
    <3>4. Apply(State, c) = Stored(state, w)
      BY <1>0, <2>4, <3>1, ApplyStored
    <3>5. Apply(State, c) = Effect(state, Current) /\ TRUE = Succeeds(state, Current)
      BY <3>3, <3>4 DEF Effect, w
    <3> HIDE DEF c
    <3> QED
      BY <1>0, <2>1, <2>2, <2>5, <3>5, RunTakesOne DEF state
  <2>6. job'.stage = "run" /\ job'.base = job.base
    BY <2>1, <2>2 DEF Run
  <2> QED
    BY <2>1, <2>3, <2>5, <2>6, AtomicGoesOn
<1>7. CASE FailExpected
  <2> DEFINE state == States(State, job.txs)[Len(job.receipts)]
  <2>1. /\ job.stage = "run" /\ Len(job.receipts) < Len(job.txs)
        /\ Current \in Transactions /\ Current = job.txs[Len(job.receipts) + 1]
        /\ FailsValidation(Current, job.loaded)
    BY <1>0, <1>7 DEF FailExpected, Running, Failed, Current, Job
  <2>2. job' = Run(job.stage, job.base, job.txs, Append(job.receipts, FALSE), job.cache, <<>>)
    BY <1>0, <1>7, RunReceives DEF FailExpected
  <2>3. chain' = chain /\ lastBlock' = lastBlock
    BY <1>7 DEF FailExpected
  <2>4. ASSUME RunIs(State, job) PROVE RunIs(State, job')
    <3>1. Apply(State, job.cache) = state /\ LoadedFrom(state, Current, job.loaded)
      BY <2>1, <2>4 DEF RunIs
    <3>2. state \in Stores
      BY <1>0, <3>1 DEF Apply, Stores
    <3> HIDE DEF state
    <3>3. ~ Succeeds(state, Current)
      BY <2>1, <3>1, <3>2, LoadedDecides
    <3>4. Apply(State, job.cache) = Effect(state, Current) /\ FALSE = Succeeds(state, Current)
      BY <3>1, <3>3 DEF Effect, Succeeds
    <3> QED
      BY <1>0, <2>1, <2>2, <2>4, <3>4, RunTakesOne DEF state
  <2>5. job'.stage = "run" /\ job'.base = job.base
    BY <2>1, <2>2 DEF Run
  <2> QED
    BY <2>1, <2>3, <2>4, <2>5, AtomicGoesOn
<1>8. CASE CommitBlock
  <2> DEFINE b == [txs |-> job.txs, receipts |-> job.receipts, after |-> Apply(State, job.cache)]
  <2>1. /\ job.base = Len(chain) /\ Len(job.receipts) = Len(job.txs)
        /\ chain' = Append(chain, b) /\ lastBlock' = Len(chain) + 1 /\ job' = Idle
        /\ job.stage = "run"
    BY <1>8 DEF CommitBlock, verifyNewBlock, Executed
  <2>2. b.after = Execute(State, b.txs) /\ b.receipts = Receipts(State, b.txs)
    <3>1. RunIs(State, job)
      BY <2>1 DEF AtomicInv, RunOK
    <3> QED
      BY <1>0, <2>1, <3>1, RunIsDone
  <2> HIDE DEF b
  <2>3. BlocksAreAtomicExecutions'
    BY <1>0, <2>1, <2>2, BlocksGrow
  <2>4. Len(chain') = Len(chain) + 1
    BY <1>0, <2>1
  <2>5. BaseOK' /\ RunOK'
    BY <1>0, <2>1, <2>4 DEF BaseOK, RunOK, Idle
  <2> QED
    BY <2>3, <2>5
<1>9. CASE EmptyPool \/ FailUnexpected \/ CommitBlockRejected \/ LoadFails \/ CommitBlockFails
  <2>1. job' = Idle /\ chain' = chain /\ lastBlock' = lastBlock
    BY <1>9 DEF EmptyPool, FailUnexpected, CommitBlockRejected, LoadFails, CommitBlockFails
  <2> QED
    BY <2>1, AtomicEnds
<1>10. CASE UNCHANGED vars
  <2>1. job' = job /\ chain' = chain /\ lastBlock' = lastBlock
    BY <1>10 DEF vars
  <2> QED
    BY <2>1, AtomicStays
<1> QED
  BY <1>1, <1>2, <1>3, <1>4, <1>5, <1>6, <1>7, <1>8, <1>9, <1>10 DEF Next, Step

(* Every block of the chain, of this node or another, is the all-or-       *)
(* nothing execution of its transactions on the state after its parent,    *)
(* with the receipts that belong to it: a set that read the state in many  *)
(* calls while the chain grew is rejected, and a failed transaction leaves *)
(* nothing in the cache.                                                   *)
THEOREM BlocksAreExecutions == Spec => []BlocksAreAtomicExecutions
<1>1. AtomicInv => BlocksAreAtomicExecutions
  BY DEF AtomicInv
<1> QED
  BY AtomicInvInit, AtomicInvStep, <1>1, PTL DEF Spec

-----------------------------------------------------------------------------
(***************************************************************************)
(* Sums over a finite set: the recursion behind FoldFunction.              *)
(***************************************************************************)
Pick(s) == CHOOSE x \in s : TRUE

Sums(f, S) ==
  LET iter[s \in SUBSET S] == IF s = {} THEN 0 ELSE f[Pick(s)] + iter[s \ {Pick(s)}]
  IN  iter

(* What is picked is in the set, and taking it away leaves one less.       *)
LEMMA Picked ==
  ASSUME NEW S, IsFiniteSet(S), NEW s \in SUBSET S, s # {}
  PROVE  /\ Pick(s) \in s /\ s \ {Pick(s)} \in SUBSET S
         /\ Cardinality(s) \in Nat /\ Cardinality(s \ {Pick(s)}) = Cardinality(s) - 1
<1>1. Pick(s) \in s
  BY DEF Pick
<1>2. IsFiniteSet(s)
  BY FS_Subset
<1> QED
  BY <1>1, <1>2, FS_RemoveElement, FS_CardinalityType

(* A set of subsets of a finite set has one that no smaller one is in.     *)
LEMMA LeastSet ==
  ASSUME NEW S, IsFiniteSet(S), NEW T \in SUBSET (SUBSET S), T # {}
  PROVE  \E s \in T : \A x \in s : s \ {x} \notin T
<1> DEFINE C == {Cardinality(s) : s \in T}
<1>1. \A s \in T : IsFiniteSet(s) /\ Cardinality(s) \in Nat
  BY FS_Subset, FS_CardinalityType
<1>2. C \in SUBSET Nat /\ C # {}
  BY <1>1
<1>3. PICK c \in C : \A d \in C : c <= d
  <2> HIDE DEF C
  <2> QED
    BY <1>2, LeastNumber
<1>4. PICK s \in T : c = Cardinality(s)
  BY <1>3
<1>5. ASSUME NEW x \in s, s \ {x} \in T PROVE FALSE
  <2>1. Cardinality(s \ {x}) = Cardinality(s) - 1
    BY <1>1, FS_RemoveElement
  <2>2. Cardinality(s) <= Cardinality(s \ {x})
    BY <1>3, <1>4, <1>5
  <2> QED
    BY <1>1, <2>1, <2>2
<1> QED
  BY <1>5

(* The recursive definition of the sums has a solution.                    *)
LEMMA SumsEquation ==
  ASSUME NEW S, IsFiniteSet(S), NEW f
  PROVE  /\ Sums(f, S)[{}] = 0
         /\ \A s \in SUBSET S :
              s # {} => Sums(f, S)[s] = f[Pick(s)] + Sums(f, S)[s \ {Pick(s)}]
<1> DEFINE F(g, s) == IF s = {} THEN 0 ELSE f[Pick(s)] + g[s \ {Pick(s)}]
           Upto(k) == {s \in SUBSET S : Cardinality(s) <= k}
           Solves(g, k) == g = [s \in Upto(k) |-> F(g, s)]
           Bad == {k \in Nat : ~ \E g : Solves(g, k)}
<1>1. \A s \in SUBSET S : Cardinality(s) \in Nat /\ Cardinality(s) <= Cardinality(S)
  BY FS_Subset, FS_CardinalityType
<1>2. {} \in SUBSET S /\ Cardinality({}) = 0 /\ Cardinality(S) \in Nat
  BY FS_EmptySet, FS_CardinalityType
<1>3. \A s \in SUBSET S : Cardinality(s) <= 0 => s = {}
  BY <1>1, FS_Subset, FS_EmptySet
<1>4. ASSUME NEW k \in Nat, NEW s \in Upto(k), s # {}
      PROVE  k # 0 /\ s \ {Pick(s)} \in Upto(k - 1)
  <2>1. s \in SUBSET S /\ Cardinality(s) <= k /\ Cardinality(s) \in Nat
    BY <1>1
  <2>2. ~ Cardinality(s) <= 0
    BY <1>3, <1>4, <2>1
  <2>3. s \ {Pick(s)} \in SUBSET S /\ Cardinality(s \ {Pick(s)}) = Cardinality(s) - 1
    BY <1>4, <2>1, Picked
  <2> QED
    BY <2>1, <2>2, <2>3
<1>5. ASSUME NEW k \in Nat \ {0}, NEW g, Solves(g, k - 1)
      PROVE  \E e : Solves(e, k)
  <2> DEFINE e == [s \in Upto(k) |-> F(g, s)]
  <2>1. \A s \in Upto(k - 1) : s \in Upto(k) /\ g[s] = F(g, s)
    <3>1. \A s \in Upto(k - 1) : s \in Upto(k)
      BY <1>1
    <3>2. \A s \in Upto(k - 1) : g[s] = F(g, s)
      <4> HIDE DEF F, Upto
      <4> QED
        BY <1>5
    <3> QED
      BY <3>1, <3>2
  <2>2. \A s \in Upto(k) : e[s] = F(g, s)
    <3> HIDE DEF F, Upto
    <3> QED
      OBVIOUS
  <2>3. \A s \in Upto(k - 1) : e[s] = g[s]
    <3> HIDE DEF e, F, Upto
    <3> QED
      BY <2>1, <2>2
  <2>4. \A s \in Upto(k) : F(e, s) = F(g, s)
    <3> HIDE DEF e, Upto
    <3> QED
      BY <1>4, <2>3
  <2>5. [s \in Upto(k) |-> F(e, s)] = [s \in Upto(k) |-> F(g, s)]
    <3> HIDE DEF e, F, Upto
    <3> QED
      BY <2>4
  <2> QED
    BY <2>5
<1>6. \E g : Solves(g, 0)
  <2> DEFINE g == [s \in Upto(0) |-> 0]
  <2>1. \A s \in Upto(0) : F(g, s) = 0
    BY <1>3
  <2>2. g = [s \in Upto(0) |-> F(g, s)]
    <3> HIDE DEF F, Upto
    <3> QED
      BY <2>1
  <2> QED
    BY <2>2
<1>7. Bad = {}
  <2> SUFFICES ASSUME Bad # {} PROVE FALSE
    OBVIOUS
  <2>1. Bad \in SUBSET Nat
    OBVIOUS
  <2> HIDE DEF Bad
  <2>2. PICK k \in Bad : \A j \in Bad : k <= j
    BY <2>1, LeastNumber
  <2>3. k \in Nat /\ ~ \E g : Solves(g, k)
    BY DEF Bad
  <2> HIDE DEF Solves
  <2>4. k \in Nat \ {0} /\ k - 1 \in Nat
    BY <1>6, <2>3
  <2>5. k - 1 \notin Bad
    BY <2>2, <2>4
  <2>6. \E g : Solves(g, k - 1)
    BY <2>4, <2>5 DEF Bad
  <2> QED
    BY <1>5, <2>3, <2>4, <2>6
<1>8. Sums(f, S) = [s \in SUBSET S |-> F(Sums(f, S), s)]
  <2> DEFINE All(g) == g = [s \in SUBSET S |-> F(g, s)]
  <2>1. Sums(f, S) = CHOOSE g : All(g)
    BY DEF Sums
  <2>2. PICK g : Solves(g, Cardinality(S))
    <3> HIDE DEF Solves
    <3> QED
      BY <1>2, <1>7
  <2>3. Upto(Cardinality(S)) = SUBSET S
    BY <1>1
  <2>4. All(g)
    <3> HIDE DEF F, Upto
    <3> QED
      BY <2>2, <2>3
  <2>5. All(Sums(f, S))
    <3> HIDE DEF All
    <3> QED
      BY <2>1, <2>4
  <2> QED
    BY <2>5
<1> HIDE DEF F
<1>9. \A s \in SUBSET S : Sums(f, S)[s] = F(Sums(f, S), s)
  BY <1>8
<1> QED
  BY <1>2, <1>9 DEF F

(* Sums of integers are integers.                                          *)
LEMMA SumsAreIntegers ==
  ASSUME NEW S, IsFiniteSet(S), NEW f \in [S -> Int]
  PROVE  \A s \in SUBSET S : Sums(f, S)[s] \in Int
<1> DEFINE Bad == {s \in SUBSET S : Sums(f, S)[s] \notin Int}
<1> SUFFICES ASSUME Bad # {} PROVE FALSE
  OBVIOUS
<1>1. Bad \in SUBSET (SUBSET S)
  OBVIOUS
<1>2. PICK s \in Bad : \A x \in s : s \ {x} \notin Bad
  <2> HIDE DEF Bad
  <2> QED
    BY <1>1, LeastSet
<1>3. s # {}
  <2>1. Sums(f, S)[{}] \in Int
    BY SumsEquation
  <2>2. Sums(f, S)[s] \notin Int
    BY <1>2
  <2> HIDE DEF Bad
  <2> QED
    BY <2>1, <2>2
<1>4. Pick(s) \in s /\ Pick(s) \in S /\ s \in SUBSET S /\ s \ {Pick(s)} \in SUBSET S
  BY <1>3, Picked
<1>5. Sums(f, S)[s \ {Pick(s)}] \in Int
  BY <1>2, <1>4
<1>6. Sums(f, S)[s] = f[Pick(s)] + Sums(f, S)[s \ {Pick(s)}]
  BY <1>3, SumsEquation
<1>7. f[Pick(s)] \in Int
  BY <1>4
<1> QED
  BY <1>2, <1>5, <1>6, <1>7

(* The order of a sum does not matter.                                     *)
LEMMA SumsTakeAny ==
  ASSUME NEW S, IsFiniteSet(S), NEW f \in [S -> Int]
  PROVE  \A s \in SUBSET S : \A x \in s : Sums(f, S)[s] = f[x] + Sums(f, S)[s \ {x}]
<1> DEFINE Takes(s, x) == Sums(f, S)[s] = f[x] + Sums(f, S)[s \ {x}]
           Bad == {s \in SUBSET S : \E x \in s : ~ Takes(s, x)}
<1> SUFFICES ASSUME Bad # {} PROVE FALSE
  OBVIOUS
<1>1. Bad \in SUBSET (SUBSET S)
  OBVIOUS
<1>2. PICK s \in Bad : \A x \in s : s \ {x} \notin Bad
  <2> HIDE DEF Bad
  <2> QED
    BY <1>1, LeastSet
<1>3. PICK x \in s : ~ Takes(s, x)
  BY <1>2
<1>4. PICK p \in s : p = Pick(s) /\ Takes(s, p)
  <2>1. s \in SUBSET S /\ s # {}
    BY <1>2, <1>3
  <2>2. Pick(s) \in s
    BY <2>1, Picked
  <2>3. Sums(f, S)[s] = f[Pick(s)] + Sums(f, S)[s \ {Pick(s)}]
    BY <2>1, SumsEquation
  <2> QED
    BY <2>2, <2>3
<1>5. x # p /\ s \in SUBSET S /\ s \ {x} \in SUBSET S /\ s \ {p} \in SUBSET S
  BY <1>2, <1>3, <1>4
<1>6. Takes(s \ {p}, x) /\ Takes(s \ {x}, p)
  BY <1>2, <1>3, <1>4, <1>5
<1>7. (s \ {p}) \ {x} = (s \ {x}) \ {p}
  OBVIOUS
<1>8. PICK rest : rest = (s \ {p}) \ {x}
  OBVIOUS
<1>9. /\ Sums(f, S)[s] = f[p] + Sums(f, S)[s \ {p}]
      /\ Sums(f, S)[s \ {p}] = f[x] + Sums(f, S)[rest]
      /\ Sums(f, S)[s \ {x}] = f[p] + Sums(f, S)[rest]
  BY <1>4, <1>6, <1>7, <1>8
<1>10. rest \in SUBSET S /\ f[x] \in Int /\ f[p] \in Int /\ Sums(f, S)[rest] \in Int
  BY <1>3, <1>4, <1>5, <1>8, SumsAreIntegers
<1>11. Sums(f, S)[s] = f[x] + Sums(f, S)[s \ {x}]
  BY <1>9, <1>10
<1> QED
  BY <1>3, <1>11

(* The sum over a set depends only on the numbers of its members.          *)
LEMMA SumsAgree ==
  ASSUME NEW S, IsFiniteSet(S), NEW f, NEW g
  PROVE  \A s \in SUBSET S : (\A x \in s : f[x] = g[x]) => Sums(f, S)[s] = Sums(g, S)[s]
<1> DEFINE Bad == {s \in SUBSET S : (\A x \in s : f[x] = g[x]) /\ Sums(f, S)[s] # Sums(g, S)[s]}
<1> SUFFICES ASSUME Bad # {} PROVE FALSE
  OBVIOUS
<1>1. Bad \in SUBSET (SUBSET S)
  OBVIOUS
<1>2. PICK s \in Bad : \A x \in s : s \ {x} \notin Bad
  <2> HIDE DEF Bad
  <2> QED
    BY <1>1, LeastSet
<1>3. s # {}
  BY SumsEquation
<1>4. Pick(s) \in s /\ s \in SUBSET S /\ s \ {Pick(s)} \in SUBSET S
  BY <1>3, Picked
<1>5. Sums(f, S)[s \ {Pick(s)}] = Sums(g, S)[s \ {Pick(s)}] /\ f[Pick(s)] = g[Pick(s)]
  BY <1>2, <1>4
<1> QED
  BY <1>2, <1>3, <1>5, SumsEquation

(* Moving an amount from one number to another keeps the sum.              *)
LEMMA SumsBalance ==
  ASSUME NEW S, IsFiniteSet(S), NEW f \in [S -> Int], NEW g \in [S -> Int],
         NEW a \in S, NEW b \in S, a # b, f[a] + f[b] = g[a] + g[b],
         \A x \in S \ {a, b} : f[x] = g[x]
  PROVE  Sums(f, S)[S] = Sums(g, S)[S]
<1> DEFINE others == (S \ {a}) \ {b}
<1>1. /\ S \in SUBSET S /\ S \ {a} \in SUBSET S /\ others \in SUBSET S /\ b \in S \ {a}
      /\ \A x \in others : f[x] = g[x]
  OBVIOUS
<1> HIDE DEF others
<1>2. /\ Sums(f, S)[S] = f[a] + Sums(f, S)[S \ {a}]
      /\ Sums(f, S)[S \ {a}] = f[b] + Sums(f, S)[others]
  <2>1. \A s \in SUBSET S : \A x \in s : Sums(f, S)[s] = f[x] + Sums(f, S)[s \ {x}]
    BY SumsTakeAny
  <2> QED
    BY <1>1, <2>1 DEF others
<1>3. /\ Sums(g, S)[S] = g[a] + Sums(g, S)[S \ {a}]
      /\ Sums(g, S)[S \ {a}] = g[b] + Sums(g, S)[others]
  <2>1. \A s \in SUBSET S : \A x \in s : Sums(g, S)[s] = g[x] + Sums(g, S)[s \ {x}]
    BY SumsTakeAny
  <2> QED
    BY <1>1, <2>1 DEF others
<1>4. Sums(f, S)[others] = Sums(g, S)[others] /\ Sums(f, S)[others] \in Int
  BY <1>1, SumsAgree, SumsAreIntegers
<1>5. f[a] \in Int /\ f[b] \in Int /\ g[a] \in Int /\ g[b] \in Int
  OBVIOUS
<1> QED
  BY <1>2, <1>3, <1>4, <1>5

-----------------------------------------------------------------------------
(***************************************************************************)
(* Money.                                                                  *)
(***************************************************************************)
Balances(state) == [a \in Accounts |-> OrZero(state[Kin(a)])]

(* The total is the sum of the balances.                                   *)
LEMMA TotalIsSum ==
  ASSUME NEW state
  PROVE  Total(state) = Sums(Balances(state), Accounts)[Accounts]
<1>1. DOMAIN Balances(state) = Accounts
  BY DEF Balances
<1> QED
  BY <1>1 DEF Total, FoldFunction, FoldFunctionOnSet, MapThenFoldSet, Sums, Pick, Balances

\* A transaction that may only move money between two accounts.
KeepsTheTotal(t) ==
  \/ t.method \notin {"kin.transfer", "kin.financeAccount"}
  \/ t.method = "kin.transfer" /\ t.from # t.to /\ Survives(t)

(* A transaction of another contract stores no balance of KinAtn.          *)
LEMMA OthersStoreNoKin ==
  ASSUME NEW t \in Transactions, t.method \notin {"kin.transfer", "kin.financeAccount"},
         NEW map \in Stores, NEW vals, NEW a \in Accounts
  PROVE  Stored(map, Writes(t, vals))[Kin(a)] = map[Kin(a)]
<1>1. t.method \in Methods /\ t.from \in Accounts /\ t.to \in Accounts
  BY ContractsAssumption DEF Transaction
<1>2. Kin(a) \in Keys
  BY KeyForms
<1>3. \A i \in DOMAIN Writes(t, vals) : decodeMapKey(Writes(t, vals)[i].key) # Kin(a)
  <2> USE DEF Writes, Write, decodeMapKey, Pool, Kin, FooBar, EventCounter, TextMessage
  <2>1. CASE t.method = "foobar.transfer"
    BY <2>1 DEF fooBarTransfer
  <2>2. CASE t.method = "foobar.initBalance"
    BY <2>2 DEF initBalance
  <2>3. CASE t.method = "eventCounter.reportEvent"
    BY <2>3 DEF reportEvent
  <2>4. CASE t.method = "textMessage.sendMessage"
    BY <2>4 DEF sendMessage
  <2>5. CASE t.method = "unknown"
    BY <2>5
  <2> QED
    BY <1>1, <2>1, <2>2, <2>3, <2>4, <2>5 DEF Methods
<1> QED
  BY <1>2, <1>3 DEF Stored

(* Two stores under two keys that the cache keeps apart.                   *)
LEMMA TwoStores ==
  ASSUME NEW map \in Stores, NEW k \in Keys, NEW l \in Keys, k # l, NEW v, NEW w,
         decodeMapKey(k) = k, decodeMapKey(l) = l
  PROVE  LET new == Stored(map, <<Write(k, v), Write(l, w)>>)
         IN  new[k] = v /\ new[l] = w /\ \A m \in Keys \ {k, l} : new[m] = map[m]
<1> DEFINE writes == <<Write(k, v), Write(l, w)>>
           at(m) == {i \in DOMAIN writes : decodeMapKey(writes[i].key) = m}
<1>1. /\ DOMAIN writes = {1, 2} /\ writes[1].key = k /\ writes[2].key = l
      /\ writes[1].value = v /\ writes[2].value = w
  BY DEF Write
<1> HIDE DEF writes
<1>2. at(k) = {1} /\ at(l) = {2} /\ \A m \in Keys \ {k, l} : at(m) = {}
  BY <1>1
<1>3. \A m \in Keys : Stored(map, writes)[m] =
        IF at(m) = {} THEN map[m] ELSE writes[CHOOSE i \in at(m) : \A j \in at(m) : j <= i].value
  BY DEF Stored
<1> HIDE DEF at
<1>4. /\ (CHOOSE i \in {1} : \A j \in {1} : j <= i) = 1
      /\ (CHOOSE i \in {2} : \A j \in {2} : j <= i) = 2
  OBVIOUS
<1>5. Stored(map, writes)[k] = v
  BY <1>1, <1>2, <1>3, <1>4
<1>6. Stored(map, writes)[l] = w
  BY <1>1, <1>2, <1>3, <1>4
<1>7. \A m \in Keys \ {k, l} : Stored(map, writes)[m] = map[m]
  BY <1>2, <1>3
<1> QED
  BY <1>5, <1>6, <1>7 DEF writes

(* A transaction that may only move money keeps the total.                 *)
LEMMA EffectKeepsTotal ==
  ASSUME IsFiniteSet(Accounts), NEW state \in Stores, NEW t \in Transactions, KeepsTheTotal(t)
  PROVE  Total(Effect(state, t)) = Total(state)
<1> DEFINE new == Effect(state, t)
<1>1. CASE ~ Succeeds(state, t)
  BY <1>1 DEF Effect
<1>2. CASE Succeeds(state, t) /\ t.method \notin {"kin.transfer", "kin.financeAccount"}
  <2>1. new = Stored(state, Writes(t, ValuesAt(state, Loads(t))))
    BY <1>2 DEF Effect
  <2>2. \A a \in Accounts : new[Kin(a)] = state[Kin(a)]
    BY <1>2, <2>1, OthersStoreNoKin
  <2>3. Balances(new) = Balances(state)
    <3> HIDE DEF new
    <3> QED
      BY <2>2 DEF Balances
  <2> QED
    BY <2>3, TotalIsSum
<1>3. CASE Succeeds(state, t) /\ t.method = "kin.transfer" /\ t.from # t.to /\ Survives(t)
  <2> DEFINE x == OrZero(state[Kin(t.from)])
             y == OrZero(state[Kin(t.to)])
  <2>1. /\ t.from \in Accounts /\ t.to \in Accounts /\ t.amount \in Int
        /\ Kin(t.from) \in Keys /\ Kin(t.to) \in Keys
    BY ContractsAssumption, KeyForms DEF Transaction
  <2>2. \A a \in Accounts : Kin(a) \in Keys /\ state[Kin(a)] \in Int \cup {NoValue}
    BY KeyForms DEF Stores
  <2>3. \A a \in Accounts : OrZero(state[Kin(a)]) \in Int
    <3>1. \A v \in Int \cup {NoValue} : OrZero(v) \in Int
      BY DEF OrZero
    <3> QED
      BY <2>2, <3>1
  <2>4. ValuesAt(state, Loads(t)) = <<x, y>>
    BY <1>3 DEF Loads, ValuesAt
  <2>5. new = Stored(state, <<Write(Kin(t.from), x - t.amount), Write(Kin(t.to), y + t.amount)>>)
    <3> HIDE DEF x, y
    <3> QED
      BY <1>3, <2>4 DEF Effect, Writes, transfer
  <2>6. /\ decodeMapKey(Kin(t.from)) = Kin(t.from) /\ decodeMapKey(Kin(t.to)) = Kin(t.to)
        /\ Kin(t.from) # Kin(t.to)
    BY <1>3 DEF decodeMapKey, Kin, Survives
  <2>7. /\ new[Kin(t.from)] = x - t.amount /\ new[Kin(t.to)] = y + t.amount
        /\ \A k \in Keys \ {Kin(t.from), Kin(t.to)} : new[k] = state[k]
    <3> HIDE DEF x, y, new
    <3> QED
      BY <2>1, <2>5, <2>6, TwoStores
  <2>8. /\ x \in Int /\ y \in Int /\ x - t.amount \in Int /\ y + t.amount \in Int
        /\ (x - t.amount) + (y + t.amount) = x + y
    BY <2>1, <2>3
  <2> HIDE DEF new, x, y
  <2>9. OrZero(new[Kin(t.from)]) = x - t.amount /\ OrZero(new[Kin(t.to)]) = y + t.amount
    BY <2>7, <2>8, ContractsAssumption DEF OrZero
  <2>10. \A a \in Accounts \ {t.from, t.to} : new[Kin(a)] = state[Kin(a)]
    BY <2>2, <2>7 DEF Kin
  <2>11. Balances(state) \in [Accounts -> Int]
    BY <2>3 DEF Balances
  <2>12. /\ Balances(new)[t.from] = x - t.amount /\ Balances(new)[t.to] = y + t.amount
         /\ Balances(state)[t.from] = x /\ Balances(state)[t.to] = y
         /\ \A a \in Accounts \ {t.from, t.to} : Balances(new)[a] = Balances(state)[a]
    BY <2>1, <2>9, <2>10 DEF Balances, x, y
  <2>13. Balances(new) \in [Accounts -> Int]
    <3>1. \A a \in Accounts : Balances(new)[a] \in Int
      BY <2>8, <2>11, <2>12
    <3> QED
      BY <3>1 DEF Balances
  <2>14. Sums(Balances(new), Accounts)[Accounts] = Sums(Balances(state), Accounts)[Accounts]
    BY <1>3, <2>1, <2>8, <2>11, <2>12, <2>13, SumsBalance
  <2> QED
    BY <2>14, TotalIsSum DEF new
<1> QED
  BY <1>1, <1>2, <1>3 DEF KeepsTheTotal

(* So do any number of them.                                               *)
LEMMA ExecutionKeepsTotal ==
  ASSUME IsFiniteSet(Accounts), NEW state \in Stores, InRange(state),
         NEW txs \in Seq(Transactions), \A i \in 1..Len(txs) : KeepsTheTotal(txs[i])
  PROVE  Total(Execute(state, txs)) = Total(state)
<1> DEFINE at(n) == States(state, txs)[n]
           Kept(n) == at(n) \in Stores /\ InRange(at(n)) /\ Total(at(n)) = Total(state)
           Bad == {n \in 0..Len(txs) : ~ Kept(n)}
<1>1. Len(txs) \in Nat /\ \A i \in 1..Len(txs) : txs[i] \in Transactions
  OBVIOUS
<1>2. at(0) = state /\ \A n \in 1..Len(txs) : at(n) = Effect(at(n - 1), txs[n])
  BY <1>1, StatesEquation
<1> HIDE DEF at
<1>3. Kept(0)
  BY <1>2
<1>4. ASSUME NEW n \in 1..Len(txs), Kept(n - 1) PROVE Kept(n)
  <2>1. at(n) = Effect(at(n - 1), txs[n]) /\ txs[n] \in Transactions /\ KeepsTheTotal(txs[n])
    BY <1>1, <1>2
  <2>2. at(n) \in Stores /\ InRange(at(n))
    BY <1>4, <2>1, EffectInRange
  <2>3. Total(at(n)) = Total(at(n - 1))
    BY <1>4, <2>1, EffectKeepsTotal
  <2> QED
    BY <1>4, <2>2, <2>3
<1>5. Bad = {}
  <2> SUFFICES ASSUME Bad # {} PROVE FALSE
    OBVIOUS
  <2>1. Bad \in SUBSET Nat
    BY <1>1
  <2> HIDE DEF Bad
  <2>2. PICK n \in Bad : \A m \in Bad : n <= m
    BY <2>1, LeastNumber
  <2>3. n \in 0..Len(txs) /\ ~ Kept(n)
    BY DEF Bad
  <2> HIDE DEF Kept
  <2>4. n \in 1..Len(txs) /\ n - 1 \in 0..Len(txs)
    BY <1>1, <1>3, <2>3
  <2>5. n - 1 \notin Bad
    BY <2>2, <2>4
  <2> QED
    BY <1>4, <2>3, <2>4, <2>5 DEF Bad
<1>6. Kept(Len(txs))
  <2> HIDE DEF Kept
  <2> QED
    BY <1>1, <1>5
<1> QED
  BY <1>6 DEF Execute, at

(* Over finitely many accounts, the blocks change the sum of the KinAtn    *)
(* balances only by financing an account, by a transfer of an account to   *)
(* itself and by one whose keys the cache does not keep apart: any other   *)
(* transfer takes from one balance what it adds to another, in whatever    *)
(* order it meets the others in its block.                                 *)
THEOREM MoneyIsMadeByFinancing ==
  IsFiniteSet(Accounts) => (Spec => []MoneyIsMadeOnlyByFinancing)
<1> SUFFICES ASSUME IsFiniteSet(Accounts) PROVE Spec => []MoneyIsMadeOnlyByFinancing
  OBVIOUS
<1>1. AtomicInv => MoneyIsMadeOnlyByFinancing
  <2> SUFFICES ASSUME AtomicInv, NEW h \in DOMAIN chain,
                      \A i \in DOMAIN chain[h].txs : KeepsTheTotal(chain[h].txs[i])
               PROVE  Total(chain[h].after) = Total(StateAfter(h - 1))
    BY DEF MoneyIsMadeOnlyByFinancing, KeepsTheTotal
  <2>1. chain \in Seq(Block) /\ BalancesInRange
    BY DEF AtomicInv, IInv, TypeOK
  <2>2. chain[h] \in Block /\ h \in 1..Len(chain) /\ Len(chain) \in Nat
    BY <2>1
  <2>3. chain[h].txs \in Seq(Transactions)
    BY <2>2 DEF Block
  <2>4. StateAfter(h - 1) \in Stores /\ InRange(StateAfter(h - 1))
    <3>1. CASE h = 1
      BY <3>1, NothingInRange DEF StateAfter
    <3>2. CASE h # 1
      <4>1. h - 1 \in DOMAIN chain /\ h - 1 # 0 /\ chain[h - 1] \in Block
        BY <2>1, <2>2, <3>2
      <4> QED
        BY <2>1, <4>1 DEF StateAfter, BalancesInRange, Block
    <3> QED
      BY <3>1, <3>2
  <2>5. chain[h].after = Execute(StateAfter(h - 1), chain[h].txs)
    BY DEF AtomicInv, BlocksAreAtomicExecutions
  <2>6. \A i \in 1..Len(chain[h].txs) : KeepsTheTotal(chain[h].txs[i])
    BY <2>3
  <2> QED
    BY <2>3, <2>4, <2>5, <2>6, ExecutionKeepsTotal
<1> QED
  BY AtomicInvInit, AtomicInvStep, <1>1, PTL DEF Spec
=============================================================================
