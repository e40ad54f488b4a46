------------------------- MODULE StateStorageProofs -------------------------
(***************************************************************************)
(* For any keys, values, page size and number of faults: the store of the  *)
(* state storage is always the state after a prefix of the chain, and      *)
(* readKeys never answers from before its call.                            *)
(***************************************************************************)
EXTENDS StateStorage, TLAPS

(* Closing a block does not change the state after the blocks before it.   *)
LEMMA StateAtStable ==
  ASSUME chain \in Seq(Diffs), NEW d \in Diffs, chain' = Append(chain, d),
         NEW h \in Nat, h <= Len(chain), NEW store, IsStateAt(store, h)
  PROVE  \A k \in Keys :
           \/ Writers(k, h)' = {} /\ store[k] = NoValue
           \/ \E i \in Writers(k, h)' :
                (\A j \in Writers(k, h)' : j <= i) /\ store[k] = chain'[i][k]
<1>1. \A i \in 1..h : chain'[i] = chain[i]
  OBVIOUS
<1>2. \A k : Writers(k, h)' = Writers(k, h)
  BY <1>1 DEF Writers
<1>3. \A k : \A i \in Writers(k, h) : chain'[i] = chain[i]
  BY <1>1 DEF Writers
<1>4. ASSUME NEW k \in Keys
      PROVE  \/ Writers(k, h)' = {} /\ store[k] = NoValue
             \/ \E i \in Writers(k, h)' :
                  (\A j \in Writers(k, h)' : j <= i) /\ store[k] = chain'[i][k]
  <2> DEFINE W == Writers(k, h)
             V == Writers(k, h)'
  <2>1. \/ W = {} /\ store[k] = NoValue
        \/ \E i \in W : (\A j \in W : j <= i) /\ store[k] = chain[i][k]
    BY DEF IsStateAt
  <2>2. V = W
    BY <1>2
  <2>3. \A i \in W : chain'[i] = chain[i]
    BY <1>3
  <2> HIDE DEF W, V
  <2>4. \/ V = {} /\ store[k] = NoValue
        \/ \E i \in V : (\A j \in V : j <= i) /\ store[k] = chain'[i][k]
    BY <2>1, <2>2, <2>3
  <2> QED
    BY <2>4 DEF V
<1> QED
  BY <1>4

(* Applying the diff of the next block to the state before it gives the    *)
(* state after it.                                                         *)
LEMMA ApplyNext ==
  ASSUME chain \in Seq(Diffs), NEW h \in Nat, h + 1 <= Len(chain),
         NEW store \in Stores, IsStateAt(store, h)
  PROVE  /\ IsStateAt(ApplyDiff(store, chain[h + 1]), h + 1)
         /\ ApplyDiff(store, chain[h + 1]) \in Stores
<1> DEFINE d == chain[h + 1]
<1>1. d \in Diffs
  OBVIOUS
<1>2. \A k \in DOMAIN d : d[k] \in Values
  BY <1>1 DEF Diffs
<1>3. ASSUME NEW k \in Keys
      PROVE  \/ /\ Writers(k, h + 1) = {}
                /\ ApplyDiff(store, d)[k] = NoValue
             \/ \E i \in Writers(k, h + 1) :
                  /\ \A j \in Writers(k, h + 1) : j <= i
                  /\ ApplyDiff(store, d)[k] = chain[i][k]
  <2>0. \A i \in 1..(h + 1) : i \in 1..h \/ i = h + 1
    OBVIOUS
  <2>1. CASE k \in DOMAIN d
    <3>1. h + 1 \in Writers(k, h + 1) /\ \A j \in Writers(k, h + 1) : j <= h + 1
      BY <2>1 DEF Writers
    <3>2. ApplyDiff(store, d)[k] = chain[h + 1][k]
      BY <2>1 DEF ApplyDiff
    <3> QED
      BY <3>1, <3>2
  <2>2. CASE k \notin DOMAIN d
    <3>1. Writers(k, h + 1) = Writers(k, h)
      BY <2>0, <2>2 DEF Writers
    <3>2. ApplyDiff(store, d)[k] = store[k]
      BY <2>2 DEF ApplyDiff
    <3> QED
      BY <3>1, <3>2 DEF IsStateAt
  <2> QED
    BY <2>1, <2>2
<1>4. ApplyDiff(store, d) \in Stores
  BY <1>2 DEF ApplyDiff, Stores
<1> QED
  BY <1>3, <1>4 DEF IsStateAt

-----------------------------------------------------------------------------
(***************************************************************************)
(* The inductive invariant: the poll's page lies on the chain, and the     *)
(* reader has asked for no less than what there was when it was called.    *)
(***************************************************************************)
StoreOK == StoreIsStateOfPrefix

PollOK ==
  poll.step = "apply" => poll.next <= poll.upto /\ poll.upto <= Len(chain)

ReaderOK ==
  /\ reader.step \in {"called", "waiting", "done"} => reader.begun <= Len(chain)
  /\ reader.step = "waiting" => reader.begun <= reader.asked
  /\ ReadsAreFresh

IInv == TypeOK /\ StoreOK /\ PollOK /\ ReaderOK

(* The store is empty and nothing is under way.                            *)
LEMMA IInvInit == Init => IInv
<1> SUFFICES ASSUME Init PROVE IInv
  OBVIOUS
<1>1. TypeOK
  BY StateAssumption DEF Init, TypeOK, Stores, Polls, Readers, Empty, NoPoll, NoReader
<1>2. StoreOK
  BY DEF Init, StoreOK, StoreIsStateOfPrefix, IsStateAt, Writers, Empty
<1>3. PollOK /\ ReaderOK
  BY DEF Init, PollOK, ReaderOK, ReadsAreFresh, NoPoll, NoReader
<1> QED
  BY <1>1, <1>2, <1>3 DEF IInv

(* The updates that the steps make stay in the types. *)
LEMMA PollUpdates ==
  /\ NoPoll \in Polls
  /\ \A a \in Nat : [NoPoll EXCEPT !.step = "fetch", !.from = a] \in Polls
  /\ \A p \in Polls, a, b \in Nat :
       /\ [p EXCEPT !.step = "apply", !.next = a, !.upto = b] \in Polls
       /\ [p EXCEPT !.next = @ + 1] \in Polls
<1>1. \A a \in Nat : [NoPoll EXCEPT !.step = "fetch", !.from = a] \in Polls
  BY DEF Polls, NoPoll
<1>2. NoPoll \in Polls
  BY DEF Polls, NoPoll
<1>3. \A p \in Polls, a, b \in Nat : [p EXCEPT !.step = "apply", !.next = a, !.upto = b] \in Polls
  BY DEF Polls
<1>4. \A p \in Polls : [p EXCEPT !.next = @ + 1] \in Polls
  BY DEF Polls
<1> QED
  BY <1>1, <1>2, <1>3, <1>4

(* What the steps of readKeys make of a reader is a reader.                *)
LEMMA ReaderUpdates ==
  /\ Empty \in Stores /\ NoReader \in Readers
  /\ \A a \in Nat : [NoReader EXCEPT !.step = "called", !.begun = a] \in Readers
  /\ \A r \in Readers, a \in Nat, s \in Stores :
       /\ [r EXCEPT !.step = "waiting", !.asked = a, !.left = MaxChecks] \in Readers
       /\ [r EXCEPT !.step = "timeout"] \in Readers
       /\ [r EXCEPT !.step = "done", !.values = s] \in Readers
       /\ r.left # 0 => [r EXCEPT !.left = @ - 1] \in Readers
<1> USE StateAssumption
<1>0. Empty \in Stores
  BY DEF Empty, Stores
<1>c. 0 \in 0..MaxChecks /\ MaxChecks \in 0..MaxChecks
  OBVIOUS
<1> HIDE StateAssumption
<1>1. NoReader \in Readers
  BY <1>0, <1>c DEF Readers, NoReader
<1>2. \A a \in Nat : [NoReader EXCEPT !.step = "called", !.begun = a] \in Readers
  <2>1. \A r \in Readers, a \in Nat : [r EXCEPT !.step = "called", !.begun = a] \in Readers
    BY DEF Readers
  <2> QED
    BY <1>1, <2>1
<1>3. \A r \in Readers, a \in Nat :
        [r EXCEPT !.step = "waiting", !.asked = a, !.left = MaxChecks] \in Readers
  <2>1. \A r \in Readers, a \in Nat, l \in 0..MaxChecks :
          [r EXCEPT !.step = "waiting", !.asked = a, !.left = l] \in Readers
    BY DEF Readers
  <2> QED
    BY <1>c, <2>1
<1>4. \A r \in Readers : [r EXCEPT !.step = "timeout"] \in Readers
  BY DEF Readers
<1>5. \A r \in Readers, s \in Stores : [r EXCEPT !.step = "done", !.values = s] \in Readers
  BY DEF Readers
<1>6. ASSUME NEW r \in Readers, r.left # 0 PROVE [r EXCEPT !.left = @ - 1] \in Readers
  <2>1. r.left - 1 \in 0..MaxChecks
    BY <1>6, StateAssumption DEF Readers
  <2> QED
    BY <2>1 DEF Readers
<1> QED
  BY <1>0, <1>1, <1>2, <1>3, <1>4, <1>5, <1>6

(* Type correctness of a step. *)
LEMMA TypeStep == TypeOK /\ PollOK /\ [Next]_vars => TypeOK'
<1> SUFFICES ASSUME TypeOK, PollOK, [Next]_vars PROVE TypeOK'
  OBVIOUS
<1> USE StateAssumption
<1>n. lastBlockHeight \in Nat /\ Len(chain) \in Nat /\ reader \in Readers
  BY DEF TypeOK
<1>1. ASSUME NEW diff \in Diffs, NewBlock(diff) PROVE TypeOK'
  BY <1>1 DEF NewBlock, TypeOK
<1>2. CASE Restart
  <2>1. Empty \in Stores /\ NoPoll \in Polls /\ NoReader \in Readers
    BY PollUpdates, ReaderUpdates
  <2> QED
    BY <1>2, <2>1 DEF Restart, TypeOK
<1>3. CASE PollBlockStorage
  <2>1. poll' \in Polls
    BY <1>3, <1>n, PollUpdates DEF PollBlockStorage
  <2> QED
    BY <1>3, <2>1 DEF PollBlockStorage, TypeOK
<1>4. CASE FetchPage
  <2>0. poll.from + 1 \in Nat
    BY DEF TypeOK, Polls
  <2>1. Upto(poll.from) \in Nat
    BY DEF Upto, TypeOK, Polls
  <2>2. poll' \in Polls
    BY <1>4, <2>1, <2>0, PollUpdates DEF FetchPage, TypeOK
  <2> QED
    BY <1>4, <2>2 DEF FetchPage, TypeOK
<1>5. CASE FetchFails
  <2>1. poll' \in Polls
    BY <1>5, PollUpdates DEF FetchFails
  <2> QED
    BY <1>5, <2>1 DEF FetchFails, TypeOK
<1>6. CASE SyncNextBlock
  <2>0. poll.from + ScrollLimit \in Nat
    BY DEF TypeOK, Polls
  <2>1. chain[poll.next] \in Diffs /\ poll.next \in 0..MaxHeight
    BY <1>6 DEF SyncNextBlock, TypeOK, PollOK, Polls
  <2>2. \A k \in DOMAIN chain[poll.next] : chain[poll.next][k] \in Values
    BY <2>1 DEF Diffs
  <2>3. kvstore' \in Stores
    BY <1>6, <2>2 DEF SyncNextBlock, TypeOK, ApplyDiff, Stores
  <2>4. poll' \in Polls
    BY <1>6, <2>0, PollUpdates DEF SyncNextBlock, TypeOK, AfterBlock
  <2> QED
    BY <1>6, <2>1, <2>3, <2>4 DEF SyncNextBlock, TypeOK
<1>7. CASE SyncNextBlockFails
  <2>1. poll' \in Polls
    BY <1>7, PollUpdates DEF SyncNextBlockFails
  <2> QED
    BY <1>7, <2>1 DEF SyncNextBlockFails, TypeOK
<1>8. CASE ReadKeys
  <2>2. reader' \in Readers
    BY <1>8, <1>n, ReaderUpdates DEF ReadKeys
  <2> QED
    BY <1>8, <2>2 DEF ReadKeys, TypeOK
<1>9. CASE GetLastBlock
  <2>1. reader' \in Readers
    BY <1>9, <1>n, ReaderUpdates DEF GetLastBlock
  <2> QED
    BY <1>9, <2>1 DEF GetLastBlock, TypeOK
<1>10. CASE GetLastBlockFails
  <2>2. reader' \in Readers
    BY <1>10, ReaderUpdates DEF GetLastBlockFails
  <2> QED
    BY <1>10, <2>2 DEF GetLastBlockFails, TypeOK
<1>11. CASE WaitForBlockState
  <2>1. reader' \in Readers
    BY <1>11, ReaderUpdates DEF WaitForBlockState, TypeOK
  <2> QED
    BY <1>11, <2>1 DEF WaitForBlockState, TypeOK
<1>12. CASE UNCHANGED vars
  BY <1>12 DEF vars, TypeOK
<1> QED
  BY <1>1, <1>2, <1>3, <1>4, <1>5, <1>6, <1>7, <1>8, <1>9, <1>10, <1>11, <1>12 DEF Next

(* The other parts depend on the chain only through its length and the     *)
(* state after each of its prefixes.                                       *)
LEMMA IInvStep == IInv /\ [Next]_vars => IInv'
<1> SUFFICES ASSUME IInv, [Next]_vars PROVE StoreOK' /\ PollOK' /\ ReaderOK'
  BY TypeStep DEF IInv
<1> USE StateAssumption
<1>0. TypeOK /\ StoreOK /\ PollOK /\ ReaderOK /\ TypeOK'
  BY TypeStep DEF IInv
<1>1. ASSUME NEW diff \in Diffs, NewBlock(diff) PROVE StoreOK' /\ PollOK' /\ ReaderOK'
  <2>1. chain' = Append(chain, diff) /\ Len(chain') = Len(chain) + 1 /\ chain \in Seq(Diffs)
    BY <1>0, <1>1 DEF NewBlock, TypeOK
  <2>2. StoreOK'
    <3>1. PICK h \in 0..Len(chain) : h = lastBlockHeight /\ IsStateAt(kvstore, h)
      BY <1>0 DEF TypeOK, StoreOK, StoreIsStateOfPrefix
    <3>2. h \in Nat /\ h <= Len(chain)
      BY <2>1
    <3>3. IsStateAt(kvstore, h)'
      BY <1>1, <2>1, <3>1, <3>2, StateAtStable DEF NewBlock, IsStateAt, Writers
    <3>4. lastBlockHeight' = h
      BY <1>1, <3>1 DEF NewBlock
    <3> QED
      BY <2>1, <3>2, <3>3, <3>4 DEF StoreOK, StoreIsStateOfPrefix, IsStateAt, Writers
  <2>3. PollOK'
    BY <1>0, <1>1, <2>1 DEF NewBlock, PollOK, TypeOK, Polls
  <2>4. ReadsAreFresh'
    <3> SUFFICES ASSUME reader.step = "done"
                 PROVE  \E h \in reader.begun..Len(chain') : IsStateAt(reader.values, h)'
      BY <1>1 DEF NewBlock, ReadsAreFresh
    <3>1. PICK h \in reader.begun..Len(chain) : IsStateAt(reader.values, h)
      BY <1>0 DEF ReaderOK, ReadsAreFresh
    <3>2. h \in Nat /\ h <= Len(chain) /\ h \in reader.begun..Len(chain')
      BY <1>0, <2>1, <3>1 DEF TypeOK, Readers
    <3>3. IsStateAt(reader.values, h)'
      BY <1>1, <2>1, <3>1, <3>2, StateAtStable DEF NewBlock, IsStateAt, Writers
    <3> QED
      BY <3>2, <3>3
  <2>5. ReaderOK'
    BY <1>0, <1>1, <2>1, <2>4 DEF NewBlock, ReaderOK, TypeOK, Readers
  <2> QED
    BY <2>2, <2>3, <2>5
<1>2. CASE Restart
  <2>1. \A k : Writers(k, 0)' = {}
    BY DEF Writers
  <2> QED
    BY <1>0, <1>2, <2>1 DEF Restart, StoreOK, StoreIsStateOfPrefix, IsStateAt, PollOK,
       ReaderOK, ReadsAreFresh, TypeOK, Readers, Empty, NoPoll, NoReader
<1>3. CASE PollBlockStorage
  BY <1>0, <1>3 DEF PollBlockStorage, StoreOK, StoreIsStateOfPrefix, IsStateAt, Writers,
     PollOK, ReaderOK, ReadsAreFresh, NoPoll
<1>4. CASE FetchPage
  <2>1. PollOK'
    BY <1>0, <1>4 DEF FetchPage, PollOK, TypeOK, Polls, NoPoll, Upto
  <2> QED
    BY <1>0, <1>4, <2>1 DEF FetchPage, StoreOK, StoreIsStateOfPrefix, IsStateAt, Writers,
       ReaderOK, ReadsAreFresh
<1>5. CASE FetchFails
  BY <1>0, <1>5 DEF FetchFails, StoreOK, StoreIsStateOfPrefix, IsStateAt, Writers,
     PollOK, ReaderOK, ReadsAreFresh, NoPoll
<1>6. CASE SyncNextBlock
  <2>1. /\ chain \in Seq(Diffs) /\ lastBlockHeight \in Nat
        /\ lastBlockHeight + 1 <= Len(chain) /\ kvstore \in Stores
        /\ IsStateAt(kvstore, lastBlockHeight)
    BY <1>0, <1>6 DEF SyncNextBlock, TypeOK, PollOK, StoreOK, StoreIsStateOfPrefix, Polls
  <2>2. IsStateAt(ApplyDiff(kvstore, chain[lastBlockHeight + 1]), lastBlockHeight + 1)
    BY <2>1, ApplyNext
  <2>3. /\ kvstore' = ApplyDiff(kvstore, chain[lastBlockHeight + 1])
        /\ lastBlockHeight' = lastBlockHeight + 1 /\ chain' = chain /\ reader' = reader
    BY <1>6 DEF SyncNextBlock
  <2>4. StoreOK'
    BY <2>1, <2>2, <2>3 DEF StoreOK, StoreIsStateOfPrefix, IsStateAt, Writers
  <2>5. PollOK'
    BY <1>0, <1>6 DEF SyncNextBlock, AfterBlock, PollOK, TypeOK, Polls, NoPoll
  <2>6. ReaderOK'
    BY <1>0, <2>3 DEF ReaderOK, ReadsAreFresh, IsStateAt, Writers
  <2> QED
    BY <2>4, <2>5, <2>6
<1>7. CASE SyncNextBlockFails
  BY <1>0, <1>7 DEF SyncNextBlockFails, StoreOK, StoreIsStateOfPrefix, IsStateAt, Writers,
     PollOK, ReaderOK, ReadsAreFresh, NoPoll
<1>8. CASE ReadKeys
  <2>1. ReaderOK'
    BY <1>0, <1>8 DEF ReadKeys, ReaderOK, ReadsAreFresh, TypeOK, Readers, NoReader
  <2> QED
    BY <1>0, <1>8, <2>1 DEF ReadKeys, StoreOK, StoreIsStateOfPrefix, IsStateAt, Writers, PollOK
<1>9. CASE GetLastBlock
  <2>1. ReaderOK'
    BY <1>0, <1>9 DEF GetLastBlock, ReaderOK, ReadsAreFresh, TypeOK, Readers
  <2> QED
    BY <1>0, <1>9, <2>1 DEF GetLastBlock, StoreOK, StoreIsStateOfPrefix, IsStateAt, Writers, PollOK
<1>10. CASE GetLastBlockFails
  <2>1. ReaderOK'
    BY <1>10 DEF GetLastBlockFails, ReaderOK, ReadsAreFresh, NoReader
  <2> QED
    BY <1>0, <1>10, <2>1 DEF GetLastBlockFails, StoreOK, StoreIsStateOfPrefix, IsStateAt,
       Writers, PollOK
<1>11. CASE WaitForBlockState
  <2>1. StoreOK' /\ PollOK'
    BY <1>0, <1>11 DEF WaitForBlockState, StoreOK, StoreIsStateOfPrefix, IsStateAt,
       Writers, PollOK
  <2>2. CASE reader.left # 0 /\ CaughtUp
    <3>1. /\ reader'.step = "done" /\ reader'.values = kvstore
          /\ reader'.begun = reader.begun /\ chain' = chain
      BY <1>0, <1>11, <2>2 DEF WaitForBlockState, TypeOK, Readers
    <3>2. lastBlockHeight \in reader.begun..Len(chain) /\ reader.begun <= Len(chain)
      BY <1>0, <1>11, <2>2 DEF WaitForBlockState, CaughtUp, ReaderOK, TypeOK, Readers, StoreOK,
         StoreIsStateOfPrefix
    <3>3. IsStateAt(kvstore, lastBlockHeight)
      BY <1>0 DEF StoreOK, StoreIsStateOfPrefix
    <3>4. ReadsAreFresh'
      BY <3>1, <3>2, <3>3 DEF ReadsAreFresh, IsStateAt, Writers
    <3> QED
      BY <2>1, <3>1, <3>2, <3>4 DEF ReaderOK
  <2>3. CASE reader.left = 0 \/ ~ CaughtUp
    <3>1. ReaderOK'
      BY <1>0, <1>11, <2>3 DEF WaitForBlockState, ReaderOK, ReadsAreFresh, TypeOK, Readers
    <3> QED
      BY <2>1, <3>1
  <2> QED
    BY <2>2, <2>3
<1>12. CASE UNCHANGED vars
  BY <1>0, <1>12 DEF vars, StoreOK, StoreIsStateOfPrefix, IsStateAt, Writers,
     PollOK, ReaderOK, ReadsAreFresh
<1> QED
  BY <1>1, <1>2, <1>3, <1>4, <1>5, <1>6, <1>7, <1>8, <1>9, <1>10, <1>11, <1>12 DEF Next

(* The invariant holds in every state that StateStorage reaches.           *)
THEOREM Invariance == Spec => []IInv
<1> QED
  BY IInvInit, IInvStep, PTL DEF Spec

(* The poll, its answers, the store and the reader keep their types.       *)
THEOREM TypeCorrect == Spec => []TypeOK
<1>1. IInv => TypeOK
  BY DEF IInv
<1> QED
  BY Invariance, <1>1, PTL

(* The store is always the state after the blocks up to lastBlockHeight    *)
(* (pollBlockStorage, mapOverBlocks, syncNextBlock), whatever the page     *)
(* size, the growth of the chain and the polls that break off.             *)
THEOREM StoreFollowsTheChain == Spec => []StoreIsStateOfPrefix
<1>1. IInv => StoreIsStateOfPrefix
  BY DEF IInv, StoreOK
<1> QED
  BY Invariance, <1>1, PTL

(* readKeys answers from the state after one block that is no older than   *)
(* the last one at its call.                                               *)
THEOREM ReadersAreNeverStale == Spec => []ReadsAreFresh
<1>1. IInv => ReadsAreFresh
  BY DEF IInv, ReaderOK
<1> QED
  BY Invariance, <1>1, PTL
=============================================================================
