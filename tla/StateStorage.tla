---------------------------- MODULE StateStorage ----------------------------
(***************************************************************************)
(* The StateStorage class (state-storage.ts): it polls the block storage,  *)
(* applies the state diffs of the blocks it has not seen to an in-memory   *)
(* key-value store, and answers readKeys once it has caught up with the    *)
(* last block.  The chain it polls only grows (module Ledger); the process *)
(* may be restarted and then starts again from an empty store.             *)
(*                                                                         *)
(* A block stands for its state diff: a function from some of the keys of  *)
(* the contracts to values.                                                *)
(***************************************************************************)
EXTENDS Integers, Sequences

CONSTANTS Keys, Values,
          NoValue,     \* a key that is not in the store
          ScrollLimit, \* the page size mapOverBlocks is called with (500)
          MaxChecks,   \* how often waitForBlockState looks before it gives up (25)
          MaxHeight,   \* bound: the chain ends here
          MaxFaults    \* bound: failed calls of the block storage, and restarts

ASSUME StateAssumption ==
  /\ NoValue \notin Values
  /\ ScrollLimit \in Nat \ {0} /\ MaxChecks \in Nat
  /\ MaxHeight \in Nat /\ MaxFaults \in Nat

Diffs == UNION { [K -> Values] : K \in SUBSET Keys }

VARIABLES
  chain,           \* the blocks that getBlocks and getLastBlock can see
  kvstore,         \* this.kvstore
  lastBlockHeight, \* this.lastBlockHeight
  poll,            \* the run of pollBlockStorage, with the page it works on
  reader,          \* one call of readKeys
  faults           \* how many calls failed and restarts there were

vars == <<chain, kvstore, lastBlockHeight, poll, reader, faults>>

Empty == [k \in Keys |-> NoValue]
NoPoll == [step |-> "idle", from |-> 0, next |-> 0, upto |-> 0]
NoReader == [step |-> "idle", begun |-> 0, asked |-> 0, left |-> 0, values |-> Empty]

Stores == [Keys -> Values \cup {NoValue}]
Polls == [step : {"idle", "fetch", "apply"}, from : Nat, next : Nat, upto : Nat]
Readers == [step : {"idle", "called", "waiting", "done", "timeout"}, begun : Nat,
            asked : Nat, left : 0..MaxChecks, values : Stores]

TypeOK ==
  /\ chain \in Seq(Diffs) /\ Len(chain) <= MaxHeight
  /\ kvstore \in Stores
  /\ lastBlockHeight \in 0..MaxHeight
  /\ poll \in Polls
  /\ reader \in Readers
  /\ faults \in 0..MaxFaults

Init ==
  /\ chain = <<>>
  /\ kvstore = Empty
  /\ lastBlockHeight = 0
  /\ poll = NoPoll
  /\ reader = NoReader
  /\ faults = 0

-----------------------------------------------------------------------------
\* The block storage closes a block.
NewBlock(diff) ==
  /\ Len(chain) < MaxHeight
  /\ chain' = Append(chain, diff)
  /\ UNCHANGED <<kvstore, lastBlockHeight, poll, reader, faults>>

Restart ==
  /\ faults < MaxFaults /\ faults' = faults + 1
  /\ kvstore' = Empty
  /\ lastBlockHeight' = 0
  /\ poll' = NoPoll
  /\ reader' = NoReader
  /\ UNCHANGED chain

-----------------------------------------------------------------------------
(***************************************************************************)
(* pollBlockStorage and mapOverBlocks.  The timer is off while a poll runs *)
(* and on again in its finally, so there is one poll at a time.            *)
(***************************************************************************)
\* Mutant: the first page starts one block too late.
PollBlockStorage_SkipsOne ==
  /\ poll.step = "idle"
  /\ poll' = [NoPoll EXCEPT !.step = "fetch", !.from = lastBlockHeight + 1]
  /\ UNCHANGED <<chain, kvstore, lastBlockHeight, reader, faults>>

PollBlockStorage ==
  /\ poll.step = "idle"
  /\ poll' = [NoPoll EXCEPT !.step = "fetch", !.from = lastBlockHeight]
  /\ UNCHANGED <<chain, kvstore, lastBlockHeight, reader, faults>>

Upto(from) == IF from + ScrollLimit >= Len(chain) THEN Len(chain) ELSE from + ScrollLimit

\* getBlocks answers; an empty page ends the loop and the poll.
FetchPage ==
  /\ poll.step = "fetch"
  /\ poll' = IF poll.from < Upto(poll.from)
             THEN [poll EXCEPT !.step = "apply", !.next = poll.from + 1, !.upto = Upto(poll.from)]
             ELSE NoPoll
  /\ UNCHANGED <<chain, kvstore, lastBlockHeight, reader, faults>>

\* getBlocks fails (the block storage is not loaded yet, or out of reach).
FetchFails ==
  /\ faults < MaxFaults /\ faults' = faults + 1
  /\ poll.step = "fetch"
  /\ poll' = NoPoll
  /\ UNCHANGED <<chain, kvstore, lastBlockHeight, reader>>

\* kvstore.set for every key of the diff
ApplyDiff(store, diff) == [k \in Keys |-> IF k \in DOMAIN diff THEN diff[k] ELSE store[k]]

\* After the last block of the page the loop goes on one whole page further,
\* however many blocks this one had.
AfterBlock ==
  IF poll.next < poll.upto THEN [poll EXCEPT !.next = @ + 1]
  ELSE [NoPoll EXCEPT !.step = "fetch", !.from = poll.from + ScrollLimit]

\* Mutant: any later height is applied.
SyncNextBlock_AnyLater ==
  /\ poll.step = "apply"
  /\ poll.next > lastBlockHeight
  /\ kvstore' = ApplyDiff(kvstore, chain[poll.next])
  /\ lastBlockHeight' = poll.next
  /\ poll' = AfterBlock
  /\ UNCHANGED <<chain, reader, faults>>

SyncNextBlock ==
  /\ poll.step = "apply"
  /\ poll.next = lastBlockHeight + 1
  /\ kvstore' = ApplyDiff(kvstore, chain[poll.next])
  /\ lastBlockHeight' = poll.next
  /\ poll' = AfterBlock
  /\ UNCHANGED <<chain, reader, faults>>

\* "Unexpected block Height": the poll ends with an error.
SyncNextBlockFails ==
  /\ poll.step = "apply"
  /\ poll.next # lastBlockHeight + 1
  /\ poll' = NoPoll
  /\ UNCHANGED <<chain, kvstore, lastBlockHeight, reader, faults>>

-----------------------------------------------------------------------------
(***************************************************************************)
(* readKeys and waitForBlockState.                                         *)
(***************************************************************************)
ReadKeys ==
  /\ reader.step \in {"idle", "done", "timeout"}
  /\ reader' = [NoReader EXCEPT !.step = "called", !.begun = Len(chain)]
  /\ UNCHANGED <<chain, kvstore, lastBlockHeight, poll, faults>>

\* getLastBlock answers; this height is not read again.
GetLastBlock ==
  /\ reader.step = "called"
  /\ reader' = [reader EXCEPT !.step = "waiting", !.asked = Len(chain), !.left = MaxChecks]
  /\ UNCHANGED <<chain, kvstore, lastBlockHeight, poll, faults>>

GetLastBlockFails ==
  /\ faults < MaxFaults /\ faults' = faults + 1
  /\ reader.step = "called"
  /\ reader' = NoReader
  /\ UNCHANGED <<chain, kvstore, lastBlockHeight, poll>>

\* Mutant: one block behind counts as caught up.
CaughtUp_OneBehind == reader.asked <= lastBlockHeight + 1

CaughtUp == reader.asked <= lastBlockHeight

\* Mutant: the loop gives up one turn too late.
WaitForBlockState_OneTurnMore ==
  /\ reader.step = "waiting"
  /\ reader' =
       IF reader.left < 0 THEN [reader EXCEPT !.step = "timeout"]
       ELSE IF CaughtUp THEN [reader EXCEPT !.step = "done", !.values = kvstore]
       ELSE [reader EXCEPT !.left = @ - 1]
  /\ UNCHANGED <<chain, kvstore, lastBlockHeight, poll, faults>>

\* One turn of the while loop: return and read, sleep, or give up.
WaitForBlockState ==
  /\ reader.step = "waiting"
  /\ reader' =
       IF reader.left = 0 THEN [reader EXCEPT !.step = "timeout"]
       ELSE IF CaughtUp THEN [reader EXCEPT !.step = "done", !.values = kvstore]
       ELSE [reader EXCEPT !.left = @ - 1]
  /\ UNCHANGED <<chain, kvstore, lastBlockHeight, poll, faults>>

-----------------------------------------------------------------------------
Next ==
  \/ \E diff \in Diffs : NewBlock(diff)
  \/ Restart
  \/ PollBlockStorage
  \/ FetchPage
  \/ FetchFails
  \/ SyncNextBlock
  \/ SyncNextBlockFails
  \/ ReadKeys
  \/ GetLastBlock
  \/ GetLastBlockFails
  \/ WaitForBlockState

Spec == Init /\ [][Next]_vars

(***************************************************************************)
(* The poll timer fires again and again and getBlocks is answered.         *)
(***************************************************************************)
Fairness ==
  /\ WF_vars(PollBlockStorage)
  /\ WF_vars(FetchPage)
  /\ WF_vars(SyncNextBlock \/ SyncNextBlockFails)

FairSpec == Spec /\ Fairness

-----------------------------------------------------------------------------
(***************************************************************************)
(* Properties.                                                             *)
(***************************************************************************)
\* The reference: after block h, key k has the value that the last block up
\* to h that writes k gives it, and none if no block does.
Writers(k, h) == { i \in 1..h : k \in DOMAIN chain[i] }
IsStateAt(store, h) ==
  \A k \in Keys :
    \/ Writers(k, h) = {} /\ store[k] = NoValue
    \/ \E i \in Writers(k, h) :
         (\A j \in Writers(k, h) : j <= i) /\ store[k] = chain[i][k]

(* The store is always the state after exactly the blocks up to            *)
(* lastBlockHeight: no block is skipped, applied twice or out of order,    *)
(* although pages overtake the growing chain and polls break off.          *)
StoreIsStateOfPrefix ==
  /\ lastBlockHeight <= Len(chain)
  /\ IsStateAt(kvstore, lastBlockHeight)

(* readKeys returns the state after one block, and no older one than the   *)
(* last block there was when it was called.                                *)
ReadsAreFresh ==
  reader.step = "done" =>
    \E h \in reader.begun..Len(chain) : IsStateAt(reader.values, h)

(* Every closed block is applied some time: a poll that breaks off is made *)
(* up for by a later one.                                                  *)
CatchesUp ==
  \A h \in 1..MaxHeight : Len(chain) >= h ~> lastBlockHeight >= h
=============================================================================
