------------------------- MODULE BlockStorageProofs -------------------------
(***************************************************************************)
(* Theorems about BlockStorage, for every set of blocks, every limit, any  *)
(* number of crashes and failures: type correctness without a condition,   *)
(* and, when addBlock is called serially, that the disk holds one linked   *)
(* chain, that what was served is never lost or replaced, and that readers *)
(* see a run of it.                                                        *)
(***************************************************************************)
EXTENDS BlockStorage, TLAPS

(* Every height is a natural number, and that of the genesis block is 0.   *)
LEMMA HeightsNat ==
  /\ Heights \subseteq Nat
  /\ 0 \in Heights
  /\ \A b \in Blocks : b.height \in Heights
BY BlocksAssumption DEF Heights

(* Every step, of any number of callers, keeps the variables in their sets.*)
LEMMA TypeStep == TypeOK /\ [Next]_vars => TypeOK'
<1> SUFFICES ASSUME TypeOK, [Next]_vars PROVE TypeOK'
  OBVIOUS
<1> USE HeightsNat DEF LoadSteps, AddSteps, NotFound
<1>1. CASE Start
  BY <1>1 DEF TypeOK, Start, disk, calls
<1>2. CASE Crash
  BY <1>2 DEF TypeOK, Crash, disk, NoReader
<1>3. CASE LoadGetLast
  BY <1>3 DEF TypeOK, LoadGetLast, disk, calls
<1>4. CASE LoadPutLast
  BY <1>4, BlocksAssumption DEF TypeOK, LoadPutLast, calls
<1>5. CASE LoadPutGenesis
  BY <1>5, BlocksAssumption DEF TypeOK, LoadPutGenesis, calls
<1>6. CASE LoadGetBlock
  <2>1. last \in Heights /\ db[last] \in Blocks
    BY <1>6 DEF TypeOK, LoadGetBlock
  <2> QED
    BY <1>6, <2>1 DEF TypeOK, LoadGetBlock, disk, calls
<1>7. CASE LoadFails
  BY <1>7 DEF TypeOK, LoadFails, disk, calls
<1>8. CASE \E c \in Callers, b \in Blocks : AddBlock(c, b)
  BY <1>8 DEF TypeOK, AddBlock, disk
<1>9. CASE \E c \in Callers : PutLast(c)
  BY <1>9 DEF TypeOK, PutLast
<1>10. CASE \E c \in Callers : PutBlock(c)
  BY <1>10 DEF TypeOK, PutBlock
<1>11. CASE \E c \in Callers : ReportBlock(c)
  BY <1>11 DEF TypeOK, ReportBlock, disk
<1>12. CASE \E c \in Callers : SetLast(c)
  BY <1>12 DEF TypeOK, SetLast, disk
<1>13. CASE \E c \in Callers : AddBlockFails(c)
  BY <1>13 DEF TypeOK, AddBlockFails, disk
<1>14. CASE \E from \in Heights, limit \in Limits : GetBlocks(from, limit)
  <2> PICK from \in Heights, limit \in Limits : GetBlocks(from, limit)
    BY <1>14
  <2>1. lastBlock.height \in Nat /\ from \in Nat /\ limit \in Nat
    BY LimitsAssumption, BlocksAssumption DEF TypeOK, GetBlocks
  <2> DEFINE upto == IF from + limit >= lastBlock.height THEN lastBlock.height ELSE from + limit
  <2>2. upto \in Nat
    BY <2>1
  <2>3. reader' = [step |-> IF from < upto THEN "reading" ELSE "done",
                   from |-> from, upto |-> upto, blocks |-> <<>>]
    BY DEF GetBlocks
  <2> HIDE DEF upto
  <2> QED
    BY <2>1, <2>2, <2>3 DEF TypeOK, GetBlocks, disk, calls
<1>15. CASE GetNextBlock
  <2>1. NextHeight \in Heights /\ db[NextHeight] # NoBlock
          => Append(reader.blocks, db[NextHeight]) \in Seq(Blocks)
    BY DEF TypeOK
  <2>2. reader' \in [step : {"idle", "reading", "done", "failed"}, from : Nat,
                     upto : Nat, blocks : Seq(Blocks)]
    <3> HIDE DEF NextHeight
    <3> QED BY <1>15, <2>1 DEF TypeOK, GetNextBlock
  <2> QED
    BY <1>15, <2>2 DEF TypeOK, GetNextBlock, disk, calls
<1>16. CASE UNCHANGED vars
  BY <1>16 DEF TypeOK, vars
<1> QED
  BY <1>1, <1>2, <1>3, <1>4, <1>5, <1>6, <1>7, <1>8, <1>9, <1>10, <1>11,
     <1>12, <1>13, <1>14, <1>15, <1>16 DEF Next

(* The values of all variables stay in their sets, whatever the callers do *)
(* and however many of them there are.                                     *)
THEOREM TypeCorrect == Spec => []TypeOK
<1>1. Init => TypeOK
  BY BlocksAssumption, HeightsNat DEF Init, TypeOK, NoReader, LoadSteps, AddSteps
<1>2. TypeOK /\ [Next]_vars => TypeOK'
  BY TypeStep
<1> QED
  BY <1>1, <1>2, PTL DEF Spec

-----------------------------------------------------------------------------
(***************************************************************************)
(* The inductive invariant.  ChainLinked alone is not inductive: that the  *)
(* block a caller writes stands on the block below it depends on           *)
(* this.lastBlock still being the block on disk at height served, and that *)
(* no served block is overwritten depends on every write going to the one  *)
(* height above it.                                                        *)
(***************************************************************************)
\* Blocks are stored at their own height, up to one above what was served.
DiskOK ==
  /\ \A h \in Heights : db[h] # NoBlock => db[h].height = h /\ h <= served + 1
  /\ \A h \in 0..served : h \in Heights /\ db[h] # NoBlock

\* The key "last" is at what was served, or one ahead of it.
KeyOK == last \in {served, served + 1}

\* lastBlock is defined only after load() and is the block served last.
TipOK ==
  lastBlock # NoBlock => load = "loaded" /\ served # NotFound /\ lastBlock = db[served]

LoadOK ==
  /\ load = "putLast" => last = NotFound /\ served = NotFound
  /\ load = "putGenesis" => last = 0 /\ served = NotFound

\* A call in flight has a block that follows lastBlock, and has written what
\* comes before its next step.
CallsOK ==
  \A c \in Callers :
    pc[c] # "idle" =>
      /\ lastBlock # NoBlock
      /\ Follows(block[c], lastBlock)
      /\ pc[c] # "putLast" => last = served + 1
      /\ pc[c] \in {"report", "setLast"} => db[served + 1] = block[c]

ReaderOK ==
  /\ reader.step # "failed"
  /\ reader.step = "reading" =>
       reader.from + Len(reader.blocks) < reader.upto /\ reader.upto <= served
  /\ \A i \in 1..Len(reader.blocks) :
       reader.from + i <= served /\ reader.blocks[i] = db[reader.from + i]

IInv == TypeOK /\ ChainLinked /\ DiskOK /\ KeyOK /\ TipOK /\ LoadOK /\ CallsOK /\ ReaderOK

(* Nothing is stored or under way yet.                                     *)
LEMMA IInvInit == Init => IInv
BY HeightsNat, BlocksAssumption
   DEF Init, IInv, TypeOK, ChainLinked, DiskOK, KeyOK, TipOK, LoadOK, CallsOK,
       ReaderOK, NoReader, NotFound, LoadSteps, AddSteps

(* The one-caller contract of addBlock makes the invariant inductive.      *)
LEMMA IInvStep == ASSUME Serial PROVE IInv /\ [Next]_vars => IInv'
<1> SUFFICES ASSUME IInv, [Next]_vars PROVE IInv'
  OBVIOUS
<1> USE HeightsNat DEF NotFound
<1>0. TypeOK' /\ TypeOK
  BY TypeStep DEF IInv
<1>r. /\ reader.from \in Nat /\ reader.upto \in Nat /\ Len(reader.blocks) \in Nat
      /\ served \in Int /\ served >= -1
  BY <1>0 DEF TypeOK
<1>h. \A i \in 1..Len(reader.blocks) : reader.from + i \in Heights
  BY <1>r DEF IInv, ReaderOK, DiskOK
<1>1. CASE Start
  BY <1>0, <1>1 DEF Start, disk, calls, IInv, TypeOK, ChainLinked, DiskOK, KeyOK,
                    TipOK, LoadOK, CallsOK, ReaderOK
<1>2. CASE Crash
  BY <1>0, <1>2 DEF Crash, disk, IInv, TypeOK, ChainLinked, DiskOK, KeyOK,
                    TipOK, LoadOK, CallsOK, ReaderOK, NoReader
<1>3. CASE LoadGetLast
  BY <1>0, <1>3 DEF LoadGetLast, disk, calls, IInv, TypeOK, ChainLinked, DiskOK, KeyOK,
                    TipOK, LoadOK, CallsOK, ReaderOK
<1>4. CASE LoadPutLast
  BY <1>0, <1>4, BlocksAssumption
     DEF LoadPutLast, calls, IInv, TypeOK, ChainLinked, DiskOK, KeyOK,
         TipOK, LoadOK, CallsOK, ReaderOK
<1>5. CASE LoadPutGenesis
  BY <1>0, <1>5, BlocksAssumption
     DEF LoadPutGenesis, calls, IInv, TypeOK, ChainLinked, DiskOK, KeyOK,
         TipOK, LoadOK, CallsOK, ReaderOK
<1>6. CASE LoadGetBlock
  BY <1>0, <1>6
     DEF LoadGetBlock, disk, calls, IInv, TypeOK, ChainLinked, DiskOK, KeyOK,
         TipOK, LoadOK, CallsOK, ReaderOK
<1>7. CASE LoadFails
  BY <1>0, <1>7
     DEF LoadFails, disk, calls, IInv, TypeOK, ChainLinked, DiskOK, KeyOK,
         TipOK, LoadOK, CallsOK, ReaderOK
<1>8. CASE \E c \in Callers, b \in Blocks : AddBlock(c, b)
  BY <1>0, <1>8
     DEF AddBlock, verifyNewBlock, disk, IInv, TypeOK, ChainLinked, DiskOK, KeyOK,
         TipOK, LoadOK, CallsOK, ReaderOK
<1>9. CASE \E c \in Callers : PutLast(c)
  BY <1>0, <1>9 
     DEF PutLast, Serial, Follows, IInv, TypeOK, ChainLinked, DiskOK, KeyOK,
         TipOK, LoadOK, CallsOK, ReaderOK
<1>10. CASE \E c \in Callers : PutBlock(c)
  <2> PICK c \in Callers : PutBlock(c)
    BY <1>10
  <2>1. /\ lastBlock \in Blocks /\ served \in Heights /\ lastBlock = db[served]
        /\ lastBlock.height = served
        /\ Follows(block[c], lastBlock)
        /\ block[c] \in Blocks /\ block[c].height = served + 1
        /\ served + 1 \in Heights
    BY <1>0 DEF PutBlock, IInv, TypeOK, CallsOK, TipOK, DiskOK, Follows
  <2>2. /\ db' = [db EXCEPT ![served + 1] = block[c]]
        /\ UNCHANGED <<last, load, lastBlock, block, reader, served>>
        /\ pc' = [pc EXCEPT ![c] = "report"]
    BY <2>1 DEF PutBlock
  <2>3. \A h \in Heights : h # served + 1 => db'[h] = db[h]
    BY <2>2, <1>0 DEF TypeOK
  <2>4. db'[served + 1] = block[c]
    BY <2>1, <2>2, <1>0 DEF TypeOK
  <2>5. ChainLinked'
    <3> SUFFICES ASSUME NEW h \in Heights, db'[h] # NoBlock
                 PROVE  IF h = 0 THEN db'[h] = GenesisBlock
                        ELSE h - 1 \in Heights /\ db'[h - 1] # NoBlock
                             /\ Follows(db'[h], db'[h - 1])
      BY DEF ChainLinked
    <3>1. CASE h = served + 1
      BY <2>1, <2>3, <2>4, <3>1, BlocksAssumption
    <3>2. CASE h # served + 1
      <4>1. h <= served
        BY <2>3, <3>2, <2>1 DEF IInv, DiskOK
      <4> QED
        BY <4>1, <2>1, <2>3, <3>2 DEF IInv, ChainLinked
    <3> QED BY <3>1, <3>2
  <2>6. DiskOK'
    BY <2>1, <2>2, <2>3, <2>4, BlocksAssumption DEF IInv, DiskOK
  <2>7. KeyOK' /\ TipOK' /\ LoadOK'
    BY <2>1, <2>2, <2>3 DEF IInv, KeyOK, TipOK, LoadOK
  <2>8. CallsOK'
    BY <2>1, <2>2, <2>4, <1>0 DEF IInv, CallsOK, PutBlock, Serial, TypeOK
  <2>9. ReaderOK'
    BY <2>1, <2>2, <2>3, <1>r, <1>h DEF IInv, ReaderOK
  <2> QED
    BY <1>0, <2>5, <2>6, <2>7, <2>8, <2>9 DEF IInv
<1>11. CASE \E c \in Callers : ReportBlock(c)
  <2> PICK c \in Callers : ReportBlock(c)
    BY <1>11
  <2>1. /\ UNCHANGED <<last, db, load, lastBlock, block, reader, served>>
        /\ pc[c] = "report" /\ pc' = [pc EXCEPT ![c] = "setLast"]
    BY DEF ReportBlock, disk
  <2>2. ChainLinked' /\ DiskOK' /\ KeyOK' /\ TipOK' /\ LoadOK' /\ ReaderOK'
    BY <2>1 DEF IInv, ChainLinked, DiskOK, KeyOK, TipOK, LoadOK, ReaderOK
  <2>3. CallsOK'
    BY <1>0, <2>1 DEF IInv, CallsOK, TypeOK
  <2> QED
    BY <1>0, <2>2, <2>3 DEF IInv
<1>12. CASE \E c \in Callers : SetLast(c)
  <2> PICK c \in Callers : SetLast(c)
    BY <1>12
  <2>1. /\ lastBlock \in Blocks /\ served \in Heights /\ lastBlock.height = served
        /\ block[c] \in Blocks /\ block[c].height = served + 1
        /\ db[served + 1] = block[c] /\ last = served + 1
        /\ served + 1 \in Heights
        /\ load = "loaded"
    BY <1>0 DEF SetLast, IInv, TypeOK, CallsOK, TipOK, DiskOK, Follows
  <2>2. /\ UNCHANGED <<last, db, load, block, reader>>
        /\ lastBlock' = db[served + 1]
        /\ served' = served + 1
        /\ \A d \in Callers : pc'[d] = "idle"
    BY <2>1, <1>0 DEF SetLast, disk, Serial, TypeOK
  <2>3. ChainLinked' /\ KeyOK' /\ TipOK' /\ LoadOK' /\ CallsOK'
    BY <2>1, <2>2, BlocksAssumption DEF IInv, ChainLinked, KeyOK, TipOK, LoadOK, CallsOK
  <2>4. DiskOK'
    <3>0. \A h \in Heights : h <= served + 1 => h <= served' + 1
      BY <2>2, <1>r
    <3>1. \A h \in Heights : db[h] # NoBlock => db[h].height = h /\ h <= served' + 1
      BY <3>0 DEF IInv, DiskOK
    <3>2. \A h \in 0..served' : h \in 0..served \/ h = served + 1
      BY <2>2, <1>r
    <3>3. \A h \in 0..served' : h \in Heights /\ db[h] # NoBlock
      BY <2>1, <3>2, BlocksAssumption DEF IInv, DiskOK
    <3> QED
      BY <2>2, <3>1, <3>3 DEF DiskOK
  <2>5. ReaderOK'
    BY <2>2, <1>r DEF IInv, ReaderOK
  <2> QED
    BY <1>0, <2>3, <2>4, <2>5 DEF IInv
<1>13. CASE \E c \in Callers : AddBlockFails(c)
  <2> PICK c \in Callers : AddBlockFails(c)
    BY <1>13
  <2>1. /\ UNCHANGED <<last, db, load, lastBlock, block, reader, served>>
        /\ \A d \in Callers : pc'[d] \in {"idle", pc[d]}
    BY <1>0 DEF AddBlockFails, disk, TypeOK
  <2>2. CallsOK'
    BY <2>1 DEF IInv, CallsOK
  <2> QED
    BY <1>0, <2>1, <2>2
       DEF IInv, ChainLinked, DiskOK, KeyOK, TipOK, LoadOK, ReaderOK
<1>14. CASE \E from \in Heights, limit \in Limits : GetBlocks(from, limit)
  BY <1>0, <1>14, LimitsAssumption
     DEF GetBlocks, disk, calls, IInv, TypeOK, ChainLinked, DiskOK, KeyOK,
         TipOK, LoadOK, CallsOK, ReaderOK
<1>15. CASE GetNextBlock
  <2>1. UNCHANGED <<last, db, load, lastBlock, pc, block, served>>
    BY <1>15 DEF GetNextBlock, disk, calls
  <2>2. /\ NextHeight \in Nat /\ NextHeight <= reader.upto /\ reader.upto <= served
        /\ NextHeight \in Heights /\ db[NextHeight] \in Blocks
        /\ Len(reader.blocks) \in Nat
    BY <1>15, <1>0 DEF GetNextBlock, NextHeight, IInv, ReaderOK, TypeOK, DiskOK
  <2>3. /\ reader'.blocks = Append(reader.blocks, db[NextHeight])
        /\ reader'.from = reader.from /\ reader'.upto = reader.upto
        /\ reader'.step = IF NextHeight = reader.upto THEN "done" ELSE reader.step
    <3> HIDE DEF NextHeight
    <3> QED BY <1>15, <1>0, <2>2, BlocksAssumption DEF GetNextBlock, TypeOK
  <2>4. ReaderOK'
    BY <1>15, <1>0, <2>1, <2>2, <2>3 DEF IInv, ReaderOK, TypeOK, NextHeight, GetNextBlock
  <2> QED
    BY <1>0, <2>1, <2>4 DEF IInv, ChainLinked, DiskOK, KeyOK, TipOK, LoadOK, CallsOK
<1>16. CASE UNCHANGED vars
  BY <1>0, <1>16
     DEF vars, IInv, TypeOK, ChainLinked, DiskOK, KeyOK,
         TipOK, LoadOK, CallsOK, ReaderOK
<1> QED
  BY <1>1, <1>2, <1>3, <1>4, <1>5, <1>6, <1>7, <1>8, <1>9, <1>10, <1>11,
     <1>12, <1>13, <1>14, <1>15, <1>16 DEF Next

(* With serial callers the invariant holds in every reachable state.       *)
LEMMA Invariance == ASSUME Serial PROVE Spec => []IInv
<1>1. Init => IInv
  BY IInvInit
<1>2. IInv /\ [Next]_vars => IInv'
  BY IInvStep
<1> QED
  BY <1>1, <1>2, PTL DEF Spec

(* With serial callers, what is on disk is one chain without gaps, through *)
(* any crashes, restarts, failed writes and failed reports of addBlock.    *)
THEOREM DiskHoldsAChain == ASSUME Serial PROVE Spec => []ChainLinked
<1>1. IInv => ChainLinked
  BY DEF IInv
<1> QED
  BY <1>1, Invariance, PTL

(* With serial callers, a block once served by getLastBlock is on disk and *)
(* no restart of load() goes back behind it.                               *)
THEOREM ServedTipIsDurable == ASSUME Serial PROVE Spec => []TipIsDurable
<1>1. IInv => TipIsDurable
  BY HeightsNat, BlocksAssumption DEF IInv, TypeOK, TipOK, DiskOK, TipIsDurable, NotFound
<1> QED
  BY <1>1, Invariance, PTL

(* With serial callers, getBlocks never meets a missing key and returns a  *)
(* run of the chain although blocks are written between its reads.         *)
THEOREM ReadersSeeTheChain == ASSUME Serial PROVE Spec => []GetBlocksConsistent
<1>1. IInv => GetBlocksConsistent
  <2> SUFFICES ASSUME IInv PROVE GetBlocksConsistent
    OBVIOUS
  <2>1. reader.from \in Nat /\ Len(reader.blocks) \in Nat /\ served \in Int
    BY HeightsNat DEF IInv, TypeOK, NotFound
  <2>2. \A i \in 1..Len(reader.blocks) : reader.from + i \in 0..served
    BY <2>1 DEF IInv, ReaderOK
  <2> QED
    BY <2>2 DEF IInv, ReaderOK, DiskOK, GetBlocksConsistent
<1> QED
  BY <1>1, Invariance, PTL

-----------------------------------------------------------------------------
(***************************************************************************)
(* The refinement: ServedChain changes only when served does, that is when *)
(* SetLast or LoadGetBlock makes the block one above it the last block.    *)
(***************************************************************************)
LEMMA ServedChainIsSeq ==
  ASSUME IInv
  PROVE  /\ ServedChain \in Seq(Blocks)
         /\ Len(ServedChain) = served + 1
         /\ \A i \in 1..(served + 1) : ServedChain[i] = db[i - 1]
<1>1. served \in Int /\ served >= -1
  BY HeightsNat DEF IInv, TypeOK, NotFound
<1>2. \A i \in 1..(served + 1) : i - 1 \in 0..served
  BY <1>1
<1>3. \A i \in 1..(served + 1) : db[i - 1] \in Blocks
  BY <1>2 DEF IInv, DiskOK, TypeOK
<1> QED
  BY <1>1, <1>3 DEF ServedChain

(* Nothing that was served is touched: the abstract chain stutters.        *)
LEMMA ChainStutters ==
  ASSUME IInv, served' = served, \A h \in 0..served : db'[h] = db[h]
  PROVE  ServedChain' = ServedChain
<1>1. served \in Int /\ served >= -1
  BY HeightsNat DEF IInv, TypeOK, NotFound
<1>2. \A i \in 1..(served + 1) : i - 1 \in 0..served
  BY <1>1
<1> QED
  BY <1>2 DEF ServedChain

(* The block above the served chain becomes the last block: an Append1.    *)
LEMMA ChainGrows ==
  ASSUME IInv, IInv', served' = served + 1, db' = db
  PROVE  L!Next
<1>1. served \in Int /\ served >= -1
  BY HeightsNat DEF IInv, TypeOK, NotFound
<1>2. served + 1 \in 0..served'
  BY <1>1
<1> DEFINE b == db[served + 1]
<1>3. served + 1 \in Heights /\ b \in Blocks
  BY <1>2 DEF IInv, DiskOK, TypeOK
<1>4. ServedChain' = Append(ServedChain, b)
  BY <1>1, <1>3, ServedChainIsSeq DEF ServedChain
<1>5. IF ServedChain = <<>> THEN b = GenesisBlock
      ELSE L!Follows(b, ServedChain[Len(ServedChain)])
  <2>1. CASE served = -1
    BY <2>1, <1>3, BlocksAssumption, ServedChainIsSeq DEF IInv, ChainLinked
  <2>2. CASE served >= 0
    <3>1. ServedChain # <<>> /\ ServedChain[Len(ServedChain)] = db[served]
      BY <2>2, <1>1, ServedChainIsSeq
    <3>2. Follows(b, db[served])
      <4>1. (served + 1) # 0 /\ (served + 1) - 1 = served /\ b # NoBlock
        BY <2>2, <1>1, <1>3, BlocksAssumption
      <4> QED
        BY <4>1, <1>3 DEF IInv, ChainLinked
    <3> QED
      BY <3>1, <3>2 DEF Follows, L!Follows
  <2> QED
    BY <1>1, <2>1, <2>2
<1> QED
  BY <1>3, <1>4, <1>5 DEF L!Next, L!Append1

(* With serial callers, the storage with its crashes, partial writes and   *)
(* failed reports implements the append-only ledger.                       *)
THEOREM StorageImplementsLedger == ASSUME Serial PROVE Spec => ImplementsLedger
<1>1. Init => L!Init
  BY DEF Init, L!Init, ServedChain, NotFound
<1>2. IInv /\ IInv' /\ [Next]_vars => [L!Next]_ServedChain
  <2> SUFFICES ASSUME IInv, IInv', [Next]_vars
               PROVE  L!Next \/ ServedChain' = ServedChain
    OBVIOUS
  <2> USE DEF NotFound
  <2>0. served \in Int /\ served >= -1
    BY HeightsNat DEF IInv, TypeOK
  <2>1. CASE UNCHANGED <<db, served>>
    BY <2>1, ChainStutters
  <2>2. CASE LoadPutGenesis
    <3>1. served = -1 /\ served' = served
      BY <2>2 DEF LoadPutGenesis, IInv, LoadOK
    <3> QED
      BY <3>1, ChainStutters
  <2>3. CASE LoadGetBlock
    <3>1. db' = db /\ served' \in {served, served + 1}
      BY <2>0, <2>3 DEF LoadGetBlock, disk, IInv, KeyOK
    <3> QED
      BY <3>1, ChainStutters, ChainGrows
  <2>4. CASE \E c \in Callers : PutBlock(c)
    <3> PICK c \in Callers : PutBlock(c)
      BY <2>4
    <3>1. block[c].height = served + 1 /\ served' = served
      BY DEF PutBlock, IInv, TypeOK, CallsOK, TipOK, DiskOK, Follows
    <3>2. \A h \in 0..served : db'[h] = db[h]
      BY <2>0, <3>1 DEF PutBlock, IInv, TypeOK, DiskOK
    <3> QED
      BY <3>1, <3>2, ChainStutters
  <2>5. CASE \E c \in Callers : SetLast(c)
    <3> PICK c \in Callers : SetLast(c)
      BY <2>5
    <3>1. block[c].height = served + 1
      BY DEF SetLast, IInv, TypeOK, CallsOK, TipOK, DiskOK, Follows
    <3>2. db' = db /\ served' = served + 1
      BY <2>0, <3>1 DEF SetLast, disk
    <3> QED
      BY <3>2, ChainGrows
  <2> QED
    BY <2>1, <2>2, <2>3, <2>4, <2>5
       DEF Next, vars, disk, Start, Crash, LoadGetLast, LoadPutLast, LoadFails,
           AddBlock, PutLast, ReportBlock, AddBlockFails, GetBlocks, GetNextBlock
<1> QED
  BY <1>1, <1>2, Invariance, PTL DEF Spec, ImplementsLedger, L!Spec
=============================================================================
