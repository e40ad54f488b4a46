---------------------------- MODULE BlockStorage ----------------------------
(***************************************************************************)
(* The BlockStorage class (block-storage.ts) over its LevelDB, inside a    *)
(* process that may crash and be started again at any point.               *)
(*                                                                         *)
(* A block is a record.  Its hash is abstracted to an identifier in field  *)
(* "hash"; "verified" is what keyManager.verify answers for its signature; *)
(* its body is left out, because no decision of this class depends on it.  *)
(*                                                                         *)
(* The class is single-threaded JavaScript: an action is the code between  *)
(* two awaits.  Every call of addBlock runs on behalf of a caller; with    *)
(* one caller the calls are serial, as the comment on addBlock demands.    *)
(***************************************************************************)
EXTENDS Integers, Sequences

CONSTANTS Blocks,          \* the blocks callers may hand to addBlock
          GenesisBlock,    \* the block generateGenesisBlock builds
          NoBlock,         \* a key that is not in the database; an undefined lastBlock
          Callers,         \* the concurrent calls of addBlock there may be
          VerifySignature, \* config.verifySignature
          Limits           \* the limits readers pass to getBlocks

NotFound == -1             \* the key "last" is not in the database

ASSUME BlocksAssumption ==
  /\ GenesisBlock \in Blocks
  /\ GenesisBlock.height = 0
  /\ \A b \in Blocks : b.height \in Nat
  /\ NoBlock \notin Blocks

ASSUME LimitsAssumption == Limits \subseteq Nat

Heights == { b.height : b \in Blocks }

VARIABLES
  last,       \* LevelDB: the height under the key "last"
  db,         \* LevelDB: the block under the key of each height
  load,       \* where load() is, or "down" when there is no process
  lastBlock,  \* this.lastBlock
  pc,         \* per caller, the next awaited operation of its addBlock
  block,      \* per caller, the argument of its addBlock
  reader,     \* one call of getBlocks
  reported,   \* the blocks whose transactions the transaction pool was told of
  served      \* history: the greatest height that was ever this.lastBlock's

vars == <<last, db, load, lastBlock, pc, block, reader, reported, served>>
disk == <<last, db>>
calls == <<pc, block>>

LoadSteps == {"down", "getLast", "putLast", "putGenesis", "getBlock", "loaded", "failed"}
AddSteps == {"idle", "putLast", "putBlock", "report", "setLast"}

NoReader == [step |-> "idle", from |-> 0, upto |-> 0, blocks |-> <<>>]

TypeOK ==
  /\ last \in Heights \cup {NotFound}
  /\ db \in [Heights -> Blocks \cup {NoBlock}]
  /\ load \in LoadSteps
  /\ load \in {"putGenesis", "getBlock"} => last # NotFound
  /\ lastBlock \in Blocks \cup {NoBlock}
  /\ pc \in [Callers -> AddSteps]
  /\ block \in [Callers -> Blocks]
  /\ reader \in [step : {"idle", "reading", "done", "failed"}, from : Nat,
                 upto : Nat, blocks : Seq(Blocks)]
  /\ reported \subseteq Blocks
  /\ served \in Heights \cup {NotFound}

Init ==
  /\ last = NotFound
  /\ db = [h \in Heights |-> NoBlock]
  /\ load = "down"
  /\ lastBlock = NoBlock
  /\ pc = [c \in Callers |-> "idle"]
  /\ block = [c \in Callers |-> GenesisBlock]
  /\ reader = NoReader
  /\ reported = {}
  /\ served = NotFound

-----------------------------------------------------------------------------
(***************************************************************************)
(* The process, and load().                                                *)
(***************************************************************************)
Start ==
  /\ load = "down"
  /\ load' = "getLast"
  /\ UNCHANGED <<disk, lastBlock, calls, reader, reported, served>>

\* The process dies: what is in memory is gone, what LevelDB was given stays.
Crash ==
  /\ load # "down"
  /\ load' = "down"
  /\ lastBlock' = NoBlock
  /\ pc' = [c \in Callers |-> "idle"]
  /\ reader' = NoReader
  /\ UNCHANGED <<disk, block, reported, served>>

\* Mutant: a missing key "last" is not told from a present one.
LoadGetLast_IgnoresNotFound ==
  /\ load = "getLast"
  /\ load' = "getBlock"
  /\ UNCHANGED <<disk, lastBlock, calls, reader, reported, served>>

\* db.get("last"); notFound means a new database.
LoadGetLast ==
  /\ load = "getLast"
  /\ load' = IF last = NotFound THEN "putLast" ELSE "getBlock"
  /\ UNCHANGED <<disk, lastBlock, calls, reader, reported, served>>

LoadPutLast ==
  /\ load = "putLast"
  /\ last' = GenesisBlock.height
  /\ load' = "putGenesis"
  /\ UNCHANGED <<db, lastBlock, calls, reader, reported, served>>

LoadPutGenesis ==
  /\ load = "putGenesis"
  /\ db' = [db EXCEPT ![GenesisBlock.height] = GenesisBlock]
  /\ load' = "getBlock"
  /\ UNCHANGED <<last, lastBlock, calls, reader, reported, served>>

\* this.lastBlock = await this.getBlock(lastBlockHeight)
LoadGetBlock ==
  /\ load = "getBlock"
  /\ db[last] # NoBlock
  /\ lastBlock' = db[last]
  /\ served' = IF last > served THEN last ELSE served
  /\ load' = "loaded"
  /\ UNCHANGED <<disk, calls, reader, reported>>

\* A get or put of LevelDB fails, or getBlock finds no block under last:
\* load() rejects, and the process goes on with lastBlock undefined and fails
\* its startup check.
LoadFails ==
  /\ load \in {"getLast", "putLast", "putGenesis", "getBlock"}
  /\ load' = "failed"
  /\ UNCHANGED <<disk, lastBlock, calls, reader, reported, served>>

-----------------------------------------------------------------------------
(***************************************************************************)
(* addBlock, from one await to the next.                                   *)
(***************************************************************************)
Follows(b, p) == b.height = p.height + 1 /\ b.prevBlockHash = p.hash

\* Mutant: the height is not compared.
verifyNewBlock_AnyHeight(b) ==
  /\ VerifySignature => b.verified
  /\ b.version = 0
  /\ lastBlock # NoBlock
  /\ b.prevBlockHash = lastBlock.hash

\* Mutant: the hash of the previous block is not compared.
verifyNewBlock_AnyParent(b) ==
  /\ VerifySignature => b.verified
  /\ b.version = 0
  /\ lastBlock # NoBlock
  /\ b.height = lastBlock.height + 1

verifyNewBlock(b) ==
  /\ VerifySignature => b.verified
  /\ b.version = 0
  /\ lastBlock # NoBlock
  /\ Follows(b, lastBlock)

\* The call; a block that does not verify is rejected and changes nothing.
AddBlock(c, b) ==
  /\ pc[c] = "idle"
  /\ load # "down"
  /\ verifyNewBlock(b)
  /\ pc' = [pc EXCEPT ![c] = "putLast"]
  /\ block' = [block EXCEPT ![c] = b]
  /\ UNCHANGED <<disk, load, lastBlock, reader, reported, served>>

\* Mutant: this.lastBlock is set before the block is written.
PutLast_SetsLastBlock(c) ==
  /\ pc[c] = "putLast"
  /\ last' = block[c].height
  /\ lastBlock' = block[c]
  /\ served' = IF block[c].height > served THEN block[c].height ELSE served
  /\ pc' = [pc EXCEPT ![c] = "putBlock"]
  /\ UNCHANGED <<db, load, block, reader, reported>>

PutLast(c) ==
  /\ pc[c] = "putLast"
  /\ last' = block[c].height
  /\ pc' = [pc EXCEPT ![c] = "putBlock"]
  /\ UNCHANGED <<db, load, lastBlock, block, reader, reported, served>>

PutBlock(c) ==
  /\ pc[c] = "putBlock"
  /\ db' = [db EXCEPT ![block[c].height] = block[c]]
  /\ pc' = [pc EXCEPT ![c] = "report"]
  /\ UNCHANGED <<last, load, lastBlock, block, reader, reported, served>>

\* The pool executes markCommittedTransactions and the answer arrives.
ReportBlock(c) ==
  /\ pc[c] = "report"
  /\ reported' = reported \cup {block[c]}
  /\ pc' = [pc EXCEPT ![c] = "setLast"]
  /\ UNCHANGED <<disk, load, lastBlock, block, reader, served>>

\* this.lastBlock = block, and the call resolves.
SetLast(c) ==
  /\ pc[c] = "setLast"
  /\ lastBlock' = block[c]
  /\ served' = IF block[c].height > served THEN block[c].height ELSE served
  /\ pc' = [pc EXCEPT ![c] = "idle"]
  /\ UNCHANGED <<disk, load, block, reader, reported>>

\* A write fails, or the call of the pool does: the pool is down, or it did
\* its work and the answer was lost.  addBlock rejects with what it has done
\* so far left in place.
AddBlockFails(c) ==
  /\ \/ pc[c] \in {"putLast", "putBlock", "report"} /\ UNCHANGED reported
     \/ pc[c] = "report" /\ reported' = reported \cup {block[c]}
  /\ pc' = [pc EXCEPT ![c] = "idle"]
  /\ UNCHANGED <<disk, load, lastBlock, block, reader, served>>

-----------------------------------------------------------------------------
(***************************************************************************)
(* getBlocks: the upper height is read once, then one get per block.       *)
(***************************************************************************)
\* Mutant: the range is not cut at lastBlock.
GetBlocks_PastTheEnd(from, limit) ==
  /\ reader.step # "reading"
  /\ lastBlock # NoBlock
  /\ reader' = [step |-> "reading", from |-> from, upto |-> from + limit, blocks |-> <<>>]
  /\ UNCHANGED <<disk, load, lastBlock, calls, reported, served>>

GetBlocks(from, limit) ==
  /\ reader.step # "reading"
  /\ lastBlock # NoBlock
  /\ LET upto == IF from + limit >= lastBlock.height THEN lastBlock.height ELSE from + limit
     IN  reader' = [step |-> IF from < upto THEN "reading" ELSE "done",
                    from |-> from, upto |-> upto, blocks |-> <<>>]
  /\ UNCHANGED <<disk, load, lastBlock, calls, reported, served>>

NextHeight == reader.from + Len(reader.blocks) + 1

GetNextBlock ==
  /\ reader.step = "reading"
  /\ reader' = IF NextHeight \notin Heights \/ db[NextHeight] = NoBlock
               THEN [reader EXCEPT !.step = "failed"]
               ELSE [reader EXCEPT !.blocks = Append(@, db[NextHeight]),
                                   !.step = IF NextHeight = reader.upto THEN "done" ELSE @]
  /\ UNCHANGED <<disk, load, lastBlock, calls, reported, served>>

-----------------------------------------------------------------------------
Next ==
  \/ Start
  \/ Crash
  \/ LoadGetLast
  \/ LoadPutLast
  \/ LoadPutGenesis
  \/ LoadGetBlock
  \/ LoadFails
  \/ \E c \in Callers, b \in Blocks : AddBlock(c, b)
  \/ \E c \in Callers : PutLast(c)
  \/ \E c \in Callers : PutBlock(c)
  \/ \E c \in Callers : ReportBlock(c)
  \/ \E c \in Callers : SetLast(c)
  \/ \E c \in Callers : AddBlockFails(c)
  \/ \E from \in Heights, limit \in Limits : GetBlocks(from, limit)
  \/ GetNextBlock

Spec == Init /\ [][Next]_vars

-----------------------------------------------------------------------------
(***************************************************************************)
(* Properties.                                                             *)
(***************************************************************************)
(* The contract stated above addBlock ("this method should be only called  *)
(* serially"): there is one caller.                                        *)
Serial == \A c, d \in Callers : c = d

(* Every block on disk stands at its own height and on its parent: no      *)
(* crash, failed write, failed report or competing block leaves a gap or a *)
(* block whose predecessor is not the one stored below it.                 *)
ChainLinked ==
  \A h \in Heights :
    db[h] # NoBlock =>
      IF h = 0 THEN db[h] = GenesisBlock
               ELSE /\ h - 1 \in Heights
                    /\ db[h - 1] # NoBlock
                    /\ Follows(db[h], db[h - 1])

(* The block in memory is the one on disk, and no restart or failed        *)
(* addBlock ever makes the storage serve a chain shorter than one it has   *)
(* already served.                                                         *)
TipIsDurable ==
  lastBlock # NoBlock => /\ lastBlock.height = served
                         /\ db[served] = lastBlock

(* getBlocks, reading one block per await while blocks are added or        *)
(* replaced, never misses a key and returns a run of the stored chain.     *)
GetBlocksConsistent ==
  /\ reader.step # "failed"
  /\ \A i \in 1..Len(reader.blocks) :
       /\ reader.from + i \in Heights
       /\ reader.blocks[i] = db[reader.from + i]

(* The scheme of block-storage/README.md: the key "last" holds the ID of   *)
(* the last block and every block is stored under its ID, so the key names *)
(* a stored block whenever load() may read it.                             *)
LastKeyNamesABlock ==
  (load = "down" /\ last # NotFound) => db[last] # NoBlock

(* Every block that is served as closed was reported to the transaction    *)
(* pool (transaction-pool/README.md: "Every time a block is committed, it  *)
(* reports back to the transaction pool").                                 *)
CommittedBlocksReported ==
  lastBlock # NoBlock => lastBlock \in reported \cup {GenesisBlock}

(* The blocks served so far, as the abstract chain.                        *)
ServedChain == [i \in 1..(served + 1) |-> db[i - 1]]

L == INSTANCE Ledger WITH chain <- ServedChain

(* The detailed storage implements the append-only ledger.                 *)
ImplementsLedger == L!Spec
=============================================================================
