------------------------- MODULE ConsensusProofs -------------------------
(***************************************************************************)
(* For any nodes, builds and calls of onCommitted that overlap, and any    *)
(* bounds.                                                                 *)
(* Of the benchmark consensus: the types; that benchmarkIndex never passes *)
(* an entry that was not given to the storage; that storages fork, and     *)
(* diffs are computed on a wrong state, only if a storage did not add an   *)
(* entry that followed its last block; that a leader knows its tip.        *)
(* Of the stub consensus, over the same builders: the types, and that only *)
(* the named mishaps fork it, compute on a wrong state or leave a builder  *)
(* behind its storage.                                                     *)
(***************************************************************************)
EXTENDS BenchmarkConsensus, StubConsensus, FiniteSetTheorems, FunctionTheorems, SequenceTheorems,
        WellFoundedInduction, TLAPS

\* What the builders remember are blocks that were made, and what is built
\* is not the genesis block.
BuilderOK ==
  /\ BuilderTypeOK
  /\ \A n \in Nodes :
       /\ builder[n].last \in Blocks \cup {None}
       /\ \A s \in Slots :
            /\ builder[n].slot[s].base \in Blocks
            /\ builder[n].slot[s].stage = "built" => builder[n].slot[s].base # 0

IsBuilt(n, s, b) == builder[n].slot[s].stage = "built" /\ builder[n].slot[s].base = b

\* A block is in one place only: an entry of the log, one that the leader has
\* appended, or a block that the consensus has yet to take.  So the log is no
\* longer than there are blocks.
Placed ==
  /\ \A i, j \in 1..Len(log) : log[i] = log[j] => i = j
  /\ \A i, j \in 1..Len(appended) : appended[i] = appended[j] => i = j
  /\ \A i \in 1..Len(log), j \in 1..Len(appended) : log[i] # appended[j]
  /\ \A n \in Nodes, s \in Slots, b \in 1..Len(made) :
       IsBuilt(n, s, b) => /\ \A i \in 1..Len(log) : log[i] # b
                           /\ \A i \in 1..Len(appended) : appended[i] # b
  /\ \A n, m \in Nodes, s, t \in Slots, b \in 1..Len(made) :
       IsBuilt(n, s, b) /\ IsBuilt(m, t, b) => n = m /\ s = t

LogOK == log \in Seq(1..Len(made)) /\ appended \in Seq(1..Len(made)) /\ Placed

\* A call of onCommitted has given the storage all entries before the next.
RunsOK ==
  \A n \in Nodes, r \in Runs : run[n][r].active =>
    run[n][r].upto < Len(log) /\ 0..(run[n][r].next - 1) \subseteq seen[n]

IndexOK ==
  /\ leader \in Nodes \cup {None} /\ elections \in 0..MaxElections
  /\ commit \in [Nodes -> Indices] /\ index \in [Nodes -> Indices]
  /\ waiting \subseteq Nodes
  /\ run \in [Nodes -> [Runs -> Run]]
  /\ seen \in [Nodes -> SUBSET (0..(MaxBlocks - 1))]
  /\ mishaps \subseteq Mishaps
  /\ NoEntrySkipped /\ RunsOK

IInv == BuilderOK /\ LogOK /\ IndexOK

-----------------------------------------------------------------------------
(***************************************************************************)
(* Chains.  They are functions of the blocks made, here of any sequence m  *)
(* of blocks in which the parent of each was made before it.               *)
(***************************************************************************)
Chains(m) ==
  LET chain[x \in 0..Len(m)] == IF x = 0 THEN {0} ELSE {x} \cup chain[m[x].prev]
  IN  chain

ParentsBefore(m) == Len(m) \in Nat /\ \A x \in 1..Len(m) : m[x].prev \in 0..(x - 1)

(* A set of numbers has a least one: what induction over data rests on.    *)
LEMMA LeastNumber ==
  ASSUME NEW T \in SUBSET Nat, T # {}
  PROVE  \E x \in T : \A y \in T : x <= y
<1> DEFINE R == OpToRel(<, Nat)
<1>1. IsWellFoundedOn(R, Nat)
  BY NatLessThanWellFounded
<1>2. \A x, y \in Nat : x < y => <<x, y>> \in R
  BY DEF OpToRel
<1> HIDE DEF R
<1>3. PICK x \in T : \A y \in T : <<y, x>> \notin R
  BY <1>1, WFMin
<1>4. \A y \in T : x \in Nat /\ y \in Nat /\ ~ (y < x)
  BY <1>2, <1>3
<1> QED
  BY <1>4

(* The recursive definition has a solution.                                *)
LEMMA ChainEquation ==
  ASSUME NEW m, ParentsBefore(m)
  PROVE  /\ Chains(m)[0] = {0}
         /\ \A x \in 1..Len(m) : Chains(m)[x] = {x} \cup Chains(m)[m[x].prev]
<1> DEFINE F(f, x) == IF x = 0 THEN {0} ELSE {x} \cup f[m[x].prev]
           Solves(f, k) == f = [x \in 0..k |-> F(f, x)]
           Bad == {k \in 0..Len(m) : ~ \E f : Solves(f, k)}
<1>0. Len(m) \in Nat /\ \A x \in 1..Len(m) : m[x].prev \in 0..(x - 1)
  BY DEF ParentsBefore
<1>1. ASSUME NEW k \in 1..Len(m), NEW f, Solves(f, k - 1)
      PROVE  \E g : Solves(g, k)
  <2> DEFINE g == [x \in 0..k |-> F(f, x)]
  <2>1. \A x \in 0..(k - 1) : x \in 0..k /\ f[x] = F(f, x)
    <3>1. \A x \in 0..(k - 1) : x \in 0..k
      BY <1>0
    <3>2. \A x \in 0..(k - 1) : f[x] = F(f, x)
      BY <1>1
    <3> QED
      BY <3>1, <3>2
  <2>2. \A x \in 0..k : g[x] = F(f, x)
    OBVIOUS
  <2>3. \A x \in 0..(k - 1) : g[x] = f[x]
    <3> HIDE DEF g, F
    <3> QED
      BY <2>1, <2>2
  <2>4. \A x \in 0..k : F(g, x) = F(f, x)
    <3>1. \A x \in 0..k : x # 0 => m[x].prev \in 0..(k - 1)
      BY <1>0
    <3> HIDE DEF g
    <3> QED
      BY <2>3, <3>1
  <2>5. [x \in 0..k |-> F(g, x)] = [x \in 0..k |-> F(f, x)]
    <3> HIDE DEF g, F
    <3> QED
      BY <2>4
  <2> QED
    BY <2>5
<1>2. \E f : Solves(f, 0)
  <2> DEFINE f == [x \in 0..0 |-> {0}]
  <2>1. f = [x \in 0..0 |-> F(f, x)]
    OBVIOUS
  <2> QED
    BY <2>1
<1>3. Bad = {}
  <2> SUFFICES ASSUME Bad # {} PROVE FALSE
    OBVIOUS
  <2>1. Bad \in SUBSET Nat
    BY <1>0
  <2> HIDE DEF Bad
  <2>2. PICK k \in Bad : \A j \in Bad : k <= j
    BY <2>1, LeastNumber
  <2>3. k \in 0..Len(m) /\ ~ \E f : Solves(f, k)
    BY DEF Bad
  <2> HIDE DEF Solves
  <2>4. k \in 1..Len(m) /\ k - 1 \in 0..Len(m)
    BY <1>0, <1>2, <2>3
  <2>5. k - 1 \notin Bad
    BY <2>2, <2>4
  <2>6. \E f : Solves(f, k - 1)
    BY <2>4, <2>5 DEF Bad
  <2> QED
    BY <1>1, <2>3, <2>4, <2>6
<1>4. Solves(Chains(m), Len(m))
  <2>1. Chains(m) = CHOOSE f : Solves(f, Len(m))
    BY DEF Chains
  <2> HIDE DEF Solves
  <2>2. \E f : Solves(f, Len(m))
    BY <1>0, <1>3
  <2> QED
    BY <2>1, <2>2
<1> HIDE DEF F
<1>5. \A x \in 0..Len(m) : Chains(m)[x] = F(Chains(m), x)
  BY <1>4
<1>6. 0 \in 0..Len(m) /\ \A x \in 1..Len(m) : x \in 0..Len(m) /\ x # 0
  BY <1>0
<1>7. \A x \in 0..Len(m) : Chains(m)[x] = IF x = 0 THEN {0} ELSE {x} \cup Chains(m)[m[x].prev]
  BY <1>5 DEF F
<1> QED
  BY <1>6, <1>7

(* A chain is in every set of blocks that has its last block and, of each  *)
(* of its blocks, the parent.                                              *)
LEMMA ChainClosed ==
  ASSUME NEW m, ParentsBefore(m), NEW C \in SUBSET (0..Len(m)),
         \A x \in C : x # 0 => m[x].prev \in C
  PROVE  \A x \in C : Chains(m)[x] \subseteq C
<1> DEFINE Bad == {x \in C : ~ Chains(m)[x] \subseteq C}
<1> SUFFICES ASSUME Bad # {} PROVE FALSE
  OBVIOUS
<1>1. Len(m) \in Nat /\ Bad \in SUBSET Nat
  <2>1. Len(m) \in Nat /\ 0..Len(m) \subseteq Nat
    BY DEF ParentsBefore
  <2> QED
    BY <2>1
<1> HIDE DEF Bad
<1>2. PICK x \in Bad : \A y \in Bad : x <= y
  BY <1>1, LeastNumber
<1>3. x \in C /\ x \in 0..Len(m) /\ ~ Chains(m)[x] \subseteq C
  BY DEF Bad
<1>4. x # 0
  BY <1>3, ChainEquation
<1>5. x \in 1..Len(m) /\ m[x].prev \in C /\ m[x].prev \in 0..(x - 1)
  BY <1>1, <1>3, <1>4 DEF ParentsBefore
<1>6. m[x].prev \notin Bad
  BY <1>2, <1>3, <1>5
<1> QED
  BY <1>3, <1>5, <1>6, ChainEquation DEF Bad

(* A chain has its last block, and blocks that were made.                  *)
LEMMA ChainMembers ==
  ASSUME NEW m, ParentsBefore(m), NEW x \in 0..Len(m)
  PROVE  x \in Chains(m)[x] /\ Chains(m)[x] \subseteq 0..Len(m)
<1>1. x \in Chains(m)[x]
  <2>1. x = 0 \/ x \in 1..Len(m)
    BY DEF ParentsBefore
  <2> QED
    BY <2>1, ChainEquation
<1>2. \A y \in 0..Len(m) : y # 0 => m[y].prev \in 0..Len(m)
  <2> TAKE y \in 0..Len(m)
  <2>1. y # 0 => m[y].prev \in 0..(y - 1)
    BY DEF ParentsBefore
  <2> QED
    BY <2>1 DEF ParentsBefore
<1> QED
  BY <1>1, <1>2, ChainClosed

(* The parent of a block is on its chain.                                  *)
LEMMA ParentOnChain ==
  ASSUME NEW m, ParentsBefore(m), NEW x \in 1..Len(m)
  PROVE  m[x].prev \in Chains(m)[x]
<1>1. m[x].prev \in 0..Len(m)
  BY DEF ParentsBefore
<1>2. m[x].prev \in Chains(m)[m[x].prev]
  BY <1>1, ChainMembers
<1> QED
  BY <1>2, ChainEquation

(* Of two blocks of one chain, one is on the chain of the other.           *)
LEMMA ChainLinear ==
  ASSUME NEW m, ParentsBefore(m), NEW t \in 0..Len(m),
         NEW x \in Chains(m)[t], NEW y \in Chains(m)[t]
  PROVE  x \in Chains(m)[y] \/ y \in Chains(m)[x]
<1> DEFINE Bad == {z \in 0..Len(m) : x \in Chains(m)[z] /\ y \in Chains(m)[z]}
<1> SUFFICES ASSUME ~ (x \in Chains(m)[y] \/ y \in Chains(m)[x]) PROVE FALSE
  OBVIOUS
<1>1. Len(m) \in Nat /\ Bad \in SUBSET Nat /\ Bad # {}
  BY DEF ParentsBefore
<1> HIDE DEF Bad
<1>2. PICK z \in Bad : \A v \in Bad : z <= v
  BY <1>1, LeastNumber
<1>3. z \in 0..Len(m) /\ x \in Chains(m)[z] /\ y \in Chains(m)[z]
  BY DEF Bad
<1>4. x # z /\ y # z
  BY <1>3
<1>5. z \in 1..Len(m) /\ m[z].prev \in 0..(z - 1)
  BY <1>1, <1>3, <1>4, ChainEquation DEF ParentsBefore
<1>6. x \in Chains(m)[m[z].prev] /\ y \in Chains(m)[m[z].prev]
  BY <1>3, <1>4, <1>5, ChainEquation
<1>7. m[z].prev \in Bad /\ m[z].prev < z
  BY <1>1, <1>5, <1>6 DEF Bad
<1> QED
  BY <1>2, <1>5, <1>7

(* A block that is made changes no chain.                                  *)
LEMMA ChainKept ==
  ASSUME NEW m, ParentsBefore(m), NEW w, ParentsBefore(w), Len(m) <= Len(w),
         \A x \in 1..Len(m) : w[x] = m[x]
  PROVE  \A x \in 0..Len(m) : Chains(w)[x] = Chains(m)[x]
<1> DEFINE Bad == {x \in 0..Len(m) : Chains(w)[x] # Chains(m)[x]}
<1> SUFFICES ASSUME Bad # {} PROVE FALSE
  OBVIOUS
<1>1. Len(m) \in Nat /\ Len(w) \in Nat /\ Bad \in SUBSET Nat
  BY DEF ParentsBefore
<1> HIDE DEF Bad
<1>2. PICK x \in Bad : \A y \in Bad : x <= y
  BY <1>1, LeastNumber
<1>3. x \in 0..Len(m) /\ Chains(w)[x] # Chains(m)[x]
  BY DEF Bad
<1>4. x # 0
  BY <1>3, ChainEquation
<1>5. x \in 1..Len(m) /\ x \in 1..Len(w) /\ w[x] = m[x] /\ m[x].prev \in 0..(x - 1)
  BY <1>1, <1>3, <1>4 DEF ParentsBefore
<1>6. m[x].prev \in 0..Len(m) /\ m[x].prev \notin Bad
  BY <1>1, <1>2, <1>5
<1>7. Chains(w)[m[x].prev] = Chains(m)[m[x].prev]
  BY <1>6 DEF Bad
<1>8. /\ Chains(m)[x] = {x} \cup Chains(m)[m[x].prev]
      /\ Chains(w)[x] = {x} \cup Chains(w)[w[x].prev]
  BY <1>5, ChainEquation
<1> QED
  BY <1>3, <1>5, <1>7, <1>8

(* ChainOf is one of these chains.                                         *)
LEMMA ChainOfIs ==
  ASSUME NEW b
  PROVE  ChainOf(b) = Chains(made)[b] /\ ChainOf(b)' = Chains(made')[b]
BY DEF ChainOf, Chains, Blocks

-----------------------------------------------------------------------------
(***************************************************************************)
(* The fields of a builder.                                                *)
(***************************************************************************)
SlotSet(B, n, s, v) == [B EXCEPT ![n].slot[s] = v]
PollingSet(B, n, p) == [B EXCEPT ![n].polling = p]
LastSet(B, n, x) == [B EXCEPT ![n].last = x]

(* One slot is set.                                                        *)
LEMMA WithSlot ==
  ASSUME NEW B \in [Nodes -> Builder], NEW n \in Nodes, NEW s \in Slots, NEW v \in Slot
  PROVE  LET C == SlotSet(B, n, s, v) IN
         /\ C \in [Nodes -> Builder]
         /\ \A m \in Nodes : C[m].last = B[m].last
         /\ \A m \in Nodes, t \in Slots :
              C[m].slot[t] = IF m = n /\ t = s THEN v ELSE B[m].slot[t]
<1> DEFINE slot == [B[n].slot EXCEPT ![s] = v]
           b == [last |-> B[n].last, polling |-> B[n].polling, slot |-> slot]
           C == SlotSet(B, n, s, v)
<1>1. B[n] \in Builder /\ B[n].slot \in [Slots -> Slot]
  BY DEF Builder
<1>2. slot \in [Slots -> Slot] /\ \A t \in Slots : slot[t] = IF t = s THEN v ELSE B[n].slot[t]
  BY <1>1
<1> HIDE DEF slot
<1>3. [B[n] EXCEPT !.slot = slot] = b /\ b \in Builder
  BY <1>1, <1>2 DEF Builder
<1>4. C = [B EXCEPT ![n] = [B[n] EXCEPT !.slot = slot]]
  BY DEF slot, SlotSet
<1>5. C = [B EXCEPT ![n] = b]
  BY <1>3, <1>4
<1> HIDE DEF C
<1>6. C \in [Nodes -> Builder] /\ \A m \in Nodes : C[m] = IF m = n THEN b ELSE B[m]
  BY <1>3, <1>5
<1> QED
  BY <1>2, <1>6 DEF C

(* The timer is set or stopped.                                            *)
LEMMA WithPolling ==
  ASSUME NEW B \in [Nodes -> Builder], NEW n \in Nodes, NEW p \in BOOLEAN
  PROVE  LET C == PollingSet(B, n, p) IN
         /\ C \in [Nodes -> Builder]
         /\ \A m \in Nodes : C[m].last = B[m].last /\ C[m].slot = B[m].slot
<1> DEFINE b == [last |-> B[n].last, polling |-> p, slot |-> B[n].slot]
           C == PollingSet(B, n, p)
<1>1. [B[n] EXCEPT !.polling = p] = b /\ b \in Builder
  BY DEF Builder
<1>2. C = [B EXCEPT ![n] = b]
  BY <1>1 DEF PollingSet
<1> HIDE DEF C
<1>3. C \in [Nodes -> Builder] /\ \A m \in Nodes : C[m] = IF m = n THEN b ELSE B[m]
  BY <1>1, <1>2
<1> QED
  BY <1>3 DEF C

(* The last block is remembered.                                           *)
LEMMA WithLast ==
  ASSUME NEW B \in [Nodes -> Builder], NEW n \in Nodes, NEW x \in 0..MaxBlocks \cup {None}
  PROVE  LET C == LastSet(B, n, x) IN
         /\ C \in [Nodes -> Builder]
         /\ \A m \in Nodes :
              C[m].last = (IF m = n THEN x ELSE B[m].last) /\ C[m].slot = B[m].slot
<1> DEFINE b == [last |-> x, polling |-> B[n].polling, slot |-> B[n].slot]
           C == LastSet(B, n, x)
<1>1. [B[n] EXCEPT !.last = x] = b /\ b \in Builder
  BY DEF Builder
<1>2. C = [B EXCEPT ![n] = b]
  BY <1>1 DEF LastSet
<1> HIDE DEF C
<1>3. C \in [Nodes -> Builder] /\ \A m \in Nodes : C[m] = IF m = n THEN b ELSE B[m]
  BY <1>1, <1>2
<1> QED
  BY <1>3 DEF C

-----------------------------------------------------------------------------
(***************************************************************************)
(* The steps of the builders.                                              *)
(***************************************************************************)
NoneBuilt ==
  \A m \in Nodes, t \in Slots, b \in Blocks : IsBuilt(m, t, b)' => IsBuilt(m, t, b)

FaultsOK == faults' \in 0..MaxFaults

\* Slot s of node n becomes v, and x is what its builder remembers.
Moves(n, s, v, x) ==
  /\ \A m \in Nodes : builder'[m].last = IF m = n THEN x ELSE builder[m].last
  /\ \A m \in Nodes, t \in Slots :
       builder'[m].slot[t] = IF m = n /\ t = s THEN v ELSE builder[m].slot[t]

\* What appendNextBlock makes of a slot.
NextSlot(n) ==
  IF builder[n].last = None THEN [stage |-> "fetch", base |-> tip[n]]
  ELSE [stage |-> "build", base |-> builder[n].last]

(* Faults are counted up to their bound.                                   *)
LEMMA Faults ==
  ASSUME BuilderOK, NEW fault \in BOOLEAN, UseFault(fault)
  PROVE  FaultsOK
BY BuilderAssumption DEF BuilderOK, BuilderTypeOK, UseFault, FaultsOK

(* A step that makes no block, and takes slots only to a stage before or   *)
(* after built.                                                            *)
LEMMA SlotMoves ==
  ASSUME BuilderOK, NEW v \in Slot, v.stage # "built", v.base \in Blocks,
         builder' \in [Nodes -> Builder],
         \A m \in Nodes : /\ builder'[m].last \in Blocks \cup {None}
                          /\ \A t \in Slots : builder'[m].slot[t] \in {builder[m].slot[t], v},
         made' = made, tip' \in [Nodes -> Blocks], syncing' \subseteq Nodes, FaultsOK
  PROVE  BuilderOK' /\ NoneBuilt
<1>1. Blocks' = Blocks
  BY DEF Blocks
<1>2. BuilderTypeOK'
  BY <1>1 DEF BuilderOK, BuilderTypeOK, FaultsOK
<1>3. \A m \in Nodes, t \in Slots :
        /\ builder'[m].slot[t].base \in Blocks
        /\ builder'[m].slot[t].stage = "built" => builder'[m].slot[t] = builder[m].slot[t]
  BY DEF BuilderOK
<1>4. BuilderOK'
  BY <1>1, <1>2, <1>3 DEF BuilderOK
<1>5. NoneBuilt
  BY <1>3 DEF NoneBuilt, IsBuilt
<1> QED
  BY <1>4, <1>5

(* What is known of the numbers in a well-typed state.                     *)
LEMMA BlockNumbers ==
  ASSUME BuilderOK
  PROVE  /\ MaxBlocks \in Nat /\ MaxHeight \in Nat /\ Len(made) \in 0..MaxBlocks
         /\ Blocks \subseteq 0..MaxBlocks /\ 0 \in Blocks
         /\ None \notin Blocks
BY BuilderAssumption DEF BuilderOK, BuilderTypeOK, Blocks

(* appendNextBlock begins.                                                 *)
LEMMA AppendNextStep ==
  ASSUME BuilderOK, NEW n \in Nodes, NEW s \in Slots, AppendNextBlock(n, s),
         UNCHANGED <<made, tip, syncing>>, FaultsOK
  PROVE  BuilderOK' /\ NoneBuilt /\ Moves(n, s, NextSlot(n), builder[n].last)
<1> DEFINE v == NextSlot(n)
           B == SlotSet(builder, n, s, v)
<1>1. v \in Slot /\ v.stage # "built" /\ v.base \in Blocks
  BY BlockNumbers DEF BuilderOK, BuilderTypeOK, Slot, NextSlot
<1>2. builder' = PollingSet(B, n, FALSE)
  BY DEF AppendNextBlock, SetSlot, SlotSet, PollingSet, LastSet, NextSlot
<1> HIDE DEF v
<1>3. /\ B \in [Nodes -> Builder]
      /\ \A m \in Nodes : B[m].last = builder[m].last
      /\ \A m \in Nodes, t \in Slots :
           B[m].slot[t] = IF m = n /\ t = s THEN v ELSE builder[m].slot[t]
  <2>1. builder \in [Nodes -> Builder] /\ v \in Slot
    BY <1>1 DEF BuilderOK, BuilderTypeOK
  <2> QED
    BY <2>1, WithSlot DEF B
<1> HIDE DEF B
<1>4. /\ builder' \in [Nodes -> Builder]
      /\ \A m \in Nodes : builder'[m].last = B[m].last /\ builder'[m].slot = B[m].slot
  BY <1>2, <1>3, WithPolling
<1>5. tip' \in [Nodes -> Blocks] /\ syncing' \subseteq Nodes
  BY DEF BuilderOK, BuilderTypeOK
<1>6. Moves(n, s, v, builder[n].last)
  BY <1>3, <1>4 DEF Moves
<1>7. BuilderOK' /\ NoneBuilt
  BY <1>1, <1>3, <1>4, <1>5, SlotMoves DEF BuilderOK
<1> QED
  BY <1>6, <1>7 DEF v

(* The storage's answer is taken.                                          *)
LEMMA FetchStep ==
  ASSUME BuilderOK, NEW n \in Nodes, NEW s \in Slots, getOrFetchLastBlock(n, s)
  PROVE  LET answer == builder[n].slot[s].base
         IN  BuilderOK' /\ NoneBuilt /\ Moves(n, s, [stage |-> "build", base |-> answer], answer)
<1> DEFINE answer == builder[n].slot[s].base
           v == [stage |-> "build", base |-> answer]
           B == SlotSet(builder, n, s, v)
<1>1. v \in Slot /\ v.stage # "built" /\ v.base \in Blocks /\ answer \in Blocks
  BY BlockNumbers DEF BuilderOK, Slot
<1>2. builder' = LastSet(B, n, answer)
  BY DEF getOrFetchLastBlock, SetSlot, SlotSet, PollingSet, LastSet
<1> HIDE DEF v, answer
<1>3. /\ B \in [Nodes -> Builder]
      /\ \A m \in Nodes : B[m].last = builder[m].last
      /\ \A m \in Nodes, t \in Slots :
           B[m].slot[t] = IF m = n /\ t = s THEN v ELSE builder[m].slot[t]
  <2>1. builder \in [Nodes -> Builder] /\ v \in Slot
    BY <1>1 DEF BuilderOK, BuilderTypeOK
  <2> QED
    BY <2>1, WithSlot DEF B
<1> HIDE DEF B
<1>4. /\ builder' \in [Nodes -> Builder]
      /\ \A m \in Nodes : /\ builder'[m].last = (IF m = n THEN answer ELSE B[m].last)
                          /\ builder'[m].slot = B[m].slot
  BY <1>1, <1>2, <1>3, WithLast, BlockNumbers
<1>5. tip' \in [Nodes -> Blocks] /\ syncing' \subseteq Nodes /\ made' = made /\ FaultsOK
  BY DEF BuilderOK, BuilderTypeOK, getOrFetchLastBlock, FaultsOK
<1>6. \A m \in Nodes : /\ builder'[m].last \in Blocks \cup {None}
                       /\ \A t \in Slots : builder'[m].slot[t] \in {builder[m].slot[t], v}
  BY <1>1, <1>3, <1>4 DEF BuilderOK
<1>7. BuilderOK' /\ NoneBuilt
  BY <1>1, <1>4, <1>5, <1>6, SlotMoves
<1>8. Moves(n, s, v, answer)
  BY <1>3, <1>4 DEF Moves
<1> QED
  BY <1>7, <1>8 DEF v, answer

(* A call that ends without a block starts the timer again.                *)
LEMMA NothingStep ==
  ASSUME BuilderOK, NEW n \in Nodes, NEW s \in Slots, NothingBuilt(n, s)
  PROVE  BuilderOK' /\ NoneBuilt /\ Moves(n, s, IdleSlot, builder[n].last)
<1> DEFINE v == [stage |-> "idle", base |-> 0]
           B == SlotSet(builder, n, s, v)
<1>1. v \in Slot /\ v.stage # "built" /\ v.base \in Blocks
  BY BlockNumbers DEF Slot
<1>2. builder' = PollingSet(B, n, TRUE)
  BY DEF NothingBuilt, SetSlot, SlotSet, PollingSet, LastSet
<1> HIDE DEF v
<1>3. /\ B \in [Nodes -> Builder]
      /\ \A m \in Nodes : B[m].last = builder[m].last
      /\ \A m \in Nodes, t \in Slots :
           B[m].slot[t] = IF m = n /\ t = s THEN v ELSE builder[m].slot[t]
  <2>1. builder \in [Nodes -> Builder] /\ v \in Slot
    BY <1>1 DEF BuilderOK, BuilderTypeOK
  <2> QED
    BY <2>1, WithSlot DEF B
<1> HIDE DEF B
<1>4. /\ builder' \in [Nodes -> Builder]
      /\ \A m \in Nodes : builder'[m].last = B[m].last /\ builder'[m].slot = B[m].slot
  BY <1>2, <1>3, WithPolling
<1>5. tip' \in [Nodes -> Blocks] /\ syncing' \subseteq Nodes /\ made' = made /\ FaultsOK
  BY BuilderAssumption DEF BuilderOK, BuilderTypeOK, NothingBuilt, FaultsOK
<1>6. Moves(n, s, v, builder[n].last)
  BY <1>3, <1>4 DEF Moves
<1>7. BuilderOK' /\ NoneBuilt
  BY <1>1, <1>3, <1>4, <1>5, SlotMoves DEF BuilderOK
<1> QED
  BY <1>6, <1>7 DEF v, IdleSlot

(* A built block is taken: by onNewBlockBuild.                             *)
LEMMA TakenStep ==
  ASSUME BuilderOK, NEW n \in Nodes, NEW s \in Slots, builder' = SetSlot(n, s, "idle", 0),
         UNCHANGED <<made, tip, syncing, faults>>
  PROVE  /\ BuilderOK' /\ NoneBuilt /\ Moves(n, s, IdleSlot, builder[n].last)
         /\ \A b \in Blocks : ~ IsBuilt(n, s, b)'
<1>0. builder \in [Nodes -> Builder]
  BY DEF BuilderOK, BuilderTypeOK
<1> DEFINE v == [stage |-> "idle", base |-> 0]
<1>1. v \in Slot /\ v.stage # "built" /\ v.base \in Blocks
  BY BlockNumbers DEF Slot
<1>2. builder' = SlotSet(builder, n, s, v)
  BY DEF SetSlot, SlotSet
<1>3. /\ builder' \in [Nodes -> Builder]
      /\ \A m \in Nodes : builder'[m].last = builder[m].last
      /\ \A m \in Nodes, t \in Slots :
           builder'[m].slot[t] = IF m = n /\ t = s THEN v ELSE builder[m].slot[t]
  <2>1. v \in Slot
    BY <1>1
  <2> HIDE DEF v
  <2> QED
    BY <1>0, <1>2, <2>1, WithSlot
<1> HIDE DEF v
<1>4. tip' \in [Nodes -> Blocks] /\ syncing' \subseteq Nodes /\ made' = made /\ FaultsOK
  BY DEF BuilderOK, BuilderTypeOK, FaultsOK
<1>5. BuilderOK' /\ NoneBuilt
  BY <1>1, <1>3, <1>4, SlotMoves DEF BuilderOK
<1>6. \A b \in Blocks : ~ IsBuilt(n, s, b)'
  BY <1>1, <1>3 DEF IsBuilt
<1>7. Moves(n, s, v, builder[n].last)
  BY <1>3 DEF Moves
<1> QED
  BY <1>5, <1>6, <1>7 DEF v, IdleSlot

(* The next block is made.                                                 *)
LEMMA BuildStep ==
  ASSUME BuilderOK, NEW n \in Nodes, NEW s \in Slots, buildBlockFromPendingTransactions(n, s)
  PROVE  /\ BuilderOK' /\ Len(made') = Len(made) + 1
         /\ Moves(n, s, [stage |-> "built", base |-> Len(made) + 1], builder[n].last)
         /\ \A m \in Nodes, t \in Slots, b \in 0..Len(made') :
              IsBuilt(m, t, b)' => \/ b \in Blocks /\ IsBuilt(m, t, b)
                                   \/ b = Len(made') /\ m = n /\ t = s
<1> DEFINE base == builder[n].slot[s].base
           block == buildNextBlock(base, tip[n])
           v == [stage |-> "built", base |-> Len(made) + 1]
<1>0. /\ builder \in [Nodes -> Builder] /\ made \in Seq(Block) /\ Len(made) \in Nat
      /\ base \in Blocks /\ tip[n] \in Blocks /\ base \in Int
  BY BlockNumbers DEF BuilderOK, BuilderTypeOK, Blocks
<1>1. block \in Block
  <2>1. HeightOf(base) \in Nat
    <3>1. CASE base = 0
      BY <3>1 DEF HeightOf
    <3>2. CASE base # 0
      <4>1. base \in 1..Len(made)
        BY <1>0, <3>2 DEF Blocks
      <4>2. made[base] \in Block
        BY <1>0, <4>1
      <4> QED
        BY <3>2, <4>2 DEF HeightOf, Block
    <3> QED
      BY <3>1, <3>2
  <2>2. HeightOf(base) + 1 \in 1..MaxHeight
    BY <2>1, BlockNumbers DEF buildBlockFromPendingTransactions
  <2>3. base \in 0..MaxBlocks /\ tip[n] \in 0..MaxBlocks
    BY <1>0, BlockNumbers
  <2> QED
    BY <2>2, <2>3 DEF buildNextBlock, Block
<1>2. /\ made' = Append(made, block) /\ Len(made) < MaxBlocks
      /\ builder' = SlotSet(builder, n, s, v)
      /\ tip' = tip /\ syncing' = syncing /\ faults' = faults
  BY DEF buildBlockFromPendingTransactions, SetSlot, SlotSet, PollingSet, LastSet
<1> HIDE DEF block, base
<1>3. made' \in Seq(Block) /\ Len(made') = Len(made) + 1 /\ Len(made') <= MaxBlocks
  BY <1>0, <1>1, <1>2, BlockNumbers
<1>4. Blocks \subseteq Blocks' /\ v.base \in Blocks' /\ v.base # 0 /\ v \in Slot
  BY <1>0, <1>3, BlockNumbers DEF Blocks, Slot
<1>5. /\ builder' \in [Nodes -> Builder]
      /\ \A m \in Nodes : builder'[m].last = builder[m].last
      /\ \A m \in Nodes, t \in Slots :
           builder'[m].slot[t] = IF m = n /\ t = s THEN v ELSE builder[m].slot[t]
  <2> HIDE DEF v
  <2> QED
    BY <1>0, <1>2, <1>4, WithSlot
<1>6. BuilderTypeOK'
  <2>1. tip \in [Nodes -> Blocks'] /\ syncing \subseteq Nodes /\ faults \in 0..MaxFaults
    BY <1>4 DEF BuilderOK, BuilderTypeOK
  <2> QED
    BY <1>2, <1>3, <1>5, <2>1 DEF BuilderTypeOK
<1>7. BuilderOK'
  <2>1. \A m \in Nodes : builder'[m].last \in Blocks' \cup {None}
    BY <1>4, <1>5 DEF BuilderOK
  <2>2. \A m \in Nodes, t \in Slots :
          /\ builder'[m].slot[t].base \in Blocks'
          /\ builder'[m].slot[t].stage = "built" => builder'[m].slot[t].base # 0
    <3> HIDE DEF v
    <3> QED
      BY <1>4, <1>5 DEF BuilderOK
  <2> QED
    BY <1>6, <2>1, <2>2 DEF BuilderOK
<1>8. ASSUME NEW m \in Nodes, NEW t \in Slots, NEW b \in 0..Len(made'), IsBuilt(m, t, b)'
      PROVE  \/ b \in Blocks /\ IsBuilt(m, t, b)
             \/ b = Len(made') /\ m = n /\ t = s
  <2>1. CASE m = n /\ t = s
    BY <1>3, <1>5, <1>8, <2>1 DEF IsBuilt
  <2>2. CASE ~ (m = n /\ t = s)
    <3>1. builder'[m].slot[t] = builder[m].slot[t]
      BY <1>5, <2>2
    <3>2. builder[m].slot[t].stage = "built" /\ builder[m].slot[t].base = b
      BY <1>8, <3>1 DEF IsBuilt
    <3>3. builder[m].slot[t].base \in Blocks
      BY DEF BuilderOK
    <3> QED
      BY <3>2, <3>3 DEF IsBuilt
  <2> QED
    BY <2>1, <2>2
<1>9. Moves(n, s, v, builder[n].last)
  <2> HIDE DEF v
  <2> QED
    BY <1>5 DEF Moves
<1> QED
  BY <1>3, <1>7, <1>8, <1>9

(* It is made after its parent.                                            *)
LEMMA BuildParents ==
  ASSUME BuilderOK, ParentsBefore(made), NEW n \in Nodes, NEW s \in Slots,
         buildBlockFromPendingTransactions(n, s)
  PROVE  ParentsBefore(made)'
<1> DEFINE base == builder[n].slot[s].base
<1>1. /\ base \in 0..Len(made) /\ Len(made) \in Nat /\ made \in Seq(Block)
      /\ made' = Append(made, buildNextBlock(base, tip[n]))
  BY BlockNumbers DEF BuilderOK, BuilderTypeOK, Blocks, buildBlockFromPendingTransactions
<1> HIDE DEF base
<1>2. /\ Len(made') = Len(made) + 1 /\ made'[Len(made) + 1].prev = base
      /\ \A x \in 1..Len(made) : made'[x] = made[x]
  BY <1>1 DEF buildNextBlock
<1> QED
  BY <1>1, <1>2 DEF ParentsBefore

(* A step that touches no slot.                                            *)
LEMMA OtherStep ==
  ASSUME BuilderOK, builder' \in [Nodes -> Builder],
         \A m \in Nodes : /\ builder'[m].last \in Blocks \cup {None}
                          /\ builder'[m].slot = builder[m].slot,
         made' = made, tip' \in [Nodes -> Blocks], syncing' \subseteq Nodes, FaultsOK
  PROVE  BuilderOK' /\ NoneBuilt
<1> DEFINE v == [stage |-> "idle", base |-> 0]
<1>1. v \in Slot /\ v.stage # "built" /\ v.base \in Blocks
  BY BlockNumbers DEF Slot
<1> QED
  BY <1>1, SlotMoves

(* commitBlock: the storage takes the block or not, and so does the builder. *)
LEMMA CommitStep ==
  ASSUME BuilderOK, NEW n \in Nodes, NEW b \in 1..Len(made), commitBlock(n, b),
         UNCHANGED <<made, syncing>>
  PROVE  /\ BuilderOK' /\ NoneBuilt
         /\ \A m \in Nodes : /\ builder'[m].slot = builder[m].slot
                             /\ m # n => builder'[m].last = builder[m].last /\ tip'[m] = tip[m]
         /\ \/ verifyNewBlock(n, b) /\ tip'[n] = b /\ builder'[n].last = b
            \/ /\ tip' = tip
               /\ builder'[n].last = IF n \in syncing THEN b ELSE builder[n].last
<1>0. builder \in [Nodes -> Builder] /\ tip \in [Nodes -> Blocks] /\ syncing \subseteq Nodes
  BY DEF BuilderOK, BuilderTypeOK
<1>1. b \in Blocks /\ b \in 0..MaxBlocks
  BY BlockNumbers DEF Blocks
<1>2. PICK ok, fault \in BOOLEAN :
        /\ addBlock(n, b, ok, fault) /\ UseFault(fault)
        /\ builder' = [builder EXCEPT ![n].last = IF ok THEN b ELSE @]
  BY DEF commitBlock
<1>3. tip' \in [Nodes -> Blocks]
  BY <1>0, <1>1, <1>2 DEF addBlock
<1> DEFINE last == IF ok THEN b ELSE builder[n].last
<1>4. last \in Blocks \cup {None} /\ last \in 0..MaxBlocks \cup {None}
  BY <1>1, BlockNumbers DEF BuilderOK
<1>5. builder' = LastSet(builder, n, last)
  BY <1>2 DEF LastSet
<1> HIDE DEF last
<1>6. /\ builder' \in [Nodes -> Builder]
      /\ \A m \in Nodes : /\ builder'[m].last = (IF m = n THEN last ELSE builder[m].last)
                          /\ builder'[m].slot = builder[m].slot
  BY <1>0, <1>4, <1>5, WithLast
<1>7. FaultsOK
  BY <1>2, Faults
<1>8. \A m \in Nodes : builder'[m].last \in Blocks \cup {None}
  BY <1>4, <1>6 DEF BuilderOK
<1>9. BuilderOK' /\ NoneBuilt
  BY <1>0, <1>3, <1>6, <1>7, <1>8, OtherStep
<1>10. \A m \in Nodes : /\ builder'[m].slot = builder[m].slot
                        /\ m # n => builder'[m].last = builder[m].last /\ tip'[m] = tip[m]
  BY <1>0, <1>2, <1>6 DEF addBlock
<1>11. \/ verifyNewBlock(n, b) /\ tip'[n] = b /\ builder'[n].last = b
       \/ /\ tip' = tip
          /\ builder'[n].last = IF n \in syncing THEN b ELSE builder[n].last
  <2>1. CASE verifyNewBlock(n, b) /\ ok /\ tip' = [tip EXCEPT ![n] = b]
    BY <1>0, <1>6, <2>1 DEF last
  <2>2. CASE (IF n \in syncing THEN ok ELSE ~ ok) /\ tip' = tip
    BY <1>6, <2>2 DEF last
  <2> QED
    BY <1>2, <2>1, <2>2 DEF addBlock
<1> QED
  BY <1>9, <1>10, <1>11

(* The consensus of a node starts with a new builder.                      *)
LEMMA RestartStep ==
  ASSUME BuilderOK, NEW n \in Nodes, builder' = [builder EXCEPT ![n] = NewBuilder],
         UNCHANGED <<made, tip, syncing>>, FaultsOK
  PROVE  BuilderOK' /\ NoneBuilt
<1>0. /\ builder \in [Nodes -> Builder] /\ tip' \in [Nodes -> Blocks] /\ syncing' \subseteq Nodes
      /\ \A m \in Nodes : builder[m].last \in Blocks \cup {None}
  BY DEF BuilderOK, BuilderTypeOK
<1>1. IdleSlot \in Slot /\ IdleSlot.stage # "built" /\ IdleSlot.base \in Blocks
  BY BlockNumbers DEF Slot, IdleSlot
<1>2. /\ NewBuilder \in Builder /\ NewBuilder.last = None
      /\ \A t \in Slots : NewBuilder.slot[t] = IdleSlot
  BY <1>1 DEF NewBuilder, Builder
<1>3. \A m \in Nodes : builder'[m] = IF m = n THEN NewBuilder ELSE builder[m]
  BY <1>0
<1>4. builder' \in [Nodes -> Builder]
  BY <1>0, <1>2
<1>5. \A m \in Nodes : /\ builder'[m].last \in Blocks \cup {None}
                       /\ \A t \in Slots : builder'[m].slot[t] \in {builder[m].slot[t], IdleSlot}
  BY <1>0, <1>2, <1>3
<1> QED
  BY <1>0, <1>1, <1>4, <1>5, SlotMoves

(* The block sync, which no builder hears of.                              *)
LEMMA SyncStep ==
  ASSUME BuilderOK, NEW n \in Nodes, Sync(n)
  PROVE  BuilderOK' /\ NoneBuilt
<1>0. builder \in [Nodes -> Builder] /\ tip \in [Nodes -> Blocks] /\ syncing \subseteq Nodes
  BY DEF BuilderOK, BuilderTypeOK
<1>1. made' = made /\ builder' = builder
  BY DEF Sync, StartSync, EndSync, SyncBlock
<1>2. tip' \in [Nodes -> Blocks] /\ syncing' \subseteq Nodes
  BY <1>0 DEF Sync, StartSync, EndSync, SyncBlock
<1>3. FaultsOK
  <2>1. CASE StartSync(n) /\ UseFault(TRUE)
    BY <2>1, Faults
  <2>2. CASE faults' = faults
    BY <2>2 DEF BuilderOK, BuilderTypeOK, FaultsOK
  <2> QED
    BY <2>1, <2>2 DEF Sync, EndSync, SyncBlock
<1>4. \A m \in Nodes : builder[m].last \in Blocks \cup {None}
  BY DEF BuilderOK
<1> QED
  BY <1>0, <1>1, <1>2, <1>3, <1>4, OtherStep

(* onLeaderElected: the next block is begun, or the node waits for it.     *)
LEMMA LeaderStep ==
  ASSUME BuilderOK, NEW n \in Nodes, NEW isLeader, NEW i, onLeaderElected(n, isLeader, i),
         UNCHANGED <<made, tip, syncing>>, waiting \subseteq Nodes, mishaps \subseteq Mishaps
  PROVE  /\ BuilderOK' /\ NoneBuilt
         /\ waiting' \subseteq Nodes /\ mishaps' \subseteq Mishaps /\ mishaps \subseteq mishaps'
         /\ \/ builder' = builder
            \/ \E s \in Slots : Moves(n, s, NextSlot(n), builder[n].last)
<1>1. ASSUME NEW s \in Slots, AppendNextBlock(n, s), UseFault(Overlaps(n, s))
      PROVE  BuilderOK' /\ NoneBuilt /\ Moves(n, s, NextSlot(n), builder[n].last)
  <2>1. Overlaps(n, s) \in BOOLEAN
    BY DEF Overlaps
  <2>2. FaultsOK
    BY <1>1, <2>1, Faults
  <2> QED
    BY <1>1, <2>2, AppendNextStep
<1>2. ASSUME UNCHANGED <<builder, faults>>
      PROVE  BuilderOK' /\ NoneBuilt
  <2>1. /\ builder' \in [Nodes -> Builder] /\ tip' \in [Nodes -> Blocks] /\ syncing' \subseteq Nodes
        /\ made' = made
        /\ \A m \in Nodes : /\ builder'[m].last \in Blocks \cup {None}
                            /\ builder'[m].slot = builder[m].slot
    BY <1>2 DEF BuilderOK, BuilderTypeOK
  <2>2. FaultsOK
    BY <1>2 DEF BuilderOK, BuilderTypeOK, FaultsOK
  <2> QED
    BY <1>2, <2>1, <2>2, OtherStep
<1>3. /\ BuilderOK' /\ NoneBuilt
      /\ \/ builder' = builder
         \/ \E s \in Slots : Moves(n, s, NextSlot(n), builder[n].last)
  BY <1>1, <1>2 DEF onLeaderElected
<1>4. waiting' \subseteq Nodes /\ mishaps' \subseteq Mishaps /\ mishaps \subseteq mishaps'
  BY DEF onLeaderElected, Blame, Mishaps
<1> QED
  BY <1>3, <1>4

-----------------------------------------------------------------------------
(***************************************************************************)
(* The log.                                                                *)
(***************************************************************************)
(* The log is no longer than there are blocks.                             *)
LEMMA LogLength ==
  ASSUME BuilderOK, LogOK
  PROVE  Len(log) \in 0..Len(made)
<1>1. Len(made) \in Nat /\ Len(log) \in Nat /\ log \in [1..Len(log) -> 1..Len(made)]
  BY BlockNumbers DEF LogOK
<1>2. log \in Injection(1..Len(log), 1..Len(made))
  BY <1>1 DEF LogOK, Placed, Injection, IsInjective
<1>3. /\ IsFiniteSet(1..Len(made)) /\ Cardinality(1..Len(made)) = Len(made)
      /\ IsFiniteSet(1..Len(log)) /\ Cardinality(1..Len(log)) = Len(log)
  <2>1. 1 \in Int /\ Len(made) \in Int /\ Len(log) \in Int
    BY <1>1
  <2>2. /\ IsFiniteSet(1..Len(made)) /\ IsFiniteSet(1..Len(log))
        /\ Cardinality(1..Len(made)) = IF 1 > Len(made) THEN 0 ELSE Len(made) - 1 + 1
        /\ Cardinality(1..Len(log)) = IF 1 > Len(log) THEN 0 ELSE Len(log) - 1 + 1
    BY <2>1, FS_Interval
  <2> QED
    BY <1>1, <2>2
<1>4. Cardinality(1..Len(log)) <= Cardinality(1..Len(made))
  BY <1>2, <1>3, FS_Injection
<1> QED
  BY <1>1, <1>3, <1>4

(* A step that makes no block; what was appended may be lost.              *)
LEMMA LogKept ==
  ASSUME BuilderOK, LogOK, NoneBuilt, made' = made, log' = log, appended' \in {<<>>, appended}
  PROVE  LogOK'
<1>1. \A m \in Nodes, t \in Slots, b \in 1..Len(made) : IsBuilt(m, t, b)' => IsBuilt(m, t, b)
  BY BlockNumbers DEF NoneBuilt, Blocks
<1>2. CASE appended' = appended
  BY <1>1, <1>2 DEF LogOK, Placed
<1>3. CASE appended' = <<>>
  <2>1. appended' \in Seq(1..Len(made)) /\ Len(appended') = 0
    BY <1>3
  <2>2. 1..Len(appended') = {}
    BY <2>1
  <2>3. Placed'
    BY <1>1, <2>2 DEF LogOK, Placed
  <2> QED
    BY <2>1, <2>3 DEF LogOK
<1> QED
  BY <1>2, <1>3

(* A block is made, and is neither in the log nor appended.                *)
LEMMA LogBuild ==
  ASSUME BuilderOK, LogOK, NEW n \in Nodes, NEW s \in Slots,
         buildBlockFromPendingTransactions(n, s), log' = log, appended' = appended
  PROVE  LogOK'
<1>1. /\ Len(made) \in Nat /\ Len(made') = Len(made) + 1
      /\ \A m \in Nodes, t \in Slots, b \in 1..Len(made') :
           IsBuilt(m, t, b)' => \/ b \in 1..Len(made) /\ IsBuilt(m, t, b)
                                \/ b = Len(made') /\ m = n /\ t = s
  BY BuildStep, BlockNumbers DEF Blocks
<1>2. log' \in Seq(1..Len(made')) /\ appended' \in Seq(1..Len(made'))
  BY <1>1 DEF LogOK
<1>3. /\ \A i \in 1..Len(log) : log[i] \in 1..Len(made) /\ log[i] # Len(made')
      /\ \A i \in 1..Len(appended) : appended[i] \in 1..Len(made) /\ appended[i] # Len(made')
  BY <1>1 DEF LogOK
<1>4. ASSUME NEW m \in Nodes, NEW t \in Slots, NEW b \in 1..Len(made'), IsBuilt(m, t, b)'
      PROVE  /\ \A i \in 1..Len(log) : log[i] # b
             /\ \A i \in 1..Len(appended) : appended[i] # b
  BY <1>1, <1>3, <1>4 DEF LogOK, Placed
<1>5. ASSUME NEW m \in Nodes, NEW k \in Nodes, NEW t \in Slots, NEW u \in Slots,
             NEW b \in 1..Len(made'), IsBuilt(m, t, b)', IsBuilt(k, u, b)'
      PROVE  m = k /\ t = u
  <2>1. CASE b = Len(made')
    <3>1. b \notin 1..Len(made)
      BY <1>1, <2>1
    <3> QED
      BY <1>1, <1>5, <3>1
  <2>2. CASE b # Len(made')
    BY <1>1, <1>5, <2>2 DEF LogOK, Placed
  <2> QED
    BY <2>1, <2>2
<1>6. Placed'
  BY <1>4, <1>5 DEF LogOK, Placed
<1> QED
  BY <1>2, <1>6 DEF LogOK

(* The consensus takes a built block, and appends it or drops it.          *)
LEMMA LogTaken ==
  ASSUME BuilderOK, LogOK, NEW n \in Nodes, NEW s \in Slots, onNewBlockBuild(n, s)
  PROVE  BuilderOK' /\ NoneBuilt /\ LogOK'
<1> DEFINE b == builder[n].slot[s].base
<1>1. BuilderOK' /\ NoneBuilt /\ \A c \in Blocks : ~ IsBuilt(n, s, c)'
  BY TakenStep DEF onNewBlockBuild
<1>2. /\ Len(made) \in Nat /\ b \in 1..Len(made) /\ IsBuilt(n, s, b)
      /\ 1..Len(made) \subseteq Blocks
  <2>1. b \in Blocks /\ b # 0
    BY DEF BuilderOK, onNewBlockBuild
  <2> QED
    BY <2>1, BlockNumbers DEF Blocks, IsBuilt, onNewBlockBuild
<1>3. made' = made /\ log' = log /\ appended' = (IF leader = n THEN Append(appended, b) ELSE appended)
  BY DEF onNewBlockBuild
<1> HIDE DEF b
<1>P. /\ \A i, j \in 1..Len(log) : log[i] = log[j] => i = j
      /\ \A i, j \in 1..Len(appended) : appended[i] = appended[j] => i = j
      /\ \A i \in 1..Len(log), j \in 1..Len(appended) : log[i] # appended[j]
      /\ \A m \in Nodes, t \in Slots, c \in 1..Len(made) :
           IsBuilt(m, t, c) => /\ \A i \in 1..Len(log) : log[i] # c
                               /\ \A i \in 1..Len(appended) : appended[i] # c
      /\ \A m, k \in Nodes, t, u \in Slots, c \in 1..Len(made) :
           IsBuilt(m, t, c) /\ IsBuilt(k, u, c) => m = k /\ t = u
  BY DEF LogOK, Placed
<1>4. CASE appended' = appended
  BY <1>1, <1>3, <1>4, LogKept
<1>5. CASE appended' = Append(appended, b)
  <2>1. /\ appended \in Seq(1..Len(made)) /\ appended' \in Seq(1..Len(made))
        /\ Len(appended) \in Nat /\ Len(appended') = Len(appended) + 1
        /\ \A i \in 1..Len(appended') :
             appended'[i] = IF i = Len(appended') THEN b ELSE appended[i]
    BY <1>2, <1>5 DEF LogOK
  <2>2. /\ \A i \in 1..Len(log) : log[i] # b
        /\ \A i \in 1..Len(appended) : appended[i] # b
    BY <1>2, <1>P
  <2>3. \A i \in 1..Len(appended') :
          IF i = Len(appended') THEN appended'[i] = b
          ELSE i \in 1..Len(appended) /\ appended'[i] = appended[i] /\ appended'[i] # b
    BY <2>1, <2>2
  <2>4. \A i, j \in 1..Len(appended') : appended'[i] = appended'[j] => i = j
    BY <2>3, <1>P
  <2>5. \A i \in 1..Len(log), j \in 1..Len(appended') : log[i] # appended'[j]
    BY <2>2, <2>3, <1>P
  <2>6. ASSUME NEW m \in Nodes, NEW t \in Slots, NEW c \in 1..Len(made), IsBuilt(m, t, c)'
        PROVE  /\ IsBuilt(m, t, c)
               /\ \A i \in 1..Len(log) : log[i] # c
               /\ \A i \in 1..Len(appended') : appended'[i] # c
    <3>1. IsBuilt(m, t, c) /\ ~ (m = n /\ t = s)
      BY <1>1, <1>2, <2>6 DEF NoneBuilt
    <3>2. c # b
      BY <1>2, <1>P, <3>1
    <3> QED
      BY <2>3, <1>P, <3>1, <3>2
  <2>7. \A m, k \in Nodes, t, u \in Slots, c \in 1..Len(made) :
          IsBuilt(m, t, c)' /\ IsBuilt(k, u, c)' => m = k /\ t = u
    BY <2>6, <1>P
  <2>8. Placed'
    BY <1>3, <1>P, <2>4, <2>5, <2>6, <2>7 DEF Placed
  <2>9. log' \in Seq(1..Len(made'))
    BY <1>3 DEF LogOK
  <2> QED
    BY <1>1, <1>3, <2>1, <2>8, <2>9 DEF LogOK
<1> QED
  BY <1>1, <1>3, <1>4, <1>5

(* The first of the appended blocks becomes an entry.                      *)
LEMMA LogCommits ==
  ASSUME BuilderOK, LogOK, GaggleCommits
  PROVE  /\ BuilderOK' /\ LogOK' /\ Len(log') = Len(log) + 1
<1>1. /\ made' = made /\ tip' = tip /\ syncing' = syncing /\ builder' = builder
      /\ faults' = faults /\ appended # <<>> /\ appended' = Tail(appended)
      /\ log' = Append(log, Head(appended))
  BY DEF GaggleCommits
<1>2. /\ appended \in Seq(1..Len(made)) /\ log \in Seq(1..Len(made)) /\ Len(log) \in Nat
      /\ Len(appended) \in Nat \ {0} /\ Head(appended) = appended[1]
  BY <1>1 DEF LogOK
<1>3. /\ appended' \in Seq(1..Len(made)) /\ Len(appended') = Len(appended) - 1
      /\ \A i \in 1..Len(appended') : appended'[i] = appended[i + 1] /\ i + 1 \in 1..Len(appended)
  BY <1>1, <1>2
<1>4. /\ log' \in Seq(1..Len(made)) /\ Len(log') = Len(log) + 1
      /\ \A i \in 1..Len(log') :
           log'[i] = IF i = Len(log') THEN appended[1] ELSE log[i]
  BY <1>1, <1>2
<1>5. BuilderOK'
  BY <1>1 DEF BuilderOK, BuilderTypeOK, Blocks
<1>P. /\ \A i, j \in 1..Len(log) : log[i] = log[j] => i = j
      /\ \A i, j \in 1..Len(appended) : appended[i] = appended[j] => i = j
      /\ \A i \in 1..Len(log), j \in 1..Len(appended) : log[i] # appended[j]
      /\ \A m \in Nodes, t \in Slots, c \in 1..Len(made) :
           IsBuilt(m, t, c) => /\ \A i \in 1..Len(log) : log[i] # c
                               /\ \A i \in 1..Len(appended) : appended[i] # c
      /\ \A m, k \in Nodes, t, u \in Slots, c \in 1..Len(made) :
           IsBuilt(m, t, c) /\ IsBuilt(k, u, c) => m = k /\ t = u
  BY DEF LogOK, Placed
<1>6. /\ \A i \in 1..Len(appended') :
           i + 1 \in 1..Len(appended) /\ i + 1 # 1 /\ appended'[i] = appended[i + 1]
      /\ 1 \in 1..Len(appended)
      /\ \A i \in 1..Len(log') :
           IF i = Len(log') THEN log'[i] = appended[1]
           ELSE i \in 1..Len(log) /\ log'[i] = log[i]
  BY <1>2, <1>3, <1>4
<1>7. \A i, j \in 1..Len(log') : log'[i] = log'[j] => i = j
  BY <1>6, <1>P
<1>8. \A i, j \in 1..Len(appended') : appended'[i] = appended'[j] => i = j
  <2> TAKE i, j \in 1..Len(appended')
  <2>1. i \in Int /\ j \in Int /\ (appended'[i] = appended'[j] => i + 1 = j + 1)
    BY <1>6, <1>P
  <2> QED
    BY <2>1
<1>9. \A i \in 1..Len(log'), j \in 1..Len(appended') : log'[i] # appended'[j]
  BY <1>6, <1>P
<1>10. ASSUME NEW m \in Nodes, NEW t \in Slots, NEW c \in 1..Len(made), IsBuilt(m, t, c)'
       PROVE  /\ IsBuilt(m, t, c)
              /\ \A i \in 1..Len(log') : log'[i] # c
              /\ \A i \in 1..Len(appended') : appended'[i] # c
  <2>1. IsBuilt(m, t, c)
    BY <1>1, <1>10 DEF IsBuilt
  <2>2. /\ \A i \in 1..Len(log) : log[i] # c
        /\ \A i \in 1..Len(appended) : appended[i] # c
    BY <1>P, <2>1
  <2>3. \A i \in 1..Len(log') : log'[i] # c
    BY <1>6, <2>2
  <2>4. \A i \in 1..Len(appended') : appended'[i] # c
    BY <1>6, <2>2
  <2> QED
    BY <2>1, <2>3, <2>4
<1>11. \A m, k \in Nodes, t, u \in Slots, c \in 1..Len(made) :
         IsBuilt(m, t, c)' /\ IsBuilt(k, u, c)' => m = k /\ t = u
  BY <1>10, <1>P
<1>12. Placed'
  BY <1>1, <1>7, <1>8, <1>9, <1>10, <1>11 DEF Placed
<1> QED
  BY <1>1, <1>3, <1>4, <1>5, <1>12 DEF LogOK

-----------------------------------------------------------------------------
(***************************************************************************)
(* What a node has seen.                                                   *)
(***************************************************************************)
(* A call of onCommitted begins after benchmarkIndex.                      *)
LEMMA RunBegins ==
  ASSUME IInv, NEW n \in Nodes, NEW r \in Runs, onCommitted(n, r)
  PROVE  BuilderOK' /\ NoneBuilt /\ LogOK' /\ IndexOK'
<1>1. PICK i \in (commit[n] + 1)..(Len(log) - 1) :
        /\ commit' = [commit EXCEPT ![n] = i]
        /\ run' = [run EXCEPT ![n][r] = [active |-> TRUE, upto |-> i, next |-> index[n] + 1]]
  BY DEF onCommitted
<1>2. Len(log) \in Nat /\ Len(log) <= MaxBlocks /\ MaxBlocks \in Nat
  BY LogLength, BlockNumbers DEF IInv
<1>3. i \in Indices /\ index[n] \in Indices /\ i < Len(log)
      /\ 0..index[n] \subseteq seen[n] /\ index[n] + 1 \in 0..MaxBlocks
  BY <1>1, <1>2 DEF IInv, IndexOK, Indices, NoEntrySkipped
<1> DEFINE new == [active |-> TRUE, upto |-> i, next |-> index[n] + 1]
<1>4. new \in Run /\ new.upto < Len(log) /\ 0..(new.next - 1) \subseteq seen[n]
  <2>1. new \in Run
    BY <1>3 DEF Run
  <2>2. new.upto = i /\ new.next = index[n] + 1
    OBVIOUS
  <2> HIDE DEF new
  <2>3. new.next - 1 = index[n]
    BY <1>3, <2>2 DEF Indices
  <2>4. 0..(new.next - 1) = 0..index[n]
    BY <2>3
  <2> QED
    BY <1>3, <2>1, <2>2, <2>4
<1>5. run' = [run EXCEPT ![n][r] = new]
  BY <1>1
<1> HIDE DEF new
<1>6. /\ run' \in [Nodes -> [Runs -> Run]]
      /\ \A m \in Nodes, q \in Runs : run'[m][q] = IF m = n /\ q = r THEN new ELSE run[m][q]
  BY <1>4, <1>5 DEF IInv, IndexOK
<1>7. /\ made' = made /\ tip' = tip /\ syncing' = syncing /\ builder' = builder /\ log' = log
      /\ appended' = appended /\ leader' = leader /\ elections' = elections /\ index' = index
      /\ waiting' = waiting /\ seen' = seen /\ mishaps' \subseteq Mishaps /\ FaultsOK
  <2>1. (\E q \in Runs : run[n][q].active) \in BOOLEAN
    OBVIOUS
  <2>2. FaultsOK
    BY <2>1, Faults DEF onCommitted, IInv
  <2> QED
    BY <2>2 DEF onCommitted, Blame, Mishaps, IInv, IndexOK
<1>8. BuilderOK' /\ NoneBuilt
  <2>1. /\ builder' \in [Nodes -> Builder] /\ tip' \in [Nodes -> Blocks] /\ syncing' \subseteq Nodes
        /\ \A m \in Nodes : /\ builder'[m].last \in Blocks \cup {None}
                            /\ builder'[m].slot = builder[m].slot
    BY <1>7 DEF IInv, BuilderOK, BuilderTypeOK
  <2> QED
    BY <1>7, <2>1, OtherStep DEF IInv
<1>9. LogOK'
  BY <1>7, <1>8, LogKept DEF IInv
<1>10. RunsOK'
  BY <1>4, <1>6, <1>7 DEF RunsOK, IInv, IndexOK
<1>11. commit' \in [Nodes -> Indices]
  BY <1>1, <1>3 DEF IInv, IndexOK
<1>12. Indices' = Indices /\ Run' = Run /\ NoEntrySkipped'
  BY <1>7 DEF Indices, Run, IInv, IndexOK, NoEntrySkipped
<1> QED
  BY <1>6, <1>7, <1>8, <1>9, <1>10, <1>11, <1>12 DEF IndexOK, IInv

(* A step that touches no benchmarkIndex, call or entry that was given to  *)
(* a storage.                                                              *)
LEMMA IndexKept ==
  ASSUME IInv, UNCHANGED <<index, run, seen>>, Len(log') \in Nat, Len(log') >= Len(log),
         leader' \in Nodes \cup {None}, elections' \in 0..MaxElections,
         commit' \in [Nodes -> Indices], waiting' \subseteq Nodes, mishaps' \subseteq Mishaps
  PROVE  IndexOK'
<1>1. Len(log) \in Nat
  BY DEF IInv, LogOK
<1>2. \A n \in Nodes, r \in Runs : run[n][r].upto \in Int
  BY BlockNumbers DEF IInv, IndexOK, Run, Indices
<1>3. RunsOK'
  BY <1>1, <1>2 DEF RunsOK, IInv, IndexOK
<1> QED
  BY <1>3 DEF IInv, IndexOK, NoEntrySkipped, Indices, Run

(* The next entry is given to the storage.                                 *)
LEMMA EntryStep ==
  ASSUME IInv, NEW n \in Nodes, NEW r \in Runs, CommitEntry(n, r)
  PROVE  BuilderOK' /\ NoneBuilt /\ LogOK' /\ IndexOK'
<1> DEFINE i == run[n][r].next
<1>0. /\ made' = made /\ syncing' = syncing /\ log' = log /\ appended' = appended
      /\ leader' = leader /\ commit' = commit /\ elections' = elections /\ index' = index
      /\ waiting' = waiting
      /\ run[n][r].active /\ i <= run[n][r].upto /\ commitBlock(n, Entry(i))
      /\ run' = [run EXCEPT ![n][r].next = i + 1]
      /\ seen' = [seen EXCEPT ![n] = @ \cup {i}]
  BY DEF CommitEntry, gaggle
<1>1. /\ run \in [Nodes -> [Runs -> Run]] /\ run[n][r] \in Run
      /\ seen \in [Nodes -> SUBSET (0..(MaxBlocks - 1))]
  BY DEF IInv, IndexOK
<1>2. /\ Len(log) \in Nat /\ Len(log) <= MaxBlocks /\ MaxBlocks \in Nat
      /\ run[n][r].upto < Len(log) /\ 0..(i - 1) \subseteq seen[n]
  BY <1>0, LogLength, BlockNumbers DEF IInv, IndexOK, RunsOK
<1>3. i \in 0..MaxBlocks /\ run[n][r].upto \in Int
  BY <1>1, <1>2 DEF Run, Indices
<1>4. i \in 0..(MaxBlocks - 1) /\ i + 1 \in 1..Len(log) /\ i + 1 \in 0..MaxBlocks
  BY <1>0, <1>2, <1>3
<1>5. Entry(i) \in 1..Len(made)
  BY <1>4 DEF Entry, IInv, LogOK
<1> HIDE DEF i
<1>6. BuilderOK' /\ NoneBuilt
  BY <1>0, <1>5, CommitStep DEF IInv
<1>7. LogOK'
  BY <1>0, <1>6, LogKept DEF IInv
<1> DEFINE new == [active |-> run[n][r].active, upto |-> run[n][r].upto, next |-> i + 1]
<1>8. /\ new \in Run /\ new.upto = run[n][r].upto /\ new.next = i + 1
      /\ [run[n][r] EXCEPT !.next = i + 1] = new
  <2>1. new \in Run
    BY <1>1, <1>4 DEF Run
  <2>2. [run[n][r] EXCEPT !.next = i + 1] = new
    BY <1>1 DEF Run
  <2> QED
    BY <2>1, <2>2
<1>9. run' = [run EXCEPT ![n][r] = new]
  BY <1>0, <1>8
<1> HIDE DEF new
<1>10. /\ run' \in [Nodes -> [Runs -> Run]]
       /\ \A m \in Nodes, q \in Runs : run'[m][q] = IF m = n /\ q = r THEN new ELSE run[m][q]
  BY <1>1, <1>8, <1>9
<1>11. /\ seen' \in [Nodes -> SUBSET (0..(MaxBlocks - 1))]
       /\ \A m \in Nodes : seen[m] \subseteq seen'[m]
       /\ seen'[n] = seen[n] \cup {i}
  BY <1>0, <1>1, <1>4
<1>12. 0..(new.next - 1) \subseteq seen'[n]
  <2>1. 0..(new.next - 1) = 0..(i - 1) \cup {i}
    BY <1>3, <1>8
  <2> QED
    BY <1>2, <1>11, <2>1
<1>13. RunsOK'
  <2> SUFFICES ASSUME NEW m \in Nodes, NEW q \in Runs, run'[m][q].active
               PROVE  run'[m][q].upto < Len(log') /\ 0..(run'[m][q].next - 1) \subseteq seen'[m]
    BY DEF RunsOK
  <2>1. CASE m = n /\ q = r
    BY <1>0, <1>2, <1>8, <1>10, <1>12, <2>1
  <2>2. CASE ~ (m = n /\ q = r)
    <3>1. run'[m][q] = run[m][q]
      BY <1>10, <2>2
    <3>2. run[m][q].upto < Len(log) /\ 0..(run[m][q].next - 1) \subseteq seen[m]
      BY <3>1 DEF IInv, IndexOK, RunsOK
    <3> QED
      BY <1>0, <1>11, <3>1, <3>2
  <2> QED
    BY <2>1, <2>2
<1>14. mishaps' \subseteq Mishaps
  BY DEF CommitEntry, Mishaps, IInv, IndexOK
<1>15. NoEntrySkipped'
  BY <1>0, <1>11 DEF NoEntrySkipped, IInv, IndexOK
<1> QED
  BY <1>0, <1>6, <1>7, <1>10, <1>11, <1>13, <1>14, <1>15 DEF IndexOK, IInv, Indices, Run

(* A call ends: all entries up to the index it sets were given.            *)
LEMMA EndStep ==
  ASSUME IInv, NEW n \in Nodes, NEW r \in Runs, EndRun(n, r)
  PROVE  BuilderOK' /\ NoneBuilt /\ LogOK' /\ IndexOK'
<1> DEFINE upto == run[n][r].upto
<1>0. /\ made' = made /\ tip' = tip /\ syncing' = syncing /\ log' = log /\ appended' = appended
      /\ leader' = leader /\ commit' = commit /\ elections' = elections /\ seen' = seen
      /\ run[n][r].active /\ run[n][r].next > upto
      /\ index' = [index EXCEPT ![n] = upto]
      /\ run' = [run EXCEPT ![n][r] = IdleRun]
      /\ onLeaderElected(n, leader = n, upto)
  BY DEF EndRun, gaggle
<1>1. /\ run \in [Nodes -> [Runs -> Run]] /\ run[n][r] \in Run /\ index \in [Nodes -> Indices]
      /\ 0..(run[n][r].next - 1) \subseteq seen[n]
      /\ waiting \subseteq Nodes /\ mishaps \subseteq Mishaps
  BY <1>0 DEF IInv, IndexOK, RunsOK
<1>2. /\ upto \in Indices /\ upto \in Int /\ run[n][r].next \in Int /\ MaxBlocks \in Nat
  BY <1>1, BlockNumbers DEF IInv, Run, Indices
<1>3. 0..upto \subseteq seen[n]
  <2>1. 0..upto \subseteq 0..(run[n][r].next - 1)
    BY <1>0, <1>2
  <2> QED
    BY <1>1, <2>1
<1>4. IdleRun \in Run /\ ~ IdleRun.active
  BY <1>2 DEF IdleRun, Run, Indices
<1> HIDE DEF upto
<1>5. /\ BuilderOK' /\ NoneBuilt /\ waiting' \subseteq Nodes /\ mishaps' \subseteq Mishaps
  BY <1>0, <1>1, LeaderStep DEF IInv
<1>6. LogOK'
  BY <1>0, <1>5, LogKept DEF IInv
<1>7. /\ run' \in [Nodes -> [Runs -> Run]]
      /\ \A m \in Nodes, q \in Runs : run'[m][q] = IF m = n /\ q = r THEN IdleRun ELSE run[m][q]
  BY <1>0, <1>1, <1>4
<1>8. RunsOK'
  BY <1>0, <1>4, <1>7 DEF RunsOK, IInv, IndexOK
<1>9. index' \in [Nodes -> Indices] /\ NoEntrySkipped'
  BY <1>0, <1>1, <1>2, <1>3 DEF NoEntrySkipped, IInv, IndexOK
<1> QED
  BY <1>0, <1>5, <1>6, <1>7, <1>8, <1>9 DEF IndexOK, IInv, Indices, Run

(* A consensus that starts has given no entry, and has no benchmarkIndex.  *)
LEMMA RestartRuns ==
  ASSUME IInv, NEW n \in Nodes, Restart(n)
  PROVE  BuilderOK' /\ NoneBuilt /\ LogOK' /\ IndexOK'
<1>0. /\ made' = made /\ tip' = tip /\ syncing' = syncing /\ log' = log /\ appended' = appended
      /\ elections' = elections /\ mishaps' = mishaps
      /\ builder' = [builder EXCEPT ![n] = NewBuilder] /\ UseFault(TRUE)
      /\ commit' = [commit EXCEPT ![n] = -1] /\ index' = [index EXCEPT ![n] = -1]
      /\ waiting' = waiting \ {n} /\ leader' = (IF leader = n THEN None ELSE leader)
      /\ run' = [run EXCEPT ![n] = [r \in Runs |-> IdleRun]]
      /\ seen' = [seen EXCEPT ![n] = {}]
  BY DEF Restart
<1>1. BuilderOK' /\ NoneBuilt
  BY <1>0, Faults, RestartStep DEF IInv
<1>2. LogOK'
  BY <1>0, <1>1, LogKept DEF IInv
<1>3. -1 \in Indices /\ IdleRun \in Run /\ ~ IdleRun.active /\ 0..(-1) = {}
  BY BlockNumbers DEF IInv, Indices, IdleRun, Run
<1>4. /\ run \in [Nodes -> [Runs -> Run]]
      /\ seen \in [Nodes -> SUBSET (0..(MaxBlocks - 1))]
      /\ commit \in [Nodes -> Indices] /\ index \in [Nodes -> Indices]
      /\ \A m \in Nodes : 0..index[m] \subseteq seen[m]
  BY DEF IInv, IndexOK, NoEntrySkipped
<1>5. /\ run' \in [Nodes -> [Runs -> Run]]
      /\ \A m \in Nodes, q \in Runs : run'[m][q] = IF m = n THEN IdleRun ELSE run[m][q]
  BY <1>0, <1>3, <1>4
<1>6. /\ seen' \in [Nodes -> SUBSET (0..(MaxBlocks - 1))]
      /\ \A m \in Nodes : seen'[m] = IF m = n THEN {} ELSE seen[m]
  BY <1>0, <1>4
<1>7. RunsOK'
  BY <1>0, <1>3, <1>5, <1>6 DEF RunsOK, IInv, IndexOK
<1>8. /\ commit' \in [Nodes -> Indices] /\ index' \in [Nodes -> Indices]
  BY <1>0, <1>3, <1>4
<1>9. NoEntrySkipped'
  BY <1>0, <1>3, <1>4, <1>6 DEF NoEntrySkipped
<1> QED
  BY <1>0, <1>1, <1>2, <1>5, <1>6, <1>7, <1>8, <1>9 DEF IndexOK, IInv, Indices, Run

-----------------------------------------------------------------------------
(***************************************************************************)
(* The inductive invariant.                                                *)
(***************************************************************************)
(* It holds at first.                                                      *)
LEMMA IInvInit == Init => IInv
<1> SUFFICES ASSUME Init PROVE IInv
  OBVIOUS
<1>1. /\ made = <<>> /\ Len(made) = 0 /\ Blocks = {0} /\ MaxBlocks \in Nat /\ MaxFaults \in Nat
      /\ MaxElections \in Nat
  BY BuilderAssumption, BenchmarkAssumption DEF Init, BuilderInit, Blocks
<1>2. IdleSlot \in Slot /\ IdleSlot.stage = "idle" /\ IdleSlot.base = 0
  BY <1>1 DEF IdleSlot, Slot
<1>3. NewBuilder \in Builder /\ NewBuilder.last = None /\ \A s \in Slots : NewBuilder.slot[s] = IdleSlot
  BY <1>2 DEF NewBuilder, Builder
<1>4. /\ builder \in [Nodes -> Builder]
      /\ \A n \in Nodes : builder[n] = NewBuilder
  BY <1>3 DEF Init, BuilderInit
<1>5. BuilderOK
  <2>1. BuilderTypeOK
    BY <1>1, <1>4 DEF Init, BuilderInit, BuilderTypeOK
  <2>2. \A n \in Nodes, s \in Slots : builder[n].slot[s] = IdleSlot /\ builder[n].last = None
    BY <1>3, <1>4
  <2>3. /\ \A n \in Nodes : builder[n].last \in Blocks \cup {None}
        /\ \A n \in Nodes, s \in Slots :
             builder[n].slot[s].base \in Blocks /\ builder[n].slot[s].stage # "built"
    BY <1>1, <1>2, <1>3, <1>4, <2>2
  <2> QED
    BY <2>1, <2>3 DEF BuilderOK
<1>6. LogOK
  <2>1. log = <<>> /\ appended = <<>> /\ 1..Len(log) = {} /\ 1..Len(appended) = {} /\ 1..Len(made) = {}
    BY <1>1 DEF Init
  <2> QED
    BY <2>1 DEF LogOK, Placed
<1>7. IndexOK
  <2>1. IdleRun \in Run /\ ~ IdleRun.active /\ -1 \in Indices /\ 0..(-1) = {}
    BY <1>1 DEF IdleRun, Run, Indices
  <2>2. \A n \in Nodes, r \in Runs : run[n][r] = IdleRun
    BY DEF Init
  <2>3. NoEntrySkipped /\ RunsOK
    BY <2>1, <2>2 DEF Init, NoEntrySkipped, RunsOK
  <2> QED
    BY <1>1, <2>1, <2>3 DEF Init, IndexOK
<1> QED
  BY <1>5, <1>6, <1>7 DEF IInv

(* The steps of Work.                                                      *)
LEMMA WorkStep ==
  ASSUME IInv, NEW n \in Nodes, Work(n)
  PROVE  IInv'
<1>0. /\ Len(log) \in Nat /\ waiting \subseteq Nodes /\ mishaps \subseteq Mishaps
      /\ leader \in Nodes \cup {None} /\ elections \in 0..MaxElections
      /\ commit \in [Nodes -> Indices]
  BY DEF IInv, LogOK, IndexOK
<1>1. CASE LeaderIntervalTick(n)
  <2>1. /\ UNCHANGED <<made, tip, syncing, log, appended, leader, commit, elections, index, run, seen>>
        /\ onLeaderElected(n, leader = n, index[n])
    BY <1>1 DEF LeaderIntervalTick, gaggle
  <2>2. /\ BuilderOK' /\ NoneBuilt /\ waiting' \subseteq Nodes /\ mishaps' \subseteq Mishaps
    BY <1>0, <2>1, LeaderStep DEF IInv
  <2>3. LogOK'
    BY <2>1, <2>2, LogKept DEF IInv
  <2>4. IndexOK'
    BY <1>0, <2>1, <2>2, IndexKept
  <2> QED
    BY <2>2, <2>3, <2>4 DEF IInv
<1>2. ASSUME NEW s \in Slots, Build(n, s)
      PROVE  IInv'
  <2>1. UNCHANGED <<log, appended, leader, commit, elections, index, waiting, run, seen>>
    BY <1>2 DEF Build, gaggle
  <2>2. mishaps' \subseteq Mishaps
    BY <1>0, <1>2 DEF Build, Blame, Mishaps
  <2>3. IndexOK'
    BY <1>0, <2>1, <2>2, IndexKept
  <2>4. CASE getOrFetchLastBlock(n, s)
    <3>1. BuilderOK' /\ NoneBuilt /\ made' = made
      BY <2>4, FetchStep DEF IInv, getOrFetchLastBlock
    <3> QED
      BY <2>1, <2>3, <3>1, LogKept DEF IInv
  <2>5. CASE buildBlockFromPendingTransactions(n, s)
    BY <2>1, <2>3, <2>5, BuildStep, LogBuild DEF IInv
  <2> QED
    BY <1>2, <2>4, <2>5 DEF Build
<1>3. ASSUME NEW s \in Slots, onNewBlockBuild(n, s)
      PROVE  IInv'
  <2>1. UNCHANGED <<log, leader, commit, elections, index, waiting, run, seen, mishaps>>
    BY <1>3 DEF onNewBlockBuild
  <2>2. IndexOK'
    BY <1>0, <2>1, IndexKept
  <2> QED
    BY <1>3, <2>2, LogTaken DEF IInv
<1>4. ASSUME NEW r \in Runs, CommitEntry(n, r) \/ EndRun(n, r)
      PROVE  IInv'
  BY <1>4, EntryStep, EndStep DEF IInv
<1> QED
  BY <1>1, <1>2, <1>3, <1>4 DEF Work

(* Every step keeps it.                                                    *)
LEMMA IInvStep == IInv /\ [Next]_vars => IInv'
<1> SUFFICES ASSUME IInv, [Next]_vars PROVE IInv'
  OBVIOUS
<1>0. /\ Len(log) \in Nat /\ waiting \subseteq Nodes /\ mishaps \subseteq Mishaps
      /\ leader \in Nodes \cup {None} /\ elections \in 0..MaxElections
      /\ commit \in [Nodes -> Indices] /\ MaxElections \in Nat
  BY BenchmarkAssumption DEF IInv, LogOK, IndexOK
<1>1. CASE GaggleCommits
  <2>1. UNCHANGED <<leader, commit, elections, index, waiting, run, seen, mishaps>>
    BY <1>1 DEF GaggleCommits
  <2>2. BuilderOK' /\ LogOK' /\ Len(log') = Len(log) + 1
    BY <1>1, LogCommits DEF IInv
  <2>3. IndexOK'
    BY <1>0, <2>1, <2>2, IndexKept
  <2> QED
    BY <2>2, <2>3 DEF IInv
<1>2. ASSUME NEW n \in Nodes, Election(n)
      PROVE  IInv'
  <2>1. /\ UNCHANGED <<made, tip, syncing, log, commit, index, run, seen>>
        /\ onLeaderElected(n, TRUE, index[n]) /\ appended' \in {<<>>, appended} /\ leader' = n
    BY <1>2 DEF Election
  <2>2. elections' \in 0..MaxElections
    BY <1>0, <1>2 DEF Election
  <2>3. /\ BuilderOK' /\ NoneBuilt /\ waiting' \subseteq Nodes /\ mishaps' \subseteq Mishaps
    BY <1>0, <2>1, LeaderStep DEF IInv
  <2>4. LogOK'
    BY <2>1, <2>3, LogKept DEF IInv
  <2>5. IndexOK'
    BY <1>0, <2>1, <2>2, <2>3, IndexKept
  <2> QED
    BY <2>3, <2>4, <2>5 DEF IInv
<1>3. ASSUME NEW n \in Nodes, Work(n)
      PROVE  IInv'
  BY <1>3, WorkStep
<1>4. ASSUME NEW n \in Nodes, Restart(n)
      PROVE  IInv'
  BY <1>4, RestartRuns DEF IInv
<1>5. ASSUME NEW n \in Nodes, Sync(n)
      PROVE  IInv'
  <2>1. UNCHANGED <<made, log, appended, leader, commit, elections, index, waiting, run, seen, mishaps>>
    BY <1>5 DEF Sync, gaggle, StartSync, EndSync, SyncBlock
  <2>2. BuilderOK' /\ NoneBuilt
    BY <1>5, SyncStep DEF IInv
  <2>3. LogOK'
    BY <2>1, <2>2, LogKept DEF IInv
  <2>4. IndexOK'
    BY <1>0, <2>1, IndexKept
  <2> QED
    BY <2>2, <2>3, <2>4 DEF IInv
<1>6. ASSUME NEW n \in Nodes, NEW s \in Slots, Poll(n, s)
      PROVE  IInv'
  <2>1. /\ UNCHANGED <<made, tip, syncing, log, appended, leader, commit, elections, index, waiting, run, seen>>
        /\ AppendNextBlock(n, s) /\ UseFault(Overlaps(n, s))
        /\ mishaps' \subseteq Mishaps
    BY <1>0, <1>6 DEF Poll, PollForPendingTransactions, gaggle, Blame, Mishaps
  <2>2. BuilderOK' /\ NoneBuilt
    <3>1. Overlaps(n, s) \in BOOLEAN
      BY DEF Overlaps
    <3> QED
      BY <2>1, <3>1, Faults, AppendNextStep DEF IInv
  <2>3. LogOK'
    BY <2>1, <2>2, LogKept DEF IInv
  <2>4. IndexOK'
    BY <1>0, <2>1, IndexKept
  <2> QED
    BY <2>2, <2>3, <2>4 DEF IInv
<1>7. ASSUME NEW n \in Nodes, NEW s \in Slots, BuildsNothing(n, s)
      PROVE  IInv'
  <2>1. /\ UNCHANGED <<made, log, appended, leader, commit, elections, index, waiting, run, seen, mishaps>>
        /\ NothingBuilt(n, s)
    BY <1>7 DEF BuildsNothing, NothingBuilt, gaggle
  <2>2. BuilderOK' /\ NoneBuilt
    BY <2>1, NothingStep DEF IInv
  <2>3. LogOK'
    BY <2>1, <2>2, LogKept DEF IInv
  <2>4. IndexOK'
    BY <1>0, <2>1, IndexKept
  <2> QED
    BY <2>2, <2>3, <2>4 DEF IInv
<1>8. ASSUME NEW n \in Nodes, onCommittedFails(n)
      PROVE  IInv'
  <2>1. /\ UNCHANGED <<made, tip, syncing, builder, log, appended, leader, elections, index, waiting, run, seen>>
        /\ UseFault(TRUE) /\ mishaps' \subseteq Mishaps
    BY <1>0, <1>8 DEF onCommittedFails, Blame, Mishaps
  <2>2. BuilderOK' /\ NoneBuilt
    <3>1. /\ builder' \in [Nodes -> Builder] /\ tip' \in [Nodes -> Blocks] /\ syncing' \subseteq Nodes
          /\ \A m \in Nodes : /\ builder'[m].last \in Blocks \cup {None}
                              /\ builder'[m].slot = builder[m].slot
      BY <2>1 DEF IInv, BuilderOK, BuilderTypeOK
    <3> QED
      BY <2>1, <3>1, Faults, OtherStep DEF IInv
  <2>3. LogOK'
    BY <2>1, <2>2, LogKept DEF IInv
  <2>4. commit' \in [Nodes -> Indices]
    <3>1. PICK i \in (commit[n] + 1)..(Len(log) - 1) : commit' = [commit EXCEPT ![n] = i]
      BY <1>8 DEF onCommittedFails
    <3>2. commit[n] \in -1..(MaxBlocks - 1) /\ Len(log) <= MaxBlocks /\ MaxBlocks \in Nat
      BY <1>0, LogLength, BlockNumbers DEF IInv, Indices
    <3>3. i \in Indices
      BY <1>0, <3>1, <3>2 DEF Indices
    <3> QED
      BY <1>0, <3>1, <3>3
  <2>5. IndexOK'
    BY <1>0, <2>1, <2>4, IndexKept
  <2> QED
    BY <2>2, <2>3, <2>5 DEF IInv
<1>9. ASSUME NEW n \in Nodes, NEW r \in Runs, onCommitted(n, r)
      PROVE  IInv'
  BY <1>9, RunBegins DEF IInv
<1>10. CASE UNCHANGED vars
  <2>1. BuilderOK'
    BY <1>10 DEF vars, IInv, BuilderOK, BuilderTypeOK, Blocks
  <2>2. NoneBuilt
    BY <1>10 DEF vars, NoneBuilt, IsBuilt
  <2>3. LogOK'
    BY <1>10, <2>1, <2>2, LogKept DEF vars, IInv
  <2>4. IndexOK'
    BY <1>0, <1>10, IndexKept DEF vars
  <2> QED
    BY <2>1, <2>3, <2>4 DEF IInv
<1> QED
  BY <1>1, <1>2, <1>3, <1>4, <1>5, <1>6, <1>7, <1>8, <1>9, <1>10 DEF Next

-----------------------------------------------------------------------------
(* The invariant holds in every state.                                     *)
THEOREM Invariance == Spec => []IInv
<1> QED
  BY IInvInit, IInvStep, PTL DEF Spec

(* Every variable has its type: the log never outgrows the blocks made,    *)
(* whatever is appended, lost and committed, so its indices stay in their  *)
(* bound.                                                                  *)
THEOREM TypeCorrect == Spec => []TypeOK
<1>1. IInv => TypeOK
  <2> SUFFICES ASSUME IInv PROVE TypeOK
    OBVIOUS
  <2>1. log \in Seq(1..MaxBlocks) /\ appended \in Seq(1..MaxBlocks)
    <3>1. 1..Len(made) \subseteq 1..MaxBlocks
      BY BlockNumbers DEF IInv
    <3>2. log \in Seq(1..Len(made)) /\ appended \in Seq(1..Len(made))
      BY DEF IInv, LogOK
    <3> QED
      BY <3>1, <3>2, SeqMonotonic
  <2> QED
    BY <2>1 DEF IInv, IndexOK, BuilderOK, TypeOK
<1> QED
  BY <1>1, Invariance, PTL

(* A node's benchmarkIndex never passes an entry that was not given to its *)
(* storage since it started, for any number of calls of onCommitted that   *)
(* overlap: each sets the index that it read before its awaits.            *)
THEOREM NoEntryIsSkipped == Spec => []NoEntrySkipped
<1>1. IInv => NoEntrySkipped
  BY DEF IInv, IndexOK
<1> QED
  BY <1>1, Invariance, PTL

-----------------------------------------------------------------------------
(***************************************************************************)
(* The canonical chain of the benchmark consensus: T[k] is the last block  *)
(* of a storage that was given the first k entries of the log and added    *)
(* each that follows its last one.                                         *)
(***************************************************************************)
TipsOK(T) ==
  /\ T \in [0..Len(log) -> 0..Len(made)] /\ T[0] = 0
  /\ \A k \in 1..Len(log) : T[k] = IF made[log[k]].prev = T[k - 1] THEN log[k] ELSE T[k - 1]

InLog(b) == b = 0 \/ \E i \in 1..Len(log) : log[i] = b

\* A block that may become an entry.
Pending(b) ==
  \/ \E i \in 1..Len(appended) : appended[i] = b
  \/ \E n \in Nodes, s \in Slots : IsBuilt(n, s, b)

\* A block on which a builder may build the next.
Remembers(n, b) ==
  \/ builder[n].last = b
  \/ \E s \in Slots :
       builder[n].slot[s].stage \in {"fetch", "build"} /\ builder[n].slot[s].base = b

\* Blocks are built on entries of the log: the parent of an entry is an
\* earlier one.
EntryParents ==
  \A i \in 1..Len(log) : \/ made[log[i]].prev = 0
                         \/ \E j \in 1..(i - 1) : made[log[i]].prev = log[j]
PendingParents == \A b \in 1..Len(made) : Pending(b) => InLog(made[b].prev)
KnownInLog == \A n \in Nodes : InLog(tip[n]) /\ \A b \in Blocks : Remembers(n, b) => InLog(b)

ParentsOK == ParentsBefore(made) /\ EntryParents /\ PendingParents /\ KnownInLog

(* What a tip is: one of the entries so far, which was a tip when it came, *)
(* and its chain is that of the tips before it.                            *)
LEMMA TipFacts ==
  ASSUME IInv, ParentsOK, NEW T, TipsOK(T)
  PROVE  /\ \A j, k \in 0..Len(log) : j <= k => T[j] <= T[k]
         /\ \A k \in 0..Len(log) : T[k] = 0 \/ \E j \in 1..k : T[k] = log[j] /\ T[j] = log[j]
         /\ \A k \in 0..Len(log), j \in 1..Len(log) : T[k] = log[j] => j <= k /\ T[j] = log[j]
         /\ \A k \in 0..Len(log) : ChainOf(T[k]) = {T[j] : j \in 0..k}
<1>0. /\ Len(made) \in Nat /\ Len(log) \in Nat /\ ParentsBefore(made)
      /\ \A k \in 1..Len(log) : /\ log[k] \in 1..Len(made)
                                /\ made[log[k]].prev \in 0..(log[k] - 1)
      /\ \A i, j \in 1..Len(log) : log[i] = log[j] => i = j
  BY DEF IInv, LogOK, Placed, ParentsOK, ParentsBefore
<1>1. /\ T \in [0..Len(log) -> 0..Len(made)] /\ T[0] = 0
      /\ \A k \in 1..Len(log) :
           T[k] = IF made[log[k]].prev = T[k - 1] THEN log[k] ELSE T[k - 1]
  BY DEF TipsOK
<1>2. \A k \in 0..Len(log) : T[k] \in Int
  BY <1>0, <1>1
<1>3. \A k \in 1..Len(log) : k - 1 \in 0..Len(log) /\ k \in 0..Len(log) /\ T[k - 1] <= T[k]
  <2> TAKE k \in 1..Len(log)
  <2>1. k - 1 \in 0..Len(log) /\ k \in 0..Len(log)
    BY <1>0
  <2>2. CASE made[log[k]].prev = T[k - 1]
    BY <1>0, <1>1, <1>2, <2>1, <2>2
  <2>3. CASE made[log[k]].prev # T[k - 1]
    BY <1>1, <1>2, <2>1, <2>3
  <2> QED
    BY <2>1, <2>2, <2>3
<1>4. \A k \in 0..Len(log) : \A j \in 0..k : T[j] <= T[k]
  <2> DEFINE Bad == {k \in 0..Len(log) : \E j \in 0..k : ~ (T[j] <= T[k])}
  <2> SUFFICES ASSUME Bad # {} PROVE FALSE
    OBVIOUS
  <2>1. Bad \in SUBSET Nat
    BY <1>0
  <2> HIDE DEF Bad
  <2>2. PICK k \in Bad : \A i \in Bad : k <= i
    BY <2>1, LeastNumber
  <2>3. k \in 0..Len(log) /\ \E j \in 0..k : ~ (T[j] <= T[k])
    BY DEF Bad
  <2>4. PICK j \in 0..k : ~ (T[j] <= T[k])
    BY <2>3
  <2>5. j # k /\ k # 0 /\ k \in 1..Len(log) /\ j \in 0..(k - 1) /\ j \in 0..Len(log)
    BY <1>0, <1>2, <2>3, <2>4
  <2>6. k - 1 \notin Bad
    BY <2>2, <2>3
  <2>7. T[j] <= T[k - 1]
    BY <1>3, <2>5, <2>6 DEF Bad
  <2> QED
    BY <1>2, <1>3, <2>3, <2>4, <2>5, <2>7
<1>5. \A k \in 0..Len(log) : T[k] = 0 \/ \E j \in 1..k : T[k] = log[j] /\ T[j] = log[j]
  <2> DEFINE Good(k) == T[k] = 0 \/ \E j \in 1..k : T[k] = log[j] /\ T[j] = log[j]
             Bad == {k \in 0..Len(log) : ~ Good(k)}
  <2> SUFFICES ASSUME Bad # {} PROVE FALSE
    OBVIOUS
  <2>1. Bad \in SUBSET Nat
    BY <1>0
  <2> HIDE DEF Bad
  <2>2. PICK k \in Bad : \A i \in Bad : k <= i
    BY <2>1, LeastNumber
  <2>3. k \in 0..Len(log) /\ ~ Good(k)
    BY DEF Bad
  <2>4. k # 0 /\ k \in 1..Len(log)
    BY <1>0, <1>1, <2>3
  <2>5. Good(k - 1)
    <3>1. k - 1 \notin Bad
      BY <2>2, <2>3
    <3> HIDE DEF Good
    <3> QED
      BY <1>3, <2>4, <3>1 DEF Bad
  <2>6. T[k] # T[k - 1]
    BY <2>3, <2>4, <2>5
  <2>7. T[k] = log[k]
    BY <1>1, <2>4, <2>6
  <2>8. k \in 1..k
    BY <2>4
  <2> QED
    BY <2>3, <2>7, <2>8
<1>6. \A k \in 0..Len(log), j \in 1..Len(log) : T[k] = log[j] => j <= k /\ T[j] = log[j]
  <2> SUFFICES ASSUME NEW k \in 0..Len(log), NEW j \in 1..Len(log), T[k] = log[j]
               PROVE  j <= k /\ T[j] = log[j]
    OBVIOUS
  <2>1. T[k] # 0
    BY <1>0
  <2>2. PICK i \in 1..k : T[k] = log[i] /\ T[i] = log[i]
    BY <1>5, <2>1
  <2>3. i \in 1..Len(log)
    BY <1>0, <2>2
  <2>4. i = j
    BY <1>0, <2>2, <2>3
  <2> QED
    BY <2>2, <2>4
<1>7. \A k \in 0..Len(log) : ChainOf(T[k]) = {T[j] : j \in 0..k}
  <2> DEFINE Good(k) == ChainOf(T[k]) = {T[j] : j \in 0..k}
             Bad == {k \in 0..Len(log) : ~ Good(k)}
  <2> SUFFICES ASSUME Bad # {} PROVE FALSE
    OBVIOUS
  <2>1. Bad \in SUBSET Nat
    BY <1>0
  <2> HIDE DEF Bad
  <2>2. PICK k \in Bad : \A i \in Bad : k <= i
    BY <2>1, LeastNumber
  <2>3. k \in 0..Len(log) /\ ~ Good(k)
    BY DEF Bad
  <2>4. k # 0 /\ k \in 1..Len(log)
    <3>1. CASE k = 0
      <4>1. {T[j] : j \in 0..k} = {0}
        BY <1>1, <3>1
      <4>2. ChainOf(T[k]) = {0}
        BY <1>0, <1>1, <3>1, ChainOfIs, ChainEquation
      <4> QED
        BY <2>3, <4>1, <4>2
    <3> QED
      BY <1>0, <2>3, <3>1
  <2>5. Good(k - 1)
    <3>1. k - 1 \notin Bad
      BY <2>2, <2>3
    <3> HIDE DEF Good
    <3> QED
      BY <1>3, <2>4, <3>1 DEF Bad
  <2>6. 0..k = 0..(k - 1) \cup {k} /\ k - 1 \in 0..(k - 1)
    BY <2>4
  <2>7. {T[j] : j \in 0..k} = {T[j] : j \in 0..(k - 1)} \cup {T[k]}
    BY <2>6
  <2>8. CASE made[log[k]].prev = T[k - 1]
    <3>1. T[k] = log[k] /\ log[k] \in 1..Len(made)
      BY <1>0, <1>1, <2>4, <2>8
    <3>2. ChainOf(T[k]) = {T[k]} \cup ChainOf(T[k - 1])
      BY <1>0, <2>8, <3>1, ChainOfIs, ChainEquation
    <3> QED
      BY <2>3, <2>5, <2>7, <3>2
  <2>9. CASE made[log[k]].prev # T[k - 1]
    <3>1. T[k] = T[k - 1]
      BY <1>1, <2>4, <2>9
    <3>2. T[k] \in {T[j] : j \in 0..(k - 1)}
      BY <2>6, <3>1
    <3> QED
      BY <2>3, <2>5, <2>7, <3>1, <3>2
  <2> QED
    BY <2>8, <2>9
<1>8. \A j, k \in 0..Len(log) : j <= k => j \in 0..k
  BY <1>0
<1>9. \A j, k \in 0..Len(log) : j <= k => T[j] <= T[k]
  BY <1>4, <1>8
<1> QED
  BY <1>5, <1>6, <1>7, <1>9

\* Every node is at some tip, after all the entries it has seen.
NodesAt(T) ==
  \A n \in Nodes : \E k \in 0..Len(log) : tip[n] = T[k] /\ seen[n] \subseteq 0..(k - 1)

\* No builder is ahead of its storage.
BehindOK(T) ==
  \A n \in Nodes, b \in Blocks, k \in 0..Len(log) :
    Remembers(n, b) /\ b = T[k] => b <= tip[n]

OnParent(b) == made[b].on = made[b].prev

\* The diffs on the canonical chain, and those that may come next, were
\* computed on the state after the parent.
StateOK(T) ==
  /\ \A k \in 0..Len(log) : T[k] # 0 => OnParent(T[k])
  /\ \A b \in 1..Len(made) : Pending(b) /\ made[b].prev = T[Len(log)] => OnParent(b)

AllAdded == "not added" \notin mishaps
CanonOK(T) == TipsOK(T) /\ (AllAdded => NodesAt(T) /\ BehindOK(T) /\ StateOK(T))

\* What a builder remembers, or will when the storage answers.
IsLast(n, b) ==
  IF builder[n].last # None THEN b = builder[n].last
  ELSE \E s \in Slots : builder[n].slot[s].stage = "fetch" /\ builder[n].slot[s].base = b

\* A builder whose storage is at another block has yet to see that block.
LastOK ==
  \A n \in Nodes, b \in Blocks :
    IsLast(n, b) /\ b # tip[n] => \E i \in 1..Len(log) : log[i] = tip[n] /\ i - 1 \notin seen[n]

NoLastLost == mishaps \cap {"overtaken", "late answer", "not added", "dropped"} = {}

ChainInv == IInv /\ ParentsOK /\ (\E T : CanonOK(T)) /\ (NoLastLost => LastOK)

-----------------------------------------------------------------------------
(***************************************************************************)
(* The steps and the canonical chain.                                      *)
(***************************************************************************)
\* No block is made, committed or added to a storage.
Quiet ==
  /\ made' = made /\ tip' = tip /\ log' = log /\ mishaps \subseteq mishaps'
  /\ \A n \in Nodes : seen'[n] \subseteq seen[n]
  /\ \A b \in 1..Len(made) : Pending(b)' => Pending(b)
  /\ \A n \in Nodes, b \in Blocks : Remembers(n, b)' => Remembers(n, b) \/ b = tip[n]
  /\ NoLastLost' =>
       \A n \in Nodes, b \in Blocks : IsLast(n, b)' => IsLast(n, b) \/ b = tip[n]

(* Such a step changes nothing.                                            *)
LEMMA QuietStep ==
  ASSUME ChainInv, NEW T, CanonOK(T), Quiet
  PROVE  ParentsOK' /\ CanonOK(T)' /\ (NoLastLost' => LastOK')
<1>0. /\ made' = made /\ tip' = tip /\ log' = log /\ mishaps \subseteq mishaps'
      /\ \A n \in Nodes : seen'[n] \subseteq seen[n]
      /\ \A b \in 1..Len(made) : Pending(b)' => Pending(b)
      /\ \A n \in Nodes, b \in Blocks : Remembers(n, b)' => Remembers(n, b) \/ b = tip[n]
      /\ Blocks' = Blocks
  BY DEF Quiet, Blocks
<1>2. ParentsOK'
  <2>0. ParentsOK
    BY DEF ChainInv
  <2>1. PendingParents'
    BY <1>0, <2>0 DEF ParentsOK, PendingParents, InLog
  <2>2. KnownInLog'
    BY <1>0, <2>0 DEF ParentsOK, KnownInLog, InLog
  <2>3. EntryParents'
    BY <1>0, <2>0 DEF ParentsOK, EntryParents
  <2>4. ParentsBefore(made)'
    BY <1>0, <2>0 DEF ParentsOK, ParentsBefore
  <2> QED
    BY <2>1, <2>2, <2>3, <2>4 DEF ParentsOK
<1>3. CanonOK(T)'
  <2>1. TipsOK(T)'
    BY <1>0 DEF CanonOK, TipsOK
  <2> SUFFICES ASSUME AllAdded'
               PROVE  NodesAt(T)' /\ BehindOK(T)' /\ StateOK(T)'
    BY <2>1 DEF CanonOK
  <2>2. NodesAt(T) /\ BehindOK(T) /\ StateOK(T)
    BY <1>0 DEF AllAdded, CanonOK
  <2>3. NodesAt(T)'
    <3> SUFFICES ASSUME NEW n \in Nodes
                 PROVE  \E k \in 0..Len(log) : tip[n] = T[k] /\ seen'[n] \subseteq 0..(k - 1)
      BY <1>0 DEF NodesAt
    <3>1. PICK k \in 0..Len(log) : tip[n] = T[k] /\ seen[n] \subseteq 0..(k - 1)
      BY <2>2 DEF NodesAt
    <3> QED
      BY <1>0, <3>1
  <2>4. BehindOK(T)'
    <3> SUFFICES ASSUME NEW n \in Nodes, NEW b \in Blocks, NEW k \in 0..Len(log),
                        Remembers(n, b)', b = T[k]
                 PROVE  b <= tip[n]
      BY <1>0 DEF BehindOK
    <3>1. CASE Remembers(n, b)
      BY <2>2, <3>1 DEF BehindOK
    <3>2. CASE b = tip[n]
      BY <3>2 DEF Blocks
    <3> QED
      BY <1>0, <3>1, <3>2
  <2>5. StateOK(T)'
    BY <1>0, <2>2 DEF StateOK, OnParent
  <2> QED
    BY <2>3, <2>4, <2>5
<1>4. ASSUME NoLastLost' PROVE LastOK'
  <2>1. NoLastLost /\ LastOK
    BY <1>0, <1>4 DEF NoLastLost, ChainInv
  <2> SUFFICES ASSUME NEW n \in Nodes, NEW b \in Blocks, IsLast(n, b)', b # tip[n]
               PROVE  \E i \in 1..Len(log) : log[i] = tip[n] /\ i - 1 \notin seen'[n]
    BY <1>0 DEF LastOK
  <2>2. IsLast(n, b)
    BY <1>4 DEF Quiet
  <2>3. PICK i \in 1..Len(log) : log[i] = tip[n] /\ i - 1 \notin seen[n]
    BY <2>1, <2>2 DEF LastOK
  <2> QED
    BY <1>0, <2>3
<1> QED
  BY <1>2, <1>3, <1>4

(* A block is built on one the builder remembers; if that is the last tip, *)
(* the storage that the virtual machine reads is there too.                *)
LEMMA BuildKeeps ==
  ASSUME ChainInv, NEW T, CanonOK(T), NEW n \in Nodes, NEW s \in Slots,
         buildBlockFromPendingTransactions(n, s), UNCHANGED <<log, appended, seen, mishaps>>
  PROVE  ParentsOK' /\ CanonOK(T)' /\ (NoLastLost' => LastOK')
<1> DEFINE base == builder[n].slot[s].base
           new == Len(made) + 1
           v == [stage |-> "built", base |-> new]
<1>0. /\ Len(made) \in Nat /\ made \in Seq(Block) /\ base \in Blocks /\ tip[n] \in Blocks
      /\ \A i \in 1..Len(log) : log[i] \in 1..Len(made)
  <2>1. BuilderOK /\ LogOK
    BY DEF ChainInv, IInv
  <2>2. made \in Seq(Block) /\ base \in Blocks /\ tip[n] \in Blocks
    BY <2>1 DEF BuilderOK, BuilderTypeOK
  <2>3. log \in Seq(1..Len(made))
    BY <2>1 DEF LogOK
  <2> QED
    BY <2>2, <2>3
<1>1. /\ made' = Append(made, buildNextBlock(base, tip[n])) /\ tip' = tip
      /\ builder[n].slot[s].stage = "build"
      /\ log' = log /\ appended' = appended /\ seen' = seen /\ mishaps' = mishaps
  BY DEF buildBlockFromPendingTransactions
<1>2. /\ Moves(n, s, v, builder[n].last)
      /\ \A m \in Nodes, t \in Slots, b \in 0..Len(made') :
           IsBuilt(m, t, b)' => (b \in Blocks /\ IsBuilt(m, t, b)) \/ b = Len(made')
  BY BuildStep DEF ChainInv, IInv
<1>3. Remembers(n, base)
  BY <1>1 DEF Remembers
<1> HIDE DEF base
<1>4. /\ Len(made') = new /\ new \in Nat /\ Blocks' = Blocks \cup {new}
      /\ \A x \in 1..Len(made) : made'[x] = made[x]
      /\ made'[new].prev = base /\ made'[new].on = tip[n]
      /\ \A x \in 1..new : x = new \/ x \in 1..Len(made)
  BY <1>0, <1>1 DEF Blocks, buildNextBlock
<1>5. \A b \in 1..new : Pending(b)' => b = new \/ (b \in 1..Len(made) /\ Pending(b))
  <2> SUFFICES ASSUME NEW b \in 1..new, Pending(b)', b # new
               PROVE  b \in 1..Len(made) /\ Pending(b)
    OBVIOUS
  <2>1. b \in 1..Len(made) /\ b \in 0..Len(made')
    BY <1>4
  <2>2. CASE \E i \in 1..Len(appended') : appended'[i] = b
    BY <1>1, <2>1, <2>2 DEF Pending
  <2>3. ASSUME NEW m \in Nodes, NEW t \in Slots, IsBuilt(m, t, b)'
        PROVE  b \in 1..Len(made) /\ Pending(b)
    BY <1>2, <1>4, <2>1, <2>3 DEF Pending
  <2> QED
    BY <2>2, <2>3 DEF Pending
<1>6. \A m \in Nodes, b \in Blocks' : Remembers(m, b)' => b \in Blocks /\ Remembers(m, b)
  <2> SUFFICES ASSUME NEW m \in Nodes, NEW b \in Blocks', Remembers(m, b)'
               PROVE  b \in Blocks /\ Remembers(m, b)
    OBVIOUS
  <2>1. /\ builder'[m].last = builder[m].last
        /\ \A t \in Slots : builder'[m].slot[t].stage # "built" =>
             builder'[m].slot[t] = builder[m].slot[t]
    BY <1>2 DEF Moves
  <2>2. Remembers(m, b)
    BY <2>1 DEF Remembers
  <2>3. b \in Blocks
    <3>1. /\ builder[m].last \in Blocks \cup {None}
          /\ \A t \in Slots : builder[m].slot[t].base \in Blocks
      BY DEF ChainInv, IInv, BuilderOK
    <3>2. b \in Nat /\ None \notin Nat
      BY <1>0, <1>4, BuilderAssumption DEF Blocks
    <3> QED
      BY <2>2, <3>1, <3>2 DEF Remembers
  <2> QED
    BY <2>2, <2>3
<1>P. ParentsBefore(made) /\ EntryParents /\ PendingParents /\ KnownInLog
  BY DEF ChainInv, ParentsOK
<1>7. ParentsOK'
  <2>1. PendingParents'
    <3>1. \A b \in 1..new : Pending(b)' => InLog(made'[b].prev)
      BY <1>0, <1>3, <1>4, <1>5, <1>P DEF PendingParents, KnownInLog
    <3> HIDE DEF new
    <3> QED
      BY <1>1, <1>4, <3>1 DEF PendingParents, InLog
  <2>2. KnownInLog'
    <3>1. \A m \in Nodes : InLog(tip[m]) /\ \A b \in Blocks' : Remembers(m, b)' => InLog(b)
      BY <1>6, <1>P DEF KnownInLog
    <3> QED
      BY <1>1, <3>1 DEF KnownInLog, InLog
  <2>3. EntryParents'
    BY <1>0, <1>1, <1>4, <1>P DEF EntryParents
  <2>4. ParentsBefore(made)'
    BY <1>0, <1>4, <1>P DEF ParentsBefore, Blocks
  <2> QED
    BY <2>1, <2>2, <2>3, <2>4 DEF ParentsOK
<1>8. CanonOK(T)'
  <2>1. TipsOK(T)
    BY DEF CanonOK
  <2>2. TipsOK(T)'
    <3>1. T \in [0..Len(log) -> 0..Len(made')]
      <4>1. T \in [0..Len(log) -> 0..Len(made)] /\ 0..Len(made) \subseteq 0..new
        BY <1>0, <2>1 DEF TipsOK
      <4> QED
        BY <1>4, <4>1
    <3>2. \A k \in 1..Len(log) : made'[log[k]].prev = made[log[k]].prev
      BY <1>0, <1>4
    <3> QED
      BY <1>1, <2>1, <3>1, <3>2 DEF TipsOK
  <2> SUFFICES ASSUME AllAdded'
               PROVE  NodesAt(T)' /\ BehindOK(T)' /\ StateOK(T)'
    BY <2>2 DEF CanonOK
  <2>3. NodesAt(T) /\ BehindOK(T) /\ StateOK(T)
    BY <1>1 DEF AllAdded, CanonOK
  <2>4. NodesAt(T)'
    BY <1>1, <2>3 DEF NodesAt
  <2>5. BehindOK(T)'
    BY <1>1, <1>6, <2>3 DEF BehindOK
  <2>6. \A k \in 0..Len(log) : T[k] # 0 => OnParent(T[k])'
    <3>1. \A k \in 0..Len(log) : T[k] # 0 => T[k] \in 1..Len(made)
      BY <1>0, <2>1 DEF TipsOK
    <3> QED
      BY <1>4, <2>3, <3>1 DEF StateOK, OnParent
  <2>7. base = T[Len(log)] => tip[n] = base
    <3> SUFFICES ASSUME base = T[Len(log)]
                 PROVE  tip[n] = base
      OBVIOUS
    <3>1. Len(log) \in 0..Len(log)
      BY DEF ChainInv, IInv, LogOK
    <3>2. base <= tip[n]
      BY <1>0, <1>3, <2>3, <3>1 DEF BehindOK
    <3>3. PICK k \in 0..Len(log) : tip[n] = T[k]
      BY <2>3 DEF NodesAt
    <3>4. k <= Len(log)
      BY <3>1, <3>3
    <3>5. T[k] <= T[Len(log)]
      BY <2>1, <3>1, <3>4, TipFacts DEF ChainInv
    <3> QED
      BY <1>0, <3>2, <3>3, <3>5 DEF Blocks
  <2>8. \A b \in 1..new : Pending(b)' /\ made'[b].prev = T[Len(log)] => OnParent(b)'
    <3> SUFFICES ASSUME NEW b \in 1..new, Pending(b)', made'[b].prev = T[Len(log)]
                 PROVE  OnParent(b)'
      OBVIOUS
    <3>1. CASE b = new
      BY <1>4, <2>7, <3>1 DEF OnParent
    <3>2. CASE b # new
      BY <1>4, <1>5, <2>3, <3>2 DEF StateOK, OnParent
    <3> QED
      BY <3>1, <3>2
  <2>9. StateOK(T)'
    BY <1>1, <1>4, <2>6, <2>8 DEF StateOK
  <2> QED
    BY <2>4, <2>5, <2>9
<1>9. ASSUME NoLastLost' PROVE LastOK'
  <2>1. LastOK
    BY <1>1, <1>9 DEF NoLastLost, ChainInv
  <2>2. \A m \in Nodes : \A b : IsLast(m, b)' => IsLast(m, b)
    <3>1. \A m \in Nodes, t \in Slots :
            /\ builder'[m].last = builder[m].last
            /\ builder'[m].slot[t].stage # "built" => builder'[m].slot[t] = builder[m].slot[t]
      BY <1>2 DEF Moves
    <3> QED
      BY <3>1, BuilderAssumption DEF IsLast
  <2>3. \A m \in Nodes, b \in Blocks' : IsLast(m, b) => b \in Blocks
    <3>1. \A m \in Nodes : /\ builder[m].last \in Blocks \cup {None}
                           /\ \A t \in Slots : builder[m].slot[t].base \in Blocks
      BY DEF ChainInv, IInv, BuilderOK
    <3> QED
      BY <3>1 DEF IsLast
  <2> QED
    BY <1>1, <2>1, <2>2, <2>3 DEF LastOK
<1> QED
  BY <1>7, <1>8, <1>9

(* A call of appendNextBlock goes on, or begins: what its builder then     *)
(* remembers it remembered, or it is the last block of the storage.        *)
LEMMA MovesQuiet ==
  ASSUME ChainInv, NEW n \in Nodes, NEW s \in Slots, NEW v, NEW x, Moves(n, s, v, x),
         made' = made, tip' = tip, log' = log, mishaps \subseteq mishaps',
         \A m \in Nodes : seen'[m] \subseteq seen[m],
         \A b \in 1..Len(made) : (\E i \in 1..Len(appended') : appended'[i] = b) => Pending(b),
         v.stage # "built",
         v.stage \in {"fetch", "build"} => Remembers(n, v.base) \/ v.base = tip[n],
         x = builder[n].last \/ Remembers(n, x),
         NoLastLost' => IF x # None THEN IsLast(n, x)
                        ELSE v.stage = "fetch" => v.base = tip[n]
  PROVE  Quiet
<1>1. \A b \in 1..Len(made) : Pending(b)' => Pending(b)
  <2>1. \A m \in Nodes, t \in Slots, b \in 1..Len(made) : IsBuilt(m, t, b)' => IsBuilt(m, t, b)
    BY DEF Moves, IsBuilt
  <2> QED
    BY <2>1 DEF Pending
<1>2. \A m \in Nodes, b \in Blocks : Remembers(m, b)' => Remembers(m, b) \/ b = tip[m]
  BY DEF Moves, Remembers
<1>3. ASSUME NoLastLost', NEW m \in Nodes, NEW b \in Blocks, IsLast(m, b)'
      PROVE  IsLast(m, b) \/ b = tip[m]
  <2>1. CASE m # n
    <3>1. builder'[m].last = builder[m].last
          /\ \A t \in Slots : builder'[m].slot[t] = builder[m].slot[t]
      BY <2>1 DEF Moves
    <3> QED
      BY <1>3, <3>1 DEF IsLast
  <2>2. CASE m = n /\ x # None
    <3>1. builder'[m].last = x /\ IsLast(n, x)
      BY <1>3, <2>2 DEF Moves
    <3>2. b = x
      BY <1>3, <2>2, <3>1 DEF IsLast
    <3> QED
      BY <2>2, <3>1, <3>2
  <2>3. CASE m = n /\ x = None
    <3>1. /\ builder'[m].last = None
          /\ \A t \in Slots : builder'[m].slot[t] = IF t = s THEN v ELSE builder[m].slot[t]
      BY <2>3 DEF Moves
    <3>2. PICK t \in Slots : builder'[m].slot[t].stage = "fetch" /\ builder'[m].slot[t].base = b
      BY <1>3, <3>1 DEF IsLast
    <3>3. CASE t = s
      BY <1>3, <2>3, <3>1, <3>2, <3>3
    <3>4. CASE t # s
      <4>1. builder[m].slot[t].stage = "fetch" /\ builder[m].slot[t].base = b
        BY <3>1, <3>2, <3>4
      <4>2. builder[n].last = None
        <5>1. \A u \in Slots : builder[n].slot[u].base \in Blocks
          BY DEF ChainInv, IInv, BuilderOK
        <5>2. None \notin Blocks
          BY BuilderAssumption DEF Blocks
        <5> QED
          BY <2>3, <5>1, <5>2 DEF Remembers
      <4> QED
        BY <2>3, <4>1, <4>2 DEF IsLast
    <3> QED
      BY <3>3, <3>4
  <2> QED
    BY <2>1, <2>2, <2>3
<1> QED
  BY <1>1, <1>2, <1>3 DEF Quiet

(* A step that leaves the builders alone.                                  *)
LEMMA SameQuiet ==
  ASSUME builder' = builder, made' = made, tip' = tip, log' = log, mishaps \subseteq mishaps',
         \A m \in Nodes : seen'[m] \subseteq seen[m],
         \A b \in 1..Len(made) : (\E i \in 1..Len(appended') : appended'[i] = b) => Pending(b)
  PROVE  Quiet
<1>1. \A b \in 1..Len(made) : Pending(b)' => Pending(b)
  BY DEF Pending, IsBuilt
<1>2. \A m \in Nodes, b \in Blocks : /\ Remembers(m, b)' => Remembers(m, b)
                                     /\ IsLast(m, b)' => IsLast(m, b)
  BY DEF Remembers, IsLast
<1> QED
  BY <1>1, <1>2 DEF Quiet

(* The blocks on a chain of entries are entries.                           *)
LEMMA ChainInLog ==
  ASSUME ChainInv, NEW t \in Blocks, InLog(t), NEW x \in ChainOf(t)
  PROVE  InLog(x)
<1> DEFINE C == {b \in Blocks : InLog(b)}
<1>1. ParentsBefore(made) /\ EntryParents
  BY DEF ChainInv, ParentsOK
<1>2. \A b \in C : b # 0 => made[b].prev \in C
  <2> SUFFICES ASSUME NEW b \in C, b # 0 PROVE made[b].prev \in C
    OBVIOUS
  <2>1. PICK i \in 1..Len(log) : log[i] = b
    BY DEF InLog
  <2>2. b \in 1..Len(made) /\ made[b].prev \in Blocks
    BY <1>1, <2>1 DEF Blocks, ParentsBefore
  <2>3. made[b].prev = 0 \/ \E j \in 1..(i - 1) : made[b].prev = log[j]
    BY <1>1, <2>1 DEF EntryParents
  <2>4. Len(log) \in Nat
    BY DEF ChainInv, IInv, LogOK
  <2> QED
    BY <2>2, <2>3, <2>4 DEF InLog
<1>3. C \in SUBSET (0..Len(made)) /\ t \in C
  BY DEF Blocks
<1> HIDE DEF C
<1>4. Chains(made)[t] \subseteq C
  BY <1>1, <1>2, <1>3, ChainClosed
<1>5. x \in C
  BY <1>4, ChainOfIs
<1> QED
  BY <1>5 DEF C

(* A sync brings a storage the next tip on the canonical chain.            *)
LEMMA SyncKeeps ==
  ASSUME ChainInv, NEW T, CanonOK(T), NEW n \in Nodes, NEW m \in Nodes, SyncBlock(n, m),
         UNCHANGED <<log, appended, seen, mishaps>>
  PROVE  ParentsOK' /\ CanonOK(T)' /\ (NoLastLost' => LastOK')
<1>0. /\ made' = made /\ builder' = builder /\ log' = log /\ appended' = appended
      /\ seen' = seen /\ mishaps' = mishaps /\ Blocks' = Blocks
  BY DEF SyncBlock, Blocks
<1>1. PICK b \in Blocks \ {0} : /\ b \in ChainOf(tip[m]) /\ made[b].prev = tip[n]
                                /\ tip' = [tip EXCEPT ![n] = b]
  BY DEF SyncBlock, verifyNewBlock
<1>2. /\ tip \in [Nodes -> Blocks] /\ Len(made) \in Nat /\ Len(log) \in Nat
      /\ ParentsBefore(made)
      /\ \A x \in Nodes : tip'[x] = IF x = n THEN b ELSE tip[x]
  BY <1>1, BlockNumbers DEF ChainInv, IInv, BuilderOK, BuilderTypeOK, LogOK, ParentsOK
<1>3. b \in 1..Len(made) /\ tip[n] \in 0..(b - 1) /\ tip[n] < b /\ b \in Int /\ tip[n] \in Int
  BY <1>1, <1>2 DEF Blocks, ParentsBefore
<1>4. \A c : (Pending(c)' <=> Pending(c)) /\ (InLog(c)' <=> InLog(c))
  BY <1>0 DEF Pending, IsBuilt, InLog
<1>5. \A x \in Nodes : \A c : /\ Remembers(x, c)' <=> Remembers(x, c)
                              /\ IsLast(x, c)' <=> IsLast(x, c)
  BY <1>0 DEF Remembers, IsLast
<1>6. ParentsOK'
  <2>0. ParentsOK
    BY DEF ChainInv
  <2>1. PendingParents'
    BY <1>0, <1>4, <2>0 DEF ParentsOK, PendingParents, InLog
  <2>2. EntryParents' /\ ParentsBefore(made)'
    BY <1>0, <2>0 DEF ParentsOK, EntryParents, ParentsBefore
  <2>3. InLog(b)
    <3>1. tip[m] \in Blocks /\ InLog(tip[m])
      BY <1>2, <2>0 DEF ParentsOK, KnownInLog
    <3> QED
      BY <1>1, <3>1, ChainInLog
  <2>4. KnownInLog'
    BY <1>0, <1>2, <1>5, <2>0, <2>3 DEF ParentsOK, KnownInLog, InLog
  <2> QED
    BY <2>1, <2>2, <2>4 DEF ParentsOK
<1>7. TipsOK(T) /\ TipsOK(T)'
  BY <1>0 DEF CanonOK, TipsOK
<1>8. ASSUME AllAdded
      PROVE  \E k \in 0..Len(log) : \E j \in 0..Len(log) :
               tip[n] = T[k] /\ seen[n] \subseteq 0..(k - 1) /\ b = T[j] /\ k < j
  <2>1. NodesAt(T)
    BY <1>8 DEF CanonOK
  <2>2. PICK k \in 0..Len(log) : tip[n] = T[k] /\ seen[n] \subseteq 0..(k - 1)
    BY <2>1 DEF NodesAt
  <2>3. PICK h \in 0..Len(log) : tip[m] = T[h]
    BY <2>1 DEF NodesAt
  <2>4. ChainOf(T[h]) = {T[j] : j \in 0..h}
    <3>1. IInv /\ ParentsOK
      BY DEF ChainInv
    <3>2. \A q \in 0..Len(log) : ChainOf(T[q]) = {T[j] : j \in 0..q}
      BY <1>7, <3>1, TipFacts
    <3> QED
      BY <3>2
  <2>5. PICK j \in 0..h : b = T[j]
    BY <1>1, <2>3, <2>4
  <2>6. j \in 0..Len(log)
    BY <1>2, <2>3, <2>5
  <2>7. ~ (j <= k)
    <3>1. j <= k => T[j] <= T[k]
      BY <1>7, <2>6, TipFacts DEF ChainInv
    <3> QED
      BY <1>3, <2>2, <2>5, <3>1
  <2> QED
    BY <1>2, <2>2, <2>5, <2>6, <2>7
<1>9. CanonOK(T)'
  <2> SUFFICES ASSUME AllAdded
               PROVE  NodesAt(T)' /\ BehindOK(T)' /\ StateOK(T)'
    BY <1>0, <1>7 DEF CanonOK, AllAdded
  <2>1. NodesAt(T) /\ BehindOK(T) /\ StateOK(T)
    BY DEF CanonOK
  <2>2. NodesAt(T)'
    <3> SUFFICES ASSUME NEW x \in Nodes
                 PROVE  \E k \in 0..Len(log) : tip'[x] = T[k] /\ seen[x] \subseteq 0..(k - 1)
      BY <1>0 DEF NodesAt
    <3>1. CASE x = n
      <4>1. PICK k \in 0..Len(log) : \E j \in 0..Len(log) :
               tip[n] = T[k] /\ seen[n] \subseteq 0..(k - 1) /\ b = T[j] /\ k < j
        BY <1>8
      <4>2. PICK j \in 0..Len(log) : seen[n] \subseteq 0..(k - 1) /\ b = T[j] /\ k < j
        BY <4>1
      <4>3. 0..(k - 1) \subseteq 0..(j - 1)
        BY <1>2, <4>2
      <4> QED
        BY <1>2, <3>1, <4>2, <4>3
    <3>2. CASE x # n
      BY <1>2, <2>1, <3>2 DEF NodesAt
    <3> QED
      BY <3>1, <3>2
  <2>3. BehindOK(T)'
    <3> SUFFICES ASSUME NEW x \in Nodes, NEW c \in Blocks, NEW k \in 0..Len(log),
                        Remembers(x, c), c = T[k]
                 PROVE  c <= tip'[x]
      BY <1>0, <1>5 DEF BehindOK
    <3>1. c <= tip[x]
      BY <2>1 DEF BehindOK
    <3>2. c \in Int /\ tip[x] \in Int
      BY <1>2 DEF Blocks
    <3> QED
      BY <1>2, <1>3, <3>1, <3>2
  <2>4. StateOK(T)'
    BY <1>0, <1>4, <2>1 DEF StateOK, OnParent
  <2> QED
    BY <2>2, <2>3, <2>4
<1>10. ASSUME NoLastLost' PROVE LastOK'
  <2>1. LastOK /\ AllAdded
    BY <1>0, <1>10 DEF ChainInv, NoLastLost, AllAdded
  <2> SUFFICES ASSUME NEW x \in Nodes, NEW c \in Blocks, IsLast(x, c), c # tip'[x]
               PROVE  \E i \in 1..Len(log) : log[i] = tip'[x] /\ i - 1 \notin seen[x]
    BY <1>0, <1>5 DEF LastOK
  <2>2. CASE x = n
    <3>1. PICK k \in 0..Len(log) : \E j \in 0..Len(log) :
             tip[n] = T[k] /\ seen[n] \subseteq 0..(k - 1) /\ b = T[j] /\ k < j
      BY <1>8, <2>1
    <3>2. PICK j \in 0..Len(log) : b = T[j]
      BY <3>1
    <3>3. PICK i \in 1..j : T[j] = log[i] /\ T[i] = log[i]
      BY <1>1, <1>7, <3>2, TipFacts DEF ChainInv
    <3>4. i \in 1..Len(log) /\ i \in 0..Len(log) /\ log[i] = tip'[x]
      BY <1>2, <2>2, <3>2, <3>3
    <3>5. i - 1 \notin seen[n]
      <4> SUFFICES ASSUME i - 1 \in seen[n] PROVE FALSE
        OBVIOUS
      <4>1. i <= k
        BY <1>2, <3>1, <3>4
      <4>2. T[i] <= T[k]
        BY <1>7, <3>4, <4>1, TipFacts DEF ChainInv
      <4> QED
        BY <1>3, <3>1, <3>2, <3>3, <4>2
    <3> QED
      BY <2>2, <3>4, <3>5
  <2>3. CASE x # n
    BY <1>2, <2>1, <2>3 DEF LastOK
  <2> QED
    BY <2>2, <2>3
<1> QED
  BY <1>6, <1>9, <1>10

(* Gaggle commits: the entry becomes the last tip if it follows it.        *)
LEMMA CommitsKeep ==
  ASSUME ChainInv, NEW T, CanonOK(T), GaggleCommits
  PROVE  ParentsOK' /\ (\E U : CanonOK(U)') /\ (NoLastLost' => LastOK')
<1> DEFINE L == Len(log)
           h == Head(appended)
<1>0. /\ made' = made /\ builder' = builder /\ tip' = tip /\ seen' = seen /\ mishaps' = mishaps
      /\ log' = Append(log, h) /\ appended' = Tail(appended) /\ appended # <<>>
      /\ Blocks' = Blocks
  BY DEF GaggleCommits, Blocks
<1>1. /\ L \in Nat /\ Len(made) \in Nat /\ log \in Seq(1..Len(made))
      /\ appended \in Seq(1..Len(made)) /\ ParentsOK /\ Placed
  BY BlockNumbers DEF ChainInv, IInv, LogOK
<1>2. /\ h = appended[1] /\ Len(appended) \in Nat /\ 1 \in 1..Len(appended) /\ h \in 1..Len(made)
      /\ \A i \in 1..Len(appended') : appended'[i] = appended[i + 1] /\ i + 1 \in 1..Len(appended)
  BY <1>0, <1>1
<1>3. /\ Len(log') = L + 1 /\ log'[L + 1] = h
      /\ \A i \in 1..L : log'[i] = log[i] /\ log[i] \in 1..Len(made)
      /\ \A i \in 1..(L + 1) : i = L + 1 \/ i \in 1..L
      /\ 1..L \subseteq 1..(L + 1) /\ L + 1 \in 1..(L + 1)
  BY <1>0, <1>1, <1>2
<1>4. Pending(h) /\ ~ InLog(h)
  BY <1>1, <1>2 DEF Pending, InLog, Placed
<1> HIDE DEF h
<1>5. \A c : /\ Pending(c)' => Pending(c)
             /\ InLog(c) => InLog(c)'
  <2> SUFFICES ASSUME NEW c
               PROVE  (Pending(c)' => Pending(c)) /\ (InLog(c) => InLog(c)')
    OBVIOUS
  <2>1. Pending(c)' => Pending(c)
    BY <1>0, <1>2 DEF Pending, IsBuilt
  <2>2. InLog(c) => InLog(c)'
    BY <1>3 DEF InLog
  <2> QED
    BY <2>1, <2>2
<1>6. \A x \in Nodes : \A c : /\ Remembers(x, c)' <=> Remembers(x, c)
                              /\ IsLast(x, c)' <=> IsLast(x, c)
  BY <1>0 DEF Remembers, IsLast
<1>7. ParentsOK'
  <2>1. PendingParents'
    <3>1. \A c \in 1..Len(made) : Pending(c)' => InLog(made[c].prev)
      BY <1>1, <1>5 DEF ParentsOK, PendingParents
    <3>2. \A c \in 1..Len(made) : InLog(made[c].prev) =>
            made[c].prev = 0 \/ \E i \in 1..(L + 1) : log'[i] = made[c].prev
      BY <1>3 DEF InLog
    <3> QED
      BY <1>0, <1>3, <3>1, <3>2 DEF PendingParents, InLog
  <2>2. EntryParents'
    <3> SUFFICES ASSUME NEW i \in 1..(L + 1)
                 PROVE  \/ made[log'[i]].prev = 0
                        \/ \E j \in 1..(i - 1) : made[log'[i]].prev = log'[j]
      BY <1>0, <1>3 DEF EntryParents
    <3>1. CASE i = L + 1
      <4>1. InLog(made[h].prev)
        BY <1>1, <1>2, <1>4 DEF ParentsOK, PendingParents
      <4>2. \A j \in 1..L : j \in 1..(i - 1)
        BY <1>1, <3>1
      <4> QED
        BY <1>3, <3>1, <4>1, <4>2 DEF InLog
    <3>2. CASE i \in 1..L
      <4>1. \/ made[log[i]].prev = 0
            \/ \E j \in 1..(i - 1) : made[log[i]].prev = log[j]
        BY <1>1, <3>2 DEF ParentsOK, EntryParents
      <4>2. \A j \in 1..(i - 1) : j \in 1..L
        BY <1>1, <3>2
      <4> QED
        BY <1>3, <3>2, <4>1, <4>2
    <3> QED
      BY <1>3, <3>1, <3>2
  <2>3. ParentsBefore(made)'
    BY <1>0, <1>1 DEF ParentsOK, ParentsBefore
  <2>4. KnownInLog'
    <3>1. KnownInLog
      BY <1>1 DEF ParentsOK
    <3>2. \A x \in Nodes : InLog(tip[x])'
      <4>1. \A x \in Nodes : tip[x] = 0 \/ \E i \in 1..(L + 1) : log'[i] = tip[x]
        BY <1>3, <3>1 DEF KnownInLog, InLog
      <4> QED
        BY <1>0, <1>3, <4>1 DEF InLog
    <3> QED
      BY <1>0, <1>5, <1>6, <3>1, <3>2 DEF KnownInLog
  <2> QED
    BY <2>1, <2>2, <2>3, <2>4 DEF ParentsOK
<1>8. PICK U :
      /\ U \in [0..(L + 1) -> 0..Len(made)] /\ L + 1 \in 0..(L + 1)
      /\ \A k \in 0..L : k \in 0..(L + 1) /\ U[k] = T[k]
      /\ U[L + 1] = IF made[h].prev = T[L] THEN h ELSE T[L]
  <2>1. T \in [0..L -> 0..Len(made)] /\ h \in 0..Len(made)
    BY <1>1, <1>2 DEF CanonOK, TipsOK
  <2>2. \A k \in 0..(L + 1) : k <= L => k \in 0..L
    BY <1>1
  <2>3. L \in 0..L /\ L + 1 \in 0..(L + 1) /\ ~ (L + 1 <= L)
    BY <1>1
  <2>4. \A k \in 0..L : k \in 0..(L + 1) /\ k <= L
    BY <1>1
  <2> DEFINE W == [k \in 0..(L + 1) |-> IF k <= L THEN T[k]
                                        ELSE IF made[h].prev = T[L] THEN h ELSE T[L]]
  <2>5. /\ W \in [0..(L + 1) -> 0..Len(made)] /\ L + 1 \in 0..(L + 1)
        /\ \A k \in 0..L : k \in 0..(L + 1) /\ W[k] = T[k]
        /\ W[L + 1] = IF made[h].prev = T[L] THEN h ELSE T[L]
    BY <2>1, <2>2, <2>3, <2>4
  <2> HIDE DEF W
  <2> QED
    BY <2>5
<1>9. TipsOK(U)'
  <2>1. /\ T[0] = 0
        /\ \A k \in 1..L : T[k] = IF made[log[k]].prev = T[k - 1] THEN log[k] ELSE T[k - 1]
    BY DEF CanonOK, TipsOK
  <2>2. U[0] = 0
    BY <1>1, <1>8, <2>1
  <2>3. ASSUME NEW k \in 1..(L + 1)
        PROVE  U[k] = IF made[log'[k]].prev = U[k - 1] THEN log'[k] ELSE U[k - 1]
    <3>1. CASE k = L + 1
      <4>1. k - 1 = L /\ L \in 0..L
        BY <1>1, <3>1
      <4> QED
        BY <1>3, <1>8, <3>1, <4>1
    <3>2. CASE k \in 1..L
      <4>1. k \in 0..L /\ k - 1 \in 0..L
        BY <1>1, <3>2
      <4> QED
        BY <1>3, <1>8, <2>1, <3>2, <4>1
    <3> QED
      BY <1>3, <3>1, <3>2
  <2> QED
    BY <1>0, <1>3, <1>8, <2>2, <2>3 DEF TipsOK
<1>10. ASSUME AllAdded
       PROVE  NodesAt(U)' /\ BehindOK(U)' /\ StateOK(U)'
  <2>1. NodesAt(T) /\ BehindOK(T) /\ StateOK(T) /\ L \in 0..L
    BY <1>1, <1>10 DEF CanonOK
  <2>2. NodesAt(U)'
    BY <1>0, <1>3, <1>8, <2>1 DEF NodesAt
  <2>3. \A k \in 0..(L + 1) : U[k] = h \/ \E j \in 0..L : U[k] = T[j]
    <3>1. \A k \in 0..(L + 1) : k = L + 1 \/ k \in 0..L
      BY <1>1
    <3> QED
      BY <1>8, <2>1, <3>1
  <2>4. BehindOK(U)'
    <3> SUFFICES ASSUME NEW x \in Nodes, NEW c \in Blocks, NEW k \in 0..(L + 1),
                        Remembers(x, c), c = U[k]
                 PROVE  c <= tip[x]
      BY <1>0, <1>3, <1>6 DEF BehindOK
    <3>1. c # h
      BY <1>1, <1>4 DEF ParentsOK, KnownInLog
    <3> QED
      BY <2>1, <2>3, <3>1 DEF BehindOK
  <2>5. \A k \in 0..(L + 1) : U[k] # 0 => OnParent(U[k])
    <3>1. made[h].prev = T[L] => OnParent(h)
      BY <1>2, <1>4, <2>1 DEF StateOK
    <3>2. \A k \in 0..(L + 1) : k = L + 1 \/ k \in 0..L
      BY <1>1
    <3> QED
      BY <1>8, <2>1, <3>1, <3>2 DEF StateOK
  <2>6. ASSUME NEW c \in 1..Len(made), Pending(c), made[c].prev = U[L + 1]
        PROVE  OnParent(c)
    <3>1. InLog(made[c].prev)
      BY <1>1, <2>6 DEF ParentsOK, PendingParents
    <3>2. U[L + 1] = T[L]
      BY <1>4, <1>8, <2>6, <3>1
    <3> QED
      BY <2>1, <2>6, <3>2 DEF StateOK
  <2>7. StateOK(U)'
    BY <1>0, <1>3, <1>5, <2>5, <2>6 DEF StateOK, OnParent
  <2> QED
    BY <2>2, <2>4, <2>7
<1>11. CanonOK(U)'
  BY <1>0, <1>9, <1>10 DEF CanonOK, AllAdded
<1>12. ASSUME NoLastLost' PROVE LastOK'
  <2>1. LastOK
    BY <1>0, <1>12 DEF ChainInv, NoLastLost
  <2> SUFFICES ASSUME NEW x \in Nodes, NEW c \in Blocks, IsLast(x, c), c # tip[x]
               PROVE  \E i \in 1..(L + 1) : log'[i] = tip[x] /\ i - 1 \notin seen[x]
    BY <1>0, <1>3, <1>6 DEF LastOK
  <2>2. PICK i \in 1..L : log[i] = tip[x] /\ i - 1 \notin seen[x]
    BY <2>1 DEF LastOK
  <2> QED
    BY <1>3, <2>2
<1> QED
  BY <1>7, <1>11, <1>12

(* An entry is given to a storage: it adds the next tip, or has it.        *)
LEMMA EntryKeeps ==
  ASSUME ChainInv, NEW T, CanonOK(T), NEW n \in Nodes, NEW r \in Runs, CommitEntry(n, r)
  PROVE  ParentsOK' /\ CanonOK(T)' /\ (NoLastLost' => LastOK')
<1> DEFINE i == run[n][r].next
           e == Entry(i)
<1>0. /\ made' = made /\ syncing' = syncing /\ log' = log /\ appended' = appended
      /\ run[n][r].active /\ i <= run[n][r].upto /\ commitBlock(n, e)
      /\ seen' = [seen EXCEPT ![n] = @ \cup {i}] /\ Blocks' = Blocks
  BY DEF CommitEntry, gaggle, Blocks
<1>1. /\ mishaps \subseteq mishaps'
      /\ verifyNewBlock(n, e) /\ tip' = tip => "not added" \in mishaps'
      /\ builder'[n].last = e /\ tip'[n] # e => "dropped" \in mishaps'
      /\ e \in ChainOf(tip[n]) /\ i \notin seen[n] => "overtaken" \in mishaps'
  BY DEF CommitEntry
<1>2. IInv /\ ParentsOK
  BY DEF ChainInv
<1>3. /\ i \in Nat /\ i + 1 \in 1..Len(log) /\ Len(log) \in Nat /\ 0..(i - 1) \subseteq seen[n]
  <2>1. run[n][r] \in Run /\ run[n][r].upto < Len(log) /\ 0..(i - 1) \subseteq seen[n]
    BY <1>0, <1>2 DEF IInv, IndexOK, RunsOK
  <2>2. MaxBlocks \in Nat /\ Len(log) \in Nat
    BY <1>2, BlockNumbers DEF IInv, LogOK
  <2>3. i \in Nat /\ run[n][r].upto \in Int
    BY <2>1, <2>2 DEF Run, Indices
  <2> QED
    BY <1>0, <2>1, <2>2, <2>3
<1>4. /\ e = log[i + 1] /\ e \in 1..Len(made) /\ e \in Blocks /\ e \in Int
      /\ \A x \in Nodes : tip[x] \in Blocks /\ tip[x] \in Int
  <2>0. log \in Seq(1..Len(made)) /\ Len(made) \in Nat
    BY <1>2, BlockNumbers DEF IInv, LogOK
  <2>1. e = log[i + 1] /\ e \in 1..Len(made)
    BY <1>3, <2>0 DEF Entry
  <2>2. \A x \in Nodes : tip[x] \in Blocks
    BY <1>2 DEF IInv, BuilderOK, BuilderTypeOK
  <2> QED
    BY <2>0, <2>1, <2>2 DEF Blocks
<1>5. /\ \A x \in Nodes : seen'[x] = IF x = n THEN seen[n] \cup {i} ELSE seen[x]
      /\ ParentsBefore(made) /\ EntryParents /\ PendingParents /\ KnownInLog
  BY <1>0, <1>2 DEF IInv, IndexOK, ParentsOK
<1> HIDE DEF e, i
<1>6. /\ \A x \in Nodes : /\ builder'[x].slot = builder[x].slot
                          /\ x # n => builder'[x].last = builder[x].last /\ tip'[x] = tip[x]
      /\ \/ verifyNewBlock(n, e) /\ tip'[n] = e /\ builder'[n].last = e
         \/ /\ tip' = tip
            /\ builder'[n].last = IF n \in syncing THEN e ELSE builder[n].last
  BY <1>0, <1>2, <1>4, CommitStep DEF IInv
<1>7. \A c : (Pending(c)' <=> Pending(c)) /\ (InLog(c)' <=> InLog(c))
  BY <1>0, <1>6 DEF Pending, IsBuilt, InLog
<1>8. \A x \in Nodes : \A c : Remembers(x, c)' => Remembers(x, c) \/ (x = n /\ c = e)
  <2> SUFFICES ASSUME NEW x \in Nodes, NEW c, Remembers(x, c)'
               PROVE  Remembers(x, c) \/ (x = n /\ c = e)
    OBVIOUS
  <2>1. CASE builder'[x].last = c
    BY <1>6, <2>1 DEF Remembers
  <2>2. CASE \E s \in Slots : builder'[x].slot[s].stage \in {"fetch", "build"}
                              /\ builder'[x].slot[s].base = c
    BY <1>6, <2>2 DEF Remembers
  <2> QED
    BY <2>1, <2>2 DEF Remembers
<1>9. ParentsOK'
  <2>1. PendingParents' /\ EntryParents' /\ ParentsBefore(made)'
    BY <1>0, <1>5, <1>7 DEF PendingParents, EntryParents, ParentsBefore, InLog
  <2>2. InLog(e)
    BY <1>3, <1>4 DEF InLog
  <2>3. \A x \in Nodes : tip'[x] = tip[x] \/ tip'[x] = e
    BY <1>6
  <2>4. \A x \in Nodes : InLog(tip'[x]) /\ \A c \in Blocks : Remembers(x, c)' => InLog(c)
    BY <1>5, <1>8, <2>2, <2>3 DEF KnownInLog
  <2>5. KnownInLog'
    BY <1>0, <2>4 DEF KnownInLog, InLog
  <2> QED
    BY <2>1, <2>5 DEF ParentsOK
<1>10. TipsOK(T) /\ TipsOK(T)'
  BY <1>0 DEF CanonOK, TipsOK
<1>11. /\ \A j, k \in 0..Len(log) : j <= k => T[j] <= T[k]
       /\ \A k \in 0..Len(log), j \in 1..Len(log) : T[k] = log[j] => j <= k /\ T[j] = log[j]
       /\ \A k \in 0..Len(log) : T[k] \in Int
       /\ T[0] = 0 /\ T[i + 1] = IF made[e].prev = T[i] THEN e ELSE T[i]
       /\ i \in 0..Len(log) /\ i + 1 \in 0..Len(log)
  <2>1. /\ \A j, k \in 0..Len(log) : j <= k => T[j] <= T[k]
        /\ \A k \in 0..Len(log), j \in 1..Len(log) : T[k] = log[j] => j <= k /\ T[j] = log[j]
    BY <1>2, <1>10, TipFacts
  <2>2. \A k \in 0..Len(log) : T[k] \in Int
    BY <1>2, <1>10, BlockNumbers DEF TipsOK, IInv
  <2>3. T[0] = 0 /\ T[i + 1] = IF made[e].prev = T[i] THEN e ELSE T[i]
    <3>1. (i + 1) - 1 = i
      BY <1>3
    <3> QED
      BY <1>3, <1>4, <1>10, <3>1 DEF TipsOK
  <2> QED
    BY <1>3, <2>1, <2>2, <2>3
<1>12. made[e].prev < e /\ made[e].prev \in Int
  BY <1>4, <1>5 DEF ParentsBefore
\* The tip that the storage is at now.
<1>13. ASSUME AllAdded'
       PROVE  \E k \in (i + 1)..Len(log) : tip'[n] = T[k] /\ seen'[n] \subseteq 0..(k - 1)
  <2>1. AllAdded /\ NodesAt(T)
    BY <1>1, <1>13 DEF AllAdded, CanonOK
  <2>2. PICK k \in 0..Len(log) : tip[n] = T[k] /\ seen[n] \subseteq 0..(k - 1)
    BY <2>1 DEF NodesAt
  <2>3. i <= k
    <3>1. CASE i = 0
      BY <3>1, <2>2
    <3>2. CASE i # 0
      <4>1. i - 1 \in 0..(k - 1)
        BY <1>3, <2>2, <3>2
      <4> QED
        BY <1>3, <2>2, <4>1
    <3> QED
      BY <3>1, <3>2
  <2>4. CASE k = i
    <3>1. T[i + 1] = tip'[n]
      <4>1. CASE verifyNewBlock(n, e)
        <5>1. tip'[n] = e
          BY <1>1, <1>6, <1>13, <4>1 DEF AllAdded
        <5> QED
          BY <1>11, <2>2, <2>4, <4>1, <5>1 DEF verifyNewBlock
      <4>2. CASE ~ verifyNewBlock(n, e)
        <5>1. tip'[n] = tip[n] /\ made[e].prev # tip[n]
          BY <1>4, <1>6, <4>2 DEF verifyNewBlock
        <5> QED
          BY <1>11, <2>2, <2>4, <5>1
      <4> QED
        BY <4>1, <4>2
    <3>2. seen'[n] \subseteq 0..((i + 1) - 1)
      <4>1. 0..(i - 1) \subseteq 0..i /\ i \in 0..i /\ (i + 1) - 1 = i
        BY <1>3
      <4> QED
        BY <1>5, <2>2, <2>4, <4>1
    <3>3. i + 1 \in (i + 1)..Len(log)
      BY <1>3
    <3> QED
      BY <3>1, <3>2, <3>3
  <2>5. CASE k # i
    <3>1. k \in (i + 1)..Len(log) /\ i \in 0..(k - 1)
      BY <1>3, <2>2, <2>3, <2>5
    <3>2. seen'[n] \subseteq 0..(k - 1)
      BY <1>5, <2>2, <3>1
    <3>3. ~ verifyNewBlock(n, e)
      <4> SUFFICES ASSUME made[e].prev = T[k] PROVE FALSE
        BY <2>2 DEF verifyNewBlock
      <4>1. \E j \in 0..i : T[j] = T[k]
        <5>1. T[k] = 0 \/ \E j \in 1..((i + 1) - 1) : T[k] = log[j]
          BY <1>3, <1>4, <1>5 DEF EntryParents
        <5>2. 0 \in 0..i /\ \A j \in 1..((i + 1) - 1) : j \in 0..i /\ j \in 1..Len(log)
          BY <1>3
        <5> QED
          BY <1>11, <2>2, <5>1, <5>2
      <4>2. PICK j \in 0..i : T[j] = T[k]
        BY <4>1
      <4>3. T[j] <= T[i] /\ T[i] <= T[k] /\ T[i + 1] <= T[k]
        <5>1. j \in 0..Len(log) /\ j <= i /\ i <= k /\ i + 1 <= k
          BY <1>3, <3>1
        <5> QED
          BY <1>11, <2>2, <5>1
      <4>4. j \in 0..Len(log) /\ T[j] \in Int /\ T[i] \in Int /\ T[k] \in Int
        BY <1>3, <1>11, <2>2
      <4>5. T[i] = T[k]
        BY <4>2, <4>3, <4>4
      <4>6. T[i + 1] = e
        BY <1>11, <4>5
      <4> QED
        BY <1>4, <1>12, <4>3, <4>6
    <3>4. tip'[n] = tip[n]
      BY <1>6, <3>3
    <3> QED
      BY <2>2, <3>1, <3>2, <3>4
  <2> QED
    BY <2>4, <2>5
<1>14. CanonOK(T)'
  <2> SUFFICES ASSUME AllAdded'
               PROVE  NodesAt(T)' /\ BehindOK(T)' /\ StateOK(T)'
    BY <1>10 DEF CanonOK
  <2>1. AllAdded
    BY <1>1 DEF AllAdded
  <2>2. NodesAt(T) /\ BehindOK(T) /\ StateOK(T)
    BY <2>1 DEF CanonOK
  <2>3. PICK k \in (i + 1)..Len(log) : tip'[n] = T[k] /\ seen'[n] \subseteq 0..(k - 1)
    BY <1>13
  <2>4. k \in 0..Len(log) /\ i + 1 <= k
    BY <1>3, <2>3
  <2>5. NodesAt(T)'
    <3> SUFFICES ASSUME NEW x \in Nodes
                 PROVE  \E q \in 0..Len(log) : tip'[x] = T[q] /\ seen'[x] \subseteq 0..(q - 1)
      BY <1>0 DEF NodesAt
    <3>1. CASE x = n
      BY <2>3, <2>4, <3>1
    <3>2. CASE x # n
      BY <1>5, <1>6, <2>2, <3>2 DEF NodesAt
    <3> QED
      BY <3>1, <3>2
  <2>6. BehindOK(T)'
    <3> SUFFICES ASSUME NEW x \in Nodes, NEW c \in Blocks, NEW q \in 0..Len(log),
                        Remembers(x, c)', c = T[q]
                 PROVE  c <= tip'[x]
      BY <1>0 DEF BehindOK
    <3>1. c \in Int
      BY <1>11
    <3>2. CASE x # n
      BY <1>6, <1>8, <2>2, <3>2 DEF BehindOK
    <3>3. CASE x = n /\ Remembers(n, c)
      <4>1. c <= tip[n]
        BY <2>2, <3>3 DEF BehindOK
      <4>2. tip'[n] = tip[n] \/ (tip'[n] = e /\ tip[n] < e)
        BY <1>6, <1>12 DEF verifyNewBlock
      <4> QED
        BY <1>4, <3>1, <3>3, <4>1, <4>2
    <3>4. CASE x = n /\ c = e
      <4>1. T[i + 1] = e
        BY <1>3, <1>4, <1>11, <3>4
      <4>2. T[i + 1] <= T[k]
        BY <1>11, <2>4
      <4> QED
        BY <2>3, <3>4, <4>1, <4>2
    <3> QED
      BY <1>8, <3>2, <3>3, <3>4
  <2>7. StateOK(T)'
    BY <1>0, <1>7, <2>2 DEF StateOK, OnParent
  <2> QED
    BY <2>5, <2>6, <2>7
<1>15. ASSUME NoLastLost' PROVE LastOK'
  <2>1. LastOK
    BY <1>1, <1>15 DEF ChainInv, NoLastLost
  <2>2. /\ ~ (builder'[n].last = e /\ tip'[n] # e)
        /\ ~ (e \in ChainOf(tip[n]) /\ i \notin seen[n])
    BY <1>1, <1>15 DEF NoLastLost
  <2> SUFFICES ASSUME NEW x \in Nodes, NEW c \in Blocks, IsLast(x, c)', c # tip'[x]
               PROVE  \E q \in 1..Len(log) : log[q] = tip'[x] /\ q - 1 \notin seen'[x]
    BY <1>0 DEF LastOK
  <2>3. CASE x # n
    <3>1. IsLast(x, c)
      BY <1>6, <2>3 DEF IsLast
    <3> QED
      BY <1>5, <1>6, <2>1, <2>3, <3>1 DEF LastOK
  <2>4. CASE x = n
    <3>1. builder'[n].last # e
      <4>1. e # None
        BY <1>4, BuilderAssumption
      <4> QED
        BY <2>2, <2>4, <4>1 DEF IsLast
    <3>2. tip' = tip /\ builder'[n].last = builder[n].last
      BY <1>6, <3>1
    <3>3. IsLast(n, c)
      BY <1>6, <2>4, <3>2 DEF IsLast
    <3>4. PICK q \in 1..Len(log) : log[q] = tip[n] /\ q - 1 \notin seen[n]
      BY <2>1, <2>4, <3>2, <3>3 DEF LastOK
    <3>5. q - 1 # i
      <4> SUFFICES ASSUME q = i + 1 PROVE FALSE
        BY <1>3, <3>4
      <4>1. e = tip[n] /\ i \notin seen[n]
        BY <1>3, <1>4, <3>4
      <4>2. tip[n] \in ChainOf(tip[n])
        BY <1>4, <1>5, ChainMembers, ChainOfIs DEF Blocks
      <4> QED
        BY <2>2, <4>1, <4>2
    <3> QED
      BY <1>5, <2>4, <3>2, <3>4, <3>5
  <2> QED
    BY <2>3, <2>4
<1> QED
  BY <1>9, <1>14, <1>15

(* At first the chain has only genesis.                                    *)
LEMMA ChainInvInit == Init => ChainInv
<1> SUFFICES ASSUME Init PROVE ChainInv
  OBVIOUS
<1>1. IInv
  BY IInvInit
<1>2. /\ made = <<>> /\ log = <<>> /\ appended = <<>> /\ Len(made) = 0 /\ Len(log) = 0
      /\ Len(appended) = 0 /\ Blocks = {0} /\ 1..Len(made) = {} /\ 1..Len(log) = {}
      /\ \A n \in Nodes : tip[n] = 0 /\ seen[n] = {}
  BY DEF Init, BuilderInit, Blocks
<1>3. \A n \in Nodes : /\ builder[n].last = None
                      /\ \A s \in Slots : builder[n].slot[s].stage = "idle"
  BY DEF Init, BuilderInit, NewBuilder, IdleSlot
<1>4. \A n \in Nodes, b \in Blocks : ~ Remembers(n, b) /\ ~ IsLast(n, b)
  <2> SUFFICES ASSUME NEW n \in Nodes, NEW b \in Blocks
               PROVE  ~ Remembers(n, b) /\ ~ IsLast(n, b)
    OBVIOUS
  <2>1. b # None
    BY <1>2, BuilderAssumption
  <2>2. builder[n].last = None /\ \A s \in Slots : builder[n].slot[s].stage \notin {"fetch", "build"}
    BY <1>3
  <2> QED
    BY <2>1, <2>2 DEF Remembers, IsLast
<1>5. ParentsOK
  BY <1>2, <1>4 DEF ParentsOK, EntryParents, PendingParents, KnownInLog, ParentsBefore, InLog
<1>6. \E T : CanonOK(T)
  <2> DEFINE T == [k \in 0..0 |-> 0]
  <2>1. TipsOK(T)
    BY <1>2 DEF TipsOK
  <2>2. NodesAt(T)
    BY <1>2 DEF NodesAt
  <2>3. BehindOK(T)
    BY <1>4 DEF BehindOK
  <2>4. StateOK(T)
    BY <1>2 DEF StateOK
  <2> HIDE DEF T
  <2> QED
    BY <2>1, <2>2, <2>3, <2>4 DEF CanonOK
<1>7. LastOK
  BY <1>4 DEF LastOK
<1> QED
  BY <1>1, <1>5, <1>6, <1>7 DEF ChainInv

(* onLeaderElected begins to build on what the builder remembers.          *)
LEMMA LeaderQuiet ==
  ASSUME ChainInv, NEW n \in Nodes, NEW isLeader, NEW i, onLeaderElected(n, isLeader, i),
         UNCHANGED <<made, tip, syncing, log, seen>>, appended' \in {<<>>, appended}
  PROVE  Quiet
<1>1. /\ mishaps \subseteq mishaps'
      /\ \/ builder' = builder
         \/ \E s \in Slots : Moves(n, s, NextSlot(n), builder[n].last)
  BY LeaderStep DEF ChainInv, IInv, IndexOK
<1>2. \A b \in 1..Len(made) : (\E j \in 1..Len(appended') : appended'[j] = b) => Pending(b)
  BY DEF Pending
<1>3. \A m \in Nodes : seen'[m] \subseteq seen[m]
  OBVIOUS
<1>4. CASE builder' = builder
  BY <1>1, <1>2, <1>3, <1>4, SameQuiet
<1>5. ASSUME NEW s \in Slots, Moves(n, s, NextSlot(n), builder[n].last)
      PROVE  Quiet
  BY <1>1, <1>2, <1>3, <1>5, MovesQuiet DEF NextSlot, Remembers, IsLast
<1> QED
  BY <1>1, <1>4, <1>5

(* The timer fires.                                                        *)
LEMMA PollQuiet ==
  ASSUME ChainInv, NEW n \in Nodes, NEW s \in Slots, Poll(n, s)
  PROVE  Quiet
<1>1. /\ made' = made /\ tip' = tip /\ syncing' = syncing /\ log' = log /\ appended' = appended
      /\ seen' = seen /\ mishaps \subseteq mishaps'
      /\ AppendNextBlock(n, s) /\ UseFault(Overlaps(n, s)) /\ Overlaps(n, s) \in BOOLEAN
  BY DEF Poll, PollForPendingTransactions, gaggle, Blame, Overlaps
<1>2. Moves(n, s, NextSlot(n), builder[n].last)
  BY <1>1, Faults, AppendNextStep DEF ChainInv, IInv
<1>3. \A b \in 1..Len(made) : (\E j \in 1..Len(appended') : appended'[j] = b) => Pending(b)
  BY <1>1 DEF Pending
<1> QED
  BY <1>1, <1>2, <1>3, MovesQuiet DEF NextSlot, Remembers, IsLast

(* The storage's answer is taken: a late one that is another block than    *)
(* the builder remembers is a mishap.                                      *)
LEMMA FetchQuiet ==
  ASSUME ChainInv, NEW n \in Nodes, NEW s \in Slots, getOrFetchLastBlock(n, s),
         Blame("late answer", builder[n].last \notin {None, builder[n].slot[s].base}),
         UNCHANGED <<log, appended, seen>>
  PROVE  Quiet
<1> DEFINE answer == builder[n].slot[s].base
           v == [stage |-> "build", base |-> answer]
<1>1. /\ made' = made /\ tip' = tip /\ log' = log /\ appended' = appended /\ seen' = seen
      /\ mishaps \subseteq mishaps' /\ builder[n].slot[s].stage = "fetch"
  BY DEF getOrFetchLastBlock, Blame
<1>2. Moves(n, s, v, answer)
  BY FetchStep DEF ChainInv, IInv
<1>3. Remembers(n, answer)
  BY <1>1 DEF Remembers
<1>4. NoLastLost' => IsLast(n, answer)
  <2> SUFFICES ASSUME NoLastLost' PROVE IsLast(n, answer)
    OBVIOUS
  <2>1. builder[n].last \in {None, answer}
    BY DEF Blame, NoLastLost
  <2> QED
    BY <1>1, <2>1 DEF IsLast
<1>5. answer # None
  BY BuilderAssumption, BlockNumbers DEF ChainInv, IInv, BuilderOK, Blocks
<1>6. \A b \in 1..Len(made) : (\E j \in 1..Len(appended') : appended'[j] = b) => Pending(b)
  BY <1>1 DEF Pending
<1>7. v.stage = "build" /\ v.base = answer
  OBVIOUS
<1> HIDE DEF v, answer
<1> QED
  BY <1>1, <1>2, <1>3, <1>4, <1>5, <1>6, <1>7, MovesQuiet

(* A slot is freed; what the leader then appends was built.                *)
LEMMA IdleQuiet ==
  ASSUME ChainInv, NEW n \in Nodes, NEW s \in Slots, Moves(n, s, IdleSlot, builder[n].last),
         UNCHANGED <<made, tip, log, seen, mishaps>>,
         \A b \in 1..Len(made) : (\E j \in 1..Len(appended') : appended'[j] = b) => Pending(b)
  PROVE  Quiet
BY MovesQuiet DEF IdleSlot, IsLast

(* A new builder remembers nothing.                                        *)
LEMMA RestartQuiet ==
  ASSUME ChainInv, NEW n \in Nodes, Restart(n)
  PROVE  Quiet
<1>1. /\ made' = made /\ tip' = tip /\ log' = log /\ appended' = appended /\ mishaps' = mishaps
      /\ builder' = [builder EXCEPT ![n] = NewBuilder] /\ seen' = [seen EXCEPT ![n] = {}]
  BY DEF Restart
<1>2. builder \in [Nodes -> Builder] /\ DOMAIN seen = Nodes
  BY DEF ChainInv, IInv, IndexOK, BuilderOK, BuilderTypeOK
<1>3. /\ \A m \in Nodes : m # n => builder'[m] = builder[m] /\ seen'[m] = seen[m]
      /\ builder'[n] = NewBuilder /\ seen'[n] = {}
  BY <1>1, <1>2
<1>4. builder'[n].last = None /\ \A t \in Slots : builder'[n].slot[t].stage = "idle"
  BY <1>3 DEF NewBuilder, IdleSlot
<1>5. \A b \in 1..Len(made) : Pending(b)' => Pending(b)
  <2>1. \A m \in Nodes, t \in Slots, b \in 1..Len(made) : IsBuilt(m, t, b)' => IsBuilt(m, t, b)
    BY <1>3, <1>4 DEF IsBuilt
  <2> QED
    BY <1>1, <2>1 DEF Pending
<1>6. None \notin Blocks
  BY BuilderAssumption, BlockNumbers DEF Blocks
<1>7. \A m \in Nodes, b \in Blocks : /\ Remembers(m, b)' => Remembers(m, b)
                                     /\ IsLast(m, b)' => IsLast(m, b)
  <2> SUFFICES ASSUME NEW m \in Nodes, NEW b \in Blocks
               PROVE  /\ Remembers(m, b)' => Remembers(m, b)
                      /\ IsLast(m, b)' => IsLast(m, b)
    OBVIOUS
  <2>1. CASE m = n
    BY <1>4, <1>6, <2>1 DEF Remembers, IsLast
  <2>2. CASE m # n
    BY <1>3, <2>2 DEF Remembers, IsLast
  <2> QED
    BY <2>1, <2>2
<1>8. \A m \in Nodes : seen'[m] \subseteq seen[m]
  BY <1>3
<1> QED
  BY <1>1, <1>5, <1>7, <1>8 DEF Quiet

(* The steps of Work, and every step.                                      *)
LEMMA ChainWork ==
  ASSUME ChainInv, NEW T, CanonOK(T), NEW n \in Nodes, Work(n)
  PROVE  ParentsOK' /\ CanonOK(T)' /\ (NoLastLost' => LastOK')
<1>1. CASE LeaderIntervalTick(n)
  <2>1. onLeaderElected(n, leader = n, index[n])
        /\ UNCHANGED <<made, tip, syncing, log, seen, appended>>
    BY <1>1 DEF LeaderIntervalTick, gaggle
  <2> QED
    BY <2>1, LeaderQuiet, QuietStep
<1>2. ASSUME NEW s \in Slots, Build(n, s)
      PROVE  ParentsOK' /\ CanonOK(T)' /\ (NoLastLost' => LastOK')
  <2>1. UNCHANGED <<log, appended, seen>>
    BY <1>2 DEF Build, gaggle
  <2>2. CASE getOrFetchLastBlock(n, s)
             /\ Blame("late answer", builder[n].last \notin {None, builder[n].slot[s].base})
    BY <2>1, <2>2, FetchQuiet, QuietStep
  <2>3. CASE buildBlockFromPendingTransactions(n, s) /\ UNCHANGED mishaps
    BY <2>1, <2>3, BuildKeeps
  <2> QED
    BY <1>2, <2>2, <2>3 DEF Build
<1>3. ASSUME NEW s \in Slots, onNewBlockBuild(n, s)
      PROVE  ParentsOK' /\ CanonOK(T)' /\ (NoLastLost' => LastOK')
  <2>1. /\ UNCHANGED <<made, tip, syncing, faults, log, seen, mishaps>>
        /\ builder[n].slot[s].stage = "built" /\ builder' = SetSlot(n, s, "idle", 0)
        /\ appended' = IF leader = n THEN Append(appended, builder[n].slot[s].base) ELSE appended
    BY <1>3 DEF onNewBlockBuild
  <2>2. Moves(n, s, IdleSlot, builder[n].last)
    BY <2>1, TakenStep DEF ChainInv, IInv
  <2>3. appended \in Seq(1..Len(made))
    BY DEF ChainInv, IInv, LogOK
  <2>4. ASSUME NEW b \in 1..Len(made), NEW j \in 1..Len(appended'), appended'[j] = b
        PROVE  Pending(b)
    <3>1. CASE appended' = appended
      BY <2>4, <3>1 DEF Pending
    <3>2. CASE appended' = Append(appended, builder[n].slot[s].base)
      <4>1. j \in 1..Len(appended) \/ b = builder[n].slot[s].base
        BY <2>3, <2>4, <3>2
      <4>2. j \in 1..Len(appended) => b = appended[j]
        BY <2>3, <2>4, <3>2
      <4> QED
        BY <2>1, <4>1, <4>2 DEF Pending, IsBuilt
    <3> QED
      BY <2>1, <3>1, <3>2
  <2> QED
    BY <2>1, <2>2, <2>4, IdleQuiet, QuietStep
<1>4. ASSUME NEW r \in Runs, CommitEntry(n, r)
      PROVE  ParentsOK' /\ CanonOK(T)' /\ (NoLastLost' => LastOK')
  BY <1>4, EntryKeeps
<1>5. ASSUME NEW r \in Runs, EndRun(n, r)
      PROVE  ParentsOK' /\ CanonOK(T)' /\ (NoLastLost' => LastOK')
  <2>1. onLeaderElected(n, leader = n, run[n][r].upto)
        /\ UNCHANGED <<made, tip, syncing, log, seen, appended>>
    BY <1>5 DEF EndRun, gaggle
  <2> QED
    BY <2>1, LeaderQuiet, QuietStep
<1> QED
  BY <1>1, <1>2, <1>3, <1>4, <1>5 DEF Work

(* Every step keeps the invariant of the chains.                           *)
LEMMA ChainInvStep == ChainInv /\ [Next]_vars => ChainInv'
<1> SUFFICES ASSUME ChainInv, [Next]_vars PROVE ChainInv'
  OBVIOUS
<1>0. PICK T : CanonOK(T)
  BY DEF ChainInv
<1>1. IInv'
  BY IInvStep DEF ChainInv
<1> DEFINE Kept == ParentsOK' /\ (\E U : CanonOK(U)') /\ (NoLastLost' => LastOK')
<1>2. ASSUME Quiet PROVE Kept
  BY <1>0, <1>2, QuietStep
<1>3. ASSUME GaggleCommits PROVE Kept
  BY <1>0, <1>3, CommitsKeep
<1>4. ASSUME NEW n \in Nodes, Election(n)
      PROVE  Kept
  <2>1. onLeaderElected(n, TRUE, index[n])
        /\ UNCHANGED <<made, tip, syncing, log, seen>> /\ appended' \in {<<>>, appended}
    BY <1>4 DEF Election
  <2> QED
    BY <1>2, <2>1, LeaderQuiet
<1>5. ASSUME NEW n \in Nodes, Work(n)
      PROVE  Kept
  BY <1>0, <1>5, ChainWork
<1>6. ASSUME NEW n \in Nodes, Restart(n)
      PROVE  Kept
  BY <1>2, <1>6, RestartQuiet
<1>S. \A b \in 1..Len(made) : (\E j \in 1..Len(appended) : appended[j] = b) => Pending(b)
  BY DEF Pending
<1>7. ASSUME NEW n \in Nodes, Sync(n)
      PROVE  Kept
  <2>1. UNCHANGED <<log, appended, seen, mishaps>>
    BY <1>7 DEF Sync, gaggle
  <2>2. CASE StartSync(n) \/ EndSync(n)
    <3>1. UNCHANGED <<made, tip, builder>>
      BY <2>2 DEF StartSync, EndSync
    <3> QED
      BY <1>2, <1>S, <2>1, <3>1, SameQuiet
  <2>3. ASSUME NEW m \in Nodes, SyncBlock(n, m)
        PROVE  Kept
    BY <1>0, <2>1, <2>3, SyncKeeps
  <2> QED
    BY <1>7, <2>2, <2>3 DEF Sync
<1>8. ASSUME NEW n \in Nodes, NEW s \in Slots, Poll(n, s)
      PROVE  Kept
  BY <1>2, <1>8, PollQuiet
<1>9. ASSUME NEW n \in Nodes, NEW s \in Slots, BuildsNothing(n, s)
      PROVE  Kept
  <2>1. UNCHANGED <<made, tip, log, appended, seen, mishaps>> /\ NothingBuilt(n, s)
    BY <1>9 DEF BuildsNothing, NothingBuilt, gaggle
  <2>2. Moves(n, s, IdleSlot, builder[n].last)
    BY <2>1, NothingStep DEF ChainInv, IInv
  <2> QED
    BY <1>2, <1>S, <2>1, <2>2, IdleQuiet
<1>10. ASSUME NEW n \in Nodes, onCommittedFails(n) \/ \E r \in Runs : onCommitted(n, r)
       PROVE  Kept
  <2>1. UNCHANGED <<made, tip, builder, log, appended, seen>> /\ mishaps \subseteq mishaps'
    BY <1>10 DEF onCommittedFails, onCommitted, Blame
  <2> QED
    BY <1>2, <1>S, <2>1, SameQuiet
<1>11. ASSUME UNCHANGED vars PROVE Kept
  <2>1. UNCHANGED <<made, tip, builder, log, appended, seen, mishaps>>
    BY <1>11 DEF vars
  <2> QED
    BY <1>2, <1>S, <2>1, SameQuiet
<1>12. Kept
  <2> HIDE DEF Kept
  <2> QED
    BY <1>3, <1>4, <1>5, <1>6, <1>7, <1>8, <1>9, <1>10, <1>11 DEF Next
<1> QED
  BY <1>1, <1>12 DEF ChainInv

(* The invariant holds in every state.                                     *)
THEOREM ChainInvariance == Spec => []ChainInv
<1> QED
  BY ChainInvInit, ChainInvStep, PTL DEF Spec

-----------------------------------------------------------------------------
(* However nodes restart, sync, lead in turn and build at a time, what     *)
(* addBlock accepts never forks the chain, unless a storage did not add an *)
(* entry that followed its last block: then all tips are on one chain, of  *)
(* the entries in the order of the log.                                    *)
THEOREM NoForkUnlessNotAdded == Spec => []ForkOnlyIfNotAdded
<1>1. ChainInv => ForkOnlyIfNotAdded
  <2> SUFFICES ASSUME ChainInv, AllAdded, NEW n \in Nodes, NEW m \in Nodes
               PROVE  tip[n] \in ChainOf(tip[m]) \/ tip[m] \in ChainOf(tip[n])
    BY DEF ForkOnlyIfNotAdded, Forked, AllAdded
  <2>1. PICK T : TipsOK(T) /\ NodesAt(T)
    BY DEF ChainInv, CanonOK
  <2>2. PICK k \in 0..Len(log) : tip[n] = T[k]
    BY <2>1 DEF NodesAt
  <2>3. PICK j \in 0..Len(log) : tip[m] = T[j]
    BY <2>1 DEF NodesAt
  <2>4. \A q \in 0..Len(log) : ChainOf(T[q]) = {T[i] : i \in 0..q}
    <3>1. IInv /\ ParentsOK
      BY DEF ChainInv
    <3> QED
      BY <2>1, <3>1, TipFacts
  <2>5. k \in 0..j \/ j \in 0..k
    OBVIOUS
  <2> QED
    BY <2>2, <2>3, <2>4, <2>5
<1> QED
  BY <1>1, ChainInvariance, PTL

(* The virtual machine of the node that builds may read a storage that is  *)
(* ahead of the parent of the new block; no such block gets on a chain,    *)
(* under the same exception.                                               *)
THEOREM NoWrongStateUnlessNotAdded == Spec => []WrongStateOnlyIfNotAdded
<1>1. ChainInv => WrongStateOnlyIfNotAdded
  <2> SUFFICES ASSUME ChainInv, AllAdded, NEW n \in Nodes, NEW b \in ChainOf(tip[n]) \ {0}
               PROVE  OnParent(b)
    BY DEF WrongStateOnlyIfNotAdded, WrongState, AllAdded, OnParent
  <2>1. PICK T : TipsOK(T) /\ NodesAt(T) /\ StateOK(T)
    BY DEF ChainInv, CanonOK
  <2>2. PICK k \in 0..Len(log) : tip[n] = T[k]
    BY <2>1 DEF NodesAt
  <2>3. \A q \in 0..Len(log) : ChainOf(T[q]) = {T[i] : i \in 0..q}
    <3>1. IInv /\ ParentsOK
      BY DEF ChainInv
    <3> QED
      BY <2>1, <3>1, TipFacts
  <2>4. PICK i \in 0..k : b = T[i]
    BY <2>2, <2>3
  <2>5. i \in 0..Len(log)
    BY <2>2, <2>4 DEF ChainInv, IInv, LogOK
  <2> QED
    BY <2>1, <2>4, <2>5 DEF StateOK
<1> QED
  BY <1>1, ChainInvariance, PTL

(* A leader whose benchmarkIndex is that of the last entry, and with no    *)
(* call under way, remembers the last block of its storage, but for the    *)
(* mishaps named: whatever it restarted, lost or took late before.         *)
THEOREM LeadersKnowTheirTip == Spec => []LeaderKnowsItsTip
<1>1. ChainInv => LeaderKnowsItsTip
  <2> SUFFICES ASSUME ChainInv, NoLastLost, NEW n \in Nodes, index[n] = Len(log) - 1, Stale(n)
               PROVE  FALSE
    BY DEF LeaderKnowsItsTip, NoLastLost
  <2>1. LastOK /\ NoEntrySkipped /\ BuilderOK /\ Len(log) \in Nat
    BY DEF ChainInv, IInv, IndexOK, LogOK
  <2>2. /\ builder[n].last \in Blocks /\ IsLast(n, builder[n].last)
        /\ builder[n].last # tip[n]
    BY <2>1 DEF Stale, BuilderOK, IsLast
  <2>3. PICK i \in 1..Len(log) : i - 1 \notin seen[n]
    BY <2>1, <2>2 DEF LastOK
  <2>4. i - 1 \in 0..index[n]
    BY <2>1, <2>3
  <2> QED
    BY <2>1, <2>3, <2>4 DEF NoEntrySkipped
<1> QED
  BY <1>1, ChainInvariance, PTL

-----------------------------------------------------------------------------
(***************************************************************************)
(* The stub consensus: the blocks that the leader's storage has added.     *)
(***************************************************************************)
slotOf(s) == builder[Leader].slot[s]

\* The blocks the leader's storage has added are its last block and the set
\* P of those it had before.
Added(P) == P \cup {tip[Leader]}

MessageOK(m) ==
  \/ \E p \in Peers : \E b \in Blocks : m = CommitBlock(p, b)
  \/ \E p \in Peers : \E h \in 0..MaxHeight : m = MyLastBlockHeight(p, h)

StubOK ==
  /\ BuilderOK /\ ParentsBefore(made)
  /\ heights \in [Peers -> 0..MaxHeight \cup {None}]
  /\ \A m \in msgs : MessageOK(m)
  /\ mishaps \subseteq StubMishaps

\* Only these blocks are served, remembered or sent; the diff of each was
\* computed on the state after its parent, which is one that was added before.
Sent(P) == \A m \in msgs : m.type = "CommitBlock" => m.block \in Added(P)

TreeOK(P) ==
  /\ P \subseteq Blocks /\ tip[Leader] \notin P
  /\ \A b \in Added(P) \ {0} : made[b].prev \in P /\ OnParent(b)
  /\ \A n \in Nodes : tip[n] \in Added(P)
  /\ builder[Leader].last \in Added(P) \cup {None}
  /\ Sent(P)

Fresh(s) == slotOf(s).stage \in {"built", "adding"}

\* A block that is built is new, and was built on an added one; if that is
\* the last, the virtual machine has read the state after it.
FreshOK(s, P) ==
  /\ slotOf(s).base \notin Added(P) \cup {0}
  /\ made[slotOf(s).base].prev \in Added(P)
  /\ made[slotOf(s).base].prev \in P \/ OnParent(slotOf(s).base)
  /\ \A t \in Slots \ {s} : Fresh(t) => slotOf(t).base # slotOf(s).base

SlotsOK(P) ==
  \A s \in Slots :
    /\ slotOf(s).stage \in {"fetch", "build", "added"} => slotOf(s).base \in Added(P)
    /\ Fresh(s) => FreshOK(s, P)
    /\ slotOf(s).stage = "adding" => OnParent(slotOf(s).base)

\* Without overlaps these blocks are one chain, and the builder is where its
\* storage is.
AloneOK(P) ==
  /\ Added(P) = ChainOf(tip[Leader])
  /\ \A s, t \in Slots : slotOf(s).stage # "idle" /\ slotOf(t).stage # "idle" => s = t
  /\ \A s \in Slots :
       /\ slotOf(s).stage \in {"fetch", "added"} => slotOf(s).base = tip[Leader]
       /\ slotOf(s).stage = "adding" => made[slotOf(s).base].prev = tip[Leader]
  /\ \/ builder[Leader].last \in {None, tip[Leader]}
     \/ \E s \in Slots : slotOf(s).stage = "added"

ServedOK(P) == TreeOK(P) /\ SlotsOK(P) /\ (mishaps = {} => AloneOK(P))

StubInv == StubOK /\ ("not added" \notin mishaps => \E P : ServedOK(P))

(* A step that leaves the leader's builder and storage alone.              *)
LEMMA StubSame ==
  ASSUME StubOK, NEW P, ServedOK(P), made' = made, tip'[Leader] = tip[Leader],
         \A n \in Nodes : tip'[n] \in Added(P),
         builder'[Leader].last = builder[Leader].last,
         builder'[Leader].slot = builder[Leader].slot,
         \A m \in msgs' : m.type = "CommitBlock" => m.block \in Added(P),
         mishaps' = mishaps
  PROVE  ServedOK(P)'
<1>1. /\ Added(P)' = Added(P) /\ Blocks' = Blocks
      /\ \A b : (OnParent(b)' <=> OnParent(b)) /\ ChainOf(b)' = ChainOf(b)
  BY ChainOfIs DEF Added, OnParent, Blocks
<1>2. \A s \in Slots : slotOf(s)' = slotOf(s)
  BY DEF slotOf
<1>3. TreeOK(P)'
  BY <1>1 DEF ServedOK, TreeOK, Sent
<1>4. SlotsOK(P)'
  BY <1>1, <1>2 DEF ServedOK, SlotsOK, Fresh, FreshOK
<1>5. mishaps' = {} => AloneOK(P)'
  BY <1>1, <1>2 DEF ServedOK, AloneOK
<1> QED
  BY <1>3, <1>4, <1>5 DEF ServedOK

(* A call of appendNextBlock of the leader goes on, or begins; its storage *)
(* adds no block.                                                          *)
LEMMA StubMoves ==
  ASSUME StubOK, NEW P, ServedOK(P), made' = made, tip' = tip,
         NEW s \in Slots, NEW v, NEW x, Moves(Leader, s, v, x),
         mishaps \subseteq mishaps',
         \A m \in msgs' : m.type = "CommitBlock" => m.block \in Added(P),
         x \in Added(P) \cup {None},
         v.stage \in {"fetch", "build"} => v.base \in Added(P),
         v.stage \in {"idle", "fetch", "build", "adding"},
         v.stage = "adding" => /\ slotOf(s).stage = "built" /\ v.base = slotOf(s).base
                               /\ made[v.base].prev = tip[Leader],
         mishaps' = {} =>
           /\ v.stage = "idle" \/ \A t \in Slots \ {s} : slotOf(t).stage = "idle"
           /\ v.stage = "fetch" => v.base = tip[Leader]
           /\ x \in {None, tip[Leader]} \/ (x = builder[Leader].last /\ slotOf(s).stage # "added")
  PROVE  ServedOK(P)'
<1>1. /\ Added(P)' = Added(P) /\ Blocks' = Blocks
      /\ \A b : (OnParent(b)' <=> OnParent(b)) /\ ChainOf(b)' = ChainOf(b)
  BY ChainOfIs DEF Added, OnParent, Blocks
<1>2. /\ \A t \in Slots : slotOf(t)' = IF t = s THEN v ELSE slotOf(t)
      /\ builder'[Leader].last = x
  BY StubAssumption DEF slotOf, Moves, StubOK, StubAssumption
<1>3. TreeOK(P)'
  BY <1>1, <1>2 DEF ServedOK, TreeOK, Sent
<1>4. SlotsOK(P)'
  <2>0. TreeOK(P) /\ SlotsOK(P)
    BY DEF ServedOK
  <2> SUFFICES ASSUME NEW t \in Slots
               PROVE  /\ slotOf(t)'.stage \in {"fetch", "build", "added"}
                           => slotOf(t)'.base \in Added(P)
                      /\ Fresh(t)' => FreshOK(t, P)'
                      /\ slotOf(t)'.stage = "adding" => OnParent(slotOf(t)'.base)
    BY <1>1 DEF SlotsOK
  <2>1. \A u \in Slots : Fresh(u)' => Fresh(u) /\ slotOf(u)'.base = slotOf(u).base
    BY <1>2 DEF Fresh
  <2>2. Fresh(t)' => FreshOK(t, P)'
    <3> SUFFICES ASSUME Fresh(t)' PROVE FreshOK(t, P)'
      OBVIOUS
    <3>1. FreshOK(t, P) /\ slotOf(t)'.base = slotOf(t).base
      BY <2>0, <2>1 DEF SlotsOK
    <3> QED
      BY <1>1, <2>1, <3>1 DEF FreshOK
  <2>3. slotOf(t)'.stage = "adding" => OnParent(slotOf(t)'.base)
    <3>1. CASE t = s /\ v.stage = "adding"
      <4>1. FreshOK(s, P)
        BY <2>0, <3>1 DEF SlotsOK, Fresh
      <4> QED
        BY <1>2, <2>0, <3>1, <4>1 DEF FreshOK, TreeOK
    <3>2. CASE t # s
      BY <1>2, <2>0, <3>2 DEF SlotsOK
    <3> QED
      BY <1>2, <3>1, <3>2
  <2>4. slotOf(t)'.stage \in {"fetch", "build", "added"} => slotOf(t)'.base \in Added(P)
    BY <1>2, <2>0 DEF SlotsOK
  <2> QED
    BY <2>2, <2>3, <2>4
<1>5. mishaps' = {} => AloneOK(P)'
  <2> SUFFICES ASSUME mishaps' = {} PROVE AloneOK(P)'
    OBVIOUS
  <2>1. AloneOK(P)
    BY DEF ServedOK
  <2>2. \A t, u \in Slots : slotOf(t)'.stage # "idle" /\ slotOf(u)'.stage # "idle" => t = u
    BY <1>2, <2>1 DEF AloneOK
  <2>3. \A t \in Slots :
          /\ slotOf(t)'.stage \in {"fetch", "added"} => slotOf(t)'.base = tip[Leader]
          /\ slotOf(t)'.stage = "adding" => made[slotOf(t)'.base].prev = tip[Leader]
    BY <1>2, <2>1 DEF AloneOK
  <2>4. x \in {None, tip[Leader]} \/ \E t \in Slots : slotOf(t)'.stage = "added"
    BY <1>2, <2>1 DEF AloneOK
  <2> QED
    BY <1>1, <1>2, <2>1, <2>2, <2>3, <2>4 DEF AloneOK
<1> QED
  BY <1>3, <1>4, <1>5 DEF ServedOK

(* The leader builds a block: it is new, and if it follows the last block  *)
(* of the storage, the virtual machine reads the state after that.         *)
LEMMA StubBuilds ==
  ASSUME StubOK, NEW P, ServedOK(P), NEW s \in Slots,
         buildBlockFromPendingTransactions(Leader, s), UNCHANGED <<heights, msgs, mishaps>>
  PROVE  ServedOK(P)' /\ BuilderOK' /\ ParentsBefore(made)'
<1> DEFINE base == slotOf(s).base
           new == Len(made) + 1
           v == [stage |-> "built", base |-> new]
<1>0. /\ BuilderOK /\ Leader \in Nodes /\ TreeOK(P) /\ SlotsOK(P) /\ ParentsBefore(made)
  BY StubAssumption DEF StubOK, ServedOK, StubAssumption
<1>1. /\ Len(made) \in Nat /\ made \in Seq(Block)
      /\ \A t \in Slots : slotOf(t).base \in Blocks
      /\ builder[Leader].last \in Blocks \cup {None} /\ \A n \in Nodes : tip[n] \in Blocks
  BY <1>0, BlockNumbers DEF BuilderOK, BuilderTypeOK, slotOf
<1>2. /\ made' = Append(made, buildNextBlock(base, tip[Leader])) /\ tip' = tip
      /\ slotOf(s).stage = "build" /\ msgs' = msgs /\ mishaps' = mishaps
  BY DEF buildBlockFromPendingTransactions, slotOf
<1>3. BuilderOK' /\ Moves(Leader, s, v, builder[Leader].last)
  BY <1>0, BuildStep
<1>4. base \in Blocks /\ base \in Added(P)
  BY <1>0, <1>1, <1>2 DEF SlotsOK
<1> HIDE DEF base
<1>5. /\ Len(made') = new /\ Blocks' = Blocks \cup {new} /\ new \notin Blocks /\ new # 0
      /\ \A x \in 1..Len(made) : made'[x] = made[x]
      /\ made'[new].prev = base /\ made'[new].on = tip[Leader]
  BY <1>1, <1>2 DEF Blocks, buildNextBlock
<1>6. ParentsBefore(made)'
  BY <1>0, <1>1, <1>4, <1>5 DEF ParentsBefore, Blocks
<1>7. /\ Added(P)' = Added(P) /\ Added(P) \subseteq Blocks
      /\ \A x \in Blocks \ {0} : /\ made'[x].prev = made[x].prev
                                 /\ OnParent(x)' <=> OnParent(x)
  <2>1. \A x \in Blocks \ {0} : x \in 1..Len(made)
    BY <1>1 DEF Blocks
  <2>2. Added(P)' = Added(P) /\ Added(P) \subseteq Blocks
    BY <1>0, <1>1, <1>2 DEF Added, TreeOK
  <2> QED
    BY <1>5, <2>1, <2>2 DEF OnParent
<1>8. /\ \A t \in Slots : slotOf(t)' = IF t = s THEN v ELSE slotOf(t)
      /\ builder'[Leader].last = builder[Leader].last
  BY <1>0, <1>3 DEF slotOf, Moves
<1>9. TreeOK(P)'
  <2>1. \A b \in Added(P) \ {0} : made'[b].prev \in P /\ OnParent(b)'
    BY <1>0, <1>7 DEF TreeOK
  <2>2. P \subseteq Blocks'
    BY <1>0, <1>5 DEF TreeOK
  <2> QED
    BY <1>0, <1>2, <1>7, <1>8, <2>1, <2>2 DEF TreeOK, Sent
<1>10. SlotsOK(P)'
  <2> SUFFICES ASSUME NEW t \in Slots
               PROVE  /\ slotOf(t)'.stage \in {"fetch", "build", "added"}
                           => slotOf(t)'.base \in Added(P)
                      /\ Fresh(t)' => FreshOK(t, P)'
                      /\ slotOf(t)'.stage = "adding" => OnParent(slotOf(t).base)'
    BY <1>7 DEF SlotsOK
  <2> HIDE DEF new
  <2>1. CASE t = s
    <3>1. slotOf(t)'.stage = "built" /\ slotOf(t)'.base = new /\ t \in Slots
      BY <1>8, <2>1
    <3>2. new \notin Added(P) \cup {0} /\ made'[new].prev \in Added(P)
      BY <1>4, <1>5, <1>7
    <3>3. made'[new].prev \in P \/ made'[new].on = made'[new].prev
      <4>1. base \in P \/ base = tip[Leader]
        BY <1>4 DEF Added
      <4> QED
        BY <1>5, <4>1
    <3>4. \A u \in Slots \ {t} : slotOf(u)'.base # new
      BY <1>1, <1>5, <1>8, <2>1
    <3>5. FreshOK(t, P)'
      BY <1>7, <3>1, <3>2, <3>3, <3>4 DEF FreshOK, OnParent
    <3> QED
      BY <3>1, <3>5
  <2>2. CASE t # s
    <3>1. slotOf(t)' = slotOf(t)
      BY <1>8, <2>2
    <3>2. ASSUME Fresh(t)' PROVE FreshOK(t, P)'
      <4>1. FreshOK(t, P) /\ Fresh(t)
        BY <1>0, <3>1, <3>2 DEF SlotsOK, Fresh
      <4>2. slotOf(t).base \in Blocks \ {0}
        BY <1>1, <4>1 DEF FreshOK
      <4>3. slotOf(t).base \notin Added(P) \cup {0} /\ made'[slotOf(t).base].prev \in Added(P)
        BY <1>7, <4>1, <4>2 DEF FreshOK
      <4>4. made'[slotOf(t).base].prev \in P \/ OnParent(slotOf(t).base)'
        BY <1>7, <3>1, <4>1, <4>2 DEF FreshOK, OnParent
      <4>5. \A u \in Slots \ {t} : Fresh(u)' => slotOf(u)'.base # slotOf(t).base
        BY <1>5, <1>8, <4>1, <4>2 DEF FreshOK, Fresh
      <4> QED
        BY <1>7, <3>1, <4>3, <4>4, <4>5 DEF FreshOK, OnParent
    <3>3. slotOf(t).stage = "adding" => OnParent(slotOf(t).base) /\ slotOf(t).base \in Blocks \ {0}
      BY <1>0, <1>1 DEF SlotsOK, Fresh, FreshOK
    <3>4. slotOf(t)'.stage = "adding" => OnParent(slotOf(t).base)'
      BY <1>7, <3>1, <3>3 DEF OnParent
    <3> QED
      BY <1>0, <3>1, <3>2, <3>4 DEF SlotsOK
  <2> QED
    BY <2>1, <2>2
<1>11. mishaps' = {} => AloneOK(P)'
  <2> SUFFICES ASSUME mishaps = {} PROVE AloneOK(P)'
    BY <1>2
  <2>1. AloneOK(P)
    BY DEF ServedOK
  <2>2. ChainOf(tip[Leader])' = ChainOf(tip[Leader])
    <3>1. tip[Leader] \in 0..Len(made) /\ Len(made) <= Len(made')
      BY <1>0, <1>1, <1>5 DEF Blocks
    <3>2. ParentsBefore(made')
      BY <1>6 DEF ParentsBefore
    <3>3. Chains(made')[tip[Leader]] = Chains(made)[tip[Leader]]
      BY <1>0, <1>5, <3>1, <3>2, ChainKept
    <3> QED
      BY <1>2, <3>3, ChainOfIs
  <2>3. \A t, u \in Slots : slotOf(t)'.stage # "idle" /\ slotOf(u)'.stage # "idle" => t = u
    BY <1>2, <1>8, <2>1 DEF AloneOK
  <2>4. \A t \in Slots :
          /\ slotOf(t)'.stage \in {"fetch", "added"} => slotOf(t)'.base = tip[Leader]
          /\ slotOf(t)'.stage # "adding"
    BY <1>2, <1>8, <2>1 DEF AloneOK
  <2>5. \/ builder[Leader].last \in {None, tip[Leader]}
        \/ \E t \in Slots : slotOf(t)'.stage = "added"
    BY <1>2, <1>8, <2>1 DEF AloneOK
  <2> QED
    BY <1>2, <1>7, <1>8, <2>1, <2>2, <2>3, <2>4, <2>5 DEF AloneOK
<1> QED
  BY <1>3, <1>6, <1>9, <1>10, <1>11 DEF ServedOK

(* The leader's storage adds a block that it verified.  Another that it    *)
(* is adding meanwhile then follows a block before the last.               *)
LEMMA StubGrows ==
  ASSUME StubOK, NEW P, ServedOK(P), NEW Q, Q = Added(P), NEW s \in Slots,
         slotOf(s).stage = "adding", made' = made, msgs' = msgs, mishaps' = mishaps,
         tip' = [tip EXCEPT ![Leader] = slotOf(s).base],
         \/ /\ builder'[Leader].last = builder[Leader].last
            /\ \A t \in Slots : slotOf(t)' = IF t = s THEN [stage |-> "added", base |-> slotOf(s).base]
                                             ELSE slotOf(t)
         \/ builder'[Leader].last = None /\ \A t \in Slots : slotOf(t)' = IdleSlot
  PROVE  ServedOK(Q)'
<1> DEFINE b == slotOf(s).base
<1>0. /\ BuilderOK /\ Leader \in Nodes /\ TreeOK(P) /\ SlotsOK(P) /\ ParentsBefore(made)
  BY StubAssumption DEF StubOK, ServedOK, StubAssumption
<1>1. /\ b \in Blocks \ {0} /\ b \notin Q /\ OnParent(b) /\ made[b].prev \in Q
      /\ \A t \in Slots \ {s} : Fresh(t) => slotOf(t).base # b
  BY <1>0 DEF SlotsOK, Fresh, FreshOK, BuilderOK, slotOf
<1>2. /\ tip'[Leader] = b /\ \A n \in Nodes : tip'[n] \in {tip[n], b}
      /\ Q \subseteq Blocks /\ Blocks' = Blocks
  BY <1>0 DEF BuilderOK, BuilderTypeOK, Added, TreeOK, Blocks
<1>3. /\ Added(Q)' = Q \cup {b}
      /\ \A c : (OnParent(c)' <=> OnParent(c)) /\ ChainOf(c)' = ChainOf(c)
  BY <1>2, ChainOfIs DEF Added, OnParent
<1>4. \A t \in Slots :
        \/ slotOf(t)' = slotOf(t) /\ t # s
        \/ slotOf(t)' = IdleSlot
        \/ slotOf(t)' = [stage |-> "added", base |-> b] /\ t = s
  OBVIOUS
<1>5. builder'[Leader].last \in {builder[Leader].last, None}
  OBVIOUS
<1> HIDE DEF b
<1>6. TreeOK(Q)'
  <2>1. \A c \in (Q \cup {b}) \ {0} : made[c].prev \in Q /\ OnParent(c)
    BY <1>0, <1>1 DEF TreeOK, Added
  <2>2. \A n \in Nodes : tip'[n] \in Q \cup {b}
    BY <1>0, <1>2 DEF TreeOK
  <2>3. builder'[Leader].last \in Q \cup {b} \cup {None}
    BY <1>0, <1>5 DEF TreeOK
  <2>4. \A m \in msgs : m.type = "CommitBlock" => m.block \in Q \cup {b}
    BY <1>0 DEF TreeOK, Sent
  <2> QED
    BY <1>1, <1>2, <1>3, <2>1, <2>2, <2>3, <2>4 DEF TreeOK, Sent
<1>7. SlotsOK(Q)'
  <2> SUFFICES ASSUME NEW t \in Slots
               PROVE  /\ slotOf(t)'.stage \in {"fetch", "build", "added"}
                           => slotOf(t)'.base \in Q \cup {b}
                      /\ Fresh(t)' => FreshOK(t, Q)'
                      /\ slotOf(t)'.stage = "adding" => OnParent(slotOf(t)'.base)
    BY <1>3 DEF SlotsOK
  <2>1. \A u \in Slots : Fresh(u)' => Fresh(u) /\ slotOf(u)' = slotOf(u) /\ u # s
    BY <1>4 DEF Fresh, IdleSlot
  <2>2. ASSUME Fresh(t)' PROVE FreshOK(t, Q)'
    <3>1. Fresh(t) /\ FreshOK(t, P) /\ slotOf(t)' = slotOf(t) /\ t # s
      BY <1>0, <2>1, <2>2 DEF SlotsOK
    <3>2. /\ slotOf(t).base \notin Q \cup {b} \cup {0}
          /\ made[slotOf(t).base].prev \in Q
          /\ \A u \in Slots \ {t} : Fresh(u) => slotOf(u).base # slotOf(t).base
      BY <1>1, <3>1 DEF FreshOK
    <3> QED
      BY <1>3, <2>1, <3>1, <3>2 DEF FreshOK
  <2>3. slotOf(t)'.stage \in {"fetch", "build", "added"} => slotOf(t)'.base \in Q \cup {b}
    BY <1>0, <1>4 DEF SlotsOK, IdleSlot
  <2>4. slotOf(t)'.stage = "adding" => OnParent(slotOf(t)'.base)
    BY <1>0, <1>4 DEF SlotsOK, IdleSlot
  <2> QED
    BY <2>2, <2>3, <2>4
<1>8. ASSUME mishaps = {} PROVE AloneOK(Q)'
  <2>1. AloneOK(P)
    BY <1>8 DEF ServedOK
  <2>2. Q \cup {b} = ChainOf(b)
    <3>1. made[b].prev = tip[Leader] /\ Q = ChainOf(tip[Leader])
      BY <2>1 DEF AloneOK, b
    <3>2. b \in 1..Len(made)
      BY <1>0, <1>1, BlockNumbers DEF Blocks
    <3>3. Chains(made)[b] = {b} \cup Chains(made)[tip[Leader]]
      BY <1>0, <3>1, <3>2, ChainEquation
    <3> QED
      BY <3>1, <3>3, ChainOfIs
  <2>3. \A t \in Slots : t # s => slotOf(t).stage = "idle"
    BY <2>1 DEF AloneOK
  <2>4. \A t \in Slots : slotOf(t)'.stage # "idle" => t = s /\ slotOf(t)'.stage = "added" /\ slotOf(t)'.base = b
    BY <1>4, <2>3 DEF IdleSlot
  <2>5. builder'[Leader].last = None \/ \E t \in Slots : slotOf(t)'.stage = "added"
    OBVIOUS
  <2>6. /\ \A t, u \in Slots : slotOf(t)'.stage # "idle" /\ slotOf(u)'.stage # "idle" => t = u
        /\ \A t \in Slots :
             /\ slotOf(t)'.stage \in {"fetch", "added"} => slotOf(t)'.base = b
             /\ slotOf(t)'.stage # "adding"
    BY <2>4
  <2> QED
    BY <1>2, <1>3, <2>2, <2>5, <2>6 DEF AloneOK
<1> QED
  BY <1>6, <1>7, <1>8 DEF ServedOK

-----------------------------------------------------------------------------
(***************************************************************************)
(* The steps of the stub consensus.                                        *)
(***************************************************************************)
(* A step that makes no block keeps the types.                             *)
LEMMA StubTypes ==
  ASSUME StubOK, BuilderOK', made' = made, mishaps' \subseteq StubMishaps,
         heights' \in [Peers -> 0..MaxHeight \cup {None}],
         \A m \in msgs' : MessageOK(m)
  PROVE  StubOK'
<1>1. ParentsBefore(made)'
  BY DEF StubOK, ParentsBefore
<1>2. \A m \in msgs' : MessageOK(m)'
  BY DEF MessageOK, Blocks, CommitBlock, MyLastBlockHeight
<1>3. StubMishaps' = StubMishaps /\ Peers' = Peers
  BY DEF StubMishaps, Peers
<1> QED
  BY <1>1, <1>2, <1>3 DEF StubOK

(* What the leader broadcasts is one block.                                *)
LEMMA StubSends ==
  ASSUME StubOK, NEW b \in Blocks, broadcastCommitBlock(b)
  PROVE  \A m \in msgs' : MessageOK(m) /\ (m \in msgs \/ m.block = b)
BY DEF broadcastCommitBlock, MessageOK, StubOK, CommitBlock

(* What is known in a well-typed state.                                    *)
LEMMA StubFacts ==
  ASSUME StubOK
  PROVE  /\ BuilderOK /\ Leader \in Nodes /\ None \notin Blocks
         /\ \A n \in Nodes : tip[n] \in Blocks
         /\ \A s \in Slots : slotOf(s).base \in Blocks
         /\ builder[Leader].last \in Blocks \cup {None}
         /\ \A b \in Blocks : HeightOf(b) \in 0..MaxHeight
<1>1. BuilderOK /\ Leader \in Nodes
  BY StubAssumption DEF StubOK, StubAssumption
<1>2. /\ made \in Seq(Block) /\ MaxHeight \in Nat /\ Len(made) \in Nat /\ Blocks = 0..Len(made)
      /\ None \notin Blocks
  BY <1>1, BlockNumbers DEF BuilderOK, BuilderTypeOK, Blocks
<1>3. \A b \in Blocks : HeightOf(b) \in 0..MaxHeight
  <2> SUFFICES ASSUME NEW b \in Blocks PROVE HeightOf(b) \in 0..MaxHeight
    OBVIOUS
  <2>1. CASE b = 0
    BY <1>2, <2>1 DEF HeightOf
  <2>2. CASE b # 0
    <3>1. b \in 1..Len(made)
      BY <1>2, <2>2
    <3>2. made[b] \in Block
      BY <1>2, <3>1
    <3> QED
      BY <1>2, <2>2, <3>2 DEF HeightOf, Block
  <2> QED
    BY <2>1, <2>2
<1> QED
  BY <1>1, <1>2, <1>3 DEF BuilderOK, BuilderTypeOK, slotOf

(* The timer fires: the call overlaps with another, or it is alone and the *)
(* builder is where its storage is.                                        *)
LEMMA StubPoll ==
  ASSUME StubInv, NEW s \in Slots, LeaderPolls(s)
  PROVE  StubInv'
<1>0. StubOK /\ BuilderOK /\ Leader \in Nodes
  BY StubFacts DEF StubInv
<1>1. /\ AppendNextBlock(Leader, s) /\ UseFault(Overlaps(Leader, s))
      /\ made' = made /\ tip' = tip /\ syncing' = syncing /\ heights' = heights /\ msgs' = msgs
      /\ mishaps' = IF Overlaps(Leader, s) THEN mishaps \cup {"overlap"} ELSE mishaps
  BY DEF LeaderPolls, PollForPendingTransactions
<1>2. BuilderOK' /\ Moves(Leader, s, NextSlot(Leader), builder[Leader].last)
  <2>1. Overlaps(Leader, s) \in BOOLEAN
    BY DEF Overlaps
  <2> QED
    BY <1>0, <1>1, <2>1, Faults, AppendNextStep
<1>3. StubOK'
  BY <1>0, <1>1, <1>2, StubTypes DEF StubOK, StubMishaps
<1>4. ASSUME "not added" \notin mishaps'
      PROVE  \E P : ServedOK(P)'
  <2>1. PICK P : ServedOK(P)
    BY <1>1, <1>4 DEF StubInv
  <2>2. TreeOK(P) /\ tip[Leader] \in Added(P)
    BY <2>1 DEF ServedOK, Added
  <2>3. /\ builder[Leader].last \in Added(P) \cup {None}
        /\ NextSlot(Leader).stage \in {"fetch", "build"}
        /\ NextSlot(Leader).base \in Added(P)
        /\ NextSlot(Leader).stage = "fetch" => NextSlot(Leader).base = tip[Leader]
    BY <2>2 DEF NextSlot, TreeOK
  <2>4. \A m \in msgs' : m.type = "CommitBlock" => m.block \in Added(P)
    BY <1>1, <2>2 DEF TreeOK, Sent
  <2>5. mishaps' = {} => \A t \in Slots \ {s} : slotOf(t).stage = "idle"
    BY <1>1 DEF Overlaps, slotOf
  <2>6. slotOf(s).stage = "idle"
    BY <1>1 DEF AppendNextBlock, slotOf
  <2> HIDE DEF NextSlot
  <2> QED
    BY <1>0, <1>1, <1>2, <2>1, <2>3, <2>4, <2>5, <2>6, StubMoves
<1> QED
  BY <1>3, <1>4 DEF StubInv

(* The storage's answer is taken, or a block is built.                     *)
LEMMA StubBuild ==
  ASSUME StubInv, NEW s \in Slots, LeaderBuilds(s)
  PROVE  StubInv'
<1>0. StubOK /\ BuilderOK /\ Leader \in Nodes
  BY StubFacts DEF StubInv
<1>1. heights' = heights /\ msgs' = msgs /\ mishaps' = mishaps
  BY DEF LeaderBuilds
<1>2. CASE getOrFetchLastBlock(Leader, s)
  <2> DEFINE answer == slotOf(s).base
             v == [stage |-> "build", base |-> answer]
  <2>1. made' = made /\ tip' = tip /\ slotOf(s).stage = "fetch"
    BY <1>2 DEF getOrFetchLastBlock, slotOf
  <2>2. BuilderOK' /\ Moves(Leader, s, v, answer)
    BY <1>0, <1>2, FetchStep DEF slotOf
  <2>3. StubOK'
    BY <1>0, <1>1, <2>1, <2>2, StubTypes DEF StubOK
  <2>4. ASSUME "not added" \notin mishaps'
        PROVE  \E P : ServedOK(P)'
    <3>1. PICK P : ServedOK(P)
      BY <1>1, <2>4 DEF StubInv
    <3>2. answer \in Added(P) /\ \A m \in msgs' : m.type = "CommitBlock" => m.block \in Added(P)
      BY <1>1, <2>1, <3>1 DEF ServedOK, SlotsOK, TreeOK, Sent
    <3>3. mishaps = {} => /\ answer = tip[Leader]
                          /\ \A t \in Slots \ {s} : slotOf(t).stage = "idle"
      BY <2>1, <3>1 DEF ServedOK, AloneOK
    <3>4. v.stage = "build" /\ v.base = answer
      OBVIOUS
    <3> HIDE DEF v, answer
    <3> QED
      BY <1>0, <1>1, <2>1, <2>2, <3>1, <3>2, <3>3, <3>4, StubMoves
  <2> QED
    BY <2>3, <2>4 DEF StubInv
<1>3. CASE buildBlockFromPendingTransactions(Leader, s)
  <2>1. ASSUME NEW P, ServedOK(P) PROVE ServedOK(P)' /\ BuilderOK' /\ ParentsBefore(made)'
    BY <1>0, <1>1, <1>3, <2>1, StubBuilds
  <2>2. BuilderOK' /\ Len(made') = Len(made) + 1
    BY <1>0, <1>3, BuildStep
  <2>3. ParentsBefore(made)'
    BY <1>0, <1>3, BuildParents DEF StubOK
  <2>4. \A m \in msgs' : MessageOK(m)'
    <3>1. Blocks \subseteq Blocks'
      BY <1>0, <2>2, BlockNumbers DEF Blocks
    <3> QED
      BY <1>0, <1>1, <3>1 DEF StubOK, MessageOK, CommitBlock, MyLastBlockHeight
  <2>5. StubOK'
    <3>1. StubMishaps' = StubMishaps /\ Peers' = Peers
      BY DEF StubMishaps, Peers
    <3> QED
      BY <1>0, <1>1, <2>2, <2>3, <2>4, <3>1 DEF StubOK
  <2> QED
    BY <1>1, <2>1, <2>5 DEF StubInv
<1> QED
  BY <1>2, <1>3 DEF LeaderBuilds

(* A slot of the leader's builder is set, and what it remembers.           *)
LEMMA StubSet ==
  ASSUME StubOK, NEW s \in Slots, NEW v \in Slot, v.stage # "built", v.base \in Blocks,
         NEW x \in Blocks \cup {None},
         \/ builder' = SlotSet(builder, Leader, s, v) /\ x = builder[Leader].last
         \/ builder' = LastSet(SlotSet(builder, Leader, s, v), Leader, x),
         made' = made, tip' \in [Nodes -> Blocks], syncing' \subseteq Nodes, FaultsOK
  PROVE  BuilderOK' /\ Moves(Leader, s, v, x)
<1> DEFINE B == SlotSet(builder, Leader, s, v)
<1>0. BuilderOK /\ Leader \in Nodes /\ builder \in [Nodes -> Builder]
  BY StubFacts DEF BuilderOK, BuilderTypeOK
<1>1. /\ B \in [Nodes -> Builder]
      /\ \A m \in Nodes : B[m].last = builder[m].last
      /\ \A m \in Nodes, t \in Slots :
           B[m].slot[t] = IF m = Leader /\ t = s THEN v ELSE builder[m].slot[t]
  BY <1>0, WithSlot
<1> HIDE DEF B
<1>2. /\ builder' \in [Nodes -> Builder]
      /\ \A m \in Nodes : /\ builder'[m].last = IF m = Leader THEN x ELSE B[m].last
                          /\ builder'[m].slot = B[m].slot
  <2>1. CASE builder' = B /\ x = builder[Leader].last
    BY <1>0, <1>1, <2>1
  <2>2. CASE builder' = LastSet(B, Leader, x)
    <3>1. x \in 0..MaxBlocks \cup {None}
      BY <1>0, BlockNumbers
    <3> QED
      BY <1>0, <1>1, <2>2, <3>1, WithLast
  <2> QED
    BY <2>1, <2>2 DEF B
<1>3. Moves(Leader, s, v, x)
  BY <1>0, <1>1, <1>2 DEF Moves
<1>4. \A m \in Nodes : /\ builder'[m].last \in Blocks \cup {None}
                       /\ \A t \in Slots : builder'[m].slot[t] \in {builder[m].slot[t], v}
  BY <1>0, <1>1, <1>2 DEF BuilderOK
<1> QED
  BY <1>0, <1>2, <1>3, <1>4, SlotMoves

(* The heartbeat starts the timer, or the last block is broadcast again.   *)
LEMMA StubHeartbeat ==
  ASSUME StubInv, onLeaderHeartbeatTick
  PROVE  StubInv'
<1>0. StubOK /\ BuilderOK /\ Leader \in Nodes /\ tip[Leader] \in Blocks
  BY StubFacts DEF StubInv
<1>1. /\ made' = made /\ tip' = tip /\ syncing' = syncing /\ faults' = faults
      /\ heights' = heights /\ mishaps' = mishaps
      /\ \/ builder' = PollingSet(builder, Leader, TRUE) /\ msgs' = msgs
         \/ broadcastCommitBlock(tip[Leader]) /\ builder' = builder
  BY DEF onLeaderHeartbeatTick, PollingSet
<1>2. /\ builder' \in [Nodes -> Builder]
      /\ \A m \in Nodes : builder'[m].last = builder[m].last /\ builder'[m].slot = builder[m].slot
  <2>1. builder \in [Nodes -> Builder]
    BY <1>0 DEF BuilderOK, BuilderTypeOK
  <2>2. CASE builder' = PollingSet(builder, Leader, TRUE)
    BY <1>0, <2>1, <2>2, WithPolling
  <2> QED
    BY <1>1, <2>1, <2>2
<1>3. \A m \in msgs' : MessageOK(m) /\ (m \in msgs \/ m.block = tip[Leader])
  BY <1>0, <1>1, StubSends DEF StubOK
<1>4. BuilderOK'
  <2>1. tip' \in [Nodes -> Blocks] /\ syncing' \subseteq Nodes /\ FaultsOK
    BY <1>0, <1>1 DEF BuilderOK, BuilderTypeOK, FaultsOK
  <2>2. \A m \in Nodes : builder'[m].last \in Blocks \cup {None}
    BY <1>0, <1>2 DEF BuilderOK
  <2> QED
    BY <1>0, <1>1, <1>2, <2>1, <2>2, OtherStep
<1>5. StubOK'
  BY <1>0, <1>1, <1>3, <1>4, StubTypes DEF StubOK
<1>6. ASSUME NEW P, ServedOK(P)
      PROVE  ServedOK(P)'
  <2>1. \A m \in msgs' : m.type = "CommitBlock" => m.block \in Added(P)
    BY <1>3, <1>6 DEF ServedOK, TreeOK, Sent, Added
  <2>2. \A n \in Nodes : tip'[n] \in Added(P)
    BY <1>1, <1>6 DEF ServedOK, TreeOK
  <2> QED
    BY <1>0, <1>1, <1>2, <1>6, <2>1, <2>2, StubSame
<1> QED
  BY <1>1, <1>5, <1>6 DEF StubInv

(* The leader's call of appendNextBlock builds nothing.                    *)
LEMMA StubNothing ==
  ASSUME StubInv, NEW s \in Slots, LeaderBuildsNothing(s)
  PROVE  StubInv'
<1>0. StubOK /\ BuilderOK /\ Leader \in Nodes
  BY StubFacts DEF StubInv
<1>1. /\ NothingBuilt(Leader, s) /\ heights' = heights /\ msgs' = msgs /\ mishaps' = mishaps
      /\ made' = made /\ tip' = tip /\ slotOf(s).stage \in {"fetch", "build"}
  BY DEF LeaderBuildsNothing, NothingBuilt, slotOf
<1>2. BuilderOK' /\ Moves(Leader, s, IdleSlot, builder[Leader].last)
  BY <1>0, <1>1, NothingStep
<1>3. StubOK'
  BY <1>0, <1>1, <1>2, StubTypes DEF StubOK
<1>4. ASSUME NEW P, ServedOK(P)
      PROVE  ServedOK(P)'
  <2>1. /\ builder[Leader].last \in Added(P) \cup {None}
        /\ \A m \in msgs' : m.type = "CommitBlock" => m.block \in Added(P)
    BY <1>1, <1>4 DEF ServedOK, TreeOK, Sent
  <2>2. IdleSlot.stage = "idle"
    BY DEF IdleSlot
  <2> QED
    BY <1>0, <1>1, <1>2, <1>4, <2>1, <2>2, StubMoves
<1> QED
  BY <1>1, <1>3, <1>4 DEF StubInv

(* The leader's storage verifies the block that was built.                 *)
LEMMA StubBeginCommit ==
  ASSUME StubInv, NEW s \in Slots, BeginCommit(s)
  PROVE  StubInv'
<1> DEFINE b == slotOf(s).base
           v == [stage |-> "adding", base |-> b]
<1>0. /\ StubOK /\ BuilderOK /\ Leader \in Nodes /\ b \in Blocks
      /\ builder[Leader].last \in Blocks \cup {None}
  BY StubFacts DEF StubInv
<1>1. /\ slotOf(s).stage = "built" /\ made[b].prev = tip[Leader]
      /\ builder' = SlotSet(builder, Leader, s, v)
      /\ made' = made /\ tip' = tip /\ syncing' = syncing /\ faults' = faults
      /\ heights' = heights /\ msgs' = msgs /\ mishaps' = mishaps
  BY DEF BeginCommit, verifyNewBlock, slotOf, SetSlot, SlotSet
<1>2. v.stage = "adding" /\ v.base = b /\ v \in Slot
  BY <1>0, BlockNumbers DEF Slot
<1> HIDE DEF v
<1>3. BuilderOK' /\ Moves(Leader, s, v, builder[Leader].last)
  <2>1. tip' \in [Nodes -> Blocks] /\ syncing' \subseteq Nodes /\ FaultsOK
    BY <1>0, <1>1 DEF BuilderOK, BuilderTypeOK, FaultsOK
  <2> QED
    BY <1>0, <1>1, <1>2, <2>1, StubSet
<1>4. StubOK'
  BY <1>0, <1>1, <1>3, StubTypes DEF StubOK
<1>5. ASSUME NEW P, ServedOK(P)
      PROVE  ServedOK(P)'
  <2>1. /\ builder[Leader].last \in Added(P) \cup {None}
        /\ \A m \in msgs' : m.type = "CommitBlock" => m.block \in Added(P)
    BY <1>1, <1>5 DEF ServedOK, TreeOK, Sent
  <2>2. mishaps = {} => \A t \in Slots \ {s} : slotOf(t).stage = "idle"
    BY <1>1, <1>5 DEF ServedOK, AloneOK
  <2> QED
    BY <1>0, <1>1, <1>2, <1>3, <1>5, <2>1, <2>2, StubMoves
<1> QED
  BY <1>1, <1>4, <1>5 DEF StubInv

(* The storage has added the block.                                        *)
LEMMA StubEndCommit ==
  ASSUME StubInv, NEW s \in Slots, EndCommit(s)
  PROVE  StubInv'
<1> DEFINE b == slotOf(s).base
           v == [stage |-> "added", base |-> b]
<1>0. /\ StubOK /\ BuilderOK /\ Leader \in Nodes /\ b \in Blocks
      /\ builder[Leader].last \in Blocks \cup {None}
  BY StubFacts DEF StubInv
<1>1. /\ slotOf(s).stage = "adding" /\ tip' = [tip EXCEPT ![Leader] = b]
      /\ builder' = SlotSet(builder, Leader, s, v)
      /\ made' = made /\ syncing' = syncing /\ faults' = faults
      /\ heights' = heights /\ msgs' = msgs /\ mishaps' = mishaps
  BY DEF EndCommit, slotOf, SetSlot, SlotSet
<1>2. v.stage = "added" /\ v.base = b /\ v \in Slot
  BY <1>0, BlockNumbers DEF Slot
<1>3. BuilderOK' /\ Moves(Leader, s, v, builder[Leader].last)
  <2>1. tip' \in [Nodes -> Blocks] /\ syncing' \subseteq Nodes /\ FaultsOK
    BY <1>0, <1>1 DEF BuilderOK, BuilderTypeOK, FaultsOK
  <2> HIDE DEF v
  <2> QED
    BY <1>0, <1>1, <1>2, <2>1, StubSet
<1>4. StubOK'
  BY <1>0, <1>1, <1>3, StubTypes DEF StubOK
<1>5. ASSUME NEW P, ServedOK(P)
      PROVE  \E Q : ServedOK(Q)'
  <2>1. PICK Q : Q = Added(P)
    OBVIOUS
  <2>2. /\ builder'[Leader].last = builder[Leader].last
        /\ \A t \in Slots : slotOf(t)' = IF t = s THEN v ELSE slotOf(t)
    BY <1>0, <1>3 DEF Moves, slotOf
  <2>3. ServedOK(Q)'
    BY <1>0, <1>1, <1>5, <2>1, <2>2, StubGrows
  <2> QED
    BY <2>3
<1> QED
  BY <1>1, <1>4, <1>5 DEF StubInv

(* addBlock answers, and the block is broadcast.                           *)
LEMMA StubBroadcast ==
  ASSUME StubInv, NEW s \in Slots, Broadcast(s)
  PROVE  StubInv'
<1> DEFINE b == slotOf(s).base
<1>0. /\ StubOK /\ BuilderOK /\ Leader \in Nodes /\ b \in Blocks
      /\ IdleSlot \in Slot /\ IdleSlot.stage = "idle" /\ IdleSlot.base \in Blocks
  BY StubFacts, BlockNumbers DEF StubInv, IdleSlot, Slot
<1>1. /\ slotOf(s).stage = "added" /\ broadcastCommitBlock(b)
      /\ builder' = LastSet(SlotSet(builder, Leader, s, IdleSlot), Leader, b)
      /\ made' = made /\ tip' = tip /\ syncing' = syncing /\ faults' = faults
      /\ heights' = heights /\ mishaps' = mishaps
  BY DEF Broadcast, slotOf, SetSlot, SlotSet, LastSet, IdleSlot
<1>2. BuilderOK' /\ Moves(Leader, s, IdleSlot, b)
  <2>1. tip' \in [Nodes -> Blocks] /\ syncing' \subseteq Nodes /\ FaultsOK
    BY <1>0, <1>1 DEF BuilderOK, BuilderTypeOK, FaultsOK
  <2> HIDE DEF b
  <2> QED
    BY <1>0, <1>1, <2>1, StubSet
<1>3. \A m \in msgs' : MessageOK(m) /\ (m \in msgs \/ m.block = b)
  BY <1>0, <1>1, StubSends DEF StubOK
<1>4. StubOK'
  BY <1>0, <1>1, <1>2, <1>3, StubTypes DEF StubOK
<1>5. ASSUME NEW P, ServedOK(P)
      PROVE  ServedOK(P)'
  <2>1. b \in Added(P) /\ (mishaps = {} => b = tip[Leader])
    BY <1>1, <1>5 DEF ServedOK, SlotsOK, AloneOK
  <2>2. \A m \in msgs' : m.type = "CommitBlock" => m.block \in Added(P)
    BY <1>3, <1>5, <2>1 DEF ServedOK, TreeOK, Sent
  <2> HIDE DEF b
  <2> QED
    BY <1>0, <1>1, <1>2, <1>5, <2>1, <2>2, StubMoves
<1> QED
  BY <1>1, <1>4, <1>5 DEF StubInv

(* The storage does not add the block, and it is broadcast all the same.   *)
LEMMA StubNotAdded ==
  ASSUME StubInv, NEW s \in Slots, BroadcastNotAdded(s)
  PROVE  StubInv'
<1> DEFINE b == slotOf(s).base
           x == IF Leader \in syncing THEN b ELSE builder[Leader].last
<1>0. /\ StubOK /\ BuilderOK /\ Leader \in Nodes /\ b \in Blocks
      /\ builder[Leader].last \in Blocks \cup {None}
      /\ IdleSlot \in Slot /\ IdleSlot.stage = "idle" /\ IdleSlot.base \in Blocks
  BY StubFacts, BlockNumbers DEF StubInv, IdleSlot, Slot
<1>1. /\ broadcastCommitBlock(b)
      /\ made' = made /\ tip' = tip /\ syncing' = syncing
      /\ heights' = heights /\ mishaps' = mishaps \cup {"not added"}
  BY DEF BroadcastNotAdded, slotOf
<1>2. builder' = LastSet(SlotSet(builder, Leader, s, IdleSlot), Leader, x)
  <2>1. /\ builder' = [SlotSet(builder, Leader, s, IdleSlot)
                       EXCEPT ![Leader].last = IF Leader \in syncing THEN b ELSE @]
        /\ builder \in [Nodes -> Builder]
    BY <1>0 DEF BroadcastNotAdded, slotOf, SetSlot, SlotSet, IdleSlot,
                           BuilderOK, BuilderTypeOK
  <2>2. /\ SlotSet(builder, Leader, s, IdleSlot)[Leader].last = builder[Leader].last
    BY <1>0, <2>1, WithSlot
  <2> HIDE DEF b
  <2> QED
    BY <2>1, <2>2 DEF LastSet
<1>3. x \in Blocks \cup {None}
  BY <1>0
<1> HIDE DEF x
<1>4. BuilderOK' /\ Moves(Leader, s, IdleSlot, x)
  <2>1. tip' \in [Nodes -> Blocks] /\ syncing' \subseteq Nodes
    BY <1>0, <1>1 DEF BuilderOK, BuilderTypeOK
  <2>2. FaultsOK
    <3>1. faults \in 0..MaxFaults /\ MaxFaults \in Nat
      BY <1>0, BuilderAssumption DEF BuilderOK, BuilderTypeOK
    <3>2. faults' = faults \/ (faults < MaxFaults /\ faults' = faults + 1)
      BY DEF BroadcastNotAdded
    <3> QED
      BY <3>1, <3>2 DEF FaultsOK
  <2> QED
    BY <1>0, <1>1, <1>2, <1>3, <2>1, <2>2, StubSet
<1>5. \A m \in msgs' : MessageOK(m) /\ (m \in msgs \/ m.block = b)
  BY <1>0, <1>1, StubSends DEF StubOK
<1>6. StubOK'
  BY <1>0, <1>1, <1>4, <1>5, StubTypes DEF StubOK, StubMishaps
<1> QED
  BY <1>1, <1>6 DEF StubInv

(* The leader starts again; a block that its storage was adding gets there *)
(* or not.                                                                 *)
LEMMA StubRestart ==
  ASSUME StubInv, LeaderRestarts
  PROVE  StubInv'
<1>0. /\ StubOK /\ BuilderOK /\ Leader \in Nodes /\ builder \in [Nodes -> Builder]
      /\ IdleSlot \in Slot /\ IdleSlot.stage = "idle" /\ IdleSlot.base \in Blocks
      /\ tip \in [Nodes -> Blocks] /\ syncing \subseteq Nodes
      /\ \A s \in Slots : slotOf(s).base \in Blocks
  BY StubFacts, BlockNumbers DEF StubInv, IdleSlot, Slot, BuilderOK, BuilderTypeOK
<1>1. /\ builder' = [builder EXCEPT ![Leader] = NewBuilder] /\ UseFault(TRUE)
      /\ heights' = [p \in Peers |-> None]
      /\ made' = made /\ syncing' = syncing /\ msgs' = msgs /\ mishaps' = mishaps
      /\ \/ tip' = tip
         \/ \E s \in Slots : /\ slotOf(s).stage = "adding"
                             /\ tip' = [tip EXCEPT ![Leader] = slotOf(s).base]
  BY DEF LeaderRestarts, slotOf
<1>2. /\ NewBuilder \in Builder /\ NewBuilder.last = None
      /\ \A t \in Slots : NewBuilder.slot[t] = IdleSlot
  BY <1>0 DEF NewBuilder, Builder
<1>3. /\ builder' \in [Nodes -> Builder]
      /\ \A m \in Nodes : builder'[m] = IF m = Leader THEN NewBuilder ELSE builder[m]
  BY <1>0, <1>1, <1>2
<1>4. BuilderOK'
  <2>1. tip' \in [Nodes -> Blocks] /\ syncing' \subseteq Nodes
    BY <1>0, <1>1
  <2>2. FaultsOK
    BY <1>0, <1>1, Faults
  <2>3. \A m \in Nodes : /\ builder'[m].last \in Blocks \cup {None}
                         /\ \A t \in Slots : builder'[m].slot[t] \in {builder[m].slot[t], IdleSlot}
    BY <1>0, <1>2, <1>3 DEF BuilderOK
  <2> QED
    BY <1>0, <1>1, <1>3, <2>1, <2>2, <2>3, SlotMoves
<1>5. StubOK'
  <2>1. heights' \in [Peers -> 0..MaxHeight \cup {None}]
    BY <1>1
  <2> QED
    BY <1>0, <1>1, <1>4, <2>1, StubTypes DEF StubOK
<1>6. builder'[Leader].last = None /\ \A t \in Slots : slotOf(t)' = IdleSlot
  BY <1>0, <1>2, <1>3 DEF slotOf
<1>7. ASSUME NEW P, ServedOK(P), tip' = tip
      PROVE  ServedOK(P)'
  <2>1. /\ Added(P)' = Added(P) /\ Blocks' = Blocks
        /\ \A b : (OnParent(b)' <=> OnParent(b)) /\ ChainOf(b)' = ChainOf(b)
    BY <1>1, <1>7, ChainOfIs DEF Added, OnParent, Blocks
  <2>2. TreeOK(P)'
    BY <1>1, <1>6, <1>7, <2>1 DEF ServedOK, TreeOK, Sent
  <2>3. SlotsOK(P)'
    BY <1>0, <1>6 DEF SlotsOK, Fresh
  <2>4. mishaps' = {} => AloneOK(P)'
    BY <1>0, <1>1, <1>6, <1>7, <2>1 DEF ServedOK, AloneOK
  <2> QED
    BY <2>2, <2>3, <2>4 DEF ServedOK
<1>8. ASSUME NEW P, ServedOK(P), NEW s \in Slots, slotOf(s).stage = "adding",
             tip' = [tip EXCEPT ![Leader] = slotOf(s).base]
      PROVE  \E Q : ServedOK(Q)'
  <2>1. PICK Q : Q = Added(P)
    OBVIOUS
  <2>2. ServedOK(Q)'
    BY <1>0, <1>1, <1>6, <1>8, <2>1, StubGrows
  <2> QED
    BY <2>2
<1> QED
  BY <1>1, <1>5, <1>7, <1>8 DEF StubInv

(* A node takes a block and reports its height.                            *)
LEMMA StubTakes ==
  ASSUME StubInv, NEW m \in msgs, OnCommitBlock(m)
  PROVE  StubInv'
<1>0. /\ StubOK /\ BuilderOK /\ Leader \in Nodes /\ builder \in [Nodes -> Builder]
      /\ tip \in [Nodes -> Blocks] /\ syncing \subseteq Nodes
      /\ \A b \in Blocks : HeightOf(b) \in 0..MaxHeight
  BY StubFacts DEF StubInv, BuilderOK, BuilderTypeOK
<1> DEFINE h == HeightOf(tip'[m.to])
<1>1. PICK ok \in BOOLEAN, fault \in BOOLEAN : addBlock(m.to, m.block, ok, fault) /\ UseFault(fault)
  BY DEF OnCommitBlock
<1>2. /\ made' = made /\ syncing' = syncing /\ builder' = builder /\ heights' = heights
      /\ mishaps' = mishaps /\ m.type = "CommitBlock"
      /\ msgs' = (msgs \ {m}) \cup {MyLastBlockHeight(m.to, h)}
  BY DEF OnCommitBlock
<1>3. m.to \in Peers /\ m.to \in Nodes /\ m.to # Leader /\ m.block \in Blocks
  BY <1>0, <1>2 DEF StubOK, MessageOK, CommitBlock, MyLastBlockHeight, Peers
<1>4. /\ tip' \in [Nodes -> Blocks] /\ tip'[Leader] = tip[Leader]
      /\ \A n \in Nodes : tip'[n] \in {tip[n], m.block}
  BY <1>0, <1>1, <1>3 DEF addBlock
<1>5. h \in 0..MaxHeight
  BY <1>0, <1>3, <1>4
<1> HIDE DEF h
<1>6. \A r \in msgs' : MessageOK(r) /\ (r \in msgs \/ r.type # "CommitBlock")
  <2>1. MessageOK(MyLastBlockHeight(m.to, h))
    BY <1>3, <1>5 DEF MessageOK
  <2>2. MyLastBlockHeight(m.to, h).type # "CommitBlock"
    BY DEF MyLastBlockHeight
  <2> QED
    BY <1>0, <1>2, <2>1, <2>2 DEF StubOK
<1>7. BuilderOK'
  <2>1. FaultsOK
    BY <1>0, <1>1, Faults
  <2>2. \A n \in Nodes : builder[n].last \in Blocks \cup {None}
    BY <1>0 DEF BuilderOK
  <2> QED
    BY <1>0, <1>2, <1>4, <2>1, <2>2, OtherStep
<1>8. StubOK'
  BY <1>0, <1>2, <1>6, <1>7, StubTypes DEF StubOK
<1>9. ASSUME NEW P, ServedOK(P)
      PROVE  ServedOK(P)'
  <2>1. \A r \in msgs : r.type = "CommitBlock" => r.block \in Added(P)
    BY <1>9 DEF ServedOK, TreeOK, Sent
  <2>2. \A n \in Nodes : tip'[n] \in Added(P)
    BY <1>2, <1>4, <1>9, <2>1 DEF ServedOK, TreeOK
  <2>3. \A r \in msgs' : r.type = "CommitBlock" => r.block \in Added(P)
    BY <1>6, <2>1
  <2> QED
    BY <1>0, <1>2, <1>4, <1>9, <2>2, <2>3, StubSame
<1> QED
  BY <1>2, <1>8, <1>9 DEF StubInv

(* The leader hears a height, or a message is lost.                        *)
LEMMA StubHears ==
  ASSUME StubInv, NEW m \in msgs, OnMyLastBlockHeight(m) \/ LoseMessage(m)
  PROVE  StubInv'
<1>0. /\ StubOK /\ BuilderOK /\ Leader \in Nodes /\ builder \in [Nodes -> Builder]
      /\ tip \in [Nodes -> Blocks] /\ syncing \subseteq Nodes
      /\ faults \in 0..MaxFaults /\ MaxFaults \in Nat
  BY StubFacts, BuilderAssumption DEF StubInv, BuilderOK, BuilderTypeOK
<1>1. /\ made' = made /\ tip' = tip /\ syncing' = syncing /\ builder' = builder
      /\ mishaps' = mishaps /\ msgs' = msgs \ {m}
      /\ faults' = faults \/ (faults < MaxFaults /\ faults' = faults + 1)
  BY DEF OnMyLastBlockHeight, LoseMessage
<1>2. heights' \in [Peers -> 0..MaxHeight \cup {None}]
  <2>1. CASE LoseMessage(m)
    BY <1>0, <2>1 DEF LoseMessage, StubOK
  <2>2. CASE OnMyLastBlockHeight(m)
    <3>1. m.height \in 0..MaxHeight
      BY <1>0, <2>2 DEF StubOK, MessageOK, CommitBlock, MyLastBlockHeight,
                        OnMyLastBlockHeight
    <3> QED
      BY <1>0, <2>2, <3>1 DEF OnMyLastBlockHeight, StubOK
  <2> QED
    BY <2>1, <2>2
<1>3. BuilderOK'
  <2>1. FaultsOK
    BY <1>0, <1>1 DEF FaultsOK
  <2>2. \A n \in Nodes : builder[n].last \in Blocks \cup {None}
    BY <1>0 DEF BuilderOK
  <2> QED
    BY <1>0, <1>1, <2>1, <2>2, OtherStep
<1>4. StubOK'
  BY <1>0, <1>1, <1>2, <1>3, StubTypes DEF StubOK
<1>5. ASSUME NEW P, ServedOK(P)
      PROVE  ServedOK(P)'
  BY <1>0, <1>1, <1>5, StubSame DEF ServedOK, TreeOK, Sent
<1> QED
  BY <1>1, <1>4, <1>5 DEF StubInv

(* The block sync of the leader's storage begins or ends.                  *)
LEMMA StubSyncs ==
  ASSUME StubInv, LeaderSyncs
  PROVE  StubInv'
<1>0. /\ StubOK /\ BuilderOK /\ Leader \in Nodes /\ builder \in [Nodes -> Builder]
      /\ tip \in [Nodes -> Blocks] /\ syncing \subseteq Nodes /\ faults \in 0..MaxFaults
  BY StubFacts DEF StubInv, BuilderOK, BuilderTypeOK
<1>1. /\ made' = made /\ tip' = tip /\ builder' = builder
      /\ heights' = heights /\ msgs' = msgs /\ mishaps' = mishaps
      /\ syncing' \subseteq Nodes /\ faults' = faults
  BY <1>0 DEF LeaderSyncs, StartSync, EndSync
<1>2. BuilderOK'
  <2>1. \A n \in Nodes : builder[n].last \in Blocks \cup {None}
    BY <1>0 DEF BuilderOK
  <2> QED
    BY <1>0, <1>1, <2>1, OtherStep DEF FaultsOK
<1>3. StubOK'
  BY <1>0, <1>1, <1>2, StubTypes DEF StubOK
<1>4. ASSUME NEW P, ServedOK(P)
      PROVE  ServedOK(P)'
  BY <1>0, <1>1, <1>4, StubSame DEF ServedOK, TreeOK, Sent
<1> QED
  BY <1>1, <1>3, <1>4 DEF StubInv

(* The blocks that were added are closed under parents: every chain of     *)
(* them is among them.                                                     *)
LEMMA AddedChains ==
  ASSUME StubOK, NEW P, TreeOK(P)
  PROVE  \A c \in Added(P) : ChainOf(c) \subseteq Added(P)
<1>1. /\ ParentsBefore(made) /\ Blocks = 0..Len(made) /\ tip[Leader] \in Blocks
  BY StubFacts DEF StubOK, Blocks
<1>2. Added(P) \in SUBSET (0..Len(made))
  BY <1>1 DEF TreeOK, Added
<1>3. \A c \in Added(P) : c # 0 => made[c].prev \in Added(P)
  BY DEF TreeOK, Added
<1>4. \A c \in Added(P) : Chains(made)[c] \subseteq Added(P)
  BY <1>1, <1>2, <1>3, ChainClosed
<1> QED
  BY <1>4, ChainOfIs

(* A peer sends a block.  The leader has them all.                         *)
LEMMA StubReceives ==
  ASSUME StubInv, NEW n \in Nodes, ReceiveBlock(n)
  PROVE  StubInv'
<1>0. /\ StubOK /\ BuilderOK /\ Leader \in Nodes /\ builder \in [Nodes -> Builder]
      /\ tip \in [Nodes -> Blocks] /\ syncing \subseteq Nodes /\ faults \in 0..MaxFaults
  BY StubFacts DEF StubInv, BuilderOK, BuilderTypeOK
<1>1. PICK m \in Nodes : SyncBlock(n, m)
  BY DEF ReceiveBlock
<1>2. PICK b \in Blocks \ {0} :
        b \in ChainOf(tip[m]) /\ made[b].prev = tip[n] /\ tip' = [tip EXCEPT ![n] = b]
  BY <1>1 DEF SyncBlock, verifyNewBlock
<1>3. /\ made' = made /\ builder' = builder /\ syncing' = syncing /\ faults' = faults
      /\ heights' = heights /\ msgs' = msgs /\ mishaps' = mishaps
      /\ tip' \in [Nodes -> Blocks]
  BY <1>0, <1>1, <1>2 DEF ReceiveBlock, SyncBlock
<1>4. BuilderOK'
  <2>1. \A i \in Nodes : builder[i].last \in Blocks \cup {None}
    BY <1>0 DEF BuilderOK
  <2> QED
    BY <1>0, <1>3, <2>1, OtherStep DEF FaultsOK
<1>5. StubOK'
  BY <1>0, <1>3, <1>4, StubTypes DEF StubOK
<1>6. ASSUME NEW P, ServedOK(P)
      PROVE  ServedOK(P)'
  <2>1. TreeOK(P) /\ tip[m] \in Added(P)
    BY <1>6 DEF ServedOK, TreeOK
  <2>2. b \in Added(P)
    BY <1>0, <1>2, <2>1, AddedChains
  <2>3. n # Leader
    BY <1>2, <2>1, <2>2 DEF TreeOK
  <2>4. tip'[Leader] = tip[Leader] /\ \A i \in Nodes : tip'[i] \in Added(P)
    BY <1>0, <1>2, <2>1, <2>2, <2>3 DEF TreeOK
  <2>5. \A i \in msgs' : i.type = "CommitBlock" => i.block \in Added(P)
    BY <1>3, <2>1 DEF TreeOK, Sent
  <2> QED
    BY <1>0, <1>3, <1>6, <2>4, <2>5, StubSame
<1> QED
  BY <1>3, <1>5, <1>6 DEF StubInv

(* Nothing was added when the system starts.                               *)
LEMMA StubInvInit == StubInit => StubInv
<1> SUFFICES ASSUME StubInit PROVE StubInv
  OBVIOUS
<1>1. /\ made = <<>> /\ tip = [n \in Nodes |-> 0] /\ faults = 0 /\ mishaps = {} /\ msgs = {}
      /\ builder = [n \in Nodes |-> NewBuilder] /\ syncing = Peers
      /\ heights = [p \in Peers |-> None]
  BY DEF StubInit, BuilderInit
<1>2. /\ Leader \in Nodes /\ MaxBlocks \in Nat /\ MaxFaults \in Nat
  BY StubAssumption DEF StubAssumption, BuilderAssumption
<1>3. Len(made) = 0 /\ Blocks = {0} /\ made \in Seq(Block)
  BY <1>1 DEF Blocks
<1>4. ParentsBefore(made)
  BY <1>3 DEF ParentsBefore
<1>5. /\ NewBuilder \in Builder /\ NewBuilder.last = None
      /\ \A t \in Slots : NewBuilder.slot[t] = IdleSlot
  BY <1>2 DEF NewBuilder, Builder, IdleSlot, Slot
<1>6. BuilderOK
  <2>1. BuilderTypeOK
    BY <1>1, <1>2, <1>3, <1>5 DEF BuilderTypeOK, Peers
  <2> QED
    BY <1>1, <1>3, <1>5, <2>1 DEF BuilderOK, IdleSlot
<1>7. StubOK
  BY <1>1, <1>4, <1>6 DEF StubOK
<1>8. ServedOK({})
  <2>1. /\ Added({}) = {0} /\ tip[Leader] = 0
        /\ \A s \in Slots : slotOf(s) = IdleSlot
        /\ builder[Leader].last = None
    BY <1>1, <1>2, <1>5 DEF Added, slotOf
  <2>2. TreeOK({})
    BY <1>1, <2>1 DEF TreeOK, Sent
  <2>3. SlotsOK({})
    BY <2>1 DEF SlotsOK, Fresh, IdleSlot
  <2>4. ChainOf(0) = {0}
    BY <1>4, ChainEquation, ChainOfIs
  <2>5. AloneOK({})
    BY <2>1, <2>4 DEF AloneOK, IdleSlot
  <2> QED
    BY <2>2, <2>3, <2>5 DEF ServedOK
<1> QED
  BY <1>7, <1>8 DEF StubInv

(* Every step keeps the invariant.                                         *)
LEMMA StubInvStep == StubInv /\ [StubNext]_stubVars => StubInv'
<1> SUFFICES ASSUME StubInv, [StubNext]_stubVars PROVE StubInv'
  OBVIOUS
<1>1. CASE onLeaderHeartbeatTick \/ LeaderRestarts \/ LeaderSyncs
  BY <1>1, StubHeartbeat, StubRestart, StubSyncs
<1>2. ASSUME NEW s \in Slots, LeaderPolls(s) \/ LeaderBuilds(s) \/ LeaderBuildsNothing(s)
      PROVE  StubInv'
  BY <1>2, StubPoll, StubBuild, StubNothing
<1>3. ASSUME NEW s \in Slots, Commit(s) \/ BroadcastNotAdded(s)
      PROVE  StubInv'
  BY <1>3, StubBeginCommit, StubEndCommit, StubBroadcast, StubNotAdded DEF Commit
<1>4. ASSUME NEW m \in msgs, Deliver(m) \/ LoseMessage(m)
      PROVE  StubInv'
  BY <1>4, StubTakes, StubHears DEF Deliver
<1>5. ASSUME NEW n \in Nodes, ReceiveBlock(n)
      PROVE  StubInv'
  BY <1>5, StubReceives
<1>6. CASE UNCHANGED stubVars
  <2>1. /\ made' = made /\ tip' = tip /\ syncing' = syncing /\ builder' = builder
        /\ faults' = faults /\ heights' = heights /\ msgs' = msgs /\ mishaps' = mishaps
    BY <1>6 DEF stubVars
  <2>2. StubOK /\ BuilderOK /\ Leader \in Nodes
    BY StubFacts DEF StubInv
  <2>3. BuilderOK'
    <3>1. /\ builder \in [Nodes -> Builder] /\ tip \in [Nodes -> Blocks] /\ syncing \subseteq Nodes
          /\ faults \in 0..MaxFaults /\ \A n \in Nodes : builder[n].last \in Blocks \cup {None}
      BY <2>2 DEF BuilderOK, BuilderTypeOK
    <3> QED
      BY <2>1, <2>2, <3>1, OtherStep DEF FaultsOK
  <2>4. StubOK'
    BY <2>1, <2>2, <2>3, StubTypes DEF StubOK
  <2>5. ASSUME NEW P, ServedOK(P) PROVE ServedOK(P)'
    BY <2>1, <2>2, <2>5, StubSame DEF ServedOK, TreeOK, Sent
  <2> QED
    BY <2>1, <2>4, <2>5 DEF StubInv
<1> QED
  BY <1>1, <1>2, <1>3, <1>4, <1>5, <1>6 DEF StubNext

(* The invariant holds in every state of a behaviour of the stub           *)
(* consensus.                                                              *)
THEOREM StubInvariance == StubSpec => []StubInv
<1>1. StubInit => StubInv
  BY StubInvInit
<1>2. StubInv /\ [StubNext]_stubVars => StubInv'
  BY StubInvStep
<1> QED
  BY <1>1, <1>2, PTL DEF StubSpec

(* The variables of the stub consensus keep their types: no builder        *)
(* remembers, no storage serves and no message names a block that was not  *)
(* made, and no height is reported that no block has.                      *)
THEOREM StubTypeCorrect == StubSpec => []StubTypeOK
<1>1. StubInv => StubTypeOK
  <2> SUFFICES ASSUME StubInv PROVE StubTypeOK
    OBVIOUS
  <2>1. StubOK /\ BuilderOK /\ Blocks \subseteq 0..MaxBlocks
    BY StubFacts, BlockNumbers DEF StubInv
  <2>2. msgs \subseteq Message
    BY <2>1 DEF StubOK, MessageOK, Message
  <2>3. BuilderTypeOK
    BY <2>1 DEF BuilderOK
  <2> QED
    BY <2>1, <2>2, <2>3 DEF StubTypeOK, StubOK
<1> QED
  BY <1>1, StubInvariance, PTL

(* The blocks that the leader's storage added are one chain, and no node   *)
(* has another, unless two calls of appendNextBlock overlapped or the      *)
(* leader broadcast a block that its storage did not add: whatever else is *)
(* lost, late or started again does not fork the chain of the nodes.       *)
THEOREM StubForksOnlyByMishap == StubSpec => []ForkOnlyByMishap
<1>1. StubInv => ForkOnlyByMishap
  <2> SUFFICES ASSUME StubInv, mishaps = {}, NEW n \in Nodes, NEW m \in Nodes
               PROVE  tip[n] \in ChainOf(tip[m]) \/ tip[m] \in ChainOf(tip[n])
    BY DEF ForkOnlyByMishap, Forked
  <2>1. StubOK /\ ParentsBefore(made) /\ tip[Leader] \in 0..Len(made)
    BY StubFacts DEF StubInv, StubOK, Blocks
  <2>2. PICK P : ServedOK(P)
    BY DEF StubInv
  <2>3. tip[n] \in ChainOf(tip[Leader]) /\ tip[m] \in ChainOf(tip[Leader])
    BY <2>2 DEF ServedOK, TreeOK, AloneOK
  <2> QED
    BY <2>1, <2>3, ChainLinear, ChainOfIs
<1> QED
  BY <1>1, StubInvariance, PTL

(* The diff of every block on a node's chain was computed on the state     *)
(* after its parent, also when calls of appendNextBlock overlapped, unless *)
(* the leader broadcast a block that its storage did not add.              *)
THEOREM StubWrongStateOnlyIfNotAdded == StubSpec => []WrongStateOnlyIfNotAdded
<1>1. StubInv => WrongStateOnlyIfNotAdded
  <2> SUFFICES ASSUME StubInv, "not added" \notin mishaps,
                      NEW n \in Nodes, NEW b \in ChainOf(tip[n]) \ {0}
               PROVE  made[b].on = made[b].prev
    BY DEF WrongStateOnlyIfNotAdded, WrongState
  <2>1. PICK P : ServedOK(P)
    BY DEF StubInv
  <2>2. StubOK /\ TreeOK(P) /\ tip[n] \in Added(P)
    BY <2>1 DEF StubInv, ServedOK, TreeOK
  <2>3. b \in Added(P) \ {0}
    BY <2>2, AddedChains
  <2> QED
    BY <2>2, <2>3 DEF TreeOK, OnParent
<1> QED
  BY <1>1, StubInvariance, PTL

(* What the leader's builder remembers is the last block of its storage,   *)
(* or the storage has just added the next, unless one of the two mishaps   *)
(* happened: a restart, a sync or a lost message does not leave it behind. *)
THEOREM StubBuilderFollowsStorage == StubSpec => []BuilderFollowsStorage
<1>1. StubInv => BuilderFollowsStorage
  <2> SUFFICES ASSUME StubInv, mishaps = {}, builder[Leader].last \notin {None, tip[Leader]}
               PROVE  \E s \in Slots : builder[Leader].slot[s].stage = "added"
    BY DEF BuilderFollowsStorage, Stale
  <2>1. PICK P : ServedOK(P)
    BY DEF StubInv
  <2> QED
    BY <2>1 DEF ServedOK, AloneOK, slotOf
<1> QED
  BY <1>1, StubInvariance, PTL

(* A storage whose last block becomes one that follows it serves what it   *)
(* has served.                                                             *)
LEMMA NextBlockFollows ==
  ASSUME StubOK, made' = made, NEW n \in Nodes, NEW b \in Blocks \ {0},
         made[b].prev = tip[n], tip' = [tip EXCEPT ![n] = b]
  PROVE  \A i \in Nodes : tip[i] \in ChainOf(tip'[i])
<1>1. /\ tip \in [Nodes -> Blocks] /\ Blocks = 0..Len(made) /\ Len(made) \in Nat
      /\ ParentsBefore(made)
  BY StubFacts, BlockNumbers DEF StubOK, BuilderOK, BuilderTypeOK, Blocks
<1>2. tip[n] \in ChainOf(b)
  <2>1. b \in 1..Len(made)
    BY <1>1
  <2> QED
    BY <1>1, <2>1, ParentOnChain, ChainOfIs
<1>3. ASSUME NEW i \in Nodes, i # n PROVE tip[i] \in ChainOf(tip'[i])
  <2>1. tip'[i] = tip[i] /\ tip[i] \in 0..Len(made)
    BY <1>1, <1>3
  <2> QED
    BY <1>1, <2>1, ChainMembers, ChainOfIs
<1> QED
  BY <1>1, <1>2, <1>3

(* A node takes the block of a message only if it follows its last one.    *)
LEMMA MessageFollows ==
  ASSUME StubOK, NEW m \in msgs, OnCommitBlock(m)
  PROVE  tip' = tip \/ \A n \in Nodes : tip[n] \in ChainOf(tip'[n])
<1>1. m.type = "CommitBlock" /\ made' = made
  BY DEF OnCommitBlock
<1>2. m.to \in Nodes /\ m.block \in Blocks
  BY <1>1 DEF StubOK, MessageOK, CommitBlock, MyLastBlockHeight, Peers
<1>3. PICK ok \in BOOLEAN, fault \in BOOLEAN : addBlock(m.to, m.block, ok, fault)
  BY DEF OnCommitBlock
<1>4. CASE tip' = tip
  BY <1>4
<1>5. CASE /\ m.block # 0 /\ made[m.block].prev = tip[m.to]
           /\ tip' = [tip EXCEPT ![m.to] = m.block]
  BY <1>1, <1>2, <1>5, NextBlockFollows
<1> QED
  BY <1>3, <1>4, <1>5 DEF addBlock, verifyNewBlock

(* What the leader's storage has been adding follows its last block, when  *)
(* no two calls of appendNextBlock are under way.                          *)
LEMMA AddingFollows ==
  ASSUME StubInv, mishaps = {}, NEW s \in Slots, slotOf(s).stage = "adding"
  PROVE  slotOf(s).base \in Blocks \ {0} /\ made[slotOf(s).base].prev = tip[Leader]
<1>1. "not added" \notin mishaps /\ slotOf(s).base \in Blocks
  BY StubFacts DEF StubInv
<1>2. PICK P : ServedOK(P)
  BY <1>1 DEF StubInv
<1>3. slotOf(s).base # 0
  BY <1>2 DEF ServedOK, SlotsOK, Fresh, FreshOK
<1> QED
  BY <1>1, <1>2, <1>3 DEF ServedOK, AloneOK

(* No step takes a served block away.                                      *)
LEMMA ServedStep ==
  ASSUME StubInv, [StubNext]_stubVars, mishaps = {}, NEW n \in Nodes
  PROVE  tip[n] \in ChainOf(tip'[n])
<1> DEFINE Stays == \A i \in Nodes : tip[i] \in ChainOf(tip'[i])
<1>0. StubOK /\ Leader \in Nodes
  BY StubFacts DEF StubInv
<1>1. ASSUME tip' = tip PROVE Stays
  <2>1. \A i \in Nodes : tip[i] \in 0..Len(made)
    BY <1>0, StubFacts DEF Blocks
  <2>2. ParentsBefore(made)
    BY <1>0 DEF StubOK
  <2> QED
    BY <1>1, <2>1, <2>2, ChainMembers, ChainOfIs
<1>2. ASSUME NEW s \in Slots, slotOf(s).stage = "adding", made' = made,
             tip' = [tip EXCEPT ![Leader] = slotOf(s).base]
      PROVE  Stays
  BY <1>0, <1>2, AddingFollows, NextBlockFollows
<1>3. ASSUME onLeaderHeartbeatTick \/ LeaderSyncs \/ UNCHANGED stubVars PROVE Stays
  BY <1>1, <1>3 DEF onLeaderHeartbeatTick, LeaderSyncs, StartSync, EndSync, stubVars
<1>4. ASSUME LeaderRestarts PROVE Stays
  BY <1>1, <1>2, <1>4 DEF LeaderRestarts, slotOf
<1>5. ASSUME NEW s \in Slots,
             \/ LeaderPolls(s) \/ LeaderBuilds(s) \/ LeaderBuildsNothing(s)
             \/ Commit(s) \/ BroadcastNotAdded(s)
      PROVE  Stays
  <2>1. CASE EndCommit(s)
    BY <1>2, <2>1 DEF EndCommit, slotOf
  <2>2. CASE ~ EndCommit(s)
    BY <1>1, <1>5, <2>2
       DEF LeaderPolls, PollForPendingTransactions, LeaderBuilds, getOrFetchLastBlock,
           buildBlockFromPendingTransactions, LeaderBuildsNothing, NothingBuilt, Commit,
           BeginCommit, Broadcast, BroadcastNotAdded
  <2> QED
    BY <2>1, <2>2
<1>6. ASSUME NEW m \in msgs, Deliver(m) \/ LoseMessage(m)
      PROVE  Stays
  BY <1>0, <1>1, <1>6, MessageFollows DEF Deliver, OnMyLastBlockHeight, LoseMessage
<1>7. ASSUME NEW i \in Nodes, ReceiveBlock(i)
      PROVE  Stays
  <2>1. PICK m \in Nodes : SyncBlock(i, m)
    BY <1>7 DEF ReceiveBlock
  <2>2. PICK b \in Blocks \ {0} : made[b].prev = tip[i] /\ tip' = [tip EXCEPT ![i] = b]
    BY <2>1 DEF SyncBlock, verifyNewBlock
  <2>3. made' = made
    BY <2>1 DEF SyncBlock
  <2> QED
    BY <1>0, <2>2, <2>3, NextBlockFollows
<1>8. StubNext \/ UNCHANGED stubVars
  OBVIOUS
<1> HIDE DEF Stays
<1>9. Stays
  BY <1>3, <1>4, <1>5, <1>6, <1>7, <1>8 DEF StubNext
<1> QED
  BY <1>9 DEF Stays

(* The storage of no node replaces a block it serves, unless two calls of  *)
(* appendNextBlock overlapped or the leader broadcast a block that its     *)
(* storage did not add: the leader's storage has verified what it adds     *)
(* long before, and it still follows its last block when it is served.     *)
THEOREM StubServedBlocksStay == StubSpec => ServedBlocksStay
<1>1. StubInv /\ [StubNext]_stubVars
        => (mishaps = {} => \A n \in Nodes : tip[n] \in ChainOf(tip'[n]))
  BY ServedStep
<1> QED
  BY <1>1, StubInvariance, PTL DEF StubSpec, ServedBlocksStay
=============================================================================
