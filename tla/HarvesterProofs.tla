--------------------------- MODULE HarvesterProofs ---------------------------
(***************************************************************************)
(* Theorems about Harvester, for every value of its constants.             *)
(***************************************************************************)
EXTENDS Harvester, TLAPS

\* The best chain is a path of the tree: a block of each number up to the tip,
\* each on its parent.
LEMMA BestIsPath ==
  ASSUME ChainTypeOK
  PROVE  /\ best \in [0 .. tip -> Block]
         /\ \A i \in 0 .. tip : /\ Number[best[i]] = i
                                /\ i > 0 => Parent[best[i]] = best[i - 1]
<1>1. PICK n \in 0 .. MaxHeight :
        /\ best \in [0 .. n -> Block]
        /\ \A i \in 0 .. n : /\ Number[best[i]] = i
                             /\ i > 0 => Parent[best[i]] = best[i - 1]
  BY ChainAssumption DEF ChainTypeOK, ChainAssumption
<1>2. 0 .. n = 0 .. tip
  BY <1>1 DEF ChainTypeOK
<1>3. QED  BY <1>1, <1>2

\* What the node answers to a number is null or its block of that number.
LEMMA BlockHashOfNumber ==
  ASSUME ChainTypeOK, NEW n
  PROVE  /\ BlockHash(n) \in Block \cup {NoBlock}
         /\ BlockHash(n) # NoBlock => /\ BlockHash(n) \in Block
                                      /\ n \in 0 .. tip
                                      /\ Number[BlockHash(n)] = n
BY BestIsPath DEF BlockHash, ChainTypeOK

\* The node keeps the type of its view.
LEMMA NodeType ==
  ASSUME ChainTypeOK, ChainNext
  PROVE  ChainTypeOK'
<1>1. CASE Import
  BY <1>1, ChainAssumption DEF Import, ChainTypeOK, Height, ChainAssumption
<1>2. CASE Finalize
  BY <1>2, ChainAssumption DEF Finalize, ChainTypeOK, Height, ChainAssumption
<1>3. QED  BY <1>1, <1>2 DEF ChainNext

\* The number the integrity checks run up to is a height.
LEMMA FinalNumberType ==
  ASSUME ChainTypeOK
  PROVE  FinalNumber \in Height
BY ChainAssumption, HarvesterAssumption
DEF ChainTypeOK, FinalNumber, Max2, Height, ChainAssumption, HarvesterAssumption

\* What is left of a call is a call.
LEMMA RestType ==
  ASSUME NEW t \in AccumulateTask
  PROVE  Rest(t) \subseteq AccumulateTask
BY ChainAssumption, HarvesterAssumption
DEF AccumulateTask, Rest, Height, ChainAssumption, HarvesterAssumption

\* start_harvester queues calls on blocks of the node.
LEMMA StartTasksType ==
  ASSUME ChainTypeOK
  PROVE  GapTasks \cup {HeadTask} \subseteq AccumulateTask
<1>1. HeadTask \in AccumulateTask
  BY BestIsPath, HarvesterAssumption, ChainAssumption
  DEF HeadTask, StartHash, AccumulateTask, ChainTypeOK, Height, HarvesterAssumption,
      ChainAssumption
<1>2. GapTasks \subseteq AccumulateTask
  BY BlockHashOfNumber, HarvesterAssumption
  DEF GapTasks, AccumulateTask, HarvesterAssumption
<1>3. QED  BY <1>1, <1>2

\* A block that can be added leaves one block of a number.
LEMMA AddableKeepsKey ==
  ASSUME stored \subseteq Block,
         \A b, c \in stored : Number[b] = Number[c] => b = c,
         NEW h \in Block, Addable(h)
  PROVE  \A b, c \in stored \cup {h} : Number[b] = Number[c] => b = c
BY DEF Addable, Taken, Occupied

\* The number of a block added by half is a height.
LEMMA HalfAddedType ==
  ASSUME TypeOK, NEW h \in Block, HalfAdded(h)
  PROVE  orphans' \subseteq Height /\ faults' \in 0 .. MaxFaults
<1>1. orphans \subseteq Height /\ faults \in 0 .. MaxFaults
  BY DEF TypeOK
<1>2. Number[h] \in Height
  BY ChainAssumption DEF ChainAssumption, Height
<1>3. faults < MaxFaults /\ faults' = faults + 1 /\ orphans' = orphans \cup {Number[h]}
  BY DEF HalfAdded
<1>4. QED  BY <1>1, <1>2, <1>3, HarvesterAssumption DEF HarvesterAssumption

LEMMA InitType == Init => TypeOK
<1> SUFFICES ASSUME Init PROVE TypeOK
  OBVIOUS
<1>1. ChainTypeOK
  BY ChainAssumption DEF Init, ChainInit, ChainTypeOK, Height, ChainAssumption
<1>2. 0 \in Height /\ 0 \in 0 .. MaxFaults
  BY ChainAssumption, HarvesterAssumption DEF Height, ChainAssumption, HarvesterAssumption
<1>3. QED  BY <1>1, <1>2 DEF Init, TypeOK, NoHead, Step

USE DEF chainVars, dbVars, seqVars

\* Every step keeps the types.
LEMMA StepType ==
  ASSUME TypeOK, [Next]_vars
  PROVE  TypeOK'
<1>a. ChainTypeOK  BY DEF TypeOK
<1> USE ChainAssumption, HarvesterAssumption DEF Step
<1>1. CASE Node
  BY <1>1, <1>a, NodeType DEF Node, TypeOK
<1>2. CASE StartHarvester
  <2>1. tasks' \subseteq AccumulateTask
    BY <1>2, <1>a, StartTasksType DEF StartHarvester, TypeOK
  <2>2. QED  BY <1>2, <2>1 DEF StartHarvester, TypeOK, ChainTypeOK
<1>3. ASSUME NEW t \in tasks, Accumulate(t) PROVE TypeOK'
  <2>1. t \in AccumulateTask /\ t.next \in Block  BY DEF TypeOK, AccumulateTask
  <2>2. tasks' \subseteq AccumulateTask
    BY <1>3, <2>1, RestType DEF Accumulate, TypeOK
  <2>3. stored' \subseteq Block /\ \A b, c \in stored' : Number[b] = Number[c] => b = c
    BY <1>3, <2>1 DEF Accumulate, TypeOK, Taken, Occupied
  <2>4. QED  BY <1>3, <2>2, <2>3 DEF Accumulate, TypeOK, ChainTypeOK
<1>4. ASSUME NEW t \in tasks, LoseTask(t) PROVE TypeOK'
  BY <1>4 DEF LoseTask, TypeOK, ChainTypeOK, HarvesterAssumption
<1>5. CASE StartIntegrity
  BY <1>5, <1>a, FinalNumberType
  DEF StartIntegrity, Goto, TypeOK, ChainTypeOK, Max2, Height, NoHead,
      ChainAssumption
<1>6. CASE ReadChunk
  BY <1>6 DEF ReadChunk, TypeOK, ChainTypeOK
<1>7. ASSUME NEW r \in rows, CheckRow(r) PROVE TypeOK'
  BY <1>7 DEF CheckRow, Advance, TypeOK, ChainTypeOK, Height, ChainAssumption
<1>8. ASSUME NEW r \in rows, FillHole(r) PROVE TypeOK'
  <2> DEFINE missing == BlockHash(Number[parent] + 1)
  <2>1. missing \in Block /\ Addable(missing)
    BY <1>8, <1>a, BlockHashOfNumber DEF FillHole, Addable
  <2>2. stored' \subseteq Block /\ \A b, c \in stored' : Number[b] = Number[c] => b = c
    BY <1>8, <2>1, AddableKeepsKey DEF FillHole, TypeOK
  <2>3. parent \in Block  BY <1>8 DEF FillHole, IsHole, TypeOK
  <2>4. QED  BY <1>8, <2>2, <2>3 DEF FillHole, SavedHead, TypeOK, ChainTypeOK
<1>9. ASSUME NEW r \in rows, HoleStays(r) PROVE TypeOK'
  BY <1>9 DEF HoleStays, SavedHead, Goto, Height, TypeOK, ChainTypeOK, HarvesterAssumption
<1>10. ASSUME NEW r \in rows, RemoveChild(r) PROVE TypeOK'
  BY <1>10 DEF RemoveChild, IsMismatch, Archived, TypeOK, ChainTypeOK
<1>11. CASE RemoveParent
  BY <1>11 DEF RemoveParent, TypeOK, ChainTypeOK
<1>12. CASE Readd
  <2> DEFINE under == BlockHash(Number[parent])
  <2>1. parent \in Block /\ row \in Block /\ Addable(row) /\ Number[row] = Number[parent] + 1
    BY <1>12 DEF Readd, TypeOK, Addable
  <2>2. under \in Block /\ Addable(under) /\ Number[under] = Number[parent]
    BY <1>12, <1>a, BlockHashOfNumber DEF Readd, Addable
  <2>3. Number[row] # Number[under]
    BY <2>1, <2>2 DEF ChainAssumption, Height
  <2>4. stored' = stored \cup {row, under}
    BY <1>12 DEF Readd
  <2>5. stored' \subseteq Block /\ \A b, c \in stored' : Number[b] = Number[c] => b = c
    <3> HIDE DEF under
    <3> QED  BY <2>1, <2>2, <2>3, <2>4 DEF TypeOK, Addable, Taken, Occupied
  <2>6. QED  BY <1>12, <2>1, <2>5 DEF Readd, TypeOK, ChainTypeOK
<1>13. CASE ReaddChildOnly
  <2>1. row \in Block /\ Addable(row)
    BY <1>13 DEF ReaddChildOnly, Addable, TypeOK
  <2>2. stored' \subseteq Block /\ \A b, c \in stored' : Number[b] = Number[c] => b = c
    BY <1>13, <2>1, AddableKeepsKey DEF ReaddChildOnly, TypeOK
  <2>3. QED  BY <1>13, <2>2 DEF ReaddChildOnly, Goto, Height, TypeOK, ChainTypeOK, HarvesterAssumption, ChainAssumption
<1>14. CASE ReaddNothing
  BY <1>14 DEF ReaddNothing, Goto, Height, TypeOK, ChainTypeOK, ChainAssumption
<1>15. CASE EndChunk
  BY <1>15 DEF EndChunk, Goto, Height, TypeOK, ChainTypeOK, HarvesterAssumption, ChainAssumption
<1>16. CASE SequenceGenesis
  BY <1>16 DEF SequenceGenesis, TypeOK, ChainTypeOK, ChainAssumption
<1>17. ASSUME NEW b \in stored, SequenceBlock(b) PROVE TypeOK'
  BY <1>17 DEF SequenceBlock, TypeOK, ChainTypeOK
<1>18. CASE SequenceDone
  BY <1>18 DEF SequenceDone, Goto, Height, TypeOK, ChainTypeOK, ChainAssumption
<1>19. CASE Crash
  BY <1>19 DEF Crash, Goto, Height, TypeOK, ChainTypeOK, HarvesterAssumption, ChainAssumption
<1>20. CASE UNCHANGED vars
  BY <1>20 DEF vars, TypeOK, ChainTypeOK
<1>21. ASSUME NEW r \in rows, HoleHalfFilled(r) PROVE TypeOK'
  <2> DEFINE missing == BlockHash(Number[parent] + 1)
  <2>1. missing \in Block /\ HalfAdded(missing)
    BY <1>21, <1>a, BlockHashOfNumber DEF HoleHalfFilled, HalfAdded, Addable
  <2>2. orphans' \subseteq Height /\ faults' \in 0 .. MaxFaults
    BY <2>1, HalfAddedType
  <2>3. QED  BY <1>21, <2>1, <2>2 DEF HoleHalfFilled, SavedHead, HalfAdded, Goto, Height, TypeOK, ChainTypeOK
<1>22. CASE ChildHalfAdded
  <2>1. row \in Block /\ HalfAdded(row)
    BY <1>22 DEF ChildHalfAdded, HalfAdded, Addable, TypeOK
  <2>2. orphans' \subseteq Height /\ faults' \in 0 .. MaxFaults
    BY <2>1, HalfAddedType
  <2>3. QED  BY <1>22, <2>1, <2>2 DEF ChildHalfAdded, HalfAdded, Goto, Height, TypeOK, ChainTypeOK
<1>23. CASE ParentHalfAdded
  <2> DEFINE under == BlockHash(Number[parent])
  <2>1. /\ row \in Block /\ Addable(row)
        /\ under \in Block /\ HalfAdded(under)
    BY <1>23, <1>a, BlockHashOfNumber DEF ParentHalfAdded, HalfAdded, Addable, TypeOK
  <2>2. orphans' \subseteq Height /\ faults' \in 0 .. MaxFaults
    BY <2>1, HalfAddedType
  <2>3. stored' \subseteq Block /\ \A b, c \in stored' : Number[b] = Number[c] => b = c
    BY <1>23, <2>1, AddableKeepsKey DEF ParentHalfAdded, TypeOK
  <2>4. QED
    BY <1>23, <2>1, <2>2, <2>3 DEF ParentHalfAdded, HalfAdded, Goto, Height, TypeOK, ChainTypeOK
<1>24. CASE AskChild
  <2>1. parent \in Block /\ row \in Block /\ Number[row] = Number[parent] + 1
    BY <1>24 DEF AskChild, TypeOK
  <2>2. row' \in Block \cup {NoBlock} /\ (row' # NoBlock => Number[row'] = Number[row])
    BY <1>24, <1>a, BlockHashOfNumber DEF AskChild
  <2>3. QED  BY <1>24, <2>1, <2>2 DEF AskChild, TypeOK, ChainTypeOK
<1>25. CASE StepBack
  <2>1. parent \in Block /\ row \in Block
    BY <1>25 DEF StepBack, TypeOK
  <2>2. head' \in {NoHead, -1} \cup Height /\ Number[row] \in Height
    BY <1>25, <2>1 DEF StepBack, Height, ChainAssumption
  <2>3. QED  BY <1>25, <2>1, <2>2 DEF StepBack, Advance, TypeOK, ChainTypeOK
<1>26. CASE StopChecks
  <2>1. parent \in Block
    BY <1>26 DEF StopChecks, TypeOK
  <2>2. head' \in {NoHead, -1} \cup Height
    BY <1>26, <2>1 DEF StopChecks, Height, ChainAssumption
  <2>3. QED  BY <1>26, <2>2 DEF StopChecks, Goto, Height, TypeOK, ChainTypeOK, ChainAssumption
<1>27. QED
  BY <1>1, <1>2, <1>3, <1>4, <1>5, <1>6, <1>7, <1>8, <1>9, <1>10, <1>11, <1>12,
     <1>13, <1>14, <1>15, <1>16, <1>17, <1>18, <1>19, <1>20, <1>21, <1>22, <1>23,
     <1>24, <1>25, <1>26
  DEF Next, Integrity, Sequencing, Walk, Repair, HalfAdd

\* data_block keeps one block of a number, and every variable its type, through
\* every interleaving of tasks, sequencer, node and crashes.
THEOREM TypeCorrect == Spec => []TypeOK
<1>1. TypeOK /\ [Next]_vars => TypeOK'  BY StepType
<1>2. QED  BY InitType, <1>1, PTL DEF Spec

------------------------------------------------------------------------------
(* What leaves the block table, and what was counted.                      *)

\* Between the two removals of a repair the second block is archived already.
ParentArchived == pc = "removeParent" => parent \in archive

TraceInv == TypeOK /\ ParentArchived /\ CountedWereStored

LEMMA InitTrace == Init => TraceInv
BY InitType DEF Init, TraceInv, ParentArchived, CountedWereStored

\* Blocks leave data_block only into the reorg tables.
LEMMA StepArchives ==
  ASSUME TypeOK, ParentArchived, [Next]_vars
  PROVE  stored \ stored' \subseteq archive' /\ archive \subseteq archive'
<1> USE DEF ParentArchived
<1>1. CASE RemoveParent
  BY <1>1 DEF RemoveParent
<1>2. ASSUME NEW r \in rows, RemoveChild(r)
      PROVE  stored \ stored' \subseteq archive' /\ archive \subseteq archive'
  BY <1>2 DEF RemoveChild, Archived
<1>3. CASE StartIntegrity \/ ReadChunk \/ StepBack \/ AskChild \/ Readd \/ StopChecks \/ ReaddChildOnly \/ ReaddNothing \/ EndChunk
  BY <1>3 DEF StartIntegrity, ReadChunk, StepBack, AskChild, Readd, StopChecks, ReaddChildOnly, ReaddNothing, EndChunk
<1>4. ASSUME NEW r \in rows, CheckRow(r) \/ FillHole(r) \/ HoleStays(r)
      PROVE  stored \ stored' \subseteq archive' /\ archive \subseteq archive'
  BY <1>4 DEF CheckRow, FillHole, StepBack, HoleStays
<1>5. CASE Sequencing
  BY <1>5 DEF Sequencing, SequenceGenesis, SequenceBlock, SequenceDone
<1>6. CASE Node \/ StartHarvester \/ (\E t \in tasks : Accumulate(t) \/ LoseTask(t)) \/ Crash
  BY <1>6 DEF Node, StartHarvester, Accumulate, LoseTask, Crash
<1>7. CASE HalfAdd
  BY <1>7 DEF HalfAdd, HoleHalfFilled, ChildHalfAdded, ParentHalfAdded
<1>8. CASE UNCHANGED vars
  BY <1>8 DEF vars
<1>9. QED
  BY <1>1, <1>2, <1>3, <1>4, <1>5, <1>6, <1>7, <1>8 DEF Next, Integrity, Walk, Repair

\* The second block of a repair is archived when the first is removed, and the
\* archive only grows.
LEMMA StepParentArchived ==
  ASSUME TypeOK, ParentArchived, [Next]_vars
  PROVE  ParentArchived'
<1>1. CASE pc' # "removeParent"
  BY <1>1 DEF ParentArchived
<1>2. CASE pc' = "removeParent" /\ pc = "removeParent"
  BY <1>2 DEF ParentArchived, Next, vars, Node, StartHarvester, Accumulate, LoseTask,
    Integrity, StartIntegrity, ReadChunk, Walk, CheckRow, FillHole, StepBack, HoleStays,
    RemoveChild, Repair, RemoveParent, AskChild, Readd, StopChecks, ReaddChildOnly, ReaddNothing, EndChunk,
    Sequencing, SequenceGenesis, SequenceBlock, SequenceDone, Crash, Goto, HalfAdd,
    HoleHalfFilled, ChildHalfAdded, ParentHalfAdded, HalfAdded
<1>3. CASE pc' = "removeParent" /\ pc # "removeParent"
  <2>1. \E r \in rows : RemoveChild(r)
    BY <1>3 DEF Next, vars, Node, StartHarvester, Accumulate, LoseTask, Integrity,
      StartIntegrity, ReadChunk, Walk, CheckRow, Advance, FillHole, StepBack, HoleStays, Repair,
      RemoveParent, AskChild, Readd, StopChecks, ReaddChildOnly, ReaddNothing, EndChunk, Sequencing,
      SequenceGenesis, SequenceBlock, SequenceDone, Crash, Goto, HalfAdd,
      HoleHalfFilled, ChildHalfAdded, ParentHalfAdded, HalfAdded
  <2>2. QED  BY <2>1 DEF ParentArchived, RemoveChild, Archived
<1>4. QED  BY <1>1, <1>2, <1>3

\* Only a stored block is counted in.
LEMMA StepCounts ==
  ASSUME [Next]_vars
  PROVE  totals' \subseteq totals \cup stored'
<1>1. CASE Integrity
  BY <1>1 DEF Integrity, StartIntegrity, ReadChunk, Walk, CheckRow, FillHole, StepBack, HoleStays,
    RemoveChild, Repair, RemoveParent, AskChild, Readd, StopChecks, ReaddChildOnly, ReaddNothing, EndChunk
<1>2. CASE Sequencing
  BY <1>2 DEF Sequencing, SequenceGenesis, SequenceBlock, SequenceDone, CanSequence
<1>3. CASE Node \/ StartHarvester \/ (\E t \in tasks : Accumulate(t) \/ LoseTask(t)) \/ Crash
  BY <1>3 DEF Node, StartHarvester, Accumulate, LoseTask, Crash
<1>4. CASE HalfAdd
  BY <1>4 DEF HalfAdd, HoleHalfFilled, ChildHalfAdded, ParentHalfAdded
<1>5. CASE UNCHANGED vars
  BY <1>5 DEF vars
<1>6. QED  BY <1>1, <1>2, <1>3, <1>4, <1>5 DEF Next

LEMMA StepTrace == TraceInv /\ [Next]_vars => TraceInv'
BY StepType, StepArchives, StepParentArchived, StepCounts DEF TraceInv, CountedWereStored

LEMMA TraceInvariant == Spec => []TraceInv
BY InitTrace, StepTrace, PTL DEF Spec

\* A block that was counted and has left data_block is in the reorg tables.
THEOREM NothingCountedIsLost == Spec => []CountedWereStored
<1>1. TraceInv => CountedWereStored  BY DEF TraceInv
<1>2. QED  BY TraceInvariant, <1>1, PTL

\* No step takes a block out of data_block that the reorg tables do not have
\* after the same step.
THEOREM RemovalsArchive == Spec => RemovedAreArchived
<1>1. TraceInv /\ [Next]_vars => [stored \ stored' \subseteq archive']_vars
  BY StepArchives DEF TraceInv
<1>2. QED  BY TraceInvariant, <1>1, PTL DEF Spec, RemovedAreArchived

------------------------------------------------------------------------------
(* Totals are built block for block.                                       *)

\* A step counts in the genesis block on empty totals, or one block on top of
\* the highest counted one, or nothing.
LEMMA TotalsSteps ==
  ASSUME [Next]_vars
  PROVE  \/ totals' = totals
         \/ totals = {} /\ totals' = {Genesis}
         \/ \E b \in stored : CanSequence(b)
                           /\ totals' = {t \in totals : Number[t] # Number[b]} \cup {b}
<1>1. CASE Integrity
  BY <1>1 DEF Integrity, StartIntegrity, ReadChunk, Walk, CheckRow, FillHole, StepBack, HoleStays,
    RemoveChild, Repair, RemoveParent, AskChild, Readd, StopChecks, ReaddChildOnly, ReaddNothing, EndChunk
<1>2. CASE Sequencing
  BY <1>2 DEF Sequencing, SequenceGenesis, CanSequenceGenesis, SequenceBlock, SequenceDone
<1>3. CASE Node \/ StartHarvester \/ (\E t \in tasks : Accumulate(t) \/ LoseTask(t)) \/ Crash
  BY <1>3 DEF Node, StartHarvester, Accumulate, LoseTask, Crash
<1>4. CASE HalfAdd
  BY <1>4 DEF HalfAdd, HoleHalfFilled, ChildHalfAdded, ParentHalfAdded
<1>5. CASE UNCHANGED vars
  BY <1>5 DEF vars
<1>6. QED  BY <1>1, <1>2, <1>3, <1>4, <1>5 DEF Next

LEMMA StepContiguous ==
  ASSUME TypeOK, TotalsContiguous, [Next]_vars
  PROVE  TotalsContiguous'
<1>0. totals \subseteq Block /\ \A b \in Block : Number[b] \in Nat
  BY ChainAssumption DEF TypeOK, ChainAssumption
<1>1. CASE totals' = totals
  BY <1>1 DEF TotalsContiguous
<1>2. CASE totals' = {Genesis}
  BY <1>2, ChainAssumption DEF TotalsContiguous, ChainAssumption
<1>3. ASSUME NEW b \in stored, CanSequence(b),
             totals' = {t \in totals : Number[t] # Number[b]} \cup {b}
      PROVE  TotalsContiguous'
  <2>1. PICK t \in totals : /\ Number[b] = Number[t] + 1
                            /\ \A u \in totals : Number[u] <= Number[t]
    BY <1>3 DEF CanSequence
  <2>2. totals' = totals \cup {b}
    BY <1>0, <1>3, <2>1
  <2>3. SUFFICES ASSUME NEW v \in totals', NEW n \in 0 .. Number[v] - 1
                 PROVE  \E u \in totals' : Number[u] = n
    BY DEF TotalsContiguous
  <2>4. CASE v \in totals
    BY <2>2, <2>3, <2>4 DEF TotalsContiguous
  <2>5. CASE v = b /\ n = Number[t]
    BY <2>1, <2>2, <2>5
  <2>6. CASE v = b /\ n # Number[t]
    <3>1. n \in 0 .. Number[t] - 1
      BY <1>0, <2>1, <2>3, <2>6
    <3>2. QED  BY <2>1, <2>2, <3>1 DEF TotalsContiguous
  <2>7. QED  BY <2>2, <2>4, <2>5, <2>6
<1>4. QED  BY <1>1, <1>2, <1>3, TotalsSteps

\* The counted numbers have no hole, whatever is harvested, lost or repaired
\* meanwhile.
THEOREM SequencedInOrder == Spec => []TotalsContiguous
<1>1. Init => TotalsContiguous
  BY DEF Init, TotalsContiguous
<1>2. TypeOK /\ TotalsContiguous /\ [Next]_vars => TotalsContiguous'
  BY StepContiguous
<1>3. QED  BY TypeCorrect, <1>1, <1>2, PTL DEF Spec

------------------------------------------------------------------------------
(* With FINALIZATION_ONLY the harvester stores, archives and counts nothing  *)
(* but the finalized chain, until rows shift under a walk of the integrity    *)
(* checks (MCHarvester_holes shows that they do).                             *)

\* The inductive invariant: while no rows have shifted, stored blocks, the blocks
\* queued to be harvested and the walk are finalized, so no walk meets a fork.
FinalizedInv ==
  ~shifted =>
    /\ stored \subseteq Finalized
    /\ archive = {}
    /\ \A t \in tasks : t.next \in Finalized
    /\ rows \subseteq Finalized
    /\ parent \in Finalized \cup {NoBlock}
    /\ pc = "filled" => row \in Finalized
    /\ pc \notin {"removeParent", "refetch", "readd", "readded"}

\* The finalized blocks: one of each number up to the finalized one, each on
\* the block below it.
LEMMA FinalizedBlocks ==
  ASSUME ChainTypeOK
  PROVE  /\ Finalized \subseteq Block
         /\ \A b \in Finalized : Number[b] \in Nat /\ Number[b] \in 0 .. fin /\ b = best[Number[b]]
         /\ \A n \in 0 .. fin : /\ best[n] \in Finalized
                                /\ BlockHash(n) = best[n]
                                /\ Number[best[n]] = n
                                /\ n > 0 => Parent[best[n]] = best[n - 1]
BY BestIsPath, ChainAssumption
DEF Finalized, BlockHash, ChainTypeOK, Height, ChainAssumption

\* Finalized blocks stay finalized.
LEMMA FinalizedGrows ==
  ASSUME ChainTypeOK, ChainNext
  PROVE  Finalized \subseteq Finalized'
<1>1. CASE Import
  BY <1>1 DEF Import, Finalized
<1>2. CASE Finalize
  BY <1>2, ChainAssumption DEF Finalize, Finalized, ChainTypeOK, Height, ChainAssumption
<1>3. QED  BY <1>1, <1>2 DEF ChainNext

\* Every piece of a run starts inside the run's numbers, from 1 up.
LEMMA PiecesStartInside ==
  ASSUME NEW gap, gap[2] \in Nat \ {0}, NEW alone, NEW wide,
         NEW limit \in Nat \ {0}, NEW threads \in Nat,
         NEW p \in Pieces(gap, alone, limit, wide, threads)
  PROVE  p.start \in 1 .. gap[2]
<1> DEFINE parallel == IF alone /\ gap[2] - gap[1] > wide THEN threads ELSE 1
           Start(i) == IF i = 0 THEN gap[2] ELSE Max2(gap[2] - i * (limit - 1), 1)
<1>1. PICK i \in 0 .. parallel - 1 : p.start = Start(i)
  <2>1. p \in {[start |-> Start(i), end |-> Max2(Start(i) - limit, 0)] :
                 i \in 0 .. parallel - 1}
    BY Zenon DEF Pieces
  <2> HIDE DEF Start, parallel
  <2>2. PICK i \in 0 .. parallel - 1 :
          p = [start |-> Start(i), end |-> Max2(Start(i) - limit, 0)]
    BY <2>1
  <2>3. QED  BY <2>2
<1>2. i \in Nat  BY <1>1
<1>3. PICK k \in Nat : i * (limit - 1) = k
  <2> DEFINE l == limit - 1
  <2>1. l \in Nat  OBVIOUS
  <2>2. i * l \in Nat
    <3> HIDE DEF l
    <3> QED  BY <1>2, <2>1
  <2>3. QED  BY <2>2
<1>4. Start(i) = IF i = 0 THEN gap[2] ELSE Max2(gap[2] - k, 1)
  BY <1>3
<1>5. Start(i) \in 1 .. gap[2]
  <2> HIDE DEF Start
  <2> QED  BY <1>3, <1>4 DEF Max2
<1>6. QED  BY <1>1, <1>5

\* A run of missing numbers ends below a stored number.
LEMMA GapsEndBelow ==
  ASSUME NEW ids \in SUBSET Nat, NEW floor \in Nat, NEW gap \in Gaps(ids, floor)
  PROVE  /\ gap[2] \in Nat \ {0}
         /\ gap[2] + 1 \in ids
<1>1. PICK q \in (ids \cup {floor}) \X ids :
         /\ floor <= q[1]
         /\ q[1] + 1 < q[2]
         /\ gap = <<q[1] + 1, q[2] - 1>>
  BY DEF Gaps
<1>2. q[1] \in Nat /\ q[2] \in Nat /\ q[2] \in ids
  BY <1>1
<1>3. gap[2] = q[2] - 1
  BY <1>1
<1>4. QED  BY <1>1, <1>2, <1>3

\* Every call start_harvester queues is on a finalized block.
LEMMA StartFinalized ==
  ASSUME FinalizationOnly, TypeOK, stored \subseteq Finalized
  PROVE  \A t \in GapTasks \cup {HeadTask} : t.next \in Finalized
<1>0. ChainTypeOK  BY DEF TypeOK
<1>1. HeadTask.next \in Finalized
  BY <1>0, FinalizedBlocks DEF HeadTask, StartHash, ChainTypeOK, Height, Finalized
<1>2. ASSUME NEW t \in GapTasks PROVE t.next \in Finalized
  <2> DEFINE ids == {Number[b] : b \in stored}
             gaps == Gaps(ids, Floor)
  <2>1. \A n \in ids : n \in 0 .. fin  BY <1>0, FinalizedBlocks
  <2>2. fin \in Nat  BY <1>0, ChainAssumption DEF ChainTypeOK, Height, ChainAssumption
  <2>3. PICK p \in UNION {Pieces(g, gaps = {g}, Limit, Wide, Threads) : g \in gaps} :
          t = [next |-> BlockHash(p.start), end |-> BlockHash(p.end), left |-> Limit]
    BY <1>2, Zenon DEF GapTasks
  <2>4. PICK g \in gaps : p \in Pieces(g, gaps = {g}, Limit, Wide, Threads)
    BY <2>3
  <2>5. g[2] \in Nat \ {0} /\ g[2] + 1 \in ids
    BY <2>1, <2>2, <2>4, GapsEndBelow, HarvesterAssumption DEF HarvesterAssumption
  <2>6. p.start \in 1 .. g[2]
    BY <2>4, <2>5, PiecesStartInside, HarvesterAssumption DEF HarvesterAssumption
  <2>7. p.start \in 0 .. fin
    BY <2>1, <2>2, <2>5, <2>6
  <2>8. QED  BY <1>0, <2>3, <2>7, FinalizedBlocks
<1>3. QED  BY <1>1, <1>2

\* A finalized block's parent is finalized.
LEMMA RestFinalized ==
  ASSUME ChainTypeOK, NEW t \in AccumulateTask, t.next \in Finalized
  PROVE  \A u \in Rest(t) : u.next \in Finalized
<1>1. Number[t.next] # 0 => Parent[t.next] \in Finalized
  BY FinalizedBlocks, ChainAssumption DEF ChainTypeOK, Height, ChainAssumption
<1>2. QED  BY <1>1 DEF Rest

LEMMA InitFinalized == Init => FinalizedInv
BY DEF Init, FinalizedInv

USE DEF chainVars, dbVars, seqVars

\* A step of the sequencer that meets finalized blocks only.
LEMMA IntegrityFinalized ==
  ASSUME TypeOK, FinalizedInv, Integrity
  PROVE  FinalizedInv'
<1> USE DEF FinalizedInv
<1>0. ChainTypeOK  BY DEF TypeOK
<1>1. ASSUME UNCHANGED chainVars PROVE Finalized' = Finalized
  BY <1>1 DEF Finalized
<1>2. \A b \in Finalized : Number[b] \in Nat
  BY <1>0, FinalizedBlocks
<1>3. NoBlock \notin Finalized
  BY <1>0, FinalizedBlocks, ChainAssumption DEF ChainAssumption
<1>4. CASE StartIntegrity
  BY <1>4, <1>1, <1>3 DEF StartIntegrity, Goto
<1>5. CASE ReadChunk
  BY <1>5, <1>1 DEF ReadChunk
<1>6. ASSUME NEW r \in rows, CheckRow(r) PROVE FinalizedInv'
  BY <1>6, <1>1 DEF CheckRow, Advance
<1>7. ASSUME NEW r \in rows, FillHole(r) PROVE FinalizedInv'
  <2>1. CASE shifted \/ Number[r] <= Number[parent]
    BY <1>7, <2>1 DEF FillHole
  <2>2. CASE ~shifted /\ ~(Number[r] <= Number[parent])
    <3>1. parent \in Finalized /\ r \in Finalized /\ Number[r] # Number[parent] + 1
      BY <1>7, <2>2 DEF FillHole, IsHole
    <3>2. Number[parent] + 1 \in 0 .. fin
      <4>1. Number[parent] \in Nat /\ Number[r] \in 0 .. fin
        BY <1>0, <1>2, <3>1, FinalizedBlocks
      <4>2. fin \in Nat
        BY <1>0, ChainAssumption DEF ChainTypeOK, Height, ChainAssumption
      <4>3. QED  BY <2>2, <3>1, <4>1, <4>2
    <3>3. BlockHash(Number[parent] + 1) \in Finalized
      BY <1>0, <3>2, FinalizedBlocks
    <3>4. stored' \subseteq Finalized
      BY <1>7, <2>2, <3>3 DEF FillHole
    <3>5. QED  BY <1>7, <1>1, <2>2, <3>4 DEF FillHole
  <2>3. QED  BY <2>1, <2>2
<1>8. ASSUME NEW r \in rows, HoleStays(r) PROVE FinalizedInv'
  BY <1>8, <1>1 DEF HoleStays, Goto
<1>9. ASSUME NEW r \in rows, RemoveChild(r) PROVE FinalizedInv'
  <2>1. SUFFICES ASSUME ~shifted PROVE FALSE
    BY <1>9 DEF RemoveChild
  <2>2. /\ parent \in Finalized /\ r \in Finalized
        /\ Number[r] = Number[parent] + 1 /\ Parent[r] # parent
    BY <1>9, <2>1 DEF RemoveChild, IsMismatch
  <2>3. Number[parent] \in 0 .. fin /\ Number[r] \in 0 .. fin /\ fin \in Nat
    BY <1>0, <2>2, FinalizedBlocks, ChainAssumption DEF ChainTypeOK, Height, ChainAssumption
  <2>4. r = best[Number[r]] /\ parent = best[Number[r] - 1] /\ Number[r] > 0
    BY <1>0, <2>2, <2>3, FinalizedBlocks
  <2>5. Parent[r] = parent
    BY <1>0, <2>3, <2>4, FinalizedBlocks
  <2>6. QED  BY <2>2, <2>5
<1>10. CASE Repair
  BY <1>10 DEF Repair, RemoveParent, AskChild, Readd, StopChecks, ReaddChildOnly, ReaddNothing
<1>11. CASE EndChunk
  BY <1>11, <1>1 DEF EndChunk, Goto
<1>12. CASE StepBack
  BY <1>12, <1>1 DEF StepBack, Advance
<1>13. QED
  BY <1>4, <1>5, <1>6, <1>7, <1>8, <1>9, <1>10, <1>11, <1>12 DEF Integrity, Walk

LEMMA StepFinalized ==
  ASSUME FinalizationOnly, TypeOK, FinalizedInv, [Next]_vars
  PROVE  FinalizedInv'
<1> USE DEF FinalizedInv
<1>0. ChainTypeOK  BY DEF TypeOK
<1>1. ASSUME UNCHANGED chainVars PROVE Finalized' = Finalized
  BY <1>1 DEF Finalized
<1>2. CASE Node
  BY <1>0, <1>2, FinalizedGrows DEF Node
<1>3. CASE StartHarvester
  <2>1. ~shifted => \A t \in tasks' : t.next \in Finalized
    BY <1>3, StartFinalized DEF StartHarvester
  <2>2. QED  BY <1>1, <1>3, <2>1 DEF StartHarvester
<1>4. ASSUME NEW t \in tasks, Accumulate(t) PROVE FinalizedInv'
  BY <1>0, <1>1, <1>4, RestFinalized DEF Accumulate, TypeOK
<1>5. ASSUME NEW t \in tasks, LoseTask(t) PROVE FinalizedInv'
  BY <1>1, <1>5 DEF LoseTask
<1>6. CASE Integrity
  BY <1>6, IntegrityFinalized
<1>7. CASE SequenceGenesis
  <2>1. Genesis \in Finalized
    <3>1. fin \in Nat /\ 0 \in 0 .. fin
      BY <1>0, ChainAssumption DEF ChainTypeOK, Height, ChainAssumption
    <3>2. best[0] \in Finalized /\ best[0] \in Block /\ Number[best[0]] = 0
      BY <1>0, <3>1, FinalizedBlocks
    <3>3. QED  BY <3>2, ChainAssumption DEF ChainAssumption
  <2>2. QED  BY <1>1, <1>7, <2>1 DEF SequenceGenesis
<1>8. ASSUME NEW b \in stored, SequenceBlock(b) PROVE FinalizedInv'
  BY <1>1, <1>8 DEF SequenceBlock
<1>9. CASE SequenceDone
  BY <1>1, <1>9 DEF SequenceDone, Goto
<1>10. CASE Crash
  BY <1>1, <1>10 DEF Crash, Goto
<1>11. CASE HalfAdd
  BY <1>1, <1>11
  DEF HalfAdd, HoleHalfFilled, ChildHalfAdded, ParentHalfAdded, HalfAdded, Goto
<1>12. CASE UNCHANGED vars
  BY <1>1, <1>12 DEF vars
<1>13. QED
  BY <1>2, <1>3, <1>4, <1>5, <1>6, <1>7, <1>8, <1>9, <1>10, <1>11, <1>12
  DEF Next, Sequencing

LEMMA FinalizedInvariant ==
  ASSUME FinalizationOnly
  PROVE  Spec => []FinalizedInv
<1>1. TypeOK /\ FinalizedInv /\ [Next]_vars => FinalizedInv'
  BY StepFinalized
<1>2. QED  BY TypeCorrect, InitFinalized, <1>1, PTL DEF Spec

\* FINALIZATION_ONLY keeps its promise on every chain and however many queries a
\* walk takes: gaps and holes that are refilled by number, interleaved with an
\* advancing node, lost calls and crashes, never bring in a block that is not
\* final, and no block is ever taken out again - as long as no row is met twice.
THEOREM HarvestIsFinal == Spec => []FinalizedHarvest
<1>1. CASE FinalizationOnly
  <2>1. FinalizedInv => FinalizedHarvest
    BY DEF FinalizedInv, FinalizedHarvest
  <2>2. QED  BY <1>1, <2>1, FinalizedInvariant, PTL
<1>2. CASE ~FinalizationOnly
  <2>1. FinalizedHarvest
    BY <1>2 DEF FinalizedHarvest
  <2>2. QED  BY <2>1, PTL
<1>3. QED  BY <1>1, <1>2

\* The totals of a counted block were built on the totals of its own parent,
\* when only finalized blocks are harvested and no rows have shifted.
THEOREM TotalsAreOneChain == Spec => []TotalsFollowChain
<1>1. ASSUME FinalizationOnly, TypeOK, FinalizedInv, CountedWereStored, TotalsContiguous
      PROVE  TotalsFollowChain
  <2>0. ChainTypeOK  BY <1>1 DEF TypeOK
  <2>2. SUFFICES ASSUME ~shifted, NEW t \in totals \ {Genesis} PROVE Parent[t] \in totals
    BY DEF TotalsFollowChain
  <2>1. totals \subseteq Finalized
    BY <1>1, <2>2 DEF FinalizedInv, CountedWereStored
  <2>3. fin \in Nat /\ Number[t] \in 0 .. fin /\ Number[t] > 0
    BY <2>0, <2>1, FinalizedBlocks, ChainAssumption
    DEF ChainTypeOK, Height, ChainAssumption
  <2>4. PICK u \in totals : Number[u] = Number[t] - 1
    BY <1>1, <2>3 DEF TotalsContiguous
  <2>5. t = best[Number[t]] /\ u = best[Number[t] - 1]
    BY <2>0, <2>1, <2>4, FinalizedBlocks
  <2>6. Parent[t] = u
    BY <2>0, <2>3, <2>5, FinalizedBlocks
  <2>7. QED  BY <2>4, <2>6
<1>2. CASE FinalizationOnly
  <2>1. TypeOK /\ FinalizedInv /\ CountedWereStored /\ TotalsContiguous
          => TotalsFollowChain
    BY <1>1, <1>2
  <2>2. QED
    BY <1>2, <2>1, TypeCorrect, FinalizedInvariant, NothingCountedIsLost,
       SequencedInOrder, PTL
<1>3. CASE ~FinalizationOnly
  <2>1. TotalsFollowChain
    BY <1>3 DEF TotalsFollowChain
  <2>2. QED  BY <2>1, PTL
<1>4. QED  BY <1>2, <1>3

------------------------------------------------------------------------------
(* Harvester implements Indexer.                                            *)

\* One block of a number at most.
OnePerNumber(bs) == \A b, c \in bs : Number[b] = Number[c] => b = c

\* What the sequencer has in hand is in the table, until it removes it.
InHand ==
  /\ pc \in {"idle", "query", "check", "filled"} =>
       rows \subseteq stored /\ parent \in stored \cup {NoBlock}
  /\ pc = "filled" => row \in stored
  /\ pc = "removeParent" => parent \in stored

\* The inductive invariant behind the refinement.
IndexInv ==
  /\ TypeOK /\ ParentArchived /\ TotalsContiguous
  /\ OnePerNumber(totals)
  /\ InHand

------------------------------------------------------------------------------
(* The block at a number, as blocks come and go.                           *)

LEMMA BlockAtOf ==
  ASSUME NEW bs, OnePerNumber(bs), NEW b \in bs
  PROVE  BlockAt(bs, Number[b]) = b
BY DEF BlockAt, OnePerNumber

LEMMA BlockAtNone ==
  ASSUME NEW bs, NEW n, \A b \in bs : Number[b] # n
  PROVE  BlockAt(bs, n) = NoBlock
BY DEF BlockAt

\* The block at a number is there, and has that number.
LEMMA BlockAtSome ==
  ASSUME NEW bs \in SUBSET Block, NEW n, BlockAt(bs, n) # NoBlock
  PROVE  BlockAt(bs, n) \in bs /\ Number[BlockAt(bs, n)] = n
BY DEF BlockAt

LEMMA BlockAtType ==
  ASSUME NEW bs \in SUBSET Block, NEW n
  PROVE  BlockAt(bs, n) \in Block \cup {NoBlock}
BY DEF BlockAt

\* More blocks, still one of a number: what is there stays where it is.
LEMMA BlockAtMore ==
  ASSUME NEW bs \in SUBSET Block, NEW cs \in SUBSET Block, OnePerNumber(cs),
         bs \subseteq cs, NEW n
  PROVE  /\ BlockAt(bs, n) # NoBlock => BlockAt(cs, n) = BlockAt(bs, n)
         /\ BlockAt(cs, n) # NoBlock => BlockAt(cs, n) \in Block /\ Number[BlockAt(cs, n)] = n
<1>1. ASSUME BlockAt(bs, n) # NoBlock PROVE BlockAt(cs, n) = BlockAt(bs, n)
  <2>1. BlockAt(bs, n) \in bs /\ Number[BlockAt(bs, n)] = n
    BY <1>1, BlockAtSome
  <2>2. QED  BY <2>1, BlockAtOf
<1>2. QED  BY <1>1, BlockAtSome

LEMMA BlockAtLess ==
  ASSUME NEW bs \in SUBSET Block, OnePerNumber(bs), NEW b \in bs, NEW n
  PROVE  BlockAt(bs \ {b}, n) = IF n = Number[b] THEN NoBlock ELSE BlockAt(bs, n)
<1>0. OnePerNumber(bs \ {b})
  BY DEF OnePerNumber
<1>1. CASE n = Number[b]
  BY <1>1, BlockAtNone DEF OnePerNumber
<1>2. CASE n # Number[b] /\ \E c \in bs : Number[c] = n
  <2>1. PICK c \in bs : Number[c] = n
    BY <1>2
  <2>2. c \in bs \ {b}
    BY <1>2, <2>1
  <2>3. BlockAt(bs, n) = c /\ BlockAt(bs \ {b}, n) = c
    BY <1>0, <2>1, <2>2, BlockAtOf
  <2>4. QED  BY <1>2, <2>3
<1>3. CASE n # Number[b] /\ \A c \in bs : Number[c] # n
  BY <1>3, BlockAtNone
<1>4. QED  BY <1>1, <1>2, <1>3

------------------------------------------------------------------------------
(* The invariant.                                                          *)

LEMMA InitIndex == Init => IndexInv
BY InitType DEF Init, IndexInv, ParentArchived, TotalsContiguous, OnePerNumber, InHand

USE DEF chainVars, dbVars, seqVars

\* The walk holds blocks that are in the table.
LEMMA StepInHand ==
  ASSUME TypeOK, InHand, [Next]_vars
  PROVE  InHand'
<1> USE DEF InHand
<1>1. CASE Node \/ StartHarvester \/ (\E t \in tasks : Accumulate(t) \/ LoseTask(t))
  BY <1>1 DEF Node, StartHarvester, Accumulate, LoseTask
<1>2. CASE StartIntegrity \/ ReadChunk \/ EndChunk
  <2>1. CASE StartIntegrity
    BY <2>1 DEF StartIntegrity, Goto
  <2>2. CASE ReadChunk
    BY <2>2 DEF ReadChunk
  <2>3. CASE EndChunk
    BY <2>3 DEF EndChunk, Goto
  <2>4. QED  BY <1>2, <2>1, <2>2, <2>3
<1>3. ASSUME NEW r \in rows, CheckRow(r) \/ FillHole(r) PROVE InHand'
  BY <1>3 DEF CheckRow, FillHole, Advance
<1>4. CASE StepBack
  BY <1>4 DEF StepBack, Advance
<1>5. ASSUME NEW r \in rows, HoleStays(r) PROVE InHand'
  BY <1>5 DEF HoleStays, Goto
<1>6. ASSUME NEW r \in rows, RemoveChild(r) PROVE InHand'
  <2>1. /\ pc = "check" /\ pc' = "removeParent" /\ parent' = parent
        /\ stored' = stored \ {r} /\ parent # NoBlock /\ Number[r] = Number[parent] + 1
    BY <1>6 DEF RemoveChild, IsMismatch
  <2>2. parent \in stored /\ parent \in Block
    BY <2>1 DEF TypeOK
  <2>3. Number[parent] \in Nat
    BY <2>2, ChainAssumption DEF ChainAssumption
  <2>4. parent # r
    BY <2>1, <2>3
  <2>5. QED  BY <2>1, <2>2, <2>4
<1>7. CASE Repair
  BY <1>7 DEF Repair, RemoveParent, AskChild, Readd, StopChecks, ReaddChildOnly, ReaddNothing, Goto
<1>8. CASE Sequencing \/ Crash
  BY <1>8 DEF Sequencing, SequenceGenesis, SequenceBlock, SequenceDone, Crash, Goto
<1>9. CASE HalfAdd
  BY <1>9 DEF HalfAdd, HoleHalfFilled, ChildHalfAdded, ParentHalfAdded, HalfAdded, Goto
<1>10. CASE UNCHANGED vars
  BY <1>10 DEF vars
<1>11. QED
  BY <1>1, <1>2, <1>3, <1>4, <1>5, <1>6, <1>7, <1>8, <1>9, <1>10
  DEF Next, Integrity, Walk

LEMMA StepIndex == IndexInv /\ [Next]_vars => IndexInv'
<1> SUFFICES ASSUME IndexInv, [Next]_vars PROVE IndexInv'
  OBVIOUS
<1>1. OnePerNumber(totals)'
  BY TotalsSteps DEF IndexInv, OnePerNumber
<1>2. TypeOK' /\ ParentArchived'
  BY StepType, StepParentArchived DEF IndexInv
<1>3. TotalsContiguous' /\ InHand'
  BY StepContiguous, StepInHand DEF IndexInv
<1>4. QED
  BY <1>1, <1>2, <1>3 DEF IndexInv

LEMMA IndexInvariant == Spec => []IndexInv
BY InitIndex, StepIndex, PTL DEF Spec

------------------------------------------------------------------------------
(* Every step is one of Indexer, or nothing to it.                         *)

LEMMA InitImplements == Init => Idx!Init
BY DEF Init, Idx!Init, Idx!Empty, Idx!Row, tableBar, countedBar, Height, BlockAt

\* What a step does to the three tables.
LEMMA TableSteps ==
  ASSUME IndexInv, [Next]_vars
  PROVE  \/ stored \subseteq stored' /\ totals' = totals /\ archive' = archive
         \/ \E b \in stored : /\ stored' = stored \ {b}
                             /\ archive \cup {b} \subseteq archive'
                             /\ archive' \subseteq archive \cup stored
                             /\ totals' = totals
         \/ /\ totals = {} /\ totals' = {Genesis}
            /\ stored' = stored \cup {Genesis} /\ archive' = archive
         \/ \E b \in stored :
              /\ CanSequence(b)
              /\ totals' = {t \in totals : Number[t] # Number[b]} \cup {b}
              /\ UNCHANGED <<stored, archive>>
<1>1. CASE RemoveParent
  BY <1>1 DEF RemoveParent, IndexInv, InHand, ParentArchived
<1>2. ASSUME NEW r \in rows, RemoveChild(r)
      PROVE  \E b \in stored : /\ stored' = stored \ {b}
                             /\ archive \cup {b} \subseteq archive'
                             /\ archive' \subseteq archive \cup stored
                             /\ totals' = totals
  BY <1>2 DEF RemoveChild, Archived, IsMismatch, IndexInv, InHand
<1>3. CASE StartIntegrity \/ ReadChunk \/ StepBack \/ EndChunk
  BY <1>3 DEF StartIntegrity, ReadChunk, StepBack, EndChunk
<1>4. CASE AskChild \/ Readd \/ StopChecks \/ ReaddChildOnly \/ ReaddNothing
  BY <1>4 DEF AskChild, Readd, StopChecks, ReaddChildOnly, ReaddNothing
<1>5. ASSUME NEW r \in rows, CheckRow(r) \/ FillHole(r) \/ HoleStays(r)
      PROVE  stored \subseteq stored' /\ totals' = totals /\ archive' = archive
  BY <1>5 DEF CheckRow, FillHole, HoleStays
<1>6. CASE Sequencing
  BY <1>6 DEF Sequencing, SequenceGenesis, CanSequenceGenesis, SequenceBlock, SequenceDone
<1>7. CASE Node \/ StartHarvester \/ (\E t \in tasks : Accumulate(t) \/ LoseTask(t)) \/ Crash
  BY <1>7 DEF Node, StartHarvester, Accumulate, LoseTask, Crash
<1>8. CASE HalfAdd
  BY <1>8 DEF HalfAdd, HoleHalfFilled, ChildHalfAdded, ParentHalfAdded
<1>9. CASE UNCHANGED vars
  BY <1>9 DEF vars
<1>10. QED
  BY <1>1, <1>2, <1>3, <1>4, <1>5, <1>6, <1>7, <1>8, <1>9
  DEF Next, Integrity, Walk, Repair

\* The four kinds of step are Insert, Remove, Count of genesis and Count above it.
LEMMA StepImplements == IndexInv /\ [Next]_vars => [Idx!Next]_(Idx!indexVars)
<1> SUFFICES ASSUME IndexInv, [Next]_vars PROVE [Idx!Next]_(Idx!indexVars)
  OBVIOUS
<1> USE DEF Idx!indexVars
<1>0. /\ stored \in SUBSET Block /\ stored' \in SUBSET Block
      /\ totals \in SUBSET Block
      /\ OnePerNumber(stored) /\ OnePerNumber(stored') /\ OnePerNumber(totals)
      /\ \A b \in Block : Number[b] \in Height
  <2>1. IndexInv'
    BY StepIndex
  <2>2. \A b \in Block : Number[b] \in Height
    BY ChainAssumption DEF ChainAssumption, Height
  <2>3. QED  BY <2>1, <2>2 DEF IndexInv, TypeOK, OnePerNumber
<1>1. ASSUME stored \subseteq stored' PROVE Idx!OnlyFilled
  <2>1. tableBar' \in [Height -> Block \cup {NoBlock}]
    BY <1>0, BlockAtType DEF tableBar
  <2>2. ASSUME NEW n \in Height, tableBar'[n] # tableBar[n]
        PROVE  tableBar[n] = NoBlock /\ tableBar'[n] \in Idx!BlocksOf(n)
    <3>1. tableBar[n] = BlockAt(stored, n) /\ tableBar'[n] = BlockAt(stored', n)
      BY DEF tableBar
    <3>2. BlockAt(stored, n) = NoBlock
      BY <1>0, <1>1, <2>2, <3>1, BlockAtMore
    <3>3. BlockAt(stored', n) \in Block /\ Number[BlockAt(stored', n)] = n
      BY <1>0, <1>1, <2>2, <3>1, <3>2, BlockAtMore
    <3>4. QED  BY <3>1, <3>2, <3>3 DEF Idx!BlocksOf
  <2>3. QED  BY <2>1, <2>2 DEF Idx!OnlyFilled, Idx!Row, Height
<1>2. CASE stored \subseteq stored' /\ totals' = totals /\ archive' = archive
  <2>1. countedBar' = countedBar
    BY <1>2 DEF countedBar
  <2>2. QED  BY <1>1, <1>2, <2>1 DEF Idx!Next, Idx!Insert
<1>3. ASSUME NEW b \in stored, stored' = stored \ {b},
             archive \cup {b} \subseteq archive', archive' \subseteq archive \cup stored,
             totals' = totals
      PROVE  Idx!Remove(Number[b])
  <2>1. Number[b] \in Height /\ b \in Block
    BY <1>0
  <2>2. tableBar[Number[b]] = b
    BY <1>0, <2>1, BlockAtOf DEF tableBar
  <2>3. b # NoBlock
    BY <2>1, ChainAssumption DEF ChainAssumption
  <2>4. tableBar' = [tableBar EXCEPT ![Number[b]] = NoBlock]
    BY <1>0, <1>3, <2>1, BlockAtLess DEF tableBar
  <2>5. stored \subseteq {tableBar[m] : m \in Height}
    BY <1>0, BlockAtOf DEF tableBar
  <2>6. countedBar' = countedBar
    BY <1>3 DEF countedBar
  <2>7. QED
    BY <1>3, <2>2, <2>3, <2>4, <2>5, <2>6 DEF Idx!Remove, Idx!Row, Height
<1>4. ASSUME totals = {}, totals' = {Genesis}, stored' = stored \cup {Genesis},
             archive' = archive
      PROVE  Idx!Count(0)
  <2>1. Genesis \in stored' /\ Genesis \in Block /\ Number[Genesis] = 0
    BY <1>4, ChainAssumption DEF ChainAssumption
  <2>2. 0 \in Height /\ \A m \in Height : ~(m < 0)
    BY ChainAssumption DEF ChainAssumption, Height
  <2>3. tableBar'[0] = Genesis /\ Genesis # NoBlock
    BY <1>0, <2>1, <2>2, BlockAtOf, ChainAssumption DEF tableBar, ChainAssumption
  <2>4. \A n \in Height : countedBar[n] = NoBlock
    BY <1>4 DEF countedBar, BlockAt
  <2>5. countedBar' = [countedBar EXCEPT ![0] = Genesis]
    BY <1>4, <2>1, <2>2 DEF countedBar, BlockAt
  <2>6. QED
    BY <1>1, <1>4, <2>2, <2>3, <2>4, <2>5 DEF Idx!Count, Idx!Row, Height
<1>5. ASSUME NEW b \in stored, CanSequence(b),
             totals' = {t \in totals : Number[t] # Number[b]} \cup {b},
             UNCHANGED <<stored, archive>>
      PROVE  Idx!Count(Number[b])
  <2>1. PICK t \in totals : /\ Number[b] = Number[t] + 1
                           /\ \A u \in totals : Number[u] <= Number[t]
    BY <1>5 DEF CanSequence
  <2>2. b \in Block /\ Number[b] \in Height /\ Number[t] \in Nat /\ Number[b] > 0
    BY <1>0, <2>1 DEF Height
  <2>3. \A u \in totals : Number[u] # Number[b]
    BY <1>0, <2>1, <2>2 DEF Height
  <2>4. totals' = totals \cup {b}
    BY <1>5, <2>3
  <2>5. countedBar[Number[b]] = NoBlock
    BY <2>2, <2>3, BlockAtNone DEF countedBar
  <2>6. ASSUME NEW m \in Height, m < Number[b] PROVE countedBar[m] # NoBlock
    <3>1. PICK u \in totals : Number[u] = m
      BY <2>1, <2>2, <2>6 DEF IndexInv, TotalsContiguous, Height
    <3>2. countedBar[m] = u
      BY <1>0, <3>1, BlockAtOf DEF countedBar
    <3>3. QED  BY <1>0, <3>2, ChainAssumption DEF ChainAssumption
  <2>7. tableBar' = tableBar
    BY <1>5 DEF tableBar
  <2>8. tableBar'[Number[b]] = b /\ b # NoBlock
    BY <1>0, <2>2, <2>7, BlockAtOf, ChainAssumption DEF tableBar, ChainAssumption
  <2>9. countedBar' = [countedBar EXCEPT ![Number[b]] = b]
    <3>1. OnePerNumber(totals') /\ totals' \in SUBSET Block
      BY <1>0, <2>2, <2>3, <2>4 DEF OnePerNumber
    <3>2. BlockAt(totals', Number[b]) = b
      BY <3>1, <2>4, BlockAtOf
    <3>3. ASSUME NEW n \in Height, n # Number[b]
          PROVE  BlockAt(totals', n) = BlockAt(totals, n)
      BY <2>4, <3>3 DEF BlockAt
    <3>4. QED  BY <2>2, <3>2, <3>3 DEF countedBar
  <2>10. QED
    BY <1>1, <1>5, <2>2, <2>5, <2>6, <2>7, <2>8, <2>9 DEF Idx!Count, Idx!Row, Height
<1>6. CASE \E b \in stored : /\ stored' = stored \ {b}
                            /\ archive \cup {b} \subseteq archive'
                            /\ archive' \subseteq archive \cup stored
                            /\ totals' = totals
  <2>1. PICK b \in stored : Idx!Remove(Number[b])
    BY <1>3, <1>6
  <2>2. QED  BY <1>0, <2>1 DEF Idx!Next, Idx!Row, Height
<1>7. CASE /\ totals = {} /\ totals' = {Genesis}
           /\ stored' = stored \cup {Genesis} /\ archive' = archive
  <2>1. 0 \in Height
    BY ChainAssumption DEF ChainAssumption, Height
  <2>2. QED  BY <1>4, <1>7, <2>1 DEF Idx!Next, Idx!Row, Height
<1>8. CASE \E b \in stored :
             /\ CanSequence(b)
             /\ totals' = {t \in totals : Number[t] # Number[b]} \cup {b}
             /\ UNCHANGED <<stored, archive>>
  <2>1. PICK b \in stored : Idx!Count(Number[b])
    BY <1>5, <1>8
  <2>2. QED  BY <1>0, <2>1 DEF Idx!Next, Idx!Row, Height
<1>9. QED
  BY <1>2, <1>6, <1>7, <1>8, TableSteps

\* The refinement: whatever tasks, faults and forks do, a reader of the database
\* sees blocks inserted, removed with a copy kept, and counted in order
\* (accumulate_block_recursive, integrity_checks and start_sequencer in
\* app/processors/converters.py, over the primary keys of app/models/data.py).
THEOREM HarvesterImplementsIndexer == Spec => ImplementsIndexer
BY IndexInvariant, InitImplements, StepImplements, PTL DEF Spec, ImplementsIndexer, Idx!Spec
==============================================================================
