------------------------------ MODULE Harvester ------------------------------
(***************************************************************************)
(* The harvester proper: the periodic start_harvester task, the            *)
(* accumulate_block_recursive tasks it queues, and the sequencer task with *)
(* its integrity checks and reorganisation repair (app/tasks.py and        *)
(* app/processors/converters.py), over the block, block total, reorg and   *)
(* status tables.                                                          *)
(*                                                                         *)
(* A step of this module ends where the code commits or asks the node:     *)
(* between two steps any other task, the node, or a crash may come in.     *)
(* One sequencer runs at a time here (SequencerLock looks at that promise).*)
(***************************************************************************)
EXTENDS Chain, Gaps, FiniteSets

CONSTANTS
  Limit,            \* BLOCKS_LIMIT
  Wide,             \* BLOCKS_LIMIT * 10: runs longer than this are cut up
  Threads,          \* MAXIMUM_THREAD
  Floor,            \* the number below which gaps are not looked for
  ChunkSize,        \* rows per query of the integrity checks
  Confirmations,    \* FINALIZATION_BY_BLOCK_CONFIRMATIONS, 0 when unused
  FinalizationOnly, \* FINALIZATION_ONLY = 1: follow the finalized head
  HalfAdds,         \* the node may fail in the middle of the sequencer's add_block
  MaxTasks,         \* bound: tasks in the queue when beat starts the harvester
  MaxFaults         \* bound: tasks lost and processes killed

ASSUME HarvesterAssumption ==
  /\ Limit \in Nat \ {0} /\ Wide \in Nat /\ Threads \in Nat \ {0}
  /\ Floor \in Nat /\ ChunkSize \in Nat \ {0} /\ Confirmations \in Nat
  /\ FinalizationOnly \in BOOLEAN /\ HalfAdds \in BOOLEAN
  /\ MaxTasks \in Nat /\ MaxFaults \in Nat

VARIABLES
  stored,   \* data_block: the blocks harvested
  totals,   \* data_block_total: the block counted in at each height
  archive,  \* data_reorg_block: copies of blocks that were removed
  orphans,  \* numbers with event and extrinsic rows of a block never added
  head,     \* harvester_status INTEGRITY_HEAD, NoHead while unset
  tasks,    \* accumulate_block_recursive calls, queued or running
  faults,   \* tasks lost and crashes so far
  shifted,  \* ghost: a block was added above a row the walk had passed before
  pc,       \* where the sequencer task is
  chunk,    \* block_nr: the row offset of the current query
  rows,     \* block_range: the rows of the query not yet looked at
  parent,   \* parent_block
  row,      \* block, while it is repaired, then the block that takes its place
  ih,       \* integrity_head.value in memory
  last      \* end_block_id

dbVars == <<stored, totals, archive, orphans, head>>
seqVars == <<pc, chunk, rows, parent, row, ih, last>>
vars == <<chainVars, dbVars, tasks, faults, shifted, seqVars>>

NoHead == -2

Occupied(n) == \E b \in stored : Number[b] = n

\* Mutant of Taken: the primary key on the number is not enforced.
TakenByHashOnly(h) == h \in stored

\* add_block refuses a stored hash (BlockAlreadyAdded), and the primary keys a
\* second block of one number, or second rows of its events (IntegrityError).
Taken(h) == h \in stored \/ Occupied(Number[h]) \/ Number[h] \in orphans

\* add_block(h) and its commit go through.
Addable(h) == h # NoBlock /\ ~Taken(h)

\* r is the lowest of the blocks bs.
IsFirst(r, bs) == r \in bs /\ \A x \in bs : Number[r] <= Number[x]

------------------------------------------------------------------------------
(* accumulate_block_recursive: one block per step, each with its commit.   *)

AccumulateTask ==
  [next : Block, end : Block \cup {NoBlock}, left : 1 .. Limit]

\* What is left of task t once it has added t.next: nothing when the targeted
\* end or the genesis block is reached; another round of the loop; or, when
\* the loop is exhausted, the call it queues for the rest - unless the parent
\* is the targeted end, which then stays out.
Rest(t) ==
  IF t.next = t.end \/ Number[t.next] = 0 THEN {}
  ELSE IF t.left > 1
       THEN {[next |-> Parent[t.next], end |-> t.end, left |-> t.left - 1]}
  ELSE IF Parent[t.next] # t.end
       THEN {[next |-> Parent[t.next], end |-> t.end, left |-> Limit]}
  ELSE {}

\* A block that is refused ends the task.
Accumulate(t) ==
  /\ t \in tasks
  /\ IF Taken(t.next)
     THEN /\ tasks' = tasks \ {t}
          /\ UNCHANGED stored
     ELSE /\ tasks' = (tasks \ {t}) \cup Rest(t)
          /\ stored' = stored \cup {t.next}
  /\ UNCHANGED <<chainVars, shifted, totals, archive, orphans, head, faults, seqVars>>

\* The node fails or the worker dies: HarvesterCouldNotAddBlock, the call is
\* acknowledged and nothing queues it again.
LoseTask(t) ==
  /\ t \in tasks
  /\ faults < MaxFaults
  /\ tasks' = tasks \ {t}
  /\ faults' = faults + 1
  /\ UNCHANGED <<chainVars, shifted, dbVars, seqVars>>

------------------------------------------------------------------------------
(* start_harvester, which beat starts every 10 seconds.                    *)

\* Mutant of StartHash: FINALIZATION_ONLY is ignored.
StartHashBest == best[tip]

StartHash == IF FinalizationOnly THEN best[fin] ELSE best[tip]

\* Mutant of GapTasks: check_gaps is off.
NoGapTasks == {}

\* One call per piece of each gap.  A number the node has no block for gives a
\* call with hash None, which the block table refuses.
GapTasks ==
  LET gaps == Gaps({Number[b] : b \in stored}, Floor)
      pieces == UNION {Pieces(g, gaps = {g}, Limit, Wide, Threads) : g \in gaps}
  IN {[next |-> BlockHash(p.start), end |-> BlockHash(p.end), left |-> Limit] :
        p \in {q \in pieces : BlockHash(q.start) # NoBlock}}

HeadTask == [next |-> StartHash, end |-> NoBlock, left |-> Limit]

StartHarvester ==
  /\ Cardinality(tasks) < MaxTasks
  /\ tasks' = tasks \cup GapTasks \cup {HeadTask}
  /\ UNCHANGED <<chainVars, shifted, dbVars, faults, seqVars>>

------------------------------------------------------------------------------
(* The sequencer task: integrity_checks, then the sequencing loop.         *)

\* Where the task goes next, its local variables forgotten.
Goto(step) ==
  /\ pc' = step
  /\ chunk' = 0 /\ rows' = {} /\ parent' = NoBlock /\ row' = NoBlock
  /\ ih' = NoHead /\ last' = 0

FinalNumber == IF Confirmations > 0 THEN Max2(tip - Confirmations, 0) ELSE fin

\* Without an integrity head the checks need block 1 ("Chain not at genesis").
StartIntegrity ==
  /\ pc = "idle"
  /\ head # NoHead \/ Occupied(1)
  /\ LET value == IF head = NoHead THEN 0 ELSE head
         start == Max2(value - 1, 0)
     IN IF start < FinalNumber
        THEN /\ pc' = "query" /\ chunk' = start /\ ih' = value
             /\ last' = FinalNumber
             /\ UNCHANGED <<rows, parent, row>>
        ELSE Goto("sequence")
  /\ UNCHANGED <<chainVars, shifted, dbVars, tasks, faults>>

\* order_by('id').offset(chunk).limit(ChunkSize): an offset in rows, not in
\* block numbers.
ReadChunk ==
  /\ pc = "query"
  /\ pc' = "check"
  /\ rows' = {b \in stored :
       LET before == Cardinality({x \in stored : Number[x] < Number[b]})
       IN chunk <= before /\ before < chunk + ChunkSize}
  /\ UNCHANGED <<chainVars, shifted, dbVars, tasks, faults, chunk, parent, row, ih, last>>

IsHole(r) == parent # NoBlock /\ Number[r] # Number[parent] + 1

IsMismatch(r) ==
  /\ parent # NoBlock
  /\ Number[r] = Number[parent] + 1
  /\ Parent[r] # parent

\* parent_block = block; integrity_head.value = block.id; break at the end block.
Advance(r) ==
  /\ pc' = "check"
  /\ parent' = r /\ row' = NoBlock
  /\ ih' = Number[r]
  /\ rows' = IF Number[r] = last THEN {} ELSE rows \ {r}
  /\ UNCHANGED <<chunk, last>>

CheckRow(r) ==
  /\ pc = "check" /\ IsFirst(r, rows)
  /\ ~IsHole(r) /\ ~IsMismatch(r)
  /\ Advance(r)
  /\ UNCHANGED <<chainVars, shifted, dbVars, tasks, faults>>

\* The head is saved before a hole is filled if its block is the node's; if it
\* has a row already, any commit of the session writes it.
SavedHead == IF head # NoHead \/ parent = BlockHash(ih) THEN ih ELSE head

\* The block after parent is added.  Rows shift when one is added below the
\* offset, so that the row may be one that a query before has had: then nothing
\* is missing, and the block added lies above it ...
FillHole(r) ==
  /\ pc = "check" /\ IsFirst(r, rows)
  /\ IsHole(r)
  /\ LET missing == BlockHash(Number[parent] + 1)
     IN /\ Addable(missing)
        /\ stored' = stored \cup {missing}
  /\ head' = SavedHead
  /\ shifted' = (shifted \/ Number[r] <= Number[parent])
  /\ pc' = "filled" /\ row' = r
  /\ UNCHANGED <<chainVars, totals, archive, orphans, tasks, faults,
                 chunk, rows, parent, ih, last>>

\* ... the head steps back, and the walk goes on from the row above the hole,
\* however wide the hole is.
StepBack ==
  /\ pc = "filled"
  /\ head' = Number[parent] - 1
  /\ Advance(row)
  /\ UNCHANGED <<chainVars, shifted, stored, totals, archive, orphans, tasks, faults>>

\* It cannot be added: another task added it meanwhile, or the node fails.  A
\* database that refused it takes no more commits.
HoleStays(r) ==
  /\ pc = "check" /\ IsFirst(r, rows)
  /\ IsHole(r)
  /\ LET missing == BlockHash(Number[parent] + 1)
         refused == ~Addable(missing) /\ missing \notin stored
     IN /\ IF Addable(missing)
           THEN faults < MaxFaults /\ faults' = faults + 1
           ELSE UNCHANGED faults
        /\ head' = IF refused /\ parent # BlockHash(ih) THEN head ELSE SavedHead
  /\ Goto("idle")
  /\ UNCHANGED <<chainVars, shifted, stored, totals, archive, orphans, tasks>>

\* Mutants of Archived: one of the two process_reorg_block calls is missing.
ArchivedChildOnly(r) == {r}
ArchivedParentOnly(r) == {parent}

\* The two blocks that do not link, as process_reorg_block copies them.
Archived(r) == {parent, r}

\* Two stored blocks that do not link: both are copied to the reorg tables and
\* removed, each removal with its commit ...
RemoveChild(r) ==
  /\ pc = "check" /\ IsFirst(r, rows)
  /\ IsMismatch(r)
  /\ archive' = archive \cup Archived(r)
  /\ stored' = stored \ {r}
  /\ row' = r
  /\ head' = IF head # NoHead THEN ih ELSE head
  /\ pc' = "removeParent"
  /\ UNCHANGED <<chainVars, shifted, totals, orphans, tasks, faults,
                 chunk, rows, parent, ih, last>>

RemoveParent ==
  /\ pc = "removeParent"
  /\ stored' = stored \ {parent}
  /\ pc' = "refetch"
  /\ UNCHANGED <<chainVars, shifted, totals, archive, orphans, head, tasks, faults,
                 chunk, rows, parent, row, ih, last>>

\* ... then the node is asked for the block at the upper number ...
AskChild ==
  /\ pc = "refetch"
  /\ row' = BlockHash(Number[row])
  /\ pc' = "readd"
  /\ UNCHANGED <<chainVars, dbVars, tasks, faults, shifted, chunk, rows, parent, ih, last>>

\* ... which is added, and with it, in one commit, the one that the node has by
\* then at the lower number ...
Readd ==
  /\ pc = "readd"
  /\ LET under == BlockHash(Number[parent])
     IN /\ Addable(row)
        /\ Addable(under)
        /\ stored' = stored \cup {row, under}
  /\ pc' = "readded"
  /\ UNCHANGED <<chainVars, shifted, totals, archive, orphans, head, tasks, faults,
                 chunk, rows, parent, row, ih, last>>

\* ... the head steps back and the checks stop.
StopChecks ==
  /\ pc = "readded"
  /\ head' = Number[parent] - 1
  /\ Goto("idle")
  /\ UNCHANGED <<chainVars, shifted, stored, totals, archive, orphans, tasks, faults>>

\* The second block is already there or cannot be had from the node: the
\* exception is swallowed and the task's last commit keeps the first one.
ReaddChildOnly ==
  /\ pc = "readd"
  /\ Addable(row)
  /\ IF BlockHash(Number[parent]) \in stored
     THEN UNCHANGED faults
     ELSE faults < MaxFaults /\ faults' = faults + 1
  /\ stored' = stored \cup {row}
  /\ Goto("idle")
  /\ UNCHANGED <<chainVars, shifted, totals, archive, orphans, head, tasks>>

\* The first block cannot be added, or the database refuses the second.
ReaddNothing ==
  /\ pc = "readd"
  /\ \/ ~Addable(row)
     \/ /\ ~Addable(BlockHash(Number[parent]))
        /\ BlockHash(Number[parent]) \notin stored
  /\ Goto("idle")
  /\ UNCHANGED <<chainVars, shifted, dbVars, tasks, faults>>

\* The rows of the query are walked: the head is saved, whatever the node says.
EndChunk ==
  /\ pc = "check" /\ rows = {}
  /\ IF chunk + ChunkSize < last
     THEN /\ head' = IF ih # 0 THEN ih ELSE head
          /\ pc' = "query" /\ chunk' = chunk + ChunkSize
          /\ UNCHANGED <<rows, parent, row, ih, last>>
     ELSE /\ head' = IF ih # 0 \/ head # NoHead \/ parent # NoBlock
                     THEN ih ELSE head
          /\ Goto("sequence")
  /\ UNCHANGED <<chainVars, shifted, stored, totals, archive, orphans, tasks, faults>>

\* Mutant of Target: the range ends one short.
TargetExclusive == IF head = NoHead THEN -1 ELSE head - 1

\* The sequencing loop ends at the integrity head.
Target == IF head = NoHead THEN 0 ELSE head

\* No block counted yet.  The genesis block is added if block 1 is the first
\* one stored, and process_genesis reads the time of its child: either way
\* block 1 must be there.
CanSequenceGenesis ==
  /\ totals = {} /\ Target >= 0 /\ Occupied(1)
  /\ Genesis \in stored \/ Addable(Genesis)

SequenceGenesis ==
  /\ pc = "sequence"
  /\ CanSequenceGenesis
  /\ stored' = stored \cup {Genesis}
  /\ totals' = {Genesis}
  /\ UNCHANGED <<chainVars, shifted, archive, orphans, head, tasks, faults, seqVars>>

\* Mutant of CanSequence: any stored block above the highest counted one.
CanSequenceAnyAbove(b) ==
  /\ b \in stored /\ Number[b] <= Target
  /\ totals # {}
  /\ \A u \in totals : Number[u] < Number[b]

\* Mutant of CanSequence: the loop starts at the highest counted number again.
CanSequenceAgain(b) ==
  /\ b \in stored /\ Number[b] <= Target
  /\ \E t \in totals :
       /\ Number[b] \in {Number[t], Number[t] + 1}
       /\ \A u \in totals : Number[u] <= Number[t]
  /\ Number[b] > 0 => Occupied(Number[b] - 1)

\* The stored block above the highest counted one is counted in, on top of the
\* totals of that one: sequence_block and its commit.
CanSequence(b) ==
  /\ b \in stored /\ Number[b] <= Target
  /\ \E t \in totals :
       /\ Number[b] = Number[t] + 1
       /\ \A u \in totals : Number[u] <= Number[t]
  /\ Occupied(Number[b] - 1)

SequenceBlock(b) ==
  /\ pc = "sequence"
  /\ CanSequence(b)
  /\ totals' = {t \in totals : Number[t] # Number[b]} \cup {b}
  /\ UNCHANGED <<chainVars, shifted, stored, archive, orphans, head, tasks, faults, seqVars>>

SequenceDone ==
  /\ pc = "sequence"
  /\ ~CanSequenceGenesis
  /\ ~ \E b \in stored : CanSequence(b)
  /\ Goto("idle")
  /\ UNCHANGED <<chainVars, shifted, dbVars, tasks, faults>>

------------------------------------------------------------------------------
(* The node fails after add_block has flushed the first rows of block h: the   *)
(* exception is swallowed, and the last commit of the task keeps these rows.   *)
(* The tasks that accumulate blocks roll back instead, and the genesis block   *)
(* has no events or extrinsics whose rows could stay.                          *)

HalfAdded(h) ==
  /\ HalfAdds /\ faults < MaxFaults /\ faults' = faults + 1
  /\ Addable(h)
  /\ orphans' = orphans \cup {Number[h]}
  /\ Goto("idle")

HoleHalfFilled(r) ==
  /\ pc = "check" /\ IsFirst(r, rows)
  /\ IsHole(r)
  /\ HalfAdded(BlockHash(Number[parent] + 1))
  /\ head' = SavedHead
  /\ UNCHANGED <<chainVars, shifted, stored, totals, archive, tasks>>

ChildHalfAdded ==
  /\ pc = "readd"
  /\ HalfAdded(row)
  /\ UNCHANGED <<chainVars, shifted, stored, totals, archive, head, tasks>>

ParentHalfAdded ==
  /\ pc = "readd"
  /\ Addable(row) /\ stored' = stored \cup {row}
  /\ HalfAdded(BlockHash(Number[parent]))
  /\ UNCHANGED <<chainVars, shifted, totals, archive, head, tasks>>

\* The worker is killed, or an exception ends the task between two commits.
Crash ==
  /\ pc # "idle"
  /\ faults < MaxFaults
  /\ faults' = faults + 1
  /\ Goto("idle")
  /\ UNCHANGED <<chainVars, shifted, dbVars, tasks>>

------------------------------------------------------------------------------
Init ==
  /\ ChainInit
  /\ stored = {} /\ totals = {} /\ archive = {} /\ orphans = {} /\ head = NoHead
  /\ tasks = {} /\ faults = 0 /\ shifted = FALSE
  /\ pc = "idle" /\ chunk = 0 /\ rows = {} /\ parent = NoBlock /\ row = NoBlock
  /\ ih = NoHead /\ last = 0

Node == ChainNext /\ UNCHANGED <<dbVars, tasks, faults, shifted, seqVars>>

Walk ==
  \/ \E r \in rows : CheckRow(r) \/ FillHole(r) \/ HoleStays(r) \/ RemoveChild(r)
  \/ StepBack

Repair == RemoveParent \/ AskChild \/ Readd \/ StopChecks \/ ReaddChildOnly \/ ReaddNothing

Integrity == StartIntegrity \/ ReadChunk \/ Walk \/ Repair \/ EndChunk

HalfAdd ==
  \/ \E r \in rows : HoleHalfFilled(r)
  \/ ChildHalfAdded \/ ParentHalfAdded

Sequencing == SequenceGenesis \/ (\E b \in stored : SequenceBlock(b)) \/ SequenceDone

Next ==
  \/ Node
  \/ StartHarvester
  \/ \E t \in tasks : Accumulate(t) \/ LoseTask(t)
  \/ Integrity
  \/ Sequencing
  \/ HalfAdd
  \/ Crash

\* Celery delivers the queued calls, beat keeps starting the harvester, and the
\* harvester keeps queueing the sequencer task.  The node owes nothing.
Fairness ==
  /\ \A b \in Block : WF_vars(\E t \in tasks : t.next = b /\ Accumulate(t))
  /\ WF_vars(StartHarvester)
  /\ WF_vars(Integrity \/ Sequencing)

Spec == Init /\ [][Next]_vars
FairSpec == Spec /\ Fairness

------------------------------------------------------------------------------
Step ==
  {"idle", "query", "check", "filled", "removeParent", "refetch", "readd", "readded",
   "sequence"}

\* Every variable has its type; data_block has one block of a number (its
\* primary key, which every path that inserts has to respect); a repair holds
\* a block and the block one below it, a filled hole the blocks around it.
TypeOK ==
  /\ ChainTypeOK
  /\ stored \subseteq Block /\ totals \subseteq Block /\ archive \subseteq Block
  /\ \A b, c \in stored : Number[b] = Number[c] => b = c
  /\ head \in {NoHead, -1} \cup Height
  /\ tasks \subseteq AccumulateTask
  /\ orphans \subseteq Height
  /\ faults \in 0 .. MaxFaults /\ shifted \in BOOLEAN
  /\ pc \in Step
  /\ chunk \in Nat
  /\ rows \subseteq Block
  /\ parent \in Block \cup {NoBlock}
  /\ row \in Block \cup {NoBlock}
  /\ ih \in {NoHead, -1} \cup Height
  /\ last \in Height
  /\ pc \in {"filled", "removeParent", "refetch", "readd", "readded"} => parent \in Block
  /\ pc \in {"filled", "removeParent", "refetch", "readded"} => row \in Block
  /\ pc \in {"removeParent", "refetch"} => Number[row] = Number[parent] + 1
  /\ pc = "readd" /\ row # NoBlock => Number[row] = Number[parent] + 1

\* Sequencing goes block for block from genesis up: a counted block has a
\* counted block of every lower number under it (start_sequencer, and the
\* promise of sequencing_hook in app/processors/base.py).
TotalsContiguous ==
  \A t \in totals : \A n \in 0 .. Number[t] - 1 : \E u \in totals : Number[u] = n

\* No counted block is lost without a trace: one that has left data_block, by
\* whatever interleaving of removals, additions and crashes, is in the reorg
\* tables.
CountedWereStored == totals \subseteq stored \cup archive

\* Only the repair of a fork takes blocks out of data_block, and the copy in the
\* reorg tables is committed no later than the removal, so that a crash cannot
\* come between them.
RemovedAreArchived == [][stored \ stored' \subseteq archive']_vars

\* With FINALIZATION_ONLY every harvested block is on the finalized chain, the
\* ones fetched for gaps and holes by number included, and the repair never
\* finds anything to remove - until rows have shifted under a walk, which alone
\* brings in blocks that are not final.
FinalizedHarvest ==
  FinalizationOnly /\ ~shifted => stored \subseteq Finalized /\ archive = {}

\* With FINALIZATION_ONLY the totals add up one path of the chain, as long as no
\* rows have shifted: each counted block stands on the totals of its own parent.
TotalsFollowChain ==
  FinalizationOnly /\ ~shifted => \A t \in totals \ {Genesis} : Parent[t] \in totals

\* The integrity checks call a block missing ("Block #{} is missing") only when
\* the next stored block lies further up.
HolesAreHoles ==
  [][\A r \in rows : FillHole(r) \/ HoleStays(r) => Number[r] > Number[parent]]_vars

\* What is counted at a number is the block stored at that number.
TotalsCurrent ==
  \A t \in totals : \A b \in stored : Number[b] = Number[t] => b = t

\* Nothing is missing where no gaps are looked for.
FilledToFloor == \A n \in 1 .. Floor : n <= MaxHeight => Occupied(n)

\* However tasks are lost and processes die, every number above the genesis that
\* is final to the harvester is counted in the end, once the numbers are there
\* for which start_harvester does not look.
EventuallySequenced ==
  \A n \in 1 .. MaxHeight :
    FinalNumber >= n /\ FilledToFloor ~> \E t \in totals : Number[t] = n

\* The same where add_block may leave half of its rows: until it does, nothing
\* keeps a number from being counted.
SequencedUnlessOrphaned ==
  \A n \in 1 .. MaxHeight :
    FinalNumber >= n /\ FilledToFloor ~> orphans # {} \/ \E t \in totals : Number[t] = n

------------------------------------------------------------------------------
(* The abstract specification that this one implements.                    *)

\* The block of number n in bs, which has one of each number at most.
BlockAt(bs, n) ==
  IF \E b \in bs : Number[b] = n THEN CHOOSE b \in bs : Number[b] = n ELSE NoBlock

tableBar == [n \in Height |-> BlockAt(stored, n)]
countedBar == [n \in Height |-> BlockAt(totals, n)]

Idx == INSTANCE Indexer WITH table <- tableBar, counted <- countedBar, kept <- archive

\* The database a reader sees behaves as Indexer says, whatever the tasks do: no
\* row is overwritten, only copied blocks leave, copies are of blocks that were
\* there, and what is counted is counted in order and never again.
ImplementsIndexer == Idx!Spec
==============================================================================
