# Verification of the Polkascan pre-harvester

The harvester fills an explorer database from a Substrate node. It follows the
head of the chain downwards, looks for gaps, checks that stored blocks link,
repairs forks, and counts the blocks in from genesis up. This directory models
that machinery in TLA+, checks it with TLC on small instances, and proves the
most important facts with TLAPS for every value of the constants.

    tlc -config MCHarvester_best.cfg MCHarvester     # one run
    tlapm HarvesterProofs.tla                        # the proofs of a module

`PROJECT.json` lists components, runs, mutants, findings, hazards and theorems,
and maps every definition to the source lines it stands for.

## 1. The system

| Component | Source | State it keeps | Operations |
|---|---|---|---|
| Substrate node | external | best chain, finalized block | head, finalized head, hash at a number, block of a hash |
| Beat and workers | `app/tasks.py` | queue of celery calls | `start_harvester` every 10 s queues accumulate calls and `start_sequencer` |
| Accumulate calls | `app/tasks.py:87-164` | next hash, end hash, rest of the loop | add a block, go to its parent, queue the rest |
| Gap search | `app/models/data.py:100-134`, `app/tasks.py:243-275` | none | the runs of missing numbers and the calls for them |
| `add_block`, `remove_block` | `app/processors/converters.py:492-813` | `data_block`, `data_event`, `data_extrinsic`, `data_log`, ... | insert a block with its accumulation hooks; revert them and delete |
| Integrity checks | `converters.py:896-1016` | `INTEGRITY_HEAD`, reorg tables | walk the stored blocks, fill holes, repair forks |
| Sequencer | `converters.py:826-894, 1018-1094` | `data_block_total` and what the sequencing hooks write | count blocks in on their predecessor |
| Sequencer lock | `tasks.py:167-220`, `app/models/harvester.py`, `app/resources/harvester.py:259-295` | `SEQUENCER_TASK_ID` | take, take over after 60 s, clear |
| Hooks | `app/processors/{events,extrinsics,blocks}` | domain tables | accumulate (any order), revert, sequence (from genesis up) |
| Periodic totals | `tasks.py:318-485` | account balances, treasury | ask the node, write rows |
| HTTP resources | `app/resources` | none | start a task or one library call |
| Utilities | `app/utils`, `app/settings.py` | none | SS58, storage keys, settings by block |

All components meet in one database. Worker processes interleave at their
commits; nothing but primary keys and the sequencer lock keeps them apart.
A celery call is acknowledged when it ends, however it ends, and is not
retried. Every failure has to be made good by a later period of beat.

What is hard here: blocks arrive in any order and may be removed again; the
node's best chain moves while a walk is in memory; a repair takes several
commits; a failure may leave part of one; the sequencer may be started twice;
the hooks have to come out right under any order. The list of hazards, each at
its line and with the properties meant to catch it, is in `PROJECT.json`.

What makes each component correct:

* harvesting: one block of a number; with `FINALIZATION_ONLY` final blocks
  only; every final number is reached in the end, whatever is lost;
* integrity checks: nothing removed without a copy; the head names a block of
  the node; only missing blocks are called missing;
* sequencer: no hole in the totals, each block counted on its own parent, what
  was counted is what is stored;
* lock: one sequencer at a time, yet no dead one keeps the others out;
* accumulation hooks: "no context outside the current block is available"
  (`base.py:79`), so the tables hold what each block would write alone,
  whatever the order; where a hook does look at older rows (reminders, oracle,
  estimates, checks) nothing heard of is lost; a revert takes out the rows of
  its block, all of them, and no other's;
* sequencing hooks: what they fold up is what the chain says up to the block,
  and a block that failed half-way can be done again;
* search index and snapshots: complete, and never those of a removed block;
* runtime rows: whole or not there at all.

## 2. Modules

| Module | Stands for |
|---|---|
| `Chain` | the node: a constant tree of blocks, a best chain that grows and is reorganised above the finalized block. External, read off the calls the code makes. |
| `Gaps` | declarative forms of the gap search, shared by models and proofs |
| `GapScan` | the gap search as the code runs it: SQL pass and loop, over every table of a bounded size |
| `Harvester` | the harvester: tasks, `add_block`, integrity checks, repair, sequencer. EXTENDS `Chain`, `Gaps` |
| `Indexer` | the abstract specification: a table with a row per number, a ledger of counted blocks, copies. `Harvester` implements it |
| `MCHarvester` | the tree and paths TLC uses: a trunk of up to six blocks and a branch that leaves it after block 1 |
| `SequencerLock` | the lock row, calls, API requests, clock |
| `Reminders`, `MCReminders` | the Ares reminder hooks and their reverts, and the histories TLC tries |
| `Tables` | tables as functions from keys to rows: `save` and `delete` |
| `Oracle`, `Estimates`, `Audits` | accumulation hooks and reverts of prices and purchases, of estimates, and those that write audit rows, contracts and validator checks |
| `BlockRows` | `add_block` and `remove_block` row by row, search index, snapshots, archive. EXTENDS the three above |
| `RuntimeRows` | `process_metadata` |
| `Accumulation`, `MCAccumulation` | blocks that come, go and come back, with all of this at once. Composes `Reminders`, `BlockRows`, `RuntimeRows` |
| `Accounts`, `Sessions`, `Identities`, `BlockTotals` | sequencing hooks: audits into accounts, indices, balances and roles; sessions; identities and judgements; totals and burns |
| `Sequencing`, `MCSequencing` | genesis, `sequence_block`, its half-way failures, `POST /sequence`, the tasks for balances and burns. Composes `BlockRows` and the four above |
| `HarvesterProofs`, `LockProofs`, `GapScanProofs`, `AccumulationProofs`, `SequencingProofs`, `WorkProofs` | the theorems |
| `Recursion` | for the proofs: what holds of a fold, whatever its step |
| `BlockRowsProofs` | for the proofs: what `WithBlock` and `WithoutBlock` do to each table |

The system is cut at its tables. `Harvester` says which calls are made in which
order and what a crash leaves of them, with a block as one thing; `Accumulation`
lets any block come or go at any time, as the calls may, and looks at the rows;
`Sequencing` counts blocks from the lowest up, as the totals of `Harvester`
grow, and looks at what the hooks make of them.

### Harvester

A step ends where the code commits or asks the node. State and code:

* `stored`, `totals`, `archive`, `head` are `data_block`, `data_block_total`,
  `data_reorg_block` and the `INTEGRITY_HEAD` row. A block is its hash;
  `Number` and `Parent` are constants of the tree. `totals` holds the hash that
  was counted at a number, which the real row does not keep: the ghost that
  tells a stale total from a current one.
* `orphans` are numbers with event and extrinsic rows of a block that was never
  added. `add_block` flushes them long before the block row. The accumulate
  tasks roll back on error; the sequencer swallows the error and its caller
  commits, so the rows stay. `HalfAdds` turns these node failures on. The genesis
  block has neither events nor extrinsics, so a failure there leaves no rows.
* `shifted` is a ghost: rows have shifted under a walk, which then took a row of
  the query before for one with a hole below it and added a block above it
  (`FillHole`). The code reads 1000 rows a query; the chunk is a constant here,
  and the runs take several queries.
* `tasks` holds accumulate calls as `[next, end, left]`, with one block per
  step. It is a set: a second equal call would find the block there and end. A
  call with hash None, which a gap above the node's best block gives, is
  dropped: the block table refuses it.
* `pc` and the rest of `seqVars` are the sequencer task: `StartIntegrity`,
  `ReadChunk` (a query by row offset), one action per row (`CheckRow`,
  `FillHole` then `StepBack`, `HoleStays`, `RemoveChild`, `RemoveParent`,
  `AskChild`, `Readd` then `StopChecks`, and the cases where a block cannot be
  added; the node is asked twice in a repair and may answer from two chains),
  `EndChunk`, then `SequenceGenesis` / `SequenceBlock` / `SequenceDone`.
* `head`: `get_status` gives a transient row while there is none in the table;
  the first `save` makes it, and from then on any commit of the session writes
  the value in memory. `SavedHead` and the `head'` conjuncts follow that.
* A refused insert (`IntegrityError`) leaves the session unusable, so nothing
  more is committed; a `BlockAlreadyAdded` does not, so what was added before
  is kept (`ReaddChildOnly`).
* `Crash` and `LoseTask` spend the budget `MaxFaults`.

`Target`, `StartHash`, `GapTasks`, `CanSequence`, `Taken`, `Archived` and others
have a mutant next to them (`TargetExclusive`, ...), used to see that each
property really depends on the code it is about.

### Indexer

What is left of the harvester for a reader of its database: rows are filled
(`Insert`), emptied once their block has a copy (`Remove`), and counted from
genesis up (`Count`). Tasks, walks, the node and the integrity head are gone.
The mapping at the end of `Harvester` reads `table` off `stored` and `counted`
off `totals` (`BlockAt`); `kept` is `archive`. Every step of the harvester is
one of these or nothing: no row is overwritten in place, a number that is
counted stays counted with the same block, a copy is of a block that was there.
That the last holds is why a stale total (`harvester_stale`) stays for good.

### SequencerLock

One action per read, decision, end, failure or kill of a call, and the same for
an API request. A call reads the row at one time and decides later, and beat
queues further calls whether or not the workers have come to the ones before:
two may read one row (`lock_race`). `calm` is a ghost: no sequencer has been at
work longer than its lock lives, no call has read the row while another had read
and not decided, and no request has come in. The clock counts periods and wraps
after `Day`, as `diff_second` drops whole days. A call whose session was spoiled
ends without clearing the lock (`FinishFails`); a killed one never becomes
ready. Two flushes of one taking call are one step, and there is one API request
at a time.

### Reminders

`history` is what the chain says in each block; `Harvest` and `RemoveRows` are
`add_block` and `remove_block` restricted to the rows of one reminder.
`RemoveRows` may change the event of its block: the block that comes in may be
another one. Reminders do not meet (all queries are by `reminder_id`), so one is
enough. Bound: one event about it in a block.

### Accumulation

A step is a call that commits. `AddBlock` is the whole of `add_block`:
`BlockRows!WithBlock` is a chain of its stages in the order of the code -
events, extrinsics with their processors, event processors, logs, snapshots,
the block row with its counters - and `WithRuntime` is `process_metadata` for
the block and its parent. A hook that raises, or a key that is taken, sets
`failed`, and the step does not happen; what stays of it is the runtime
(`RefusedBlock`: `process_metadata` commits under its own savepoint).
`AddBlockWithoutEvents` is the `except` at `converters.py:643`. `RemoveBlock`
archives and reverts, and may leave the number to another block. The rebuild of
the search index truncates (`TruncateIndex`, which commits by itself), lists the
blocks (`ListBlocks`) and goes through them one commit at a time, and blocks come
and go between any two of these: `listing`, `todo` and the ghost `between` say
how far it is. A block of `FullBlocks` (multiples of
`BALANCE_FULL_SNAPSHOT_INTERVAL`) takes no snapshots; its hook queues
`update_balances_in_block` by number (`updates`), also when the block is refused
after it, and `CreateFullSnapshot` runs at any later time, for the block that the
node shows at the number then.

* A row is a tuple `<<block, place, ...>>`, and an event is a record of a kind
  and what its hook reads. Attributes that are copied from event to row without
  a look are the event itself.
* The index has autoincremented keys: `index` counts how often a row is there.
* `tables` also holds what one call of `add_block` keeps at hand (`fresh`,
  `gone`: `_accounts_new`, `_accounts_reaped`); it is empty between steps.
* A contract is unique by its code, so the same code twice refuses the block.
  An event whose attributes a hook does not recognise (`known` FALSE) is
  skipped by some hooks and raises in `KilledAccount`, as in the code.

### Sequencing

A block that is stored stays, and the blocks `Late` are stored at any time
(`HarvestBlock`), with the snapshots their hook takes. The sequencer takes a
block when all up to it are there, since its loop stops at a missing one. A block
is worked on in *pieces* (`AllPieces`): for block 0 the parts of
`process_genesis`; the removal of an old total; the block hooks in the order of
this process, one piece for each audit they find; the extrinsics; the events.
`Done` says what a piece does to `ledger`, the tables sequencing writes.

* `Step` does all pieces and commits the total. `shown` FALSE: the node failed
  to show the validators of a session, which the handler swallows
  (`new_session.py:36`).
* `Fail(order, k)`: the node does not answer at piece k. The exception ends the
  loop (`converters.py:1092-1094`) and the task commits (`tasks.py:207-218`):
  the pieces before k stay, the total does not. The block is then done over.
* `Raise`: the same with an error of a hook, which comes back every time: the
  time of a block is lost (its events were), or the old handler finds a session
  and calls a delete its row has not. The old handler also lets errors of the node
  through when it asks about a validator (`AsksOfSession`).
* `Clash`: a taken key. Nothing can be committed after it.
* `Request` is `POST /sequence`, which counts any block with what there is.
* `FullSnapshot`, `SelectBalances`, `UpdateBalance`: the first commit of
  `update_balances_in_block`, the SELECT of the newest snapshots, and the write of
  one account after the other. Blocks come in, are counted or given up between any
  two of these. An account that is written is locked in the database until the
  task commits, so a write is a step of its own; `late` is the ghost of
  the snapshots that came after the SELECT and before the last write.
* `StartBurns`, `RebuildBurn`: the loop of
  `rebuild_total_treasury_burn`, a block a step. The tasks run next to the sequencer.
* `Orders`: `ProcessorRegistry` takes the subclasses from a Python set, so the
  order of the block hooks may be another one after every start.

Taken of the chain: at most one burn and one session in a block, no two sessions
with one number, one treasury account. One sequencer is at work;
what becomes of the lock is the matter of `SequencerLock`.

## 3. Runs

| Run | Checks | Shows |
|---|---|---|
| `harvester_best` | `TypeOK`, `TotalsContiguous`, `CountedWereStored`, `RemovedAreArchived`, `ImplementsIndexer`, `SequencedUnlessOrphaned` | best-head mode across reorganisations and repairs, with crashes, lost tasks and half-added blocks; what a reader sees follows `Indexer`; every final number is counted in the end, unless a half-added block keeps it out |
| `harvester_finalized` | `FinalizedHarvest`, `TotalsFollowChain`, `EventuallySequenced` | `FINALIZATION_ONLY`, walked in more than one query, with a lost task or a crash: final blocks only, though gaps and holes are filled by number - until rows shift between two queries; and nothing final is left out, also then |
| `gap_scan` | `ScanFindsGaps`, `WalkIsPieces`, `PiecesAreMissing` | the SQL and the loop do what `Gaps` and `Pieces` say; no call is wasted |
| `accumulation` | `Isolated`, `SnapshotsCurrent`, `CountersMatchRows`, `RequestsAddUp`, `EstimatesListed`, `ChecksListed`, `RuntimesWhole`, `PointsAddUp`, `LatestTerms`, `RowsOfHarvested`, `IndexComplete`, `IndexExact` | all hooks of `add_block` and `remove_block` over any order of blocks, forks, lost events, new runtimes and full blocks; the search index also under blocks that come and go between the steps of a rebuild, and one that is killed |
| `sequencing` | `TotalsAddUp`, `BurnNotUnderstated`, `SessionsHoldBlocks`, `ReapedFollowsAudits`, `IdentityFollowsAudits`, `IndexOwner`, `RolesFollow`, `BalancesLatest`, `CanGoOn` | what the sequencing hooks fold up is what the chain says, with half-done blocks, late blocks, requests and the tasks for burns and balances in between |
| `lock_live` | `ApartWhileCalm`, `SequencingComesBack` | two sequencers overlap only after one outlived its lock, two calls decided at a time or a request came in; no dead lock keeps the sequencer out for ever |

Runs that find a disagreement between code and docs (details in `findings`):

| Run | Property violated | In short |
|---|---|---|
| `harvester_orphans` | `EventuallySequenced` | rows of a block half added by the walk keep the block out for ever |
| `harvester_stale` | `TotalsCurrent` | a repaired block below the sequencer's head is not counted again |
| `harvester_holes` | `HolesAreHoles` | row offsets shift; a stored block is called missing |
| `reminders_points` | `PointsBalance` | the revert of a message takes a second point |
| `lock_race` | `OneSequencer` | two calls read the cleared lock before one has written it, and both take it |
| `balances_overwritten` | `BalancesMostRecent` | a balance is overwritten by an older one that was read before |

More deviations are visible in the models without a run of their own. The
head saved at the end of a chunk (`EndChunk`, `converters.py:1007`) is not
compared with the node, as it is at lines 944 and 1012. A request that finds
the lock taken clears it (`RequestBusy`, `resources/harvester.py:281-287`), where
the comment has it check the task first; `lock_live` runs with such requests.
Nothing renews `last_modified` while a sequencer is at work, so that a call which
finds its lock more than a minute old joins it, with "Sequencer already running"
(`tasks.py:220`) for the younger ones only: `ApartWhileCalm` has this as a
condition. `get_missing_block_ids` looks for no gap at or below block 6289000
(`data.py:126-128`), so a number that a lost task leaves missing there is never
asked for (`FilledToFloor`). And at a multiple of `BALANCE_FULL_SNAPSHOT_INTERVAL` the
accounts of the search index get no snapshot of their own (`account_info.py:13-19`):
one that the block has killed is not among those that the queued task goes over, and
keeps the balance of its last snapshot.

The conditions of the properties say where a promise ends:

* `RequestsAddUp`, `EstimatesListed`: only until a block is removed; the oracle
  hooks but one have no revert, and those of estimates delete by block
  whatever a later block has made of the row. The order of estimates matters
  even without removals: an update harvested before its creation makes a
  second row, hence `upward`.
* `FinalizedHarvest`, `TotalsFollowChain`: until rows have shifted (`shifted`).
  `harvester_holes` shows how they do: a block added below the offset between two
  queries. The block that is then added by number may be one that is not final;
  it is walked over, saved as the head, counted, and later replaced.
* `EventuallySequenced`, `SequencedUnlessOrphaned`: for a number once none is missing
  from 1 to `Floor` (`FilledToFloor`), which the gap search leaves alone; a block
  lost there is lost, and with it the count. The second also ends with the first
  half-added block: `harvester_orphans` is its run without that exception.
* `IndexExact`, `SnapshotsCurrent`: `remove_block` leaves index and snapshot
  rows. The index rows are what makes the next block of the number take new
  snapshots of the same accounts; a rebuild of the index ends that. A block that
  comes in between the TRUNCATE and the list of a rebuild has its index rows
  twice from then on (`IndexedTwice`). Full blocks are left out of
  `SnapshotsCurrent`: the block that comes in for one shows the balances of the
  removed one until its own task has run.
* `BalancesLatest`: but for the snapshots `late`. When the task selected before
  a block came in and writes after it was counted, its older balance stays.
* `CountersMatchRows`: a block without events has extrinsics marked as failed
  and counts none of them as failed.
* `BurnNotUnderstated` says "at least": over a parent without burns, the burn is
  added to all burns of the table, its own included.
* `SessionsHoldBlocks` speaks of sessions that are numbered one after the other
  (`SessionsNumbered`), of which no event was lost, and of blocks counted in
  turn; an author is named for the blocks whose start was not hidden from the
  sequencer and whose slot or authority is that of a validator.
* `ReapedFollowsAudits` counts "at least" after a block was done over: its
  audits are applied twice. It leaves out the audit that makes the row, whatever
  that audit says: the hook inserts the row and looks no further.
* `IdentityFollowsAudits` leaves out the block that makes the account's row:
  when the identity hook happens to run before the account hook, that identity
  is lost.
* `IndexOwner` leaves out index 0, which `account_index.py:46` takes for none.
* `RolesFollow` speaks of accounts that had a row when the role was given: a
  council member without one is not marked later.
* The three properties on audits, and the roles and balances, are about moments
  at which no block is half done (`InStep`): in between, a hook may have gone
  through its audits and another not.
* `CanGoOn`: nominators of a half-done session keep their block out for ever,
  and so does a block whose time was lost. It holds through requests as well.

### Bounds

* Tree: `MaxHeight` 3 to 5 with one dead branch of up to three blocks. A repair
  takes two blocks, a hole needs one, so heights 1 to 3 give a repair at the
  top, below the top, next to the genesis block, and with a hole above it; rows
  that shift and then bring in a block that is not final take height 4 with two
  rows a query and height 5 with three.
* `Limit` 2 (`BLOCKS_LIMIT`, 100) makes calls queue other calls; a small `Wide`
  (1000 in the code) and `Threads` 2 or 3 (`MAXIMUM_THREAD`, 3) make gaps be
  cut up. `Floor` is 6289000 in the code and 1 here, so that the lowest gap is one
  that is not looked for. `gap_scan` goes through every table of the numbers up to 9
  with `Floor` 1. Its module assumes that the pieces of a wide gap fit into it,
  which 100 and 1000 do for up to 11 threads.
* `ChunkSize` 1000 in the code, against millions of blocks; 3 makes for several
  queries at height 5 (`finalized`), and 2 at height 4 (`holes`). Below 3 liveness
  cannot hold: the checks go back one row below the head, so a query of fewer than
  three rows need not make progress.
* `MaxTasks` 1: beat starts the harvester when no call is left, which queues
  one for the head and one for each piece of each gap, side by side.
  `MaxFaults` 1: one fault at any point; more faults repeat the same recovery.
* `Confirmations` 0 in all runs: with 1 the final number stays below every fork
  a tree of this height has, so that no repair happens. The other branch of
  `FinalNumber` is covered by the proofs only, which hold for every value.
* Accumulation: 3 blocks, so that one comes before, between and after two
  others, and 2 removals, of two blocks or of one twice; one loss of events. Block
  3 is a full block. One rebuild of the index, in a theme of its own (`Searched`),
  where a block that was removed comes back as it was: the rebuild reads rows and
  not the chain, and which block wrote them makes no difference to it. The holders of a balance are the same in
  every block, and one account is not among them: it was killed. A *theme* is
  two chains that part (in two themes there is but one), with the events of one group of
  hooks; tables of different groups do not meet, but for the index and the
  block row. The reminder's theme has every history of a creation with updates,
  messages and a release above it. Runtime 2 has two pallets of a name, 4 has
  three, 3 starts with a constant that cannot be decoded.
* Sequencing: blocks 0 to 3 of six chains (accounts, indices and identities;
  sessions by the new handler and by the old one; totals and burns; the same
  with lost events; one whose blocks all have balances): one session ends inside, a role changes hands twice, an
  account is made, reaped and made again, one block is made by authority (BABE)
  and not by slot. Two orders of the hooks, one the
  reverse of the other. `MaxFailures` 2: the block that is done over may fail
  again. Block 3 comes in late. One request, which is made for a block below which
  all are there, one rebuild of burns in the chains that have some (`Rebuilt`), and
  one run of `update_balances_in_block` in the one that is about balances
  (`Updated`; block 2 is a full block). `MaxPieces` 20 is more than any block has.
  `balances_overwritten` has that chain with blocks 2 and 3 late and two such runs.
  One runs at a time, as several workers would have it only for blocks 10000 apart,
  and it is not killed: half the balances written is what the steps before its end
  show as well. The old session handler, when the node fails on it, fails at the
  first validator.
* Lock: 3 calls (one at work, one deciding, one new). `Timeout` 1 and `Day` 5
  periods in `lock_live`: fewer calls wait at a time than the day has periods in
  which a lock is too old.
  `Timeout` 3 in `lock_race`, so that no lock is too old in it. Ids are used
  again when no row or call refers to them.

### Fairness

`FairSpec` of `Harvester` asks for three things: celery delivers queued
accumulate calls (weak fairness for each block a call stands at), beat keeps
starting the harvester, and the sequencer task, which every period of beat
queues again, keeps making steps. Nothing is asked of the node: it need not
import or finalize, and the property only speaks of numbers that are final.
`FairSpec` of `SequencerLock` asks for beat and for the calls to be taken up; a
sequencer may run as long as it likes, requests may never come. That the workers
are never a day behind with the calls is assumed by its bounds (`Call`, `Day`):
with a longer queue all calls could come to read the row just when its age, which
wraps after a day, is small again.

`harvester_finalized` has `HalfAdds` FALSE and `harvester_best` excepts what it
does, since `harvester_orphans` shows that one such failure is enough to stop the
sequencer. `FINALIZATION_ONLY` together
with confirmations is left out on purpose: it follows a head below the number
it waits for, and a final number is then not owed.

## 4. Proofs

All from the named assumptions of the modules: types of the constants, the tree
is a tree, paths are paths, a history creates its reminder before it updates
it. Each theorem is `Spec => []P` for the property `P` a run checks.

### Harvester, lock and gap search

* `TypeCorrect`: the one-block-per-number part is the core: each inserting
  action adds blocks that are `Addable`, and `Readd`, which adds two, adds them
  at different numbers because a repair holds a block and the one below it.
  That fact about `pc`, `parent` and `row` is in `TypeOK` because the rest is
  not inductive without it.
* `NothingCountedIsLost`, `RemovalsArchive`: from
  `TraceInv == TypeOK /\ ParentArchived /\ CountedWereStored`. `ParentArchived`
  says that between the two removals of a repair the second block is archived
  already; without it `RemoveParent` could lose a counted block.
* `SequencedInOrder`: every step counts nothing, the genesis block on empty
  totals, or one block right above the highest counted one (`TotalsSteps`).
* `HarvestIsFinal`, `TotalsAreOneChain`: by `FinalizedInv`, which says that
  stored blocks, queued calls and everything a walk holds are finalized, so that
  it meets no fork, as long as no rows have shifted. For any chunk size: a query
  may give a row again that the walk has passed, but what is done for it then
  is a hole that is filled above it (`shifted`), or nothing. The totals then follow from
  three invariants together: counted blocks are stored (nothing is archived),
  contiguous, and finalized blocks are one chain.
* `HarvesterImplementsIndexer`: `Init` maps to `Indexer`'s
  `Init` and every step to a step or a stutter. `IndexInv` adds two facts to
  those above: counted blocks have different numbers, and what a walk or a
  repair has in hand is in the table until it removes it (`InHand`), so that
  `Remove` finds its block there and copies only stored blocks. `InHand` holds
  because only the one sequencer removes blocks; with two it would not.
  `TableSteps` first sorts all steps by what they do to the three tables.
* `SequencersApart` (`LockProofs`): two sequencers overlap only when it is no
  longer calm, whatever was killed or failed before and however many calls are
  queued. `LockInv` adds to it that, while calm, calls decide one after the other,
  that a sequencer at work holds the lock and is within its time, and that a call
  which decides meanwhile has read just that. `lock_race` shows that the condition on
  calls that decide at a time is needed.
* `ScanIsRight`, `WalkIsRight`, `NoPieceIsWasted` (`GapScanProofs`): for tables
  of any size. `Scanned` is the invariant of the pass: after the rows of a set
  `S`, the runs found are the gaps of `S` and the session variable stands at
  its highest number; a row above them closes one more gap or none
  (`GapsOfOneMore`). `Walked` is the same for the loop over a gap. The last
  theorem needs `GapScanAssumption`: without it the last pieces of a wide gap
  would start below the gap, at numbers that are stored.

### Folds

The hooks of a block are a fold over its events, the SQL a fold over the rows.
The community modules define a fold by a recursive function over sets, and that
this function exists, and what it gives, takes an induction over an operator.
`Recursion` does that induction once, with the step and the choice of the next
element as its constants. `IterationExists` builds the function from
well-foundedness of `<` on sizes; `IterationKeeps` says that what holds at the
start and is kept by each step holds of each set. A module that folds takes an
`INSTANCE` of `Recursion` with its own step and proves for it that a step keeps
the invariant.

### Accumulation

* `TermsInAnyOrder`: until a block is taken out the shown
  terms are those of the latest harvested update, by case on which block comes
  in. `NoRowsOfRemoved`: reverts leave no rows, for any number of removals and
  changing blocks. `PointsInAnyOrder`: the points are a sum over the harvested
  blocks, by the lemma that a sum over a set with one more element is larger
  by what the element is worth.
* `AccumulationImplementsReminders`: seen at the reminder tables, every step of
  `Accumulation` is one of `Reminders` or nothing, so that the three theorems
  hold among all other hooks (`TermsAmongAllHooks`, `RowsAmongAllHooks`,
  `PointsAmongAllHooks`).
* `BlockRowsProofs` follows `WithBlock` through its stages and says of each
  table what rows of which keys a block adds, from the hook of one event to the
  fold over all of them. `BlocksIsolated` follows: `TablesInv` says that a
  table of a block's own rows is the union of what the harvested blocks write
  alone (`IsolatedIn`), which a block that comes in extends by its own part and
  a revert takes back.
* `SnapshotsStayCurrent`: `SnapshotsCurrent` is not inductive: a block that
  comes back takes snapshots only of the accounts it finds in the index. `SnapshotsInv`
  adds that every snapshot's account is in the index (`SnapshotsIndexed`),
  which removals do not break, and a rebuild does. Of full blocks nothing is said.
* `IndexIsComplete`, `IndexIsExact`: `IndexInv` states both for the harvested
  blocks that a running rebuild does not have before it (`Waiting`), and that, as
  long as nothing is removed, those it has are harvested ones: else a block
  could be put in twice. Those that came in between TRUNCATE and list are
  (`RowsAddUp`).
* `CountersAlwaysMatch`: counters are counted down the list of extrinsics while
  the rows are a set; they agree because a row is keyed by its place
  (`Cardinality` of a set that grows by one key). The same of the archive, as
  the block row that is copied there matched before.
* `RequestsAlwaysAddUp`, `EstimatesStayListed`, `ChecksStayListed`: tables that
  blocks share. `SharedInv` speaks of what the harvested blocks have told
  (`HeardOf`): all of it is in the tables (`Told`), and while blocks come in
  upwards the state is that of the latest (`Latest`). That no later hook
  overwrites an earlier fact needs that a chain tells each fact once
  (`HistoryAssumption`), and that the blocks are of one chain, which is in the
  invariant for as long as nothing was removed.
* `RuntimesStayWhole`: `process_metadata` as a fold over the pallets, with the
  totals counted along; a runtime is complete, or its savepoint takes back
  everything. Three pallets of one name break the second insert of a renamed
  pallet, hence the exception in the property (`ThreeAlike`).

These take of a block what the node gives: lists are lists and signers are
known to the block (`IsBlock`), each extrinsic ends once (`IsSettled`), the
node names an account once for an estimate (`ParticipationAssumption`), and
metadata is a list of pallets with lists in them (`IsMetadata`). TLC evaluates
all of them on the themes of `accumulation`.

### Sequencing

`SequencingProofs` and `WorkProofs` have the theorems on what the hooks fold up.
Their base is a chain of three arguments:

1. *Pieces.* `PieceKeeps` says of every piece of a block what it does to the
   ledger: which roles it may change and for whom (`ToAccounts`), and which
   part of the total it sets (`ToTotals`). It takes the place of looking at
   the hooks from here on.
2. *Blocks.* `After` is a fold over the pieces, once more by `Recursion`, so
   that what holds of each piece holds of any cut of a block (`AfterBegun`: all
   that a failure may have left) and of a whole one (`AfterDone`: it took its
   snapshots, its roles, its burn and its total). That the pieces are there
   whatever the order of the hooks, the `old` one before the total and the
   events last, is `BlockPiecesAre`; that lists of audits are lists needs that
   a block stores few of them, which comes from `BlockRowsProofs`.
3. *Steps.* `NextIs` brings `Next` down to five: a block is counted
   (`Counts`), is given up halfway (`GivesUp`), balances, one burn, or nothing
   of it. `SequencingInv` (the ledger has its shape, block 0 its row, keys are
   numbers of blocks) holds always; `Upward` says that while nobody has made a
   request the counted blocks are all from 0 up, the sequencer stands at the
   highest or nowhere, and only the one above may be half done.

On these:

* `TotalsAlwaysAddUp`: a total is set over its parent's or stays
  (`TotalsStay`). `SumsRight` has the bound for any order of requests and the
  equality without; that a sum does not shrink below a total when
  `process_genesis` adds block 0 later is `CountersToGrow`. The time is by
  `Passed`: the parent knows its time or no block below does, as else
  `TimeLost` would have raised.
* `BurnsNeverUnderstated`: by `BurnsRight`, through both places that set a
  burn. The rebuild may come to a block before its parent's burn is set again:
  the bound holds as the sum that the first burn starts from is over all
  events, those of later blocks as well.
* `RolesAlwaysFollow`: by `RolesRight`, which says the same also while the
  block above the highest is half done, unless its own events give the role.
  That a role that is held was noted as once held is part of the shape of an
  account (`IsAccount`), which every piece keeps.
* `BalancesStayLatest`: by `UpToDate`, which is the property without the
  condition that no block is half done: work on a block sets a balance to that
  block, above all that are counted, or leaves it. With what a task has selected it
  says that the selected balance is as new as each snapshot that is not `late`,
  so that writing it does no harm.

The other theorems need to know what a failure in the middle leaves of which
table, so `WorkProofs` goes piece by piece. A step that works on a block is a
call `w` (`Works`): it has the list of pieces, the ledger after each of them
(`w.run`), and the piece at which it ended, the last one or the one that raised.
What a piece does to one table is said once for all kinds of pieces
(`AccountsKept`, `RowsWithin`, `Folds`), and carried along the call from
one piece to the next (`Stretch`).

* `AlwaysCanGoOn`: by `SequencingInv` and `SessionsBegun`, which says which
  session and nominator rows can be there: those of sessions that started in
  blocks that are begun. A first attempt then finds none of its own in the way,
  and a second one only those it left itself. No other piece can raise, once a
  block has its time and its parent its total.
* `SessionsAlwaysHoldBlocks`: by `SessionRows` (a session whose block is counted
  has its row, with its start and the validators; a half-done block may have
  put its own there), and `SessionTotalsRight` (the totals of the session that
  ended count the blocks of it, and each counted block names the session that
  holds it). A block that starts a session still belongs to the one before, as
  `SessionOf` looks at the row of the parent (`SessionGoesOn`); `new_session`
  subtracts the start of the session before from the block of the event, and the
  proof counts the blocks that name that session and finds as many.
* `IdentitiesAlwaysFollow`, `IndicesAlwaysOwned`, `ReapedAlwaysFollows`: what is
  shown is what the audits of the counted blocks add up to. The property alone
  is not inductive, since a call that ends half-way has applied some audits of the
  next block. `IdentitiesRight`, `OwnersRight` and `ReapedRight` state it for the
  counted blocks with what is left open by `More`, the audits of the next block
  if it is begun: when none of these is about an account or index, the last
  audit of the counted blocks still decides. A whole call then goes through the
  audits of its block in the order of their events (`RowPieces`, which needs that
  the rows a block stores have different places in it: `StoredRows`), so that
  the last of them is applied last, also in a block that is done over. For
  identities and indices this is all.
  Reaping counts too. `ReapedAs` compares the counter with the number of audits
  after the one that made the row, by `GoesBy` along the pieces behind the row's
  first. Its equality lasts while no block was begun twice (`Doubt`), and else
  becomes "at least". That a row which the search index makes has no audit of its
  block left to come needs that the account hook goes through the audits first
  (`AuditsFirst`); block 0, whose audits come from genesis and are in no table,
  tells of no reaping (`QuietOn`).

They take of the chains what `ChainsAssumption` says (numbers 0 to `MaxBlock`,
blocks as in `IsBlock`, block 0 without events, one burn and one session event
to a block, no two sessions with one number, validators in a list) and of the
orders that each names each of the six hooks once (`SequencingAssumption`).
`MCSequencing` evaluates both.

### Only model-checked

Liveness: `EventuallySequenced`, `SequencedUnlessOrphaned`, `SequencingComesBack`. All invariants and action
properties of the passing runs are proved.

## 5. Not modelled

* Decoding of values, formatting, logging; the text encodings in `utils`; the
  overrides of the client library in `app/extend`.
* `process_genesis` with `SUBSTRATE_STORAGE_INDICES` at its default `EnumSet`
  (`converters.py:122-169`), where the accounts come from sets of indices and each
  gets an index audit of block 0. The deployment that is there
  (`docker-compose.yml:30`) sets `Accounts`, which is modelled. `IndexOwner` speaks
  of audits after block 0 only.
* The old session handler failing between two validators: it is taken to fail at
  the first. The rows of those before it would keep the block out, as `CanGoOn`
  allows for that handler.
* Reads of uncommitted rows (the sessions run READ UNCOMMITTED): every step
  here ends in a commit.
* Two workers in `process_metadata` of one runtime: the second meets the keys
  of the first inside its savepoint.
* `rebuild_account_info_snapshot`, `balance_snapshot` and
  `rebuild_oracle_price_snapshot`, tasks started by hand that loop over the
  functions modelled here. The first skips the row that makes it take a full
  snapshot (`tasks.py:330-334`).
* Sub-accounts of identities: the hooks have branches for them, but no
  processor writes the audit they wait for.
* The processors of extrinsics and events that only index: one of each shape is
  modelled.
* Schema migrations: generated; keys are read off `app/models/data.py`.
* `start_harvester` is one step; the gap list it holds may age by some blocks,
  which only gives calls that find their block there and end.
* `Harvester` and `Sequencing` have one sequencer. `SequencerLock` shows that
  there may be two.
* In best-head mode the stored blocks need not become the node's blocks: a call
  queued for a dead block may add it again after the repair. Nothing promises
  more, and no property here says more.

## 6. Plan

Done: the harvester core and the `Indexer` it implements, gap search, lock,
rows of blocks and runtimes with all accumulation hooks, sequencing with all
its hooks; every safety property that a passing run checks is proved. To come:

1. Two sequencing loops over one ledger, to see what the totals keep when the
   lock fails.
2. `rebuild_account_info_snapshot` and `balance_snapshot` next to the sequencer.
3. What the properties of `Sequencing` keep after requests out of order: most are
   stated for `requests = 0`.
