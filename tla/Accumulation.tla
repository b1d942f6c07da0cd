----------------------------- MODULE Accumulation -----------------------------
(***************************************************************************)
(* Accumulation: add_block and remove_block with every hook they run, over *)
(* blocks that come in in any order, are taken out again by the repair of  *)
(* forks and come back, as the same block or as another one of the number. *)
(* A rebuild of the search index goes over the blocks at the same time.    *)
(*                                                                         *)
(* A step is a call that commits; which calls the harvester makes is the   *)
(* matter of Harvester.  The reminder tables are those of Reminders, whose *)
(* steps are taken along; the other tables are one record.                 *)
(***************************************************************************)
EXTENDS Reminders, BlockRows, RuntimeRows

CONSTANTS
  Themes,      \* bound: sets of chains, a block for each number; one set is looked at
  Plain,       \* the theme of the reminder's histories
  Pallets,     \* the metadata of each runtime
  MaxLost,     \* bound: blocks whose events the node fails to give
  Searched,    \* bound: the themes in which the search index is rebuilt
  MaxRebuilds  \* bound: rebuilds of the search index

Quiet == [n \in Blocks |-> Nothing]

ASSUME AccumulationAssumption ==
  /\ MaxLost \in Nat /\ MaxRebuilds \in Nat
  /\ Plain \in Themes /\ Quiet \in Histories
  /\ \A theme \in Themes : \A k \in theme :
       /\ DOMAIN k = Blocks
       /\ \A n \in Blocks : /\ IsBlock(k[n]) /\ IsSettled(k[n])
                            /\ \A spec \in {k[n].spec, k[n].parentSpec} : IsMetadata(Pallets[spec])

\* The node takes an account once for an estimate.  Bound: in blocks of one number,
\* on whichever chain it is; a fork that has it in a block of another number
\* would take out the row of a block that is still there.
ASSUME ParticipationAssumption ==
  \A theme \in Themes : \A k, l \in theme : \A m, n \in Blocks :
    \A i \in DOMAIN k[m].events : \A j \in DOMAIN l[n].events :
      LET d == k[m].events[i]
          e == l[n].events[j]
      IN TakesPart(d) /\ TakesPart(e) /\ d.estimate = e.estimate /\ d.account = e.account
           => m = n

\* Events that tell the same of one purchase or era.
SaySame(d, e) ==
  /\ d.kind = e.kind
  /\ \/ d.kind \in {"NewPurchasedRequest", "PayForPurchase", "PurchasedAvgPrice"} /\ d.id = e.id
     \/ d.kind = "EndOfAskEra" /\ d.era = e.era

OfOneEstimate(d, e) == {d.kind, e.kind} \subseteq EstimateKinds /\ d.estimate = e.estimate

\* On a chain a purchase is asked for, paid and ended once and an era ends once; an
\* estimate is new in the first block that tells of it and told of once in a block,
\* and a session starts once in a block.
ASSUME HistoryAssumption ==
  \A theme \in Themes : \A k \in theme : \A m, n \in Blocks :
    \A i \in DOMAIN k[m].events : \A j \in DOMAIN k[n].events :
      LET d == k[m].events[i]
          e == k[n].events[j]
      IN <<m, i>> # <<n, j>> =>
           /\ ~SaySame(d, e)
           /\ OfOneEstimate(d, e) => m # n /\ (e.kind = "NewEstimates" => n < m)
           /\ d.kind = "NewSession" /\ e.kind = "NewSession" => m # n

VARIABLES
  chains,   \* the theme: what the node may show at each number
  content,  \* the block at each number, as the harvester will find or has found it
  tables,   \* the rows of BlockRows
  runtimes, \* the rows of RuntimeRows
  updates,  \* queued calls of update_balances_in_block: the blocks they are for
  listing,  \* a rebuild of the search index has truncated it and read no list of blocks yet
  between,  \* ghost: the blocks that were added meanwhile
  todo,     \* blocks a running rebuild has still to do
  partial,  \* ghost: the last rebuild was killed
  rebuilds, \* rebuilds so far
  lost,     \* blocks added without their events so far
  upward    \* ghost: blocks have come in from the lowest to the highest

rebuildVars == <<listing, between, todo, partial, rebuilds>>

vars2 == <<vars, chains, content, tables, runtimes, updates, rebuildVars, lost, upward>>

\* The runtimes after process_metadata for the block and for its parent; what
\* the first has committed stays when the second raises.
OwnRuntime(c) == WithRuntime(runtimes, c.spec, Pallets[c.spec])
OwnRaises(c) == Raises(runtimes, c.spec, Pallets[c.spec])
ParentRaises(c) == Raises(OwnRuntime(c), c.parentSpec, Pallets[c.parentSpec])
BothRuntimes(c) == WithRuntime(OwnRuntime(c), c.parentSpec, Pallets[c.parentSpec])

Accepted(n, c) ==
  ~OwnRaises(c) /\ ~ParentRaises(c) /\ ~WithBlock(tables, n, c).failed

\* The hook of a full block has queued its update, whatever becomes of the block.
Queued(n) == updates \cup ({n} \cap FullBlocks)

Accumulated(n, c) ==
  /\ Accepted(n, c)
  /\ tables' = WithBlock(tables, n, c)
  /\ runtimes' = BothRuntimes(c)
  /\ updates' = Queued(n)
  /\ upward' = (upward /\ \A m \in harvested : m < n)
  /\ between' = IF listing THEN between \cup {n} ELSE between
  /\ UNCHANGED <<chains, listing, todo, partial, rebuilds>>

\* add_block, committed.
AddBlock(n) ==
  /\ Harvest(n)
  /\ Accumulated(n, content[n])
  /\ UNCHANGED <<content, lost>>

\* The same while the node gives no events.  Bound: not when they are about the
\* reminder, which is as if it had another history.
AddBlockWithoutEvents(n) ==
  /\ history[n] = Nothing /\ content[n].events # <<>>
  /\ lost < MaxLost
  /\ lost' = lost + 1
  /\ Harvest(n)
  /\ Accumulated(n, WithoutEvents(content[n]))
  /\ content' = [content EXCEPT ![n] = WithoutEvents(@)]

\* add_block raises, or its commit is not reached: new runtimes are left of it
\* and, when its hooks have all run, the queued update.
RefusedBlock(n) ==
  LET c == content[n]
  IN /\ n \notin harvested
     /\ ~OwnRaises(c)
     /\ runtimes' = IF ParentRaises(c) THEN OwnRuntime(c) ELSE BothRuntimes(c)
     /\ updates' = IF Accepted(n, c) THEN Queued(n) ELSE updates
     /\ UNCHANGED <<vars, chains, content, tables, rebuildVars, lost, upward>>

\* update_balances_in_block: every account that has a balance in the block that the
\* node shows at the number now.  What it makes of the accounts is in Sequencing.
CreateFullSnapshot(n) ==
  /\ n \in updates
  /\ updates' = updates \ {n}
  /\ \E k \in chains : tables' = Snapshotted(tables, n, Holders, k[n].hash)
  /\ UNCHANGED <<vars, chains, content, runtimes, rebuildVars, lost, upward>>

\* Mutant of TakenOut: the archive is written when the block is out already.
TakenOutFirst(n) ==
  LET out == WithoutBlock(tables, n)
  IN [Archived([out EXCEPT !.blocks = tables.blocks], n) EXCEPT !.blocks = out.blocks]

\* The block is archived and goes out, by process_reorg_block and remove_block.
TakenOut(n) == WithoutBlock(Archived(tables, n), n)

RemoveBlock(n) ==
  /\ RemoveRows(n)
  /\ chains # Plain => history' = history
  /\ tables' = TakenOut(n)
  /\ \E k \in chains : content' = [content EXCEPT ![n] = k[n]]
  /\ UNCHANGED <<chains, runtimes, updates, rebuildVars, lost, upward>>

\* rebuild_search_index: the TRUNCATE, which commits by itself.
TruncateIndex ==
  /\ rebuilds < MaxRebuilds /\ chains \in Searched
  /\ ~listing /\ todo = {}
  /\ rebuilds' = rebuilds + 1
  /\ tables' = [tables EXCEPT !.index = NoRows]
  /\ listing' = TRUE /\ between' = {} /\ partial' = FALSE
  /\ UNCHANGED <<vars, chains, content, runtimes, updates, todo, lost, upward>>

\* Then it reads the list of the blocks there are by now,
ListBlocks ==
  /\ listing
  /\ listing' = FALSE /\ todo' = harvested
  /\ UNCHANGED <<vars, chains, content, tables, runtimes, updates, between, partial,
                 rebuilds, lost, upward>>

\* and commits block by block.
RebuildBlock ==
  /\ todo # {}
  /\ tables' = Reindexed(tables, Min(todo))
  /\ todo' = todo \ {Min(todo)}
  /\ UNCHANGED <<vars, chains, content, runtimes, updates, listing, between, partial,
                 rebuilds, lost, upward>>

\* The worker dies on it, or a row is refused.
KillRebuild ==
  /\ listing \/ todo # {}
  /\ listing' = FALSE /\ todo' = {} /\ partial' = TRUE
  /\ UNCHANGED <<vars, chains, content, tables, runtimes, updates, between, rebuilds,
                 lost, upward>>

AccumulationInit ==
  /\ Init
  /\ chains \in Themes /\ content \in chains
  /\ chains # Plain => history = Quiet
  /\ tables = NoTables /\ runtimes = NoRows
  /\ updates = {} /\ lost = 0 /\ upward = TRUE
  /\ listing = FALSE /\ between = {} /\ todo = {} /\ partial = FALSE /\ rebuilds = 0

AccumulationNext ==
  \/ \E n \in Blocks : \/ AddBlock(n) \/ AddBlockWithoutEvents(n) \/ RefusedBlock(n)
                       \/ RemoveBlock(n) \/ CreateFullSnapshot(n)
  \/ TruncateIndex \/ ListBlocks \/ RebuildBlock \/ KillRebuild

AccumulationSpec == AccumulationInit /\ [][AccumulationNext]_vars2

------------------------------------------------------------------------------
\* The tables as they would be with block n alone.
Alone(n) == WithBlock(NoTables, n, content[n])

IsolatedTables ==
  {"events", "extrinsics", "logs", "audits", "indices", "identities", "judgements",
   "contracts", "prices", "participants"}

\* "processing on an isolated block level; no context outside the current block
\* is available" (base.py:79): whatever order blocks come in in, go and come
\* back, these tables hold what each harvested block would have written alone,
\* and nothing else.
Isolated ==
  LET alone == [n \in harvested |-> Alone(n)]
  IN /\ \A f \in IsolatedTables : tables[f] = UNION {alone[n][f] : n \in harvested}
     /\ tables.blocks = [n \in harvested |-> alone[n].blocks[n]]

\* Harvested blocks whose index rows a rebuild has taken away and not yet written.
Waiting == IF listing THEN harvested \ between ELSE todo \ between

\* A row of the search index for each account that a block is about: none is
\* missing, but for the blocks a rebuild has still to do or was killed before,
\* whatever is added or removed while it runs.
IndexComplete ==
  ~partial => \A n \in harvested \ Waiting : DOMAIN Alone(n).index \subseteq DOMAIN tables.index

\* A block that was added between the TRUNCATE and the list is in the list, and is
\* indexed once more when the rebuild gets to it.
IndexedTwice(n) == n \in between /\ ~listing /\ n \notin todo

\* As long as no block has been removed there is one such row, and no other, but
\* for the blocks that came in between, which have theirs twice.
IndexExact ==
  removals = 0 /\ ~partial =>
    /\ DOMAIN tables.index = UNION {DOMAIN Alone(n).index : n \in harvested \ Waiting}
    /\ \A n \in harvested \ Waiting : \A row \in DOMAIN Alone(n).index :
         LET once == Alone(n).index[row]
         IN tables.index[row] = IF IndexedTwice(n) THEN 2 * once ELSE once

\* remove_block leaves balance snapshots of the removed block behind, and index
\* rows, which make the block that comes in for it take them all again: no
\* harvested block shows balances of another one.  A rebuild of the index ends this,
\* and of a full block the snapshots are taken later, by number.
SnapshotsCurrent ==
  rebuilds = 0 =>
    \A key \in DOMAIN tables.snapshots :
      key[1] \in harvested \ FullBlocks => tables.snapshots[key] = content[key[1]].hash

\* The counters of a block, in data_block and in the archive, are the numbers of
\* its rows: of events, extrinsics, logs and, when its events were found,
\* extrinsics that succeeded and failed.
CountersMatchRows ==
  LET matches(k, events, calls, logs) ==
        /\ k.events = Cardinality(events)
        /\ k.extrinsics = Cardinality(calls)
        /\ k.logs = Cardinality(logs)
        /\ k.success = Cardinality({r \in calls : r[3].success})
        /\ events # {} => k.error = Cardinality({r \in calls : ~r[3].success})
  IN /\ \A n \in harvested :
          matches(tables.blocks[n].counters, {r \in tables.events : r[1] = n},
                  {r \in tables.extrinsics : r[1] = n}, {r \in tables.logs : r[1] = n})
     /\ \A h \in DOMAIN tables.reorg :
          LET r == tables.reorg[h]
          IN matches(r.counters, r.events, r.extrinsics, r.logs)

------------------------------------------------------------------------------
Found(kind) ==
  UNION {{[block |-> n, e |-> content[n].events[i]] :
            i \in Positions(content[n].events, {kind})} : n \in harvested}

\* In whatever order the events of purchases and eras come in: every purchase
\* shows its request, its payment and its end, every era its requests and, when
\* it ended with points, its end.
RequestsAddUp ==
  removals = 0 =>
    /\ \A f \in Found("NewPurchasedRequest") :
         tables.purchases[f.e.id].created = f.block
    /\ \A f \in Found("PayForPurchase") :
         tables.purchases[f.e.id].status = 1 /\ tables.purchases[f.e.id].payment = f.e.fee
    /\ \A f \in Found("PurchasedAvgPrice") :
         tables.purchases[f.e.id].ended = f.block
    /\ \A f \in Found("EndOfAskEra") :
         f.e.points > 0 => tables.eras[f.e.era].ended = f.block
    /\ \A era \in DOMAIN tables.eras :
         tables.eras[era].requests =
           Cardinality({f \in Found("NewPurchasedRequest") : f.e.era = era})

EstimateEvents ==
  Found("NewEstimates") \cup Found("ActiveEstimates") \cup Found("CompletedEstimates")

\* Every estimate heard of is listed, in whatever order its events come in; from
\* the lowest block to the highest it has one row, in its latest state.
EstimatesListed ==
  removals = 0 =>
    \A f \in EstimateEvents :
      LET rows == RowsOfEstimate(tables, f.e.estimate)
          same == {g \in EstimateEvents : g.e.estimate = f.e.estimate}
      IN /\ rows # {}
         /\ upward /\ (\A g \in same : g.block <= f.block) =>
              /\ Cardinality(rows) = 1
              /\ tables.estimates[Min(rows)].state = f.e.state

\* Every check of a validator that the block of a new session finds is listed;
\* from the lowest block to the highest it is the one of the latest session.
ChecksListed ==
  \A f \in Found("NewSession") : \A key \in DOMAIN f.e.checks :
    /\ key \in DOMAIN tables.checks
    /\ removals = 0 /\ upward
         /\ (\A g \in Found("NewSession") : key \in DOMAIN g.e.checks => g.block <= f.block)
       => tables.checks[key] = f.e.checks[key]

\* The rows of one kind that the modules have together.
RowCount(modules, what) ==
  MapThenSumSet(LAMBDA id : Cardinality(modules[id][what]), DOMAIN modules)

\* The runtimes of a harvested block and of its parent are there with all their
\* modules, unless three pallets have one name, and the totals of a runtime are
\* the numbers of the rows of its modules.
RuntimesWhole ==
  /\ \A n \in harvested : \A spec \in {content[n].spec, content[n].parentSpec} :
       LET pallets == Pallets[spec]
       IN \/ spec \in DOMAIN runtimes
          \/ \E i, j, k \in DOMAIN pallets :
               /\ i < j /\ j < k
               /\ pallets[i].name = pallets[j].name /\ pallets[j].name = pallets[k].name
  /\ \A spec \in DOMAIN runtimes :
       LET r == runtimes[spec]
       IN /\ r.counts.modules = Cardinality(DOMAIN r.modules)
          /\ \A what \in {"calls", "events", "storage", "errors", "constants"} :
               r.counts[what] = RowCount(r.modules, what)
==============================================================================
