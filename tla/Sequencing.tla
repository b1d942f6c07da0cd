------------------------------ MODULE Sequencing ------------------------------
(***************************************************************************)
(* Sequencing: what start_sequencer and POST /sequence make of the blocks  *)
(* that are stored (converters.sequence_block with all its hooks), next to *)
(* the tasks that write balances and burns.                                *)
(*                                                                         *)
(* A block that is there stays; how its rows come in is the matter of      *)
(* Accumulation, which block is counted when that of Harvester.            *)
(***************************************************************************)
EXTENDS BlockRows, Sessions, Identities, BlockTotals

CONSTANTS
  MaxBlock,     \* bound: the highest block, to which all are verified
  Chains,       \* bound: the chains looked at, from block 0
  Orders,       \* bound: orders of the block hooks, which a process picks by chance
  Versions,     \* the ranges of NEW_SESSION_EVENT_HANDLER
  Late,         \* bound: the blocks that are not there from the first on
  Registrars,   \* the registrars at the node's head
  MaxFailures,  \* bound: calls to the node that fail
  MaxRequests,  \* bound: requests to count a block
  Updated,      \* bound: the chains in which update_balances_in_block runs,
  MaxUpdates,   \* and how often
  Rebuilt,      \* bound: the chains in which rebuild_total_treasury_burn runs,
  MaxRebuilds,  \* and how often
  MaxPieces     \* bound: as many pieces as a block has at most

Numbers == 0 .. MaxBlock

BlockHooks == {"account", "index", "info", "identity", "judgement", "total"}

ASSUME SequencingAssumption ==
  /\ MaxBlock \in Nat \ {0} /\ MaxFailures \in Nat /\ MaxRequests \in Nat
  /\ MaxUpdates \in Nat /\ MaxRebuilds \in Nat /\ MaxPieces \in Nat
  /\ Late \subseteq 2 .. MaxBlock
  /\ \A order \in Orders :
       /\ IsList(order) /\ Len(order) = 6 /\ ToSet(order) = BlockHooks
       /\ \A i, j \in DOMAIN order : order[i] = order[j] => i = j

\* The sessions that start with block n of a chain: block 0 starts one.
SessionsOf(c, n) ==
  IF n = 0 THEN {c[0].genesis.session}
  ELSE {c[n].events[i] : i \in Positions(c[n].events, {"NewSession"})}

IsSession(e) == {"session", "validators", "nominators"} \subseteq DOMAIN e /\ IsList(e.validators)

\* Of the blocks.  Block 0 has no events, and no two sessions have the same
\* number.  Bound: a block has one burn and one session at most.
ASSUME ChainsAssumption ==
  \A c \in Chains :
    /\ DOMAIN c = Numbers
    /\ c[0].events = <<>> /\ IsList(c[0].genesis.accounts) /\ IsList(c[0].genesis.members)
    /\ \A n \in Numbers :
         /\ IsBlock(c[n]) /\ c[n].time \in Int
         /\ \A i \in Positions(c[n].events, {"Burnt"}) : c[n].events[i].value \in Nat
         /\ \A kind \in {"Burnt", "NewSession"} :
              \A i, j \in Positions(c[n].events, {kind}) : i = j
         /\ \A e \in SessionsOf(c, n) :
              /\ IsSession(e)
              /\ \A m \in Numbers : \A f \in SessionsOf(c, m) : e.session = f.session => m = n

VARIABLES
  content,   \* the blocks as the node gives them
  stored,    \* for each of them the rows that add_block writes
  harvested, \* the blocks whose rows are there
  ledger,    \* the tables that sequencing writes
  snapshots, \* data_account_info_snapshot: block and account
  at,        \* the block that the running sequencer has come to, Null when none runs
  burning,   \* the block that the rebuild of burns comes to next, Null when none runs
  updating,  \* a full snapshot is written that update_account_balances has not read yet
  selected,  \* what it has read and not written yet: for an account its newest snapshot
  failures, requests, updates, rebuilds,
  hidden,    \* ghost: blocks of sessions whose validators the node did not show
  late,      \* ghost: snapshots that came when it had read and not yet written all
  begun,     \* ghost: blocks that sequencing has worked on
  again      \* ghost: those of them that it has worked on more than once

ghosts == <<hidden, begun, again>>
vars == <<content, stored, harvested, ledger, snapshots, at, burning, updating, selected, late,
          failures, requests, updates, rebuilds, ghosts>>

NoLedger ==
  [accounts |-> NoRows, owners |-> NoRows, judgements |-> NoRows, sessions |-> NoRows,
   sessionTotals |-> NoRows, validators |-> NoRows, nominators |-> {}, totals |-> NoRows,
   \* the row of block 0, and the audits that process_genesis writes for it
   zero |-> NoRows, genesis |-> <<>>,
   \* what a call keeps at hand: the total, whether a key was taken or a hook raised
   current |-> NoTotal, failed |-> FALSE, raised |-> FALSE]

Counted == DOMAIN ledger.totals
SequencerHead == IF Counted = {} THEN -1 ELSE Max(Counted)

UpTo(n) == 0 .. n

\* All blocks are there as far as block n.
Reached(n) == UpTo(n) \subseteq harvested

\* data_block, with block 0 once process_genesis has added it.  Nothing reads a
\* block that is not there.
DataBlock(s) ==
  [n \in (Numbers \ {0}) \cup DOMAIN s.zero |->
     IF n = 0 THEN s.zero[0] ELSE stored[n].blocks[n]]

BeforeOf(s, n) == RowOr(s.totals, n - 1, NoTotal)

\* The burns of a block, and of all events that are there.
BurntIn(n) ==
  SumFunction([i \in Positions(content[n].events, {"Burnt"}) |-> content[n].events[i].value])
Burns == SumFunction([n \in harvested \ {0} |-> BurntIn(n)])

\* The snapshots that add_block takes; one of a full block is left to a task.
SnapshotsOf(n) == IF n \in FullBlocks THEN {} ELSE {n} \X IndexedAt(stored[n], n)

------------------------------------------------------------------------------
(* What there is to do for a block, piece by piece.                        *)

\* The audits of block n in the order of its events.
InOrder(n, audits) ==
  FoldLeftDomain(LAMBDA rows, i : rows \o SetToSeq({a \in audits : a[2] = i}), <<>>,
                 content[n].events)
Pieces(hook, rows) == [i \in DOMAIN rows |-> [hook |-> hook, row |-> rows[i]]]

GenesisPieces(n) ==
  IF n = 0 THEN Pieces("genesis", <<"added", "accounts", "sudo", "session", "members">>)
  ELSE <<>>

AuditsOf(s, n) == IF n = 0 THEN s.genesis ELSE InOrder(n, stored[n].audits)

HookPieces(s, n, hook) ==
  CASE hook = "account" -> Pieces("audit", AuditsOf(s, n))
                             \o Pieces("indexed", SetToSeq(IndexedAt(stored[n], n)))
    [] hook = "index" -> Pieces("index", InOrder(n, stored[n].indices))
    [] hook = "identity" -> Pieces("identity", InOrder(n, stored[n].identities))
    [] hook = "judgement" -> Pieces("judgement", InOrder(n, stored[n].judgements))
    [] OTHER -> Pieces(hook, <<n>>)

\* sequence_block: an old total goes; then the hooks of the block in the order
\* of this process, those of its extrinsics and those of its events.
BlockPieces(s, n, order) ==
  Pieces("old", <<n>>)
    \o FoldLeft(LAMBDA pieces, hook : pieces \o HookPieces(s, n, hook), <<>>, order)
    \o Pieces("call", [i \in DOMAIN content[n].extrinsics |-> i])
    \o Pieces("event", content[n].events)

------------------------------------------------------------------------------
(* What a piece does.                                                      *)

SessionShown(e, shown) == IF shown THEN e ELSE NotShown(e)
NewHandler(n) == VersionedSetting(Versions, TRUE, content[n].spec)

NewAudits(accounts, roles) ==
  [i \in DOMAIN accounts |-> Audit(0, Null, "new", accounts[i], roles)]

\* process_genesis with SUBSTRATE_STORAGE_INDICES = 'Accounts', as docker-compose
\* sets it; by default ('EnumSet') the accounts come from the sets of indices, and
\* each has an index audit of block 0 besides.  The audits have keys of their own:
\* a second run doubles them.
GenesisDone(s, part, shown) ==
  LET g == content[0].genesis
      row == RowOr(s.zero, 0, stored[0].blocks[0])
      child == stored[1].blocks[1].datetime
  IN CASE part = "added" ->
            [s EXCEPT !.zero = Put(@, 0, [row EXCEPT !.datetime = IF child = Null THEN @ ELSE child])]
       [] part = "accounts" ->
            [s EXCEPT !.genesis = @ \o NewAudits(g.accounts, Null)
                                    \o NewAudits(<<Treasury>>, {"treasury"}),
                      !.zero[0].counters.new = Len(g.accounts)]
       [] part = "sudo" -> [s EXCEPT !.genesis = @ \o NewAudits(<<g.sudo>>, {"sudo"})]
       [] part = "session" -> NewSession(s, 0, SessionShown(g.session, shown), NewHandler(0))
       [] part = "members" -> [s EXCEPT !.genesis = @ \o NewAudits(g.members, {"tech_comm"})]

TotalDone(s, n) ==
  IF TimeLost(DataBlock(s), n) THEN [s EXCEPT !.raised = TRUE]
  ELSE [s EXCEPT !.current =
          WithTotals(s.validators, DataBlock(s), n, BeforeOf(s, n), s.current.burn)]

CallDone(s, n, i) ==
  LET x == content[n].extrinsics[i]
  IN IF x.call = "set_key" THEN SudoSetKey(s, x, Succeeded(content[n], i)) ELSE s

EventDone(s, n, shown, e) ==
  CASE e.kind = "NewTerm" -> CouncilNewTerm(s, e)
    [] e.kind = "RegistrarAdded" -> RegistrarAdded(s, Registrars)
    [] e.kind = "NewSession" -> NewSession(s, n, SessionShown(e, shown), NewHandler(n))
    [] e.kind = "Burnt" -> [s EXCEPT !.current.burn = BurnTotal(BeforeOf(s, n), e.value, Burns)]
    [] OTHER -> s

Done(s, n, shown, piece) ==
  CASE piece.hook = "genesis" -> GenesisDone(s, piece.row, shown)
    [] piece.hook = "old" -> [s EXCEPT !.totals = Without(@, {n}),
                                       !.current.burn = BeforeOf(s, n).burn]
    [] piece.hook = "audit" -> AuditApplied(s, n, piece.row)
    [] piece.hook = "indexed" -> IndexedAccount(s, n, piece.row)
    [] piece.hook = "index" -> IndexAuditApplied(s, piece.row)
    [] piece.hook = "info" ->
         SnapshotsApplied(s, n, {key[2] : key \in {k \in snapshots : k[1] = n}})
    [] piece.hook = "identity" -> IdentityApplied(s, piece.row)
    [] piece.hook = "judgement" -> JudgementApplied(s, piece.row)
    [] piece.hook = "total" -> TotalDone(s, n)
    [] piece.hook = "call" -> CallDone(s, n, piece.row)
    [] piece.hook = "event" -> EventDone(s, n, shown, piece.row)

Stopped(s) == s.failed \/ s.raised

After(s, n, shown, pieces) ==
  FoldLeft(LAMBDA u, piece : IF Stopped(u) THEN u ELSE Done(u, n, shown, piece), s, pieces)

\* add_session catches what the node raises.  add_session_old does not when it
\* asks about a validator.  Bound: what it raises it raises at the first.
AsksOfSession(n, e) == ~NewHandler(n) /\ e.validators # <<>>

\* The pieces in which the node is asked, and not to answer is an error.
Asks(s, n, piece) ==
  CASE piece.hook = "genesis" ->
         CASE piece.row = "added" -> 0 \notin DOMAIN s.zero
           [] piece.row = "session" -> AsksOfSession(0, content[0].genesis.session)
           [] OTHER -> TRUE
    [] piece.hook = "audit" -> AsksOfAccount(s, piece.row[4])
    [] piece.hook = "indexed" -> AsksOfAccount(s, piece.row)
    [] piece.hook = "event" ->
         \/ piece.row.kind = "RegistrarAdded"
         \/ piece.row.kind = "NewSession" /\ AsksOfSession(n, piece.row)
    [] OTHER -> FALSE

\* sequenced_block.save, and the commit.
WithTotal(s, n) == [s EXCEPT !.totals = Put(@, n, s.current), !.current = NoTotal]

\* A commit of what there is, without the total.
Cut(s) == [s EXCEPT !.current = NoTotal, !.raised = FALSE]

------------------------------------------------------------------------------
Worked(n) ==
  /\ begun' = begun \cup {n}
  /\ again' = again \cup ({n} \cap begun)

HasSession(n) == n = 0 \/ Positions(content[n].events, {"NewSession"}) # {}

Shown(n, shown) ==
  /\ shown \/ HasSession(n)
  /\ hidden' = IF shown THEN hidden \ {n} ELSE hidden \cup {n}

Init ==
  /\ content \in Chains
  /\ stored = [n \in Numbers |-> WithBlock(NoTables, n, content[n])]
  /\ ledger = NoLedger
  /\ harvested = Numbers \ Late
  /\ snapshots = UNION {SnapshotsOf(n) : n \in harvested}
  /\ at = Null /\ burning = Null
  /\ updating = FALSE /\ selected = NoRows /\ late = {}
  /\ failures = 0 /\ requests = 0 /\ updates = 0 /\ rebuilds = 0
  /\ hidden = {} /\ begun = {} /\ again = {}

\* add_block, as far as the blocks already there go: new rows, and new snapshots.
HarvestBlock(n) ==
  /\ n \in Numbers \ harvested
  /\ harvested' = harvested \cup {n}
  /\ snapshots' = snapshots \cup SnapshotsOf(n)
  /\ late' = IF DOMAIN selected = {} THEN late ELSE late \cup SnapshotsOf(n)
  /\ UNCHANGED <<content, stored, ledger, at, burning, updating, selected, failures, requests,
                 updates, rebuilds, ghosts>>

\* start_sequencer goes on above the highest total.
Start ==
  /\ at = Null /\ SequencerHead < MaxBlock
  /\ at' = SequencerHead
  /\ UNCHANGED <<content, stored, harvested, ledger, snapshots, burning, updating, selected,
                 late, failures, requests, updates, rebuilds, ghosts>>

\* The run has come to its end, or its worker is killed between two blocks.
Leave ==
  /\ at # Null
  /\ at' = Null
  /\ UNCHANGED <<content, stored, harvested, ledger, snapshots, burning, updating, selected,
                 late, failures, requests, updates, rebuilds, ghosts>>

AllPieces(n, order, shown) ==
  GenesisPieces(n) \o BlockPieces(After(ledger, n, shown, GenesisPieces(n)), n, order)

\* The running sequencer takes the next block that is verified, with the node's
\* help or without.
Taken(n, shown) ==
  /\ at # Null /\ at < MaxBlock /\ n = at + 1 /\ Reached(n)
  /\ Shown(n, shown)
  /\ UNCHANGED <<content, stored, harvested, snapshots, burning, updating, selected, late,
                 requests, updates, rebuilds>>

Step(order, shown) ==
  LET n == at + 1
      s == After(ledger, n, shown, AllPieces(n, order, shown))
  IN /\ Taken(n, shown) /\ Worked(n)
     /\ ~Stopped(s)
     /\ ledger' = WithTotal(s, n)
     /\ at' = n
     /\ failures' = failures + (IF shown THEN 0 ELSE 1) /\ failures' <= MaxFailures

\* start_sequencer catches what a hook raises, and its task commits.
Raise(order) ==
  LET n == at + 1
      s == After(ledger, n, TRUE, AllPieces(n, order, TRUE))
  IN /\ Taken(n, TRUE) /\ Worked(n)
     /\ s.raised
     /\ ledger' = Cut(s)
     /\ at' = Null
     /\ UNCHANGED failures

\* The same when the node does not answer at the k-th piece.
Fail(order, k) ==
  LET n == at + 1
      pieces == AllPieces(n, order, TRUE)
      s == After(ledger, n, TRUE, SubSeq(pieces, 1, k - 1))
  IN /\ Taken(n, TRUE) /\ Worked(n)
     /\ failures < MaxFailures /\ failures' = failures + 1
     /\ k <= Len(pieces) /\ ~Stopped(s) /\ Asks(s, n, pieces[k])
     /\ ledger' = Cut(s)
     /\ at' = Null

\* After a key that is taken nothing can be committed.
Clash(order) ==
  LET n == at + 1
  IN /\ Taken(n, TRUE) /\ UNCHANGED <<begun, again>>
     /\ After(ledger, n, TRUE, AllPieces(n, order, TRUE)).failed
     /\ at' = Null
     /\ UNCHANGED <<ledger, failures>>

\* POST /sequence: one block, whatever is counted; with block 1 comes block 0,
\* which must not be there.  An error leaves nothing behind.  Bound: a block below
\* which all are there.
Request(n, order) ==
  LET added == IF n = 1 THEN [ledger EXCEPT !.zero = Put(@, 0, stored[0].blocks[0])] ELSE ledger
      s == After(added, n, TRUE, BlockPieces(added, n, order))
  IN /\ requests < MaxRequests /\ requests' = requests + 1
     /\ n \notin Counted /\ Reached(n)
     /\ n = 0 => 0 \in DOMAIN ledger.zero
     /\ n = 1 => 0 \notin DOMAIN ledger.zero
     /\ ~Stopped(s)
     /\ ledger' = WithTotal(s, n)
     /\ Worked(n) /\ Shown(n, TRUE)
     /\ UNCHANGED <<content, stored, harvested, snapshots, at, burning, updating, selected,
                    late, failures, updates, rebuilds>>

\* update_balances_in_block: a snapshot of all accounts.  Bound: one such task runs
\* at a time, and is not killed.
FullSnapshot(n) ==
  /\ content \in Updated /\ updates < MaxUpdates /\ updates' = updates + 1
  /\ ~updating /\ DOMAIN selected = {} /\ updating' = TRUE
  /\ n \in FullBlocks \cap harvested \cap DOMAIN DataBlock(ledger)
  /\ snapshots' = snapshots \cup ({n} \X Holders)
  /\ UNCHANGED <<content, stored, harvested, ledger, at, burning, selected, late, failures,
                 requests, rebuilds, ghosts>>

\* update_account_balances: what the newest snapshots are is read at once ...
SelectBalances ==
  /\ updating /\ updating' = FALSE
  /\ selected' = Newest(snapshots)
  /\ late' = {}
  /\ UNCHANGED <<content, stored, harvested, ledger, snapshots, at, burning, failures, requests,
                 updates, rebuilds, ghosts>>

\* ... and written account by account, whatever has been counted since.  The row is
\* locked until the task commits, so a block that writes it comes before or after.
UpdateBalance(a) ==
  /\ a \in DOMAIN selected
  /\ ledger' = BalancesUpdated(ledger, [b \in {a} |-> selected[b]])
  /\ selected' = Without(selected, {a})
  /\ UNCHANGED <<content, stored, harvested, snapshots, at, burning, updating, late, failures,
                 requests, updates, rebuilds, ghosts>>

\* rebuild_total_treasury_burn.
StartBurns ==
  /\ content \in Rebuilt /\ rebuilds < MaxRebuilds /\ rebuilds' = rebuilds + 1
  /\ burning = Null /\ burning' = 1
  /\ UNCHANGED <<content, stored, harvested, ledger, snapshots, at, updating, selected, late,
                 failures, requests, updates, ghosts>>

\* One block of it.  A block without a total is passed over; one whose parent
\* has none ends the task.
RebuildBurn ==
  LET n == burning
      events == content[n].events
      before == IF n > 1 THEN BeforeOf(ledger, n) ELSE NoTotal
      burns == Positions(events, {"Burnt"})
      burn == IF burns = {} THEN before.burn
              ELSE BurnTotal(before, events[Min(burns)].value, Burns)
  IN /\ burning # Null
     /\ burning' = IF n = MaxBlock \/ (n > 1 /\ n - 1 \notin Counted) THEN Null ELSE n + 1
     /\ ledger' = IF n \notin Counted \/ (n > 1 /\ n - 1 \notin Counted) THEN ledger
                  ELSE [ledger EXCEPT !.totals[n].burn = burn]
     /\ UNCHANGED <<content, stored, harvested, snapshots, at, updating, selected, late,
                    failures, requests, updates, rebuilds, ghosts>>

Next ==
  \/ \E n \in Numbers : HarvestBlock(n)
  \/ Start
  \/ Leave
  \/ \E order \in Orders, shown \in BOOLEAN : Step(order, shown)
  \/ \E order \in Orders : Raise(order)
  \/ \E order \in Orders : Clash(order)
  \/ \E order \in Orders : \E k \in 1 .. MaxPieces : Fail(order, k)
  \/ \E n \in Numbers, order \in Orders : Request(n, order)
  \/ \E n \in Numbers : FullSnapshot(n)
  \/ SelectBalances
  \/ \E a \in DOMAIN selected : UpdateBalance(a)
  \/ StartBurns
  \/ RebuildBurn

Spec == Init /\ [][Next]_vars

------------------------------------------------------------------------------
(* Properties.                                                             *)

\* The sequencer alone has been at work, and no block is half done.
InStep == requests = 0 /\ begun \subseteq Counted

\* The totals that are sums of the counter of their name.
Summed == {"extrinsics", "success", "error", "signed", "events", "transfers", "logs",
           "sessions", "contracts", "reaped"}

\* The totals of a block are the sums over the blocks up to it - never more,
\* even when blocks were counted out of order - and the time it took to get
\* there is what has passed since the first block that knows its time.
TotalsAddUp ==
  \A n \in Counted :
    LET t == ledger.totals[n]
        blocks == DataBlock(ledger)
        there == DOMAIN blocks \cap UpTo(n)
        timed == {m \in there : blocks[m].datetime # Null}
    IN /\ \A f \in Summed :
            /\ t[f] <= SumFunction([m \in there |-> blocks[m].counters[f]])
            /\ requests = 0 => t[f] = SumFunction([m \in there |-> blocks[m].counters[f]])
       /\ requests = 0 =>
            t.accounts = SumFunction([m \in there |-> blocks[m].counters.new
                                                        - blocks[m].counters.reaped])
       /\ requests = 0 /\ n \in timed =>
            t.blocktime = blocks[n].datetime - blocks[Min(timed)].datetime

\* The treasury has burnt at least what the events up to the block say.
BurnNotUnderstated ==
  requests = 0 =>
    \A n \in Counted : ledger.totals[n].burn >= SumFunction([m \in 1 .. n |-> BurntIn(m)])

\* The sessions that started by block n, and the one that started with block m.
SessionBlocks(n) == {m \in UpTo(n) : HasSession(m)}
SessionAt(m) ==
  IF m = 0 THEN content[0].genesis.session
  ELSE content[m].events[Min(Positions(content[m].events, {"NewSession"}))]

\* How many sessions have started after block 0.
SessionsBy(n) == Cardinality({m \in 1 .. n : HasSession(m)})

\* The node counts sessions from 0 on, and the event of none was lost.
SessionsNumbered == \A n \in Numbers : HasSession(n) => SessionAt(n).session = SessionsBy(n)

\* A block belongs to the session that started last before it, and its author
\* is the validator of that session whose turn it was; a session that has ended
\* has as many blocks as belong to it.
SessionsHoldBlocks ==
  requests = 0 /\ SessionsNumbered =>
    /\ \A n \in Counted \ {0} :
         LET start == Max(SessionBlocks(n - 1))
             e == SessionAt(start)
             made == stored[n].blocks[n].made
             turn == IF made.authority # Null THEN made.authority ELSE made.slot % Len(e.validators)
         IN /\ ledger.totals[n].session = e.session
            /\ start \notin hidden /\ made.slot # Null /\ e.validators # <<>>
                 /\ turn \in 0 .. Len(e.validators) - 1 =>
                 ledger.totals[n].author = e.validators[turn + 1]
    /\ \A n \in Counted \ {0} :
         HasSession(n) =>
           LET ended == SessionAt(n).session - 1
           IN /\ ended \in DOMAIN ledger.sessionTotals
              /\ ledger.sessionTotals[ended].count =
                   Cardinality({m \in 1 .. n : ledger.totals[m].session = ended})

\* The audits of a table in the blocks after block 0 that are counted.
AuditsSoFar(table) == UNION {stored[m][table] : m \in 1 .. SequencerHead}

\* Audit r comes after audit q: in a later block, or with a later event.
Later(r, q) == r[1] > q[1] \/ (r[1] = q[1] /\ r[2] > q[2])
IsLast(r, audits) == r \in audits /\ \A q \in audits : ~Later(q, r)

\* An account is reaped when the last that was heard of it is that it was, and
\* has been as often as it was heard - or more often, when a block was done over.
\* The audit that made its row does not count.
ReapedFollowsAudits ==
  InStep =>
    \A a \in DOMAIN ledger.accounts :
      LET row == ledger.accounts[a]
          about == {r \in AuditsSoFar("audits") : r[4] = a}
          since == {r \in about : r[1] > row.created \/ \E q \in about : Later(r, q)}
          reaped == Cardinality({r \in since : r[3] = "reaped"})
      IN /\ row.count_reaped >= reaped
         /\ \A r \in since : IsLast(r, since) => row.reaped = (r[3] = "reaped")
         /\ again = {} => row.count_reaped = reaped /\ (since = {} => ~row.reaped)

\* An account has the identity that was set last, and none when it was cleared
\* since; a registrar's judgement is the last one it gave.
IdentityFollowsAudits ==
  InStep =>
    /\ \A a \in DOMAIN ledger.accounts :
         LET about == {r \in AuditsSoFar("identities") : r[4] = a}
         IN \A r \in about : IsLast(r, about) /\ ledger.accounts[a].created < r[1] =>
              ledger.accounts[a].identity = IF r[3] = "set" THEN r[5] ELSE Null
    /\ \A key \in DOMAIN ledger.judgements :
         LET given == {r \in AuditsSoFar("judgements") :
                         <<r[4], r[5].registrar>> = key /\ r[5].value # Null}
         IN \E r \in given : IsLast(r, given) /\ ledger.judgements[key] = r[5].value

\* The audit frees the index that another gave.
Frees(r, given) == r[3] = "reaped" /\ (r[5] = given[5] \/ (r[4] = given[4] /\ r[5] = Null))

\* An index other than 0 belongs to the account that got it last, until it is
\* freed or the account is reaped.
IndexOwner ==
  InStep =>
    LET audits == AuditsSoFar("indices")
    IN \A g \in {r \in audits : r[3] = "new" /\ r[5] \notin {Null, 0}} :
         IsLast(g, {r \in audits : r[3] = "new" /\ r[5] = g[5]}) =>
           /\ g[5] \in DOMAIN ledger.owners
           /\ ledger.owners[g[5]] =
                IF \E r \in audits : Later(r, g) /\ Frees(r, g) THEN Null ELSE g[4]

\* Who got a role last, as far as block n: at which block, and the accounts.
Appointed(role, n) ==
  LET kind == IF role = "council" THEN "NewTerm" ELSE "NewSession"
      blocks == {m \in 1 .. n : Positions(content[m].events, {kind}) # {}}
      e == content[Max(blocks)].events[Max(Positions(content[Max(blocks)].events, {kind}))]
  IN IF blocks = {} THEN [block |-> Null, accounts |-> {}]
     ELSE [block |-> Max(blocks),
           accounts |-> ToSet(IF role = "council" THEN e.members ELSE e.validators)]

\* The council and the validators are the accounts that the last term and the
\* last session named, of those that had a row by then; a role that an account
\* has it has had, the treasury apart.
RolesFollow ==
  /\ InStep =>
       \A role \in {"council", "validator"} :
         LET by == Appointed(role, SequencerHead)
         IN by.block \notin hidden \cup {Null} =>
              \A a \in DOMAIN ledger.accounts :
                role \in ledger.accounts[a].is
                  <=> a \in by.accounts /\ ledger.accounts[a].created <= by.block
  /\ \A a \in DOMAIN ledger.accounts :
       ledger.accounts[a].is \subseteq ledger.accounts[a].was \cup {"treasury"}

\* The accounts whose balance no task is about to write.
BalanceRests(a) == ~updating /\ a \notin DOMAIN selected

\* The balance of an account is not older than its last snapshot in a block that
\* is counted, but for a snapshot that came when update_account_balances had
\* read the snapshots and not yet written the balances.
BalancesLatest ==
  InStep =>
    \A key \in snapshots \ late :
      key[1] \in Counted /\ key[2] \in DOMAIN ledger.accounts /\ BalanceRests(key[2]) =>
        ledger.accounts[key[2]].balance >= key[1]

\* "set balances according to most recent snapshot" (converters.py:1237): an
\* account shows its last snapshot in a block that is counted, or a later one.
BalancesMostRecent ==
  InStep =>
    \A key \in snapshots :
      key[1] \in Counted /\ key[2] \in DOMAIN ledger.accounts /\ BalanceRests(key[2]) =>
        ledger.accounts[key[2]].balance >= key[1]

\* A block that the node did not fail on can always be counted once its parent
\* is, and one that it did can be done again, unless its time is lost or the
\* nominators of its session are there already.
CanGoOn ==
  SequencerHead < MaxBlock =>
    LET n == SequencerHead + 1
        e == SessionAt(n)
    IN \A order \in Orders :
         LET s == After(ledger, n, TRUE, AllPieces(n, order, TRUE))
         IN \/ ~Stopped(s)
            \/ n > 0 /\ TimeLost(DataBlock(ledger), n)
            \/ /\ n \in begun /\ HasSession(n)
               /\ \/ NominatorRows(e) \cap ledger.nominators # {}
                  \/ ~NewHandler(n)
==============================================================================
