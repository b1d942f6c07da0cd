------------------------------- MODULE BlockRows -------------------------------
(***************************************************************************)
(* The rows that add_block writes for a block and remove_block takes out   *)
(* (app/processors/converters.py), with the hooks of the block's events,   *)
(* extrinsics and logs, as functions on the tables t.                      *)
(*                                                                         *)
(* A block c as the node gives it is a record: its hash, its events,       *)
(* extrinsics and logs in order, the time it sets, the runtime it ran on   *)
(* and its parent's.  An event e has a kind, which stands for the module   *)
(* and the name the processors are looked up by, a phase (0 applies an     *)
(* extrinsic) and what its hook reads.                                     *)
(***************************************************************************)
EXTENDS Oracle, Estimates, Audits, FiniteSets, SequencesExt

CONSTANTS
  Treasury,    \* SUBSTRATE_TREASURY_ACCOUNTS: one account
  FullBlocks,  \* the multiples of BALANCE_FULL_SNAPSHOT_INTERVAL
  Holders      \* accounts that the node keeps a balance of; bound: the same in each block

NoTables ==
  [blocks |-> NoRows, events |-> {}, extrinsics |-> {}, logs |-> {}, index |-> NoRows,
   snapshots |-> NoRows, audits |-> {}, indices |-> {}, identities |-> {}, judgements |-> {},
   contracts |-> {}, prices |-> {}, eras |-> NoRows, purchases |-> NoRows,
   estimates |-> <<>>, participants |-> {}, winners |-> {}, checks |-> NoRows,
   reorg |-> NoRows,
   \* what a call of add_block keeps at hand: accounts new and reaped, and whether it raised
   fresh |-> {}, gone |-> {}, failed |-> FALSE]

\* An event that applies an extrinsic names one of the block, another one none.
SignersKnown(c) ==
  \A i \in DOMAIN c.events :
    c.events[i].phase = 0 <=> c.events[i].extrinsic \in DOMAIN c.extrinsics

\* The lists of a block and of its events and extrinsics are sequences.
IsBlock(c) ==
  /\ {"hash", "spec", "parentSpec", "events", "extrinsics", "time", "logs"} \subseteq DOMAIN c
  /\ SignersKnown(c)
  /\ IsList(c.events) /\ IsList(c.extrinsics) /\ IsList(c.logs)
  /\ \A i \in DOMAIN c.events :
       LET e == c.events[i]
       IN /\ e.kind = "NewTerm" => IsList(e.members)
          /\ e.kind = "SomeOffline" => IsList(e.offline)
          /\ e.kind = "NewSession" => IsList(e.validators)
  /\ \A i \in DOMAIN c.extrinsics :
       c.extrinsics[i].call = "vote" => IsList(c.extrinsics[i].params)

\* The node notes once what became of each extrinsic, unless it gave no events.
IsSettled(c) ==
  LET outcomes == {j \in DOMAIN c.events :
                     c.events[j].kind \in {"ExtrinsicSuccess", "ExtrinsicFailed"}}
  IN c.events # <<>> =>
       /\ \A i \in DOMAIN c.extrinsics : \E j \in outcomes : c.events[j].extrinsic = i
       /\ \A j \in outcomes : c.events[j].extrinsic \in DOMAIN c.extrinsics
       /\ \A i, j \in outcomes : c.events[i].extrinsic = c.events[j].extrinsic => i = j

\* The events of one kind: their places in the block.
Positions(events, kinds) == {i \in DOMAIN events : events[i].kind \in kinds}

------------------------------------------------------------------------------
(* Who an event or extrinsic is about.                                     *)

TransferIndex(e) == <<e.from, e.to>>
NewTermIndex(e) == e.members
OfflineIndex(e) == e.offline
NewSessionIndex(e) == e.validators
TreasuryDepositIndex(e) == <<Treasury>>

\* Proposals and votes of the technical committee are indexed by the signer of
\* their extrinsic.
ProposedIndex(signer) == <<signer>>

\* The accounts that process_search_index of an event writes a row for.
EventIndex(e, signer) ==
  CASE e.kind = "Transfer" -> TransferIndex(e)
    [] e.kind = "NewTerm" -> NewTermIndex(e)
    [] e.kind = "SomeOffline" -> OfflineIndex(e)
    [] e.kind = "NewSession" -> NewSessionIndex(e)
    [] e.kind = "TreasuryDeposit" -> TreasuryDepositIndex(e)
    [] e.kind = "TechCommProposed" -> ProposedIndex(signer)
    [] e.kind \in {"NewAccount", "KilledAccount", "ReapedAccount", "IdentitySet",
                   "IdentityCleared", "IdentityKilled", "JudgementGiven", "Bonded"} -> <<e.account>>
    [] OTHER -> <<>>

\* ElectionsVote writes a row for the voter and one for each candidate, which
\* the vote has as its parameters.
VoteIndex(x) == <<x.address>> \o x.params

\* The processors of extrinsics only index, and only what was successful.
ExtrinsicIndex(x, success) ==
  IF ~success THEN <<>>
  ELSE CASE x.call = "vote" -> VoteIndex(x)
         [] x.call = "bond" -> <<x.address>>
         [] OTHER -> <<>>

\* Rows of the search index; they have keys of their own, so one that is written
\* again is there twice.
IndexRows(rows, n, from, accounts) ==
  FoldLeft(LAMBDA r, a : Put(r, <<n, from, a>>, RowOr(r, <<n, from, a>>, 0) + 1), rows, accounts)

AddIndex(t, n, from, accounts) == [t EXCEPT !.index = IndexRows(@, n, from, accounts)]

------------------------------------------------------------------------------
(* add_block, stage by stage.                                              *)

SaveEvents(t, n, c) ==
  [t EXCEPT !.events = @ \cup {<<n, i, c.events[i]>> : i \in DOMAIN c.events}]

\* What an extrinsic did: its last outcome event, or else it counts as failed.
Succeeded(c, i) ==
  LET outcomes == {j \in Positions(c.events, {"ExtrinsicSuccess", "ExtrinsicFailed"}) :
                     c.events[j].extrinsic = i}
  IN outcomes # {} /\ c.events[Max(outcomes)].kind = "ExtrinsicSuccess"

\* A signed extrinsic is indexed by its signer; then come its processors.
IndexExtrinsic(t, n, i, x, success) ==
  LET signed == IF x.signed THEN AddIndex(t, n, <<"signed", i>>, <<x.address>>) ELSE t
  IN AddIndex(signed, n, <<"extrinsic", i>>, ExtrinsicIndex(x, success))

SaveExtrinsic(t, n, c, i) ==
  LET x == c.extrinsics[i]
      row == [call |-> x, success |-> Succeeded(c, i)]
  IN IndexExtrinsic([t EXCEPT !.extrinsics = @ \cup {<<n, i, row>>}], n, i, x, row.success)

SaveExtrinsics(t, n, c) ==
  FoldLeftDomain(LAMBDA u, i : SaveExtrinsic(u, n, c, i), t, c.extrinsics)

AccumulationHook(t, n, i, e) ==
  CASE e.kind = "NewAccount" -> NewAccount(t, n, i, e)
    [] e.kind = "KilledAccount" -> KilledAccount(t, n, i, e)
    [] e.kind = "ReapedAccount" -> ReapedAccount(t, n, i, e)
    [] e.kind = "IndexAssigned" -> IndexAssigned(t, n, i, e)
    [] e.kind = "NewAccountIndex" -> NewAccountIndex(t, n, i, e)
    [] e.kind = "IndexFreed" -> IndexFreed(t, n, i, e)
    [] e.kind = "IdentitySet" -> IdentitySet(t, n, i, e)
    [] e.kind = "IdentityCleared" -> IdentityCleared(t, n, i, e)
    [] e.kind = "IdentityKilled" -> IdentityKilled(t, n, i, e)
    [] e.kind = "JudgementGiven" -> JudgementGiven(t, n, i, e)
    [] e.kind = "CodeStored" -> CodeStored(t, n, i, e)
    [] e.kind = "AggregatedPrice" -> AggregatedPrice(t, n, e)
    [] e.kind = "NewPurchasedRequest" -> NewPurchasedRequest(t, n, e)
    [] e.kind = "EndOfAskEra" -> EndOfAskEra(t, n, e)
    [] e.kind = "PayForPurchase" -> PayForPurchase(t, n, e)
    [] e.kind = "PurchasedAvgPrice" -> PurchasedAvgPrice(t, n, e)
    [] e.kind = "NewEstimates" -> NewEstimates(t, n, e)
    [] e.kind = "ActiveEstimates" -> ActiveEstimates(t, n, e)
    [] e.kind = "CompletedEstimates" -> CompletedEstimates(t, n, e)
    [] e.kind = "ParticipateEstimates" -> ParticipateEstimates(t, n, e)
    [] e.kind = "NewSession" -> ValidatorChecks(t, e)
    [] OTHER -> t

SignerOf(c, e) == IF e.phase = 0 THEN c.extrinsics[e.extrinsic].address ELSE Null

\* The processors of the events, in order: the hook, then the index.
RunEventHooks(t, n, c) ==
  FoldLeftDomain(
    LAMBDA u, i : AddIndex(AccumulationHook(u, n, i, c.events[i]), n, <<"event", i>>,
                           EventIndex(c.events[i], SignerOf(c, c.events[i]))),
    t, c.events)

SaveLogs(t, n, c) == [t EXCEPT !.logs = @ \cup {<<n, i>> : i \in DOMAIN c.logs}]

\* The last digest of AURA or BABE says who made the block.
MadeIn(c) ==
  LET digests == {i \in DOMAIN c.logs : c.logs[i].engine \in {"aura", "BABE"}}
      last == c.logs[Max(digests)]
  IN IF digests = {} THEN [slot |-> Null, authority |-> Null]
     ELSE [slot |-> last.slot, authority |-> last.authority]

\* Accounts that the index has a row of for this block, whichever block of
\* this number wrote it.
IndexedAt(t, n) == {key[3] : key \in {k \in DOMAIN t.index : k[1] = n}}

\* create_balance_snapshot for each of the accounts, with the state of a block.
Snapshotted(t, n, accounts, hash) ==
  LET keys == {<<n, a>> : a \in accounts}
  IN [t EXCEPT !.snapshots =
        [k \in DOMAIN @ \cup keys |-> IF k \in keys THEN hash ELSE @[k]]]

\* Mutant of SaveSnapshots: an account that has a snapshot keeps it.
SaveSnapshotsOnce(t, n, c) ==
  IF n \in FullBlocks THEN t
  ELSE Snapshotted(t, n, {a \in IndexedAt(t, n) : <<n, a>> \notin DOMAIN t.snapshots}, c.hash)

\* The accounts that are indexed; of a full block update_balances_in_block, which
\* is queued, is to take them all.
SaveSnapshots(t, n, c) ==
  IF n \in FullBlocks THEN t ELSE Snapshotted(t, n, IndexedAt(t, n), c.hash)

\* Mutant of Outcomes: an extrinsic that did not fail is a success.
OutcomesByFailure(c) ==
  LET failures == Cardinality(Positions(c.events, {"ExtrinsicFailed"}))
  IN [success |-> Len(c.extrinsics) - failures, error |-> failures]

Outcomes(c) ==
  [success |-> Cardinality(Positions(c.events, {"ExtrinsicSuccess"})),
   error |-> Cardinality(Positions(c.events, {"ExtrinsicFailed"}))]

\* The counters of the block row, as events, extrinsics and hooks went by.
Counters(t, n, c) ==
  [events |-> Len(c.events),
   transfers |-> Cardinality(Positions(c.events, {"Transfer"})),
   applying |-> Cardinality({i \in DOMAIN c.events : c.events[i].phase = 0}),
   extrinsics |-> Len(c.extrinsics),
   signed |-> Cardinality({i \in DOMAIN c.extrinsics : c.extrinsics[i].signed}),
   success |-> Outcomes(c).success,
   error |-> Outcomes(c).error,
   sessions |-> Cardinality(Positions(c.events, {"NewSession"})),
   logs |-> Len(c.logs),
   new |-> Cardinality(t.fresh),
   reaped |-> Cardinality(t.gone),
   contracts |-> Cardinality(Positions(c.events, {"CodeStored"}))]

\* The extrinsic that sets the time has to be successful, as its event says.
TimeOf(c) ==
  IF \E i \in DOMAIN c.extrinsics : c.extrinsics[i].call = "set" /\ Succeeded(c, i)
  THEN c.time ELSE Null

SaveBlock(t, n, c) ==
  [t EXCEPT !.blocks = Put(@, n, [hash |-> c.hash, counters |-> Counters(t, n, c),
                                  datetime |-> TimeOf(c), made |-> MadeIn(c)]),
            !.fresh = {}, !.gone = {}]

\* The whole of add_block.  It is for nothing when a key is taken or a hook
\* raises: the tables then say failed, and are not used.
WithBlock(t, n, c) ==
  SaveBlock(SaveSnapshots(SaveLogs(RunEventHooks(SaveExtrinsics(SaveEvents(
    t, n, c), n, c), n, c), n, c), n, c), n, c)

\* get_events raised SubstrateRequestException: the block is added all the same.
WithoutEvents(c) == [c EXCEPT !.events = <<>>]

------------------------------------------------------------------------------
(* remove_block, with process_reorg_block before it.                       *)

AccumulationRevert(t, n, e) ==
  CASE e.kind \in {"NewAccount", "KilledAccount"} -> AccountRevert(t, n)
    [] e.kind = "ReapedAccount" -> ReapedAccountRevert(t, n)
    [] e.kind \in {"IndexAssigned", "NewAccountIndex", "IndexFreed"} -> IndexRevert(t, n)
    [] e.kind \in {"IdentitySet", "IdentityCleared", "IdentityKilled"} -> IdentityRevert(t, n)
    [] e.kind = "JudgementGiven" -> JudgementRevert(t, n)
    [] e.kind = "CodeStored" -> CodeRevert(t, n)
    [] e.kind = "AggregatedPrice" -> AggregatedPriceRevert(t, n)
    [] e.kind \in {"NewEstimates", "ActiveEstimates"} -> EstimatesRevert(t, n)
    [] e.kind = "ParticipateEstimates" -> ParticipateRevert(t, n)
    [] OTHER -> t

EventsOf(t, n) == {r[3] : r \in {row \in t.events : row[1] = n}}

LogsReverted(t, n) == [t EXCEPT !.logs = {r \in @ : r[1] # n}]

\* Index and balance snapshots stay.
WithoutBlock(t, n) ==
  LET reverted == FoldSet(LAMBDA e, u : AccumulationRevert(u, n, e), t, EventsOf(t, n))
  IN [LogsReverted(reverted, n) EXCEPT
        !.events = NotOf(@, n), !.extrinsics = NotOf(@, n), !.blocks = Without(@, {n})]

\* Once per hash, while the rows are all there.
Archived(t, n) ==
  LET block == t.blocks[n]
      rows(table) == {r \in table : r[1] = n}
  IN IF block.hash \in DOMAIN t.reorg THEN t
     ELSE [t EXCEPT !.reorg = Put(@, block.hash,
             [counters |-> block.counters, events |-> rows(t.events),
              extrinsics |-> rows(t.extrinsics), logs |-> rows(t.logs)])]

------------------------------------------------------------------------------
\* Mutants of Reindexed: the extrinsics are left out; they are indexed whether
\* they were successful or not.
ReindexedEvents(t, n) ==
  FoldSet(LAMBDA r, u : AddIndex(u, n, <<"event", r[2]>>, EventIndex(r[3], Null)),
          t, {r \in t.events : r[1] = n})

ReindexedRegardless(t, n) ==
  FoldSet(LAMBDA r, u : IndexExtrinsic(u, n, r[2], r[3].call, TRUE),
          ReindexedEvents(t, n), {r \in t.extrinsics : r[1] = n})

\* rebuild_search_index, one block of it: rows as add_block wrote them, out of
\* the events and extrinsics that are stored.
Reindexed(t, n) ==
  LET calls == {r \in t.extrinsics : r[1] = n}
      events == {r \in t.events : r[1] = n}
      signer(e) == IF \E r \in calls : r[2] = e.extrinsic
                   THEN (CHOOSE r \in calls : r[2] = e.extrinsic)[3].call.address ELSE Null
      called == FoldSet(LAMBDA r, u : IndexExtrinsic(u, n, r[2], r[3].call, r[3].success),
                        t, calls)
  IN FoldSet(LAMBDA r, u : AddIndex(u, n, <<"event", r[2]>>, EventIndex(r[3], signer(r[3]))),
             called, events)
==============================================================================
