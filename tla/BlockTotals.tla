------------------------------ MODULE BlockTotals ------------------------------
(***************************************************************************)
(* The totals of a block (app/processors/blocks/block_total.py) and of the *)
(* burns of the treasury (events/treasury/burnt.py): running sums over the *)
(* totals of the parent.                                                   *)
(*                                                                         *)
(* blocks is data_block, and n the number of the block looked at.          *)
(***************************************************************************)
EXTENDS Integers, Tables, FiniteSets

\* The totals a block starts from that has no parent.
NoTotal ==
  [session |-> 0, extrinsics |-> 0, success |-> 0, error |-> 0, signed |-> 0, events |-> 0,
   transfers |-> 0, logs |-> 0, accounts |-> 0, reaped |-> 0, sessions |-> 0,
   contracts |-> 0, blocktime |-> 0, burn |-> 0, author |-> Null]

\* The parent is there and knows its time.
ParentTimed(blocks, n) == n - 1 \in DOMAIN blocks /\ blocks[n - 1].datetime # Null

\* The time of the block is subtracted from the parent's without a look at it.
TimeLost(blocks, n) == ParentTimed(blocks, n) /\ blocks[n].datetime = Null

Blocktime(blocks, n) ==
  IF ParentTimed(blocks, n) THEN blocks[n].datetime - blocks[n - 1].datetime ELSE 0

\* Mutant of SessionOf: the block of a new session is the first of it.
SessionOfBlock(blocks, n, before) ==
  before.session + (IF blocks[n].counters.sessions > 0 THEN 1 ELSE 0)

\* The session changes with the block after the one of the event.
SessionOf(blocks, n, before) ==
  before.session
    + (IF n - 1 \in DOMAIN blocks /\ blocks[n - 1].counters.sessions > 0 THEN 1 ELSE 0)

\* The author: the validator of the rank that the block says (BABE) or that the
\* slot comes to (AURA).
Author(validators, session, made) ==
  LET count == Cardinality({k \in DOMAIN validators : k[1] = session})
      rank == IF made.authority # Null THEN made.authority
              ELSE IF count > 0 THEN made.slot % count ELSE Null
  IN IF made.slot = Null THEN Null ELSE RowOr(validators, <<session, rank>>, Null)

\* Mutant of WithTotals: the errors are not carried on.
WithTotalsOwnErrors(validators, blocks, n, before, burn) ==
  [NoTotal EXCEPT !.session = SessionOf(blocks, n, before),
                  !.extrinsics = before.extrinsics + blocks[n].counters.extrinsics,
                  !.success = before.success + blocks[n].counters.success,
                  !.error = blocks[n].counters.error, !.burn = burn]

\* The sums, one for one, over the counters of the block.
WithTotals(validators, blocks, n, before, burn) ==
  LET k == blocks[n].counters
      session == SessionOf(blocks, n, before)
  IN [session |-> session,
      extrinsics |-> before.extrinsics + k.extrinsics,
      success |-> before.success + k.success,
      error |-> before.error + k.error,
      signed |-> before.signed + k.signed,
      events |-> before.events + k.events,
      transfers |-> before.transfers + k.transfers,
      logs |-> before.logs + k.logs,
      accounts |-> before.accounts + k.new - k.reaped,
      reaped |-> before.reaped + k.reaped,
      sessions |-> before.sessions + k.sessions,
      contracts |-> before.contracts + k.contracts,
      blocktime |-> before.blocktime + Blocktime(blocks, n),
      burn |-> burn,
      author |-> Author(validators, session, blocks[n].made)]

\* Mutant of BurnTotal: a first burn stands on its own, and so do the others.
BurnTotalAlone(before, value, all) == value

\* Over a parent without burns the burn is added to all burns of the table.
BurnTotal(before, value, all) == value + (IF before.burn = 0 THEN all ELSE before.burn)
==============================================================================
