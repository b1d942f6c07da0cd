----------------------------- MODULE MCSequencing -----------------------------
(* Blocks 0 to 3 of five chains: accounts, indices and identities; sessions   *)
(* and roles, by the new handler and by the old one; totals and burns; and a *)
(* block whose events were lost.                                             *)
EXTENDS Sequencing, TLC

CONSTANTS Alice, Bob, Carol

Event(kind) == [kind |-> kind, phase |-> 1, extrinsic |-> Null, known |-> TRUE]
In(x, e) == [e EXCEPT !.phase = 0, !.extrinsic = x]
Of(kind, account) == Event(kind) @@ [account |-> account]
Good(x) == In(x, Event("ExtrinsicSuccess"))
Bad(x) == In(x, Event("ExtrinsicFailed"))

Call(call, address, params) ==
  [signed |-> TRUE, address |-> address, call |-> call, params |-> params]
Inherent == [signed |-> FALSE, address |-> Null, call |-> "set", params |-> <<>>]

\* Every block sets its time first, and is made in the slot of its number.
Block(n, calls, events) ==
  [hash |-> n, spec |-> 1, parentSpec |-> 1, time |-> 10 * n,
   extrinsics |-> <<Inherent>> \o calls, events |-> <<Good(1)>> \o events,
   logs |-> <<[engine |-> "aura", slot |-> n, authority |-> Null]>>]

Session(session, validators, nominators) ==
  Event("NewSession") @@ [session |-> session, validators |-> validators,
                          nominators |-> nominators, checks |-> NoRows]

Genesis(accounts, members, session) ==
  [hash |-> 0, spec |-> 1, parentSpec |-> 1, time |-> 0, extrinsics |-> <<>>, events |-> <<>>,
   logs |-> <<>>,
   genesis |-> [accounts |-> accounts, sudo |-> Alice, members |-> members, session |-> session]]

Chain(genesis, blocks) ==
  [n \in Numbers |-> IF n = 0 THEN genesis ELSE Block(n, blocks[n].calls, blocks[n].events)]
Events(events) == [calls |-> <<>>, events |-> events]

------------------------------------------------------------------------------
Index(kind, account, index) == Of(kind, account) @@ [index |-> index]
Identity(account, info) == Of("IdentitySet", account) @@ [info |-> info]
Judgement(account, value) ==
  Of("JudgementGiven", account) @@ [registrar |-> 0, value |-> value]

AccountsChain == Chain(
  Genesis(<<Alice>>, <<>>, Session(0, <<Alice>>, <<<<>>>>)), <<
  Events(<<Of("NewAccount", Bob), Index("IndexAssigned", Bob, 7), Index("NewAccountIndex", Alice, 8),
           Identity(Alice, "first")>>),
  Events(<<Index("IndexFreed", Null, 7), Of("ReapedAccount", Bob), Judgement(Alice, "KnownGood"),
           Identity(Bob, "other"), Of("IdentityCleared", Alice)>>),
  Events(<<Of("NewAccount", Bob), Of("IdentityKilled", Bob), Index("IndexAssigned", Bob, 7),
           Judgement(Alice, "Erroneous"), Index("NewAccountIndex", Alice, 0),
           Index("IndexFreed", Null, 0), Of("ReapedAccount", Alice), Identity(Alice, "last")>>)>>)

\* Made by the authority of this rank.
ByBabe(c, authority) ==
  [c EXCEPT !.logs = <<[engine |-> "BABE", slot |-> c.hash, authority |-> authority]>>]

SessionsBlocks == Chain(
  Genesis(<<Alice, Bob>>, <<Bob>>, Session(0, <<Alice>>, <<<<Bob>>>>)), <<
  [calls |-> <<Call("set_key", Alice, <<Bob>>)>>,
   events |-> <<Good(2), Event("NewTerm") @@ [members |-> <<Alice>>],
                Session(1, <<Bob, Alice>>, <<<<Carol>>, <<>>>>)>>],
  Events(<<Event("RegistrarAdded"), Session(2, <<Alice, Carol>>, <<<<>>, <<>>>>)>>),
  Events(<<Event("NewTerm") @@ [members |-> <<Bob>>], Session(3, <<Bob>>, <<<<Alice>>>>)>>)>>)

SessionsChain == [SessionsBlocks EXCEPT ![3] = ByBabe(@, 0)]

OldSessionsChain == [n \in Numbers |-> [SessionsChain[n] EXCEPT !.spec = 2]]

Burnt(value) == Event("Burnt") @@ [value |-> value]
Transfer(from, to) == Event("Transfer") @@ [from |-> from, to |-> to]

TotalsChain == Chain(
  Genesis(<<Alice>>, <<>>, Session(0, <<>>, <<>>)), <<
  [calls |-> <<Call("transfer", Alice, <<>>)>>,
   events |-> <<In(2, Transfer(Alice, Bob)), Good(2)>>],
  [calls |-> <<Call("transfer", Bob, <<>>)>>,
   events |-> <<Bad(2), Burnt(5), Session(1, <<Alice, Bob>>, <<<<>>, <<>>>>)>>],
  [calls |-> <<Call("transfer", Alice, <<>>)>>,
   events |-> <<In(2, Transfer(Bob, Alice)), Good(2), Burnt(1)>>]>>)

LostChain == [TotalsChain EXCEPT ![2] = WithoutEvents(@)]

BalancesChain == Chain(
  Genesis(<<Alice>>, <<>>, Session(0, <<>>, <<>>)), <<
  Events(<<Of("Bonded", Alice), Of("NewAccount", Bob)>>),
  Events(<<Of("Bonded", Bob)>>),
  Events(<<Of("Bonded", Alice), Of("Bonded", Bob)>>)>>)

MCChains ==
  {AccountsChain, SessionsChain, OldSessionsChain, TotalsChain, LostChain, BalancesChain}

\* The balances are written where all blocks have snapshots, and the burns rebuilt
\* where there are some.
MCUpdated == {BalancesChain}
MCRebuilt == {TotalsChain, LostChain}

MCOrders == {
  <<"account", "index", "info", "identity", "judgement", "total">>,
  <<"total", "judgement", "identity", "info", "index", "account">>}

MCVersions == <<[from |-> 2, to |-> Null, value |-> FALSE]>>
==============================================================================
