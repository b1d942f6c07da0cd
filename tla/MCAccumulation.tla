---------------------------- MODULE MCAccumulation ----------------------------
(* Seven themes of three blocks: the reminder's histories; accounts, indices  *)
(* and identities; purchases, eras and prices; estimates; the search index;  *)
(* a rebuild of it; and new runtimes.  Most have two chains that part at     *)
(* some block.                                                               *)
EXTENDS Accumulation, TLC

CONSTANTS Alice, Bob, Carol

Later == {Nothing, Message, Released, Update(3, 1, 0), Update(1, 0, 1)}

\* Every history of a reminder that is created in block 1 or 2 and goes on with
\* updates, messages and a release in the blocks above it.
MCHistories ==
  {Quiet} \cup
  UNION {{h \in [Blocks -> Later \cup {Create(2)}] :
            /\ h[c] = Create(2)
            /\ \A n \in Blocks : n < c => h[n] = Nothing
            /\ \A n \in Blocks : n > c => h[n] \in Later} : c \in {1, 2}}

------------------------------------------------------------------------------
(* Events, extrinsics and blocks.                                            *)

Event(kind) == [kind |-> kind, phase |-> 1, extrinsic |-> Null, known |-> TRUE]
In(x, e) == [e EXCEPT !.phase = 0, !.extrinsic = x]
Of(kind, account) == Event(kind) @@ [account |-> account]
Good(x) == In(x, Event("ExtrinsicSuccess"))
Bad(x) == In(x, Event("ExtrinsicFailed"))
Unknown(e) == [e EXCEPT !.known = FALSE]

Call(call, address) == [signed |-> TRUE, address |-> address, call |-> call, params |-> <<>>]
Inherent == [signed |-> FALSE, address |-> Null, call |-> "set", params |-> <<>>]
Vote(address, candidates) == [Call("vote", address) EXCEPT !.params = candidates]

Aura(slot) == [engine |-> "aura", slot |-> slot, authority |-> Null]
Other == [engine |-> Null]

Block(fork, n, calls, events) ==
  [hash |-> <<fork, n>>, spec |-> 1, parentSpec |-> 1, events |-> events,
   extrinsics |-> calls, time |-> 10 * n, logs |-> SubSeq(<<Aura(n), Other>>, 1, 1 + (n % 2))]
On(c, parentSpec, spec) == [c EXCEPT !.parentSpec = parentSpec, !.spec = spec]

PlainChain == <<Block("p", 1, <<>>, <<>>), Block("p", 2, <<>>, <<>>),
                Block("p", 3, <<>>, <<>>)>>

PlainTheme == {PlainChain}

------------------------------------------------------------------------------
Index(kind, account, index) == Of(kind, account) @@ [index |-> index]
Identity(account, info) == Of("IdentitySet", account) @@ [info |-> info]
Judgement(account, registrar, value) ==
  Of("JudgementGiven", account) @@ [registrar |-> registrar, value |-> value]

NewSession(session, validators, checks) ==
  Event("NewSession") @@ [session |-> session, validators |-> validators, checks |-> checks]
Check(block) == (Alice :> [block |-> block, status |-> "checked"])

AccountsChain == <<
  Block("a", 1, <<Inherent>>,
        <<Good(1), Of("NewAccount", Alice), Index("IndexAssigned", Alice, 7),
          NewSession(1, <<Alice>>, Check(0))>>),
  Block("a", 2, <<Call("set_identity", Alice)>>,
        <<In(1, Identity(Alice, "name")), Good(1), Judgement(Alice, 0, "good"),
          Of("NewAccount", Bob), Index("NewAccountIndex", Bob, 8)>>),
  Block("a", 3, <<>>,
        <<Of("IdentityCleared", Alice), Index("IndexFreed", Null, 7),
          Of("KilledAccount", Alice), Of("IdentityKilled", Bob), Of("ReapedAccount", Bob),
          NewSession(2, <<Alice, Bob>>, Check(2))>>)>>

AccountsTheme == {
  AccountsChain,
  [AccountsChain EXCEPT
     ![1] = Block("b", 1, <<>>, <<Unknown(Of("KilledAccount", Bob))>>),
     ![2] = Block("b", 2, <<>>, <<Unknown(Of("NewAccount", Bob)), Identity(Alice, "other"),
                                  Judgement(Alice, 1, "bad")>>),
     ![3] = Block("b", 3, <<>>, <<Of("NewAccount", Carol), Of("ReapedAccount", Alice)>>)]}

------------------------------------------------------------------------------
Request(id, era) == Event("NewPurchasedRequest") @@ [id |-> id, era |-> era, fee |-> 5]
Paid(id) == Event("PayForPurchase") @@ [id |-> id, fee |-> 4]
Average(id) == Event("PurchasedAvgPrice") @@ [id |-> id]
EraEnds(era, points) == Event("EndOfAskEra") @@ [era |-> era, points |-> points, fee |-> points]
Prices(symbols) == Event("AggregatedPrice") @@ [symbols |-> symbols]

\* Block 2 is the one whose prices are left out.
OracleChain == <<
  Block("a", 1, <<>>, <<Request("p", 5), Request("q", 5), Prices({"btc", "eth"})>>),
  Block("a", 2, <<>>, <<Average("p"), Paid("q"), Prices({"btc"})>>),
  Block("a", 3, <<>>, <<Paid("p"), Average("q"), Prices({"btc"}), Prices({"eth"}),
                        EraEnds(5, 3), Request("r", 6)>>)>>

OracleTheme == {
  OracleChain,
  [OracleChain EXCEPT
     ![2] = Block("b", 2, <<>>, <<EraEnds(5, 0), Request("s", 6)>>),
     ![3] = Block("b", 3, <<>>, <<Prices({"btc"}), Prices({"btc", "eth"})>>)]}

------------------------------------------------------------------------------
Estimate(kind, estimate, state) == Event(kind) @@ [estimate |-> estimate, state |-> state]
Completed(estimate, winners) ==
  Estimate("CompletedEstimates", estimate, "completed") @@ [winners |-> winners]
Participates(estimate, account) ==
  Of("ParticipateEstimates", account) @@ [estimate |-> estimate]

EstimatesChain == <<
  Block("a", 1, <<>>, <<Estimate("NewEstimates", "e", "new"), Participates("e", Bob)>>),
  Block("a", 2, <<>>, <<Estimate("ActiveEstimates", "e", "active"), Participates("e", Alice),
                        Estimate("NewEstimates", "f", "new")>>),
  Block("a", 3, <<>>, <<Completed("e", {Alice, Bob})>>)>>

EstimatesTheme == {
  EstimatesChain,
  [EstimatesChain EXCEPT
     ![1] = Block("b", 1, <<>>, <<Unknown(Participates("e", Carol))>>),
     ![2] = Block("b", 2, <<>>, <<Completed("e", {Alice}), Participates("f", Bob)>>),
     ![3] = Block("b", 3, <<>>, <<Estimate("ActiveEstimates", "f", "active")>>)]}

------------------------------------------------------------------------------
Transfer(from, to) == Event("Transfer") @@ [from |-> from, to |-> to]
Code(code) == Event("CodeStored") @@ [code |-> code]

IndexChain == <<
  Block("a", 1, <<Inherent, Vote(Alice, <<Bob, Alice>>), Call("bond", Bob)>>,
        <<Good(1), In(2, Transfer(Alice, Bob)), Good(2), Bad(3)>>),
  Block("a", 2, <<Call("propose", Carol), Call("bond", Bob)>>,
        <<In(1, Event("TechCommProposed")), Good(1), In(2, Of("Bonded", Bob)),
          In(2, Code("x")), Good(2)>>),
  Block("a", 3, <<>>, <<Event("SomeOffline") @@ [offline |-> <<Alice, Carol>>],
                        Event("TreasuryDeposit")>>)>>

IndexTheme == {
  IndexChain,
  [IndexChain EXCEPT
     ![1] = Block("b", 1, <<Call("propose", Bob)>>,
                  <<In(1, Event("TechCommProposed")), Bad(1),
                    Event("NewTerm") @@ [members |-> <<Bob, Carol>>]>>),
     ![3] = On(Block("b", 3, <<>>, <<Code("x")>>), 1, 2)]}

\* Next to a rebuild of the index a block comes back as it was.
SearchTheme == {IndexChain}

------------------------------------------------------------------------------
(* Runtimes: 2 has two pallets of one name and a constant that cannot be     *)
(* decoded, 3 starts with such a constant, 4 has three pallets of a name.    *)

Pallet(name, size, constants) ==
  [name |-> name, calls |-> size, events |-> 1, storage |-> size, errors |-> 2,
   constants |-> constants]
Decodes == [type |-> "u32", decodes |-> TRUE]
Odd == [type |-> "Odd", decodes |-> FALSE]

MCPallets == <<
  <<Pallet("system", 2, <<Decodes>>), Pallet("oracle", 1, <<>>)>>,
  <<Pallet("system", 2, <<Decodes, Odd>>), Pallet("council", 1, <<>>),
    Pallet("council", 3, <<Odd>>)>>,
  <<Pallet("system", 1, <<Odd, Decodes>>)>>,
  <<Pallet("council", 1, <<>>), Pallet("council", 2, <<>>), Pallet("council", 3, <<>>)>>,
  <<Pallet("system", 3, <<>>)>>>>

RuntimeChain == <<
  On(Block("a", 1, <<>>, <<>>), 1, 2),
  On(Block("a", 2, <<>>, <<>>), 2, 3),
  On(Block("a", 3, <<>>, <<>>), 3, 5)>>

RuntimeTheme == {
  RuntimeChain,
  [RuntimeChain EXCEPT ![2] = On(Block("b", 2, <<>>, <<>>), 2, 4),
                       ![3] = On(Block("b", 3, <<>>, <<>>), 4, 4)]}

MCThemes ==
  {PlainTheme, AccountsTheme, OracleTheme, EstimatesTheme, IndexTheme, SearchTheme,
   RuntimeTheme}

MCSearched == {SearchTheme}
==============================================================================
