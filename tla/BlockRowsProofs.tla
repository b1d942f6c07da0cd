---------------------------- MODULE BlockRowsProofs ----------------------------
(***************************************************************************)
(* Lemmas about BlockRows: what add_block writes to each table and what    *)
(* remove_block and the rebuild of the index do to it, for blocks of any   *)
(* length.                                                                 *)
(***************************************************************************)
EXTENDS BlockRows, FiniteSetTheorems, TLAPS

LEMMA ListDomain ==
  ASSUME NEW s, IsList(s)
  PROVE  /\ Len(s) \in Nat /\ DOMAIN s = 1 .. Len(s)
         /\ IsFiniteSet(DOMAIN s)
<1>1. Len(s) \in Nat /\ DOMAIN s = 1 .. Len(s)
  BY DEF IsList
<1>2. QED  BY <1>1, FS_Interval

One(s) == CHOOSE x \in s : TRUE

------------------------------------------------------------------------------
(* The rows of the index for one event or extrinsic.                       *)

IndexStep(a, i, rows) ==
  Put(rows, <<a.n, a.from, a.accounts[i]>>, RowOr(rows, <<a.n, a.from, a.accounts[i]>>, 0) + 1)

Indexing == INSTANCE Recursion WITH Step <- IndexStep, Pick <- Max

\* A fold over a list takes the last position first.
LEMMA LastIsMember ==
  ASSUME NEW seq, IsList(seq)
  PROVE  /\ Indexing!Sized(DOMAIN seq)
         /\ \A s \in SUBSET DOMAIN seq : s # {} => Max(s) \in s
<1>1. Indexing!Sized(DOMAIN seq)
  BY ListDomain, Indexing!FiniteSetsAreSized DEF IsFiniteSet, Indexing!IsFiniteSet
<1>2. ASSUME NEW s \in SUBSET DOMAIN seq, s # {} PROVE Max(s) \in s
  <2>1. Len(seq) \in Nat /\ s \in SUBSET (0 .. Len(seq))
    BY ListDomain
  <2>2. \E m \in s : \A k \in s : k <= m
    BY <1>2, <2>1, Indexing!Greatest
  <2>3. \E m \in s : \A k \in s : m >= k
    BY <2>1, <2>2
  <2>4. QED  BY <2>3 DEF Max
<1>3. QED  BY <1>1, <1>2

LEMMA IndexRowsIterate ==
  ASSUME NEW rows, NEW n, NEW from, NEW accounts, IsList(accounts)
  PROVE  \E iter :
           /\ Indexing!Iterates(iter, [n |-> n, from |-> from, accounts |-> accounts],
                                rows, DOMAIN accounts)
           /\ IndexRows(rows, n, from, accounts) = iter[DOMAIN accounts]
<1> DEFINE a == [n |-> n, from |-> from, accounts |-> accounts]
           S == DOMAIN accounts
           Folds(g) ==
             g = [s \in SUBSET S |->
                    IF s = {} THEN rows
                    ELSE Put(g[s \ {Max(s)}], <<n, from, accounts[Max(s)]>>,
                             RowOr(g[s \ {Max(s)}], <<n, from, accounts[Max(s)]>>, 0) + 1)]
<1>1. PICK iter : Indexing!Iterates(iter, a, rows, S)
  <2> HIDE DEF a
  <2>1. QED  BY LastIsMember, Indexing!IterationExists
<1>2. \A g : Folds(g) <=> Indexing!Iterates(g, a, rows, S)
  BY DEF Indexing!Iterates, IndexStep
<1>3. IndexRows(rows, n, from, accounts) = (CHOOSE g : Folds(g))[S]
  BY DEF IndexRows, FoldLeft, MapThenFoldSet
<1>4. Folds(CHOOSE g : Folds(g))
  <2> HIDE DEF Folds
  <2>1. QED  BY <1>1, <1>2, Zenon
<1> HIDE DEF Folds
<1>5. QED  BY <1>2, <1>3, <1>4

\* The tables of index rows show the same at the slot <<n, from>>: the rows that
\* one event or extrinsic of block n has written.
SameAt(rows, others, n, from) ==
  \A account :
    /\ <<n, from, account>> \in DOMAIN rows <=> <<n, from, account>> \in DOMAIN others
    /\ <<n, from, account>> \in DOMAIN rows
         => rows[<<n, from, account>>] = others[<<n, from, account>>]

\* The keys of the rows for these accounts.
KeysAt(n, from, accounts) == {<<n, from, accounts[i]>> : i \in DOMAIN accounts}

\* Nothing but the rows of these keys has been added or changed.
AddsOnly(added, rows, keys) ==
  /\ DOMAIN added = DOMAIN rows \cup keys
  /\ \A key \in DOMAIN rows \ keys : added[key] = rows[key]

\* Index rows are added at one slot, for the accounts listed.
LEMMA IndexRowsAdds ==
  ASSUME NEW rows, NEW n, NEW from, NEW accounts, IsList(accounts)
  PROVE  AddsOnly(IndexRows(rows, n, from, accounts), rows, KeysAt(n, from, accounts))
<1> DEFINE S == DOMAIN accounts
           a == [n |-> n, from |-> from, accounts |-> accounts]
<1>1. PICK iter : /\ Indexing!Iterates(iter, a, rows, S)
                  /\ IndexRows(rows, n, from, accounts) = iter[S]
  BY IndexRowsIterate
<1>2. /\ Indexing!Sized(S)
      /\ \A s \in SUBSET S : s # {} => Max(s) \in s
  BY LastIsMember
<1> DEFINE key(i) == <<n, from, accounts[i]>>
           Holds(s) ==
             /\ DOMAIN iter[s] = DOMAIN rows \cup {key(i) : i \in s}
             /\ \A k \in DOMAIN rows \ {key(i) : i \in S} : iter[s][k] = rows[k]
           G == {s \in SUBSET S : Holds(s)}
<1>3. iter[{}] = rows
  BY <1>1 DEF Indexing!Iterates
<1>4. {} \in G
  BY <1>3
<1>5. ASSUME NEW s \in SUBSET S, s # {}, s \ {Max(s)} \in G PROVE s \in G
  <2> DEFINE x == Max(s)
             rest == iter[s \ {x}]
  <2>1. x \in s
    BY <1>2, <1>5
  <2>2. iter[s] = Put(rest, key(x), RowOr(rest, key(x), 0) + 1)
    BY <1>1, <1>5 DEF Indexing!Iterates, IndexStep
  <2>3. Holds(s \ {x})
    BY <1>5
  <2>4. DOMAIN iter[s] = DOMAIN rest \cup {key(x)}
    BY <2>2 DEF Put
  <2>5. \A k \in DOMAIN rest : k # key(x) => iter[s][k] = rest[k]
    BY <2>2 DEF Put
  <2>6. key(x) \in {key(i) : i \in S}
    BY <2>1
  <2>7. DOMAIN iter[s] = DOMAIN rows \cup {key(i) : i \in s}
    <3> HIDE DEF x, key
    <3>1. QED  BY <2>1, <2>3, <2>4
  <2>8. \A k \in DOMAIN rows \ {key(i) : i \in S} : iter[s][k] = rows[k]
    <3> HIDE DEF x, key
    <3>1. QED  BY <2>3, <2>5, <2>6
  <2>9. QED  BY <2>7, <2>8
<1>6. S \in G
  <2> HIDE DEF G, a, S
  <2>1. QED  BY <1>2, <1>4, <1>5, Indexing!IterationKeeps
<1>7. QED  BY <1>1, <1>6 DEF KeysAt, AddsOnly
LEMMA SameIsEquivalence ==
  /\ \A rows, n, from : SameAt(rows, rows, n, from)
  /\ \A rows, others, n, from : SameAt(rows, others, n, from) => SameAt(others, rows, n, from)
  /\ \A rows, others, more, n, from :
       SameAt(rows, others, n, from) /\ SameAt(others, more, n, from) => SameAt(rows, more, n, from)
BY DEF SameAt

\* The rows of other slots stay.
LEMMA OtherSlotsStay ==
  ASSUME NEW rows, NEW n, NEW from, NEW accounts, IsList(accounts),
         NEW m, NEW other, m # n \/ other # from
  PROVE  SameAt(IndexRows(rows, n, from, accounts), rows, m, other)
<1> DEFINE added == IndexRows(rows, n, from, accounts)
<1>1. AddsOnly(added, rows, KeysAt(n, from, accounts))
  BY IndexRowsAdds
<1> HIDE DEF added
<1>2. ASSUME NEW account
      PROVE  /\ <<m, other, account>> \in DOMAIN added <=> <<m, other, account>> \in DOMAIN rows
             /\ <<m, other, account>> \in DOMAIN rows
                  => added[<<m, other, account>>] = rows[<<m, other, account>>]
  <2>1. <<m, other, account>> \notin KeysAt(n, from, accounts)
    BY DEF KeysAt
  <2>2. QED  BY <1>1, <2>1 DEF AddsOnly
<1>3. QED  BY <1>2 DEF SameAt, added

\* What is added to a slot depends on what is there only.
LEMMA SameIsAdded ==
  ASSUME NEW rows, NEW others, NEW n, NEW from, NEW accounts, IsList(accounts),
         SameAt(rows, others, n, from)
  PROVE  SameAt(IndexRows(rows, n, from, accounts), IndexRows(others, n, from, accounts), n, from)
<1> DEFINE S == DOMAIN accounts
           a == [n |-> n, from |-> from, accounts |-> accounts]
<1>1. PICK iter : /\ Indexing!Iterates(iter, a, rows, S)
                  /\ IndexRows(rows, n, from, accounts) = iter[S]
  BY IndexRowsIterate
<1>2. PICK jter : /\ Indexing!Iterates(jter, a, others, S)
                  /\ IndexRows(others, n, from, accounts) = jter[S]
  BY IndexRowsIterate
<1>3. /\ Indexing!Sized(S)
      /\ \A s \in SUBSET S : s # {} => Max(s) \in s
  BY LastIsMember
<1> DEFINE key(i) == <<n, from, accounts[i]>>
           G == {s \in SUBSET S : SameAt(iter[s], jter[s], n, from)}
<1>4. {} \in G
  <2>1. iter[{}] = rows /\ jter[{}] = others
    BY <1>1, <1>2 DEF Indexing!Iterates
  <2>2. QED  BY <2>1
<1>5. ASSUME NEW s \in SUBSET S, s # {}, s \ {Max(s)} \in G PROVE s \in G
  <2> DEFINE x == Max(s)
             r == iter[s \ {x}]
             o == jter[s \ {x}]
  <2>1. iter[s] = Put(r, key(x), RowOr(r, key(x), 0) + 1)
    BY <1>1, <1>5 DEF Indexing!Iterates, IndexStep
  <2>2. jter[s] = Put(o, key(x), RowOr(o, key(x), 0) + 1)
    BY <1>2, <1>5 DEF Indexing!Iterates, IndexStep
  <2>3. SameAt(r, o, n, from)
    BY <1>5
  <2>4. RowOr(r, key(x), 0) = RowOr(o, key(x), 0)
    BY <2>3 DEF SameAt, RowOr
  <2> HIDE DEF x, r, o
  <2>5. SameAt(iter[s], jter[s], n, from)
    BY <2>1, <2>2, <2>3, <2>4 DEF SameAt, Put
  <2>6. QED  BY <2>5
<1>6. S \in G
  <2> HIDE DEF G, a, S
  <2>1. QED  BY <1>3, <1>4, <1>5, Indexing!IterationKeeps
<1>7. QED  BY <1>1, <1>2, <1>6

\* As often as the accounts are listed the rows are written, on top of what is there.
LEMMA RowsAddUp ==
  ASSUME NEW rows, NEW n, NEW from, NEW accounts, IsList(accounts),
         \A account : RowOr(rows, <<n, from, account>>, 0) \in Nat
  PROVE  \A account :
           /\ RowOr(IndexRows(NoRows, n, from, accounts), <<n, from, account>>, 0) \in Nat
           /\ RowOr(IndexRows(rows, n, from, accounts), <<n, from, account>>, 0)
                = RowOr(rows, <<n, from, account>>, 0)
                    + RowOr(IndexRows(NoRows, n, from, accounts), <<n, from, account>>, 0)
<1> DEFINE S == DOMAIN accounts
           a == [n |-> n, from |-> from, accounts |-> accounts]
<1>1. PICK iter : /\ Indexing!Iterates(iter, a, rows, S)
                  /\ IndexRows(rows, n, from, accounts) = iter[S]
  BY IndexRowsIterate
<1>2. PICK jter : /\ Indexing!Iterates(jter, a, NoRows, S)
                  /\ IndexRows(NoRows, n, from, accounts) = jter[S]
  BY IndexRowsIterate
<1>3. /\ Indexing!Sized(S)
      /\ \A s \in SUBSET S : s # {} => Max(s) \in s
  BY LastIsMember
<1> DEFINE key(account) == <<n, from, account>>
           Holds(s) == \A account :
                         /\ RowOr(jter[s], key(account), 0) \in Nat
                         /\ RowOr(iter[s], key(account), 0)
                              = RowOr(rows, key(account), 0) + RowOr(jter[s], key(account), 0)
           G == {s \in SUBSET S : Holds(s)}
<1>4. {} \in G
  <2>1. iter[{}] = rows /\ jter[{}] = NoRows
    BY <1>1, <1>2 DEF Indexing!Iterates
  <2>2. \A account : RowOr(NoRows, key(account), 0) = 0
    BY DEF RowOr, NoRows
  <2>3. Holds({})
    BY <2>1, <2>2
  <2>4. QED  BY <2>3
<1>5. ASSUME NEW s \in SUBSET S, s # {}, s \ {Max(s)} \in G PROVE s \in G
  <2> DEFINE x == Max(s)
             r == iter[s \ {x}]
             o == jter[s \ {x}]
  <2>1. iter[s] = Put(r, key(accounts[x]), RowOr(r, key(accounts[x]), 0) + 1)
    BY <1>1, <1>5 DEF Indexing!Iterates, IndexStep
  <2>2. jter[s] = Put(o, key(accounts[x]), RowOr(o, key(accounts[x]), 0) + 1)
    BY <1>2, <1>5 DEF Indexing!Iterates, IndexStep
  <2>3. \A account : /\ RowOr(o, key(account), 0) \in Nat
                     /\ RowOr(r, key(account), 0)
                          = RowOr(rows, key(account), 0) + RowOr(o, key(account), 0)
    BY <1>5
  <2>4. \A table, k, l, value : RowOr(Put(table, k, value), l, 0)
                                 = IF l = k THEN value ELSE RowOr(table, l, 0)
    BY DEF RowOr, Put
  <2>5. ASSUME NEW account
        PROVE  /\ RowOr(jter[s], key(account), 0) \in Nat
               /\ RowOr(iter[s], key(account), 0)
                    = RowOr(rows, key(account), 0) + RowOr(jter[s], key(account), 0)
    <3>1. /\ RowOr(iter[s], key(account), 0)
               = IF key(account) = key(accounts[x]) THEN RowOr(r, key(accounts[x]), 0) + 1
                 ELSE RowOr(r, key(account), 0)
          /\ RowOr(jter[s], key(account), 0)
               = IF key(account) = key(accounts[x]) THEN RowOr(o, key(accounts[x]), 0) + 1
                 ELSE RowOr(o, key(account), 0)
      <4> HIDE DEF x, r, o, key
      <4>1. QED  BY <2>1, <2>2, <2>4
    <3>2. RowOr(rows, key(account), 0) \in Nat
      OBVIOUS
    <3> HIDE DEF x, r, o, key
    <3>3. QED  BY <2>3, <3>1, <3>2
  <2>6. QED  BY <2>5
<1>6. S \in G
  <2> HIDE DEF G, a, S
  <2>1. QED  BY <1>3, <1>4, <1>5, Indexing!IterationKeeps
<1>7. QED  BY <1>1, <1>2, <1>6
------------------------------------------------------------------------------
(* The hooks of the events.                                                *)

TableNames ==
  {"blocks", "events", "extrinsics", "logs", "index", "snapshots", "audits", "indices",
   "identities", "judgements", "contracts", "prices", "eras", "purchases", "estimates",
   "participants", "winners", "checks", "reorg", "fresh", "gone", "failed"}

HasTables(t) == DOMAIN t = TableNames

LEMMA NoTablesAreTables == HasTables(NoTables)
BY DEF HasTables, NoTables, TableNames

\* Hooks leave these tables alone.
KeptTables ==
  {"blocks", "events", "extrinsics", "logs", "index", "snapshots", "reorg"}

\* To these they add rows that depend on the block and the event alone.
HookTables ==
  {"audits", "indices", "identities", "judgements", "contracts", "prices", "winners",
   "fresh", "gone"}

\* u is t after a hook that has made u0 of the empty tables.
HookDone(u, t, u0) ==
  /\ HasTables(u)
  /\ \A f \in KeptTables : u[f] = t[f]
  /\ \A f \in HookTables : u[f] = t[f] \cup u0[f]

LEMMA HookAdds ==
  ASSUME NEW t, HasTables(t), NEW n, NEW i, NEW e
  PROVE  HookDone(AccumulationHook(t, n, i, e), t, AccumulationHook(NoTables, n, i, e))
<1> USE DEF HookDone, HasTables, TableNames, KeptTables, HookTables, NoTables
<1>1. CASE e.kind = "NewAccount"
  BY <1>1 DEF AccumulationHook, NewAccount
<1>2. CASE e.kind = "KilledAccount"
  BY <1>2 DEF AccumulationHook, KilledAccount
<1>3. CASE e.kind = "ReapedAccount"
  BY <1>3 DEF AccumulationHook, ReapedAccount
<1>4. CASE e.kind = "IndexAssigned"
  BY <1>4 DEF AccumulationHook, IndexAssigned
<1>5. CASE e.kind = "NewAccountIndex"
  BY <1>5 DEF AccumulationHook, NewAccountIndex
<1>6. CASE e.kind = "IndexFreed"
  BY <1>6 DEF AccumulationHook, IndexFreed
<1>7. CASE e.kind = "IdentitySet"
  BY <1>7 DEF AccumulationHook, IdentitySet, IdentityAudit
<1>8. CASE e.kind = "IdentityCleared"
  BY <1>8 DEF AccumulationHook, IdentityCleared, IdentityAudit
<1>9. CASE e.kind = "IdentityKilled"
  BY <1>9 DEF AccumulationHook, IdentityKilled, IdentityAudit
<1>10. CASE e.kind = "JudgementGiven"
  BY <1>10 DEF AccumulationHook, JudgementGiven
<1>11. CASE e.kind = "CodeStored"
  <2>1. \A v : AccumulationHook(v, n, i, e) = CodeStored(v, n, i, e)
    BY <1>11 DEF AccumulationHook
  <2>2. HookDone(CodeStored(t, n, i, e), t, CodeStored(NoTables, n, i, e))
    BY DEF CodeStored
  <2> HIDE DEF HookDone
  <2>3. QED  BY <2>1, <2>2
<1>12. CASE e.kind = "AggregatedPrice"
  BY <1>12 DEF AccumulationHook, AggregatedPrice
<1>13. CASE e.kind = "NewPurchasedRequest"
  <2>1. \A v : AccumulationHook(v, n, i, e) = NewPurchasedRequest(v, n, e)
    BY <1>13 DEF AccumulationHook
  <2>2. HookDone(NewPurchasedRequest(t, n, e), t, NewPurchasedRequest(NoTables, n, e))
    BY DEF NewPurchasedRequest
  <2> HIDE DEF HookDone
  <2>3. QED  BY <2>1, <2>2
<1>14. CASE e.kind = "EndOfAskEra"
  BY <1>14 DEF AccumulationHook, EndOfAskEra
<1>15. CASE e.kind = "PayForPurchase"
  BY <1>15 DEF AccumulationHook, PayForPurchase
<1>16. CASE e.kind = "PurchasedAvgPrice"
  BY <1>16 DEF AccumulationHook, PurchasedAvgPrice
<1>17. CASE e.kind = "NewEstimates"
  <2>1. \A v : AccumulationHook(v, n, i, e) = NewEstimates(v, n, e)
    BY <1>17 DEF AccumulationHook
  <2>2. HookDone(NewEstimates(t, n, e), t, NewEstimates(NoTables, n, e))
    BY DEF NewEstimates
  <2> HIDE DEF HookDone
  <2>3. QED  BY <2>1, <2>2
<1>18. CASE e.kind = "ActiveEstimates"
  BY <1>18 DEF AccumulationHook, ActiveEstimates
<1>19. CASE e.kind = "CompletedEstimates"
  <2>1. \A v : AccumulationHook(v, n, i, e) = CompletedEstimates(v, n, e)
    BY <1>19 DEF AccumulationHook
  <2>2. HookDone(CompletedEstimates(t, n, e), t, CompletedEstimates(NoTables, n, e))
    BY DEF CompletedEstimates
  <2> HIDE DEF HookDone
  <2>3. QED  BY <2>1, <2>2
<1>20. CASE e.kind = "ParticipateEstimates"
  BY <1>20 DEF AccumulationHook, ParticipateEstimates
<1>21. CASE e.kind = "NewSession"
  BY <1>21 DEF AccumulationHook, ValidatorChecks
<1>22. CASE e.kind \notin
                {"NewAccount", "KilledAccount", "ReapedAccount", "IndexAssigned",
                 "NewAccountIndex", "IndexFreed", "IdentitySet", "IdentityCleared",
                 "IdentityKilled", "JudgementGiven", "CodeStored", "AggregatedPrice",
                 "NewPurchasedRequest", "EndOfAskEra", "PayForPurchase", "PurchasedAvgPrice",
                 "NewEstimates", "ActiveEstimates", "CompletedEstimates",
                 "ParticipateEstimates", "NewSession"}
  <2>1. \A v : AccumulationHook(v, n, i, e) = v
    BY <1>22 DEF AccumulationHook
  <2>2. HookDone(t, t, NoTables)
    OBVIOUS
  <2> HIDE DEF HookDone
  <2>3. QED  BY <2>1, <2>2
<1>23. QED  BY <1>1, <1>2, <1>3, <1>4, <1>5, <1>6, <1>7, <1>8, <1>9, <1>10, <1>11, <1>12, <1>13, <1>14, <1>15, <1>16, <1>17, <1>18, <1>19, <1>20, <1>21, <1>22

\* The tables whose rows a revert takes out, by the kinds of event that write to
\* them and take them out again.
RevertKinds ==
  [audits |-> {"NewAccount", "KilledAccount", "ReapedAccount"},
   indices |-> {"ReapedAccount", "IndexAssigned", "NewAccountIndex", "IndexFreed"},
   identities |-> {"IdentitySet", "IdentityCleared", "IdentityKilled"},
   judgements |-> {"JudgementGiven"},
   contracts |-> {"CodeStored"},
   prices |-> {"AggregatedPrice"},
   participants |-> {"ParticipateEstimates"}]

RevertedTables ==
  {"audits", "indices", "identities", "judgements", "contracts", "prices", "participants"}

\* The rows of these tables are of the block, and of events of these kinds only.
OwnRows(u, n, e) ==
  \A f \in RevertedTables : \A r \in u[f] : r[1] = n /\ e.kind \in RevertKinds[f]

LEMMA HookRowsAreOwn ==
  ASSUME NEW n, NEW i, NEW e
  PROVE  OwnRows(AccumulationHook(NoTables, n, i, e), n, e)
<1> DEFINE u == AccumulationHook(NoTables, n, i, e)
<1>1. \A r \in u.audits : r[1] = n /\ e.kind \in RevertKinds.audits
  <2>1. CASE e.kind = "NewAccount"
    <3>1. \A r \in u.audits : r[1] = n
      BY <2>1 DEF AccumulationHook, NoTables, NewAccount, Audit
    <3>2. QED  BY <2>1, <3>1 DEF RevertKinds
  <2>2. CASE e.kind = "KilledAccount"
    <3>1. \A r \in u.audits : r[1] = n
      BY <2>2 DEF AccumulationHook, NoTables, KilledAccount, Audit
    <3>2. QED  BY <2>2, <3>1 DEF RevertKinds
  <2>3. CASE e.kind = "ReapedAccount"
    <3>1. \A r \in u.audits : r[1] = n
      BY <2>3 DEF AccumulationHook, NoTables, ReapedAccount, Audit
    <3>2. QED  BY <2>3, <3>1 DEF RevertKinds
  <2>4. CASE e.kind \notin {"NewAccount", "KilledAccount", "ReapedAccount"}
    <3>1. u.audits = {}
      BY <2>4 DEF AccumulationHook, NoTables,
             NewAccount, KilledAccount, ReapedAccount, IndexAssigned, NewAccountIndex,
             IndexFreed, IdentitySet, IdentityCleared, IdentityKilled, JudgementGiven,
             CodeStored, AggregatedPrice, NewPurchasedRequest, EndOfAskEra, PayForPurchase,
             PurchasedAvgPrice, NewEstimates, ActiveEstimates, CompletedEstimates,
             ParticipateEstimates, IdentityAudit, ValidatorChecks
    <3>2. QED  BY <3>1
  <2>5. QED  BY <2>1, <2>2, <2>3, <2>4
<1>2. \A r \in u.indices : r[1] = n /\ e.kind \in RevertKinds.indices
  <2>1. CASE e.kind = "ReapedAccount"
    <3>1. \A r \in u.indices : r[1] = n
      BY <2>1 DEF AccumulationHook, NoTables, ReapedAccount, Audit
    <3>2. QED  BY <2>1, <3>1 DEF RevertKinds
  <2>2. CASE e.kind = "IndexAssigned"
    <3>1. \A r \in u.indices : r[1] = n
      BY <2>2 DEF AccumulationHook, NoTables, IndexAssigned, Audit
    <3>2. QED  BY <2>2, <3>1 DEF RevertKinds
  <2>3. CASE e.kind = "NewAccountIndex"
    <3>1. \A r \in u.indices : r[1] = n
      BY <2>3 DEF AccumulationHook, NoTables, NewAccountIndex, Audit
    <3>2. QED  BY <2>3, <3>1 DEF RevertKinds
  <2>4. CASE e.kind = "IndexFreed"
    <3>1. \A r \in u.indices : r[1] = n
      BY <2>4 DEF AccumulationHook, NoTables, IndexFreed, Audit
    <3>2. QED  BY <2>4, <3>1 DEF RevertKinds
  <2>5. CASE e.kind \notin {"ReapedAccount", "IndexAssigned", "NewAccountIndex", "IndexFreed"}
    <3>1. u.indices = {}
      BY <2>5 DEF AccumulationHook, NoTables,
             NewAccount, KilledAccount, ReapedAccount, IndexAssigned, NewAccountIndex,
             IndexFreed, IdentitySet, IdentityCleared, IdentityKilled, JudgementGiven,
             CodeStored, AggregatedPrice, NewPurchasedRequest, EndOfAskEra, PayForPurchase,
             PurchasedAvgPrice, NewEstimates, ActiveEstimates, CompletedEstimates,
             ParticipateEstimates, IdentityAudit, ValidatorChecks
    <3>2. QED  BY <3>1
  <2>6. QED  BY <2>1, <2>2, <2>3, <2>4, <2>5
<1>3. \A r \in u.identities : r[1] = n /\ e.kind \in RevertKinds.identities
  <2>1. CASE e.kind = "IdentitySet"
    <3>1. \A r \in u.identities : r[1] = n
      BY <2>1 DEF AccumulationHook, NoTables, IdentitySet, Audit, IdentityAudit
    <3>2. QED  BY <2>1, <3>1 DEF RevertKinds
  <2>2. CASE e.kind = "IdentityCleared"
    <3>1. \A r \in u.identities : r[1] = n
      BY <2>2 DEF AccumulationHook, NoTables, IdentityCleared, Audit, IdentityAudit
    <3>2. QED  BY <2>2, <3>1 DEF RevertKinds
  <2>3. CASE e.kind = "IdentityKilled"
    <3>1. \A r \in u.identities : r[1] = n
      BY <2>3 DEF AccumulationHook, NoTables, IdentityKilled, Audit, IdentityAudit
    <3>2. QED  BY <2>3, <3>1 DEF RevertKinds
  <2>4. CASE e.kind \notin {"IdentitySet", "IdentityCleared", "IdentityKilled"}
    <3>1. u.identities = {}
      BY <2>4 DEF AccumulationHook, NoTables,
             NewAccount, KilledAccount, ReapedAccount, IndexAssigned, NewAccountIndex,
             IndexFreed, IdentitySet, IdentityCleared, IdentityKilled, JudgementGiven,
             CodeStored, AggregatedPrice, NewPurchasedRequest, EndOfAskEra, PayForPurchase,
             PurchasedAvgPrice, NewEstimates, ActiveEstimates, CompletedEstimates,
             ParticipateEstimates, IdentityAudit, ValidatorChecks
    <3>2. QED  BY <3>1
  <2>5. QED  BY <2>1, <2>2, <2>3, <2>4
<1>4. \A r \in u.judgements : r[1] = n /\ e.kind \in RevertKinds.judgements
  <2>1. CASE e.kind = "JudgementGiven"
    <3>1. \A r \in u.judgements : r[1] = n
      BY <2>1 DEF AccumulationHook, NoTables, JudgementGiven, Audit
    <3>2. QED  BY <2>1, <3>1 DEF RevertKinds
  <2>2. CASE e.kind \notin {"JudgementGiven"}
    <3>1. u.judgements = {}
      BY <2>2 DEF AccumulationHook, NoTables,
             NewAccount, KilledAccount, ReapedAccount, IndexAssigned, NewAccountIndex,
             IndexFreed, IdentitySet, IdentityCleared, IdentityKilled, JudgementGiven,
             CodeStored, AggregatedPrice, NewPurchasedRequest, EndOfAskEra, PayForPurchase,
             PurchasedAvgPrice, NewEstimates, ActiveEstimates, CompletedEstimates,
             ParticipateEstimates, IdentityAudit, ValidatorChecks
    <3>2. QED  BY <3>1
  <2>3. QED  BY <2>1, <2>2
<1>5. \A r \in u.contracts : r[1] = n /\ e.kind \in RevertKinds.contracts
  <2>1. CASE e.kind = "CodeStored"
    <3>1. u = CodeStored(NoTables, n, i, e)
      BY <2>1 DEF AccumulationHook
    <3>2. ASSUME NEW t, HasTables(t)
          PROVE  CodeStored(t, n, i, e).contracts = t.contracts \cup {<<n, e.code>>}
      BY <3>2 DEF CodeStored, HasTables, TableNames
    <3>3. NoTables.contracts = {}
      BY DEF NoTables
    <3>4. \A r \in u.contracts : r[1] = n
      BY <3>1, <3>2, <3>3, NoTablesAreTables
    <3>5. QED  BY <2>1, <3>4 DEF RevertKinds
  <2>2. CASE e.kind \notin {"CodeStored"}
    <3>1. u.contracts = {}
      BY <2>2 DEF AccumulationHook, NoTables,
             NewAccount, KilledAccount, ReapedAccount, IndexAssigned, NewAccountIndex,
             IndexFreed, IdentitySet, IdentityCleared, IdentityKilled, JudgementGiven,
             CodeStored, AggregatedPrice, NewPurchasedRequest, EndOfAskEra, PayForPurchase,
             PurchasedAvgPrice, NewEstimates, ActiveEstimates, CompletedEstimates,
             ParticipateEstimates, IdentityAudit, ValidatorChecks
    <3>2. QED  BY <3>1
  <2>3. QED  BY <2>1, <2>2
<1>6. \A r \in u.prices : r[1] = n /\ e.kind \in RevertKinds.prices
  <2>1. CASE e.kind = "AggregatedPrice"
    <3>1. \A r \in u.prices : r[1] = n
      BY <2>1 DEF AccumulationHook, NoTables, AggregatedPrice
    <3>2. QED  BY <2>1, <3>1 DEF RevertKinds
  <2>2. CASE e.kind \notin {"AggregatedPrice"}
    <3>1. u.prices = {}
      BY <2>2 DEF AccumulationHook, NoTables,
             NewAccount, KilledAccount, ReapedAccount, IndexAssigned, NewAccountIndex,
             IndexFreed, IdentitySet, IdentityCleared, IdentityKilled, JudgementGiven,
             CodeStored, AggregatedPrice, NewPurchasedRequest, EndOfAskEra, PayForPurchase,
             PurchasedAvgPrice, NewEstimates, ActiveEstimates, CompletedEstimates,
             ParticipateEstimates, IdentityAudit, ValidatorChecks
    <3>2. QED  BY <3>1
  <2>3. QED  BY <2>1, <2>2
<1>7. \A r \in u.participants : r[1] = n /\ e.kind \in RevertKinds.participants
  <2>1. CASE e.kind = "ParticipateEstimates"
    <3>1. \A r \in u.participants : r[1] = n
      BY <2>1 DEF AccumulationHook, NoTables, ParticipateEstimates
    <3>2. QED  BY <2>1, <3>1 DEF RevertKinds
  <2>2. CASE e.kind \notin {"ParticipateEstimates"}
    <3>1. u.participants = {}
      BY <2>2 DEF AccumulationHook, NoTables,
             NewAccount, KilledAccount, ReapedAccount, IndexAssigned, NewAccountIndex,
             IndexFreed, IdentitySet, IdentityCleared, IdentityKilled, JudgementGiven,
             CodeStored, AggregatedPrice, NewPurchasedRequest, EndOfAskEra, PayForPurchase,
             PurchasedAvgPrice, NewEstimates, ActiveEstimates, CompletedEstimates,
             ParticipateEstimates, IdentityAudit, ValidatorChecks
    <3>2. QED  BY <3>1
  <2>3. QED  BY <2>1, <2>2
<1> HIDE DEF u
<1>8. QED  BY <1>1, <1>2, <1>3, <1>4, <1>5, <1>6, <1>7 DEF u, OwnRows, RevertedTables

\* u is t after the revert of one event of block n.
RevertDone(u, t, n, e) ==
  /\ HasTables(u)
  /\ \A f \in KeptTables \cup {"fresh", "gone", "checks"} : u[f] = t[f]
  /\ \A f \in RevertedTables :
       u[f] = IF e.kind \in RevertKinds[f] THEN NotOf(t[f], n) ELSE t[f]

LEMMA RevertTakes ==
  ASSUME NEW t, HasTables(t), NEW n, NEW e
  PROVE  RevertDone(AccumulationRevert(t, n, e), t, n, e)
<1> USE DEF RevertDone, HasTables, TableNames, KeptTables, RevertedTables, RevertKinds
<1>1. CASE e.kind \in {"NewAccount", "KilledAccount"}
  <2>1. AccumulationRevert(t, n, e) = AccountRevert(t, n)
    BY <1>1 DEF AccumulationRevert
  <2>2. RevertDone(AccountRevert(t, n), t, n, e)
    BY <1>1 DEF AccountRevert
  <2> HIDE DEF RevertDone
  <2>3. QED  BY <2>1, <2>2
<1>2. CASE e.kind = "ReapedAccount"
  <2>1. AccumulationRevert(t, n, e) = ReapedAccountRevert(t, n)
    BY <1>2 DEF AccumulationRevert
  <2>2. RevertDone(ReapedAccountRevert(t, n), t, n, e)
    BY <1>2 DEF ReapedAccountRevert
  <2> HIDE DEF RevertDone
  <2>3. QED  BY <2>1, <2>2
<1>3. CASE e.kind \in {"IndexAssigned", "NewAccountIndex", "IndexFreed"}
  <2>1. AccumulationRevert(t, n, e) = IndexRevert(t, n)
    BY <1>3 DEF AccumulationRevert
  <2>2. RevertDone(IndexRevert(t, n), t, n, e)
    BY <1>3 DEF IndexRevert
  <2> HIDE DEF RevertDone
  <2>3. QED  BY <2>1, <2>2
<1>4. CASE e.kind \in {"IdentitySet", "IdentityCleared", "IdentityKilled"}
  <2>1. AccumulationRevert(t, n, e) = IdentityRevert(t, n)
    BY <1>4 DEF AccumulationRevert
  <2>2. RevertDone(IdentityRevert(t, n), t, n, e)
    BY <1>4 DEF IdentityRevert
  <2> HIDE DEF RevertDone
  <2>3. QED  BY <2>1, <2>2
<1>5. CASE e.kind = "JudgementGiven"
  <2>1. AccumulationRevert(t, n, e) = JudgementRevert(t, n)
    BY <1>5 DEF AccumulationRevert
  <2>2. RevertDone(JudgementRevert(t, n), t, n, e)
    BY <1>5 DEF JudgementRevert
  <2> HIDE DEF RevertDone
  <2>3. QED  BY <2>1, <2>2
<1>6. CASE e.kind = "CodeStored"
  <2>1. AccumulationRevert(t, n, e) = CodeRevert(t, n)
    BY <1>6 DEF AccumulationRevert
  <2>2. RevertDone(CodeRevert(t, n), t, n, e)
    BY <1>6 DEF CodeRevert, NotOf
  <2> HIDE DEF RevertDone
  <2>3. QED  BY <2>1, <2>2
<1>7. CASE e.kind = "AggregatedPrice"
  <2>1. AccumulationRevert(t, n, e) = AggregatedPriceRevert(t, n)
    BY <1>7 DEF AccumulationRevert
  <2>2. RevertDone(AggregatedPriceRevert(t, n), t, n, e)
    BY <1>7 DEF AggregatedPriceRevert, NotOf
  <2> HIDE DEF RevertDone
  <2>3. QED  BY <2>1, <2>2
<1>8. CASE e.kind \in {"NewEstimates", "ActiveEstimates"}
  <2>1. AccumulationRevert(t, n, e) = EstimatesRevert(t, n)
    BY <1>8 DEF AccumulationRevert
  <2>2. RevertDone(EstimatesRevert(t, n), t, n, e)
    BY <1>8 DEF EstimatesRevert
  <2> HIDE DEF RevertDone
  <2>3. QED  BY <2>1, <2>2
<1>9. CASE e.kind = "ParticipateEstimates"
  <2>1. AccumulationRevert(t, n, e) = ParticipateRevert(t, n)
    BY <1>9 DEF AccumulationRevert
  <2>2. RevertDone(ParticipateRevert(t, n), t, n, e)
    BY <1>9 DEF ParticipateRevert, NotOf
  <2> HIDE DEF RevertDone
  <2>3. QED  BY <2>1, <2>2
<1>10. CASE e.kind \notin {"NewAccount", "KilledAccount", "ReapedAccount", "IndexAssigned",
                            "NewAccountIndex", "IndexFreed", "IdentitySet", "IdentityCleared",
                            "IdentityKilled", "JudgementGiven", "CodeStored",
                            "AggregatedPrice", "NewEstimates", "ActiveEstimates",
                            "ParticipateEstimates"}
  <2>1. AccumulationRevert(t, n, e) = t
    BY <1>10 DEF AccumulationRevert
  <2>2. RevertDone(t, t, n, e)
    BY <1>10
  <2> HIDE DEF RevertDone
  <2>3. QED  BY <2>1, <2>2
<1> HIDE DEF RevertDone
<1>11. QED  BY <1>1, <1>2, <1>3, <1>4, <1>5, <1>6, <1>7, <1>8, <1>9, <1>10

------------------------------------------------------------------------------
(* Which rows of the index a block has.                                    *)

Slots(c) ==
  {<<"signed", i>> : i \in DOMAIN c.extrinsics} \cup
  {<<"extrinsic", i>> : i \in DOMAIN c.extrinsics} \cup
  {<<"event", i>> : i \in DOMAIN c.events}

\* The accounts that rows are written for at a slot.
AccountsAt(c, from) ==
  LET i == from[2]
  IN CASE from[1] = "signed" ->
            IF c.extrinsics[i].signed THEN <<c.extrinsics[i].address>> ELSE <<>>
       [] from[1] = "extrinsic" -> ExtrinsicIndex(c.extrinsics[i], Succeeded(c, i))
       [] OTHER -> EventIndex(c.events[i], SignerOf(c, c.events[i]))

LEMMA AreLists ==
  /\ IsList(<<>>)
  /\ \A x : IsList(<<x>>)
  /\ \A x, y : IsList(<<x, y>>)
BY DEF IsList

LEMMA EventIndexIsList ==
  ASSUME NEW e, NEW signer,
         e.kind = "NewTerm" => IsList(e.members),
         e.kind = "SomeOffline" => IsList(e.offline),
         e.kind = "NewSession" => IsList(e.validators)
  PROVE  IsList(EventIndex(e, signer))
BY AreLists DEF EventIndex, TransferIndex, NewTermIndex, OfflineIndex, NewSessionIndex,
                TreasuryDepositIndex, ProposedIndex

LEMMA ExtrinsicIndexIsList ==
  ASSUME NEW x, NEW success, x.call = "vote" => IsList(x.params)
  PROVE  IsList(ExtrinsicIndex(x, success))
<1>1. ASSUME NEW s, IsList(s), NEW y PROVE IsList(<<y>> \o s)
  <2> DEFINE all == <<y>> \o s
             T == {s[i] : i \in DOMAIN s} \cup {y}
  <2>1. all \in Seq(T)
    BY <1>1 DEF IsList
  <2> HIDE DEF all, T
  <2>2. IsList(all)
    BY <2>1 DEF IsList
  <2>3. QED  BY <2>2 DEF all
<1>2. QED  BY <1>1, AreLists DEF ExtrinsicIndex, VoteIndex

LEMMA NoIndexRows ==
  ASSUME NEW rows, NEW n, NEW from
  PROVE  IndexRows(rows, n, from, <<>>) = rows
<1>1. PICK iter : /\ Indexing!Iterates(iter, [n |-> n, from |-> from, accounts |-> <<>>],
                                       rows, DOMAIN <<>>)
                  /\ IndexRows(rows, n, from, <<>>) = iter[DOMAIN <<>>]
  BY AreLists, IndexRowsIterate
<1>2. DOMAIN <<>> = {}
  OBVIOUS
<1>3. QED  BY <1>1, <1>2 DEF Indexing!Iterates

------------------------------------------------------------------------------
(* The folds of add_block and of the rebuild, and of remove_block.  a holds *)
(* the block's number and what the node says of it.                         *)

HookStep(a, i, u) ==
  AddIndex(AccumulationHook(u, a.n, i, a.c.events[i]), a.n, <<"event", i>>,
           EventIndex(a.c.events[i], SignerOf(a.c, a.c.events[i])))

CallStep(a, i, u) == SaveExtrinsic(u, a.n, a.c, i)

RevertStep(a, e, u) == AccumulationRevert(u, a.n, e)

Hooking == INSTANCE Recursion WITH Step <- HookStep, Pick <- Max
Calling == INSTANCE Recursion WITH Step <- CallStep, Pick <- Max
Reverting == INSTANCE Recursion WITH Step <- RevertStep, Pick <- One

OfBlock(n, c) == [n |-> n, c |-> c]

LEMMA HooksIterate ==
  ASSUME NEW t, NEW n, NEW c, IsList(c.events)
  PROVE  \E iter : /\ Hooking!Iterates(iter, OfBlock(n, c), t, DOMAIN c.events)
                   /\ RunEventHooks(t, n, c) = iter[DOMAIN c.events]
<1> DEFINE S == DOMAIN c.events
           Hooked(i, u) ==
             AddIndex(AccumulationHook(u, n, i, c.events[i]), n, <<"event", i>>,
                      EventIndex(c.events[i], SignerOf(c, c.events[i])))
           places == [i \in S |-> i]
           Folds(g) ==
             g = [s \in SUBSET S |->
                    IF s = {} THEN t ELSE Hooked(places[Max(s)], g[s \ {Max(s)}])]
<1>0. /\ Hooking!Sized(S)
      /\ \A s \in SUBSET S : s # {} => Max(s) \in s
  BY LastIsMember DEF Hooking!Sized, Indexing!Sized
<1>1. PICK iter : Hooking!Iterates(iter, OfBlock(n, c), t, S)
  BY <1>0, Hooking!IterationExists
<1>2. \A g : Folds(g) <=> Hooking!Iterates(g, OfBlock(n, c), t, S)
  <2>1. \A i, u : HookStep(OfBlock(n, c), i, u) = Hooked(i, u)
    BY DEF HookStep, OfBlock
  <2>2. \A s \in SUBSET S : s # {} => places[Max(s)] = Max(s)
    BY <1>0
  <2> HIDE DEF Hooked, places
  <2>3. QED  BY <2>1, <2>2 DEF Hooking!Iterates
<1>3. DOMAIN places = S
  OBVIOUS
<1>4. RunEventHooks(t, n, c) = (CHOOSE g : Folds(g))[S]
  BY <1>3 DEF RunEventHooks, FoldLeftDomain, FoldLeft, MapThenFoldSet
<1>5. Folds(CHOOSE g : Folds(g))
  <2> HIDE DEF Folds
  <2>1. QED  BY <1>1, <1>2, Zenon
<1> HIDE DEF Folds
<1>6. QED  BY <1>2, <1>4, <1>5

LEMMA CallsIterate ==
  ASSUME NEW t, NEW n, NEW c, IsList(c.extrinsics)
  PROVE  \E iter : /\ Calling!Iterates(iter, OfBlock(n, c), t, DOMAIN c.extrinsics)
                   /\ SaveExtrinsics(t, n, c) = iter[DOMAIN c.extrinsics]
<1> DEFINE S == DOMAIN c.extrinsics
           places == [i \in S |-> i]
           Folds(g) ==
             g = [s \in SUBSET S |->
                    IF s = {} THEN t ELSE SaveExtrinsic(g[s \ {Max(s)}], n, c, places[Max(s)])]
<1>0. /\ Calling!Sized(S)
      /\ \A s \in SUBSET S : s # {} => Max(s) \in s
  BY LastIsMember DEF Calling!Sized, Indexing!Sized
<1>1. PICK iter : Calling!Iterates(iter, OfBlock(n, c), t, S)
  BY <1>0, Calling!IterationExists
<1>2. \A g : Folds(g) <=> Calling!Iterates(g, OfBlock(n, c), t, S)
  <2>1. \A i, u : CallStep(OfBlock(n, c), i, u) = SaveExtrinsic(u, n, c, i)
    BY DEF CallStep, OfBlock
  <2>2. \A s \in SUBSET S : s # {} => places[Max(s)] = Max(s)
    BY <1>0
  <2> HIDE DEF places
  <2>3. QED  BY <2>1, <2>2 DEF Calling!Iterates
<1>3. DOMAIN places = S
  OBVIOUS
<1>4. SaveExtrinsics(t, n, c) = (CHOOSE g : Folds(g))[S]
  BY <1>3 DEF SaveExtrinsics, FoldLeftDomain, FoldLeft, MapThenFoldSet
<1>5. Folds(CHOOSE g : Folds(g))
  <2> HIDE DEF Folds
  <2>1. QED  BY <1>1, <1>2, Zenon
<1> HIDE DEF Folds
<1>6. QED  BY <1>2, <1>4, <1>5

\* The reverts of the events, one after the other.
Reverted(t, n, events) == FoldSet(LAMBDA e, u : AccumulationRevert(u, n, e), t, events)

LEMMA RevertsIterate ==
  ASSUME NEW t, NEW n, NEW c, NEW S, IsFiniteSet(S)
  PROVE  \E iter : /\ Reverting!Iterates(iter, OfBlock(n, c), t, S)
                   /\ Reverted(t, n, S) = iter[S]
<1> DEFINE Folds(g) ==
             g = [s \in SUBSET S |->
                    IF s = {} THEN t
                    ELSE AccumulationRevert(g[s \ {CHOOSE x \in s : TRUE}], n,
                                            CHOOSE x \in s : TRUE)]
<1>0. /\ Reverting!Sized(S)
      /\ \A s \in SUBSET S : s # {} => One(s) \in s
  BY Reverting!FiniteSetsAreSized DEF One, IsFiniteSet, Reverting!IsFiniteSet
<1>1. PICK iter : Reverting!Iterates(iter, OfBlock(n, c), t, S)
  BY <1>0, Reverting!IterationExists
<1>2. \A g : Folds(g) <=> Reverting!Iterates(g, OfBlock(n, c), t, S)
  BY DEF Reverting!Iterates, RevertStep, OfBlock, One
<1>3. Reverted(t, n, S) = (CHOOSE g : Folds(g))[S]
  BY DEF Reverted, FoldSet, MapThenFoldSet
<1>4. Folds(CHOOSE g : Folds(g))
  <2> HIDE DEF Folds
  <2>1. QED  BY <1>1, <1>2, Zenon
<1> HIDE DEF Folds
<1>5. QED  BY <1>2, <1>3, <1>4

\* add_block adds to these tables, and leaves these alone until its last steps.
GrownTables == {"events", "extrinsics", "logs"} \cup HookTables
StillTables == {"blocks", "snapshots", "reorg"}

\* v has in its tables what v0 has and t has had.
Grown(v, t, v0) ==
  /\ HasTables(v) /\ HasTables(v0)
  /\ \A f \in GrownTables : v[f] = t[f] \cup v0[f]
  /\ \A f \in StillTables : v[f] = t[f]

\* Tables that are the same but for the index.
SameButIndex(u, v) == HasTables(u) /\ \A f \in TableNames \ {"index"} : u[f] = v[f]

LEMMA AddIndexOnly ==
  ASSUME NEW t, HasTables(t), NEW n, NEW from, NEW accounts
  PROVE  /\ SameButIndex(AddIndex(t, n, from, accounts), t)
         /\ AddIndex(t, n, from, accounts).index = IndexRows(t.index, n, from, accounts)
BY DEF AddIndex, HasTables, TableNames, SameButIndex

LEMMA GrownButIndex ==
  ASSUME NEW u, NEW v, NEW t, NEW u0, NEW v0, Grown(v, t, v0),
         SameButIndex(u, v), SameButIndex(u0, v0)
  PROVE  Grown(u, t, u0)
BY DEF Grown, GrownTables, HookTables, StillTables, SameButIndex, TableNames

LEMMA HookStepGrows ==
  ASSUME NEW v, NEW t, NEW v0, Grown(v, t, v0), NEW a, NEW i
  PROVE  Grown(HookStep(a, i, v), t, HookStep(a, i, v0))
<1> DEFINE e == a.c.events[i]
           u == AccumulationHook(v, a.n, i, e)
           u0 == AccumulationHook(v0, a.n, i, e)
           new == AccumulationHook(NoTables, a.n, i, e)
<1>1. HasTables(v) /\ HasTables(v0)
  BY DEF Grown
<1>2. HookDone(u, v, new) /\ HookDone(u0, v0, new)
  BY <1>1, HookAdds
<1> HIDE DEF u, u0, new
<1>3. HasTables(u) /\ HasTables(u0)
  BY <1>2 DEF HookDone
<1>4. ASSUME NEW f \in HookTables PROVE u[f] = t[f] \cup u0[f]
  <2>1. u[f] = v[f] \cup new[f] /\ u0[f] = v0[f] \cup new[f]
    BY <1>2 DEF HookDone
  <2>2. v[f] = t[f] \cup v0[f]
    BY DEF Grown, GrownTables
  <2>3. QED  BY <2>1, <2>2
<1>5. \A f \in KeptTables : u[f] = v[f] /\ u0[f] = v0[f]
  BY <1>2 DEF HookDone
<1>6. \A f \in {"events", "extrinsics", "logs"} : u[f] = t[f] \cup u0[f]
  BY <1>5 DEF Grown, GrownTables, KeptTables
<1>7. \A f \in StillTables : u[f] = t[f]
  BY <1>5 DEF Grown, StillTables, KeptTables
<1>8. Grown(u, t, u0)
  BY <1>3, <1>4, <1>6, <1>7 DEF Grown, GrownTables
<1>9. SameButIndex(HookStep(a, i, v), u) /\ SameButIndex(HookStep(a, i, v0), u0)
  BY <1>3, AddIndexOnly DEF HookStep, u, u0
<1>10. QED  BY <1>8, <1>9, GrownButIndex

\* The row of extrinsic i.
CallRow(n, c, i) == <<n, i, [call |-> c.extrinsics[i], success |-> Succeeded(c, i)]>>

WithCall(t, n, c, i) == [t EXCEPT !.extrinsics = @ \cup {CallRow(n, c, i)}]

LEMMA IndexExtrinsicAdds ==
  ASSUME NEW u, HasTables(u), NEW n, NEW c, NEW i
  PROVE  LET v == IndexExtrinsic(u, n, i, c.extrinsics[i], Succeeded(c, i))
         IN /\ SameButIndex(v, u)
            /\ v.index =
                 IndexRows(IndexRows(u.index, n, <<"signed", i>>, AccountsAt(c, <<"signed", i>>)),
                           n, <<"extrinsic", i>>, AccountsAt(c, <<"extrinsic", i>>))
<1> DEFINE x == c.extrinsics[i]
           signed == IF x.signed THEN AddIndex(u, n, <<"signed", i>>, <<x.address>>) ELSE u
           w == AddIndex(signed, n, <<"extrinsic", i>>, ExtrinsicIndex(x, Succeeded(c, i)))
<1>1. IndexExtrinsic(u, n, i, x, Succeeded(c, i)) = w
  BY DEF IndexExtrinsic
<1>2. AccountsAt(c, <<"signed", i>>) = IF x.signed THEN <<x.address>> ELSE <<>>
  BY DEF AccountsAt
<1>3. AccountsAt(c, <<"extrinsic", i>>) = ExtrinsicIndex(x, Succeeded(c, i))
  BY DEF AccountsAt
<1>4. /\ SameButIndex(signed, u)
      /\ signed.index = IndexRows(u.index, n, <<"signed", i>>, AccountsAt(c, <<"signed", i>>))
  <2>1. CASE x.signed
    BY <1>2, <2>1, AddIndexOnly
  <2>2. CASE ~x.signed
    <3>1. signed = u
      BY <2>2
    <3>2. IndexRows(u.index, n, <<"signed", i>>, AccountsAt(c, <<"signed", i>>)) = u.index
      BY <2>2, <1>2, NoIndexRows
    <3>3. QED  BY <3>1, <3>2 DEF SameButIndex
  <2>3. QED  BY <2>1, <2>2
<1> HIDE DEF signed, x
<1>5. /\ SameButIndex(w, signed)
      /\ w.index = IndexRows(signed.index, n, <<"extrinsic", i>>, ExtrinsicIndex(x, Succeeded(c, i)))
  BY <1>4, AddIndexOnly DEF SameButIndex
<1> HIDE DEF w
<1>6. SameButIndex(w, u)
  BY <1>4, <1>5 DEF SameButIndex
<1>7. QED  BY <1>1, <1>3, <1>4, <1>5, <1>6 DEF x

LEMMA CallStepAdds ==
  ASSUME NEW t, HasTables(t), NEW n, NEW c, NEW i
  PROVE  /\ SameButIndex(CallStep(OfBlock(n, c), i, t), WithCall(t, n, c, i))
         /\ CallStep(OfBlock(n, c), i, t).index =
              IndexRows(IndexRows(t.index, n, <<"signed", i>>, AccountsAt(c, <<"signed", i>>)),
                        n, <<"extrinsic", i>>, AccountsAt(c, <<"extrinsic", i>>))
<1> DEFINE u == WithCall(t, n, c, i)
<1>1. CallStep(OfBlock(n, c), i, t) = IndexExtrinsic(u, n, i, c.extrinsics[i], Succeeded(c, i))
  BY DEF CallStep, OfBlock, SaveExtrinsic, WithCall, CallRow
<1>2. HasTables(u) /\ u.index = t.index
  BY DEF WithCall, HasTables, TableNames
<1> HIDE DEF u
<1>3. QED  BY <1>1, <1>2, IndexExtrinsicAdds DEF u

LEMMA CallStepGrows ==
  ASSUME NEW v, NEW t, NEW v0, Grown(v, t, v0), NEW n, NEW c, NEW i
  PROVE  Grown(CallStep(OfBlock(n, c), i, v), t, CallStep(OfBlock(n, c), i, v0))
<1>1. HasTables(v) /\ HasTables(v0)
  BY DEF Grown
<1>2. Grown(WithCall(v, n, c, i), t, WithCall(v0, n, c, i))
  BY DEF Grown, GrownTables, HookTables, StillTables, WithCall, HasTables, TableNames
<1>3. QED  BY <1>1, <1>2, CallStepAdds, GrownButIndex

LEMMA HooksGrow ==
  ASSUME NEW v, NEW t, NEW v0, Grown(v, t, v0), NEW n, NEW c, IsList(c.events)
  PROVE  Grown(RunEventHooks(v, n, c), t, RunEventHooks(v0, n, c))
<1> DEFINE S == DOMAIN c.events
           a == OfBlock(n, c)
<1>1. PICK iter : Hooking!Iterates(iter, a, v, S) /\ RunEventHooks(v, n, c) = iter[S]
  BY HooksIterate
<1>2. PICK jter : Hooking!Iterates(jter, a, v0, S) /\ RunEventHooks(v0, n, c) = jter[S]
  BY HooksIterate
<1>3. Hooking!Sized(S) /\ \A s \in SUBSET S : s # {} => Max(s) \in s
  BY LastIsMember DEF Hooking!Sized, Indexing!Sized
<1> DEFINE G == {s \in SUBSET S : Grown(iter[s], t, jter[s])}
<1> HIDE DEF S, a
<1>4. {} \in G
  <2>1. iter[{}] = v /\ jter[{}] = v0
    BY <1>1, <1>2 DEF Hooking!Iterates
  <2>2. QED  BY <2>1
<1>5. ASSUME NEW s \in SUBSET S, s # {}, s \ {Max(s)} \in G PROVE s \in G
  <2> DEFINE rest == s \ {Max(s)}
  <2>1. /\ iter[s] = HookStep(a, Max(s), iter[rest])
        /\ jter[s] = HookStep(a, Max(s), jter[rest])
    BY <1>1, <1>2, <1>5 DEF Hooking!Iterates
  <2>2. Grown(iter[rest], t, jter[rest])
    BY <1>5
  <2> HIDE DEF rest
  <2>3. Grown(iter[s], t, jter[s])
    BY <2>1, <2>2, HookStepGrows
  <2>4. QED  BY <2>3
<1>6. S \in G
  <2> HIDE DEF G
  <2>1. QED  BY <1>3, <1>4, <1>5, Hooking!IterationKeeps
<1>7. QED  BY <1>1, <1>2, <1>6 DEF S

LEMMA CallsGrow ==
  ASSUME NEW v, NEW t, NEW v0, Grown(v, t, v0), NEW n, NEW c, IsList(c.extrinsics)
  PROVE  Grown(SaveExtrinsics(v, n, c), t, SaveExtrinsics(v0, n, c))
<1> DEFINE S == DOMAIN c.extrinsics
           a == OfBlock(n, c)
<1>1. PICK iter : Calling!Iterates(iter, a, v, S) /\ SaveExtrinsics(v, n, c) = iter[S]
  BY CallsIterate
<1>2. PICK jter : Calling!Iterates(jter, a, v0, S) /\ SaveExtrinsics(v0, n, c) = jter[S]
  BY CallsIterate
<1>3. Calling!Sized(S) /\ \A s \in SUBSET S : s # {} => Max(s) \in s
  BY LastIsMember DEF Calling!Sized, Indexing!Sized
<1> DEFINE G == {s \in SUBSET S : Grown(iter[s], t, jter[s])}
<1> HIDE DEF S
<1>4. {} \in G
  <2>1. iter[{}] = v /\ jter[{}] = v0
    BY <1>1, <1>2 DEF Calling!Iterates
  <2>2. QED  BY <2>1
<1>5. ASSUME NEW s \in SUBSET S, s # {}, s \ {Max(s)} \in G PROVE s \in G
  <2> DEFINE rest == s \ {Max(s)}
  <2>1. /\ iter[s] = CallStep(a, Max(s), iter[rest])
        /\ jter[s] = CallStep(a, Max(s), jter[rest])
    BY <1>1, <1>2, <1>5 DEF Calling!Iterates
  <2>2. Grown(iter[rest], t, jter[rest])
    BY <1>5
  <2> HIDE DEF rest
  <2>3. Grown(iter[s], t, jter[s])
    BY <2>1, <2>2, CallStepGrows
  <2>4. QED  BY <2>3
<1>6. S \in G
  <2> HIDE DEF G, a
  <2>1. QED  BY <1>3, <1>4, <1>5, Calling!IterationKeeps
<1>7. QED  BY <1>1, <1>2, <1>6 DEF S

\* add_block up to its logs.
Gathered(t, n, c) ==
  SaveLogs(RunEventHooks(SaveExtrinsics(SaveEvents(t, n, c), n, c), n, c), n, c)

LEMMA GatheredGrows ==
  ASSUME NEW t, HasTables(t), NEW n, NEW c, IsList(c.events), IsList(c.extrinsics)
  PROVE  Grown(Gathered(t, n, c), t, Gathered(NoTables, n, c))
<1>1. Grown(t, t, NoTables)
  <2>1. \A f \in GrownTables : NoTables[f] = {}
    BY DEF GrownTables, HookTables, NoTables
  <2>2. QED  BY <2>1, NoTablesAreTables DEF Grown
<1>2. \A v, v0 : Grown(v, t, v0) => Grown(SaveEvents(v, n, c), t, SaveEvents(v0, n, c))
  BY DEF Grown, SaveEvents, HasTables, TableNames, GrownTables, HookTables, StillTables
<1>3. \A v, v0 : Grown(v, t, v0) => Grown(SaveLogs(v, n, c), t, SaveLogs(v0, n, c))
  BY DEF Grown, SaveLogs, HasTables, TableNames, GrownTables, HookTables, StillTables
<1>4. \A v, v0 : Grown(v, t, v0) => Grown(SaveExtrinsics(v, n, c), t, SaveExtrinsics(v0, n, c))
  BY CallsGrow
<1>5. \A v, v0 : Grown(v, t, v0) => Grown(RunEventHooks(v, n, c), t, RunEventHooks(v0, n, c))
  BY HooksGrow
<1> HIDE DEF Grown
<1>6. QED  BY <1>1, <1>2, <1>3, <1>4, <1>5 DEF Gathered

\* What the hooks do to the participants.
LEMMA HookTakesPart ==
  ASSUME NEW t, HasTables(t), NEW n, NEW i, NEW e
  PROVE  AccumulationHook(t, n, i, e).participants =
           IF TakesPart(e)
           THEN {p \in t.participants : p[2] # e.estimate \/ p[3] # e.account}
                  \cup {<<n, e.estimate, e.account>>}
           ELSE t.participants
<1>1. CASE e.kind = "ParticipateEstimates"
  <2>1. AccumulationHook(t, n, i, e) = ParticipateEstimates(t, n, e)
    BY <1>1 DEF AccumulationHook
  <2>2. QED
    BY <1>1, <2>1 DEF ParticipateEstimates, HasTables, TableNames, TakesPart
<1>2. CASE e.kind # "ParticipateEstimates"
  <2>1. AccumulationHook(t, n, i, e).participants = t.participants
    BY <1>2 DEF AccumulationHook, HasTables, TableNames, NewAccount, KilledAccount,
             ReapedAccount,
             IndexAssigned, NewAccountIndex, IndexFreed, IdentitySet, IdentityCleared,
             IdentityKilled, JudgementGiven, CodeStored, AggregatedPrice,
             NewPurchasedRequest, EndOfAskEra, PayForPurchase, PurchasedAvgPrice,
             NewEstimates, ActiveEstimates, CompletedEstimates, ParticipateEstimates,
             IdentityAudit, ValidatorChecks
  <2>2. QED  BY <1>2, <2>1 DEF TakesPart
<1>3. QED  BY <1>1, <1>2

\* Each account takes part in each estimate of these events in block n only.
OneBlockEach(t, n, c) ==
  \A i \in DOMAIN c.events :
    LET e == c.events[i]
    IN TakesPart(e) =>
         \A p \in t.participants :
           p[2] = e.estimate /\ p[3] = e.account => p = <<n, e.estimate, e.account>>

\* v has the participants that v0 has and t has had.
Joined(v, t, v0, n) ==
  /\ HasTables(v) /\ HasTables(v0)
  /\ v.participants = t.participants \cup v0.participants
  /\ \A p \in v0.participants : p = <<n, p[2], p[3]>>

LEMMA HookStepJoins ==
  ASSUME NEW t, NEW n, NEW c, OneBlockEach(t, n, c), NEW i \in DOMAIN c.events,
         NEW v, NEW v0, Joined(v, t, v0, n)
  PROVE  Joined(HookStep(OfBlock(n, c), i, v), t, HookStep(OfBlock(n, c), i, v0), n)
<1> DEFINE e == c.events[i]
           u == AccumulationHook(v, n, i, e)
           u0 == AccumulationHook(v0, n, i, e)
           w == HookStep(OfBlock(n, c), i, v)
           w0 == HookStep(OfBlock(n, c), i, v0)
<1>1. HasTables(v) /\ HasTables(v0)
  BY DEF Joined
<1>2. HasTables(u) /\ HasTables(u0)
  BY <1>1, HookAdds DEF HookDone
<1>3. SameButIndex(w, u) /\ SameButIndex(w0, u0)
  BY <1>2, AddIndexOnly DEF HookStep, OfBlock
<1>4. HasTables(w) /\ HasTables(w0) /\ w.participants = u.participants /\ w0.participants = u0.participants
  BY <1>3 DEF SameButIndex, TableNames
<1>5. ASSUME NEW x, HasTables(x)
      PROVE  AccumulationHook(x, n, i, e).participants =
               IF TakesPart(e)
               THEN {p \in x.participants : p[2] # e.estimate \/ p[3] # e.account}
                      \cup {<<n, e.estimate, e.account>>}
               ELSE x.participants
  <2> HIDE DEF e
  <2>1. QED  BY <1>5, HookTakesPart
<1>6. CASE TakesPart(e)
  <2> DEFINE new == <<n, e.estimate, e.account>>
             Other(p) == p[2] # e.estimate \/ p[3] # e.account
  <2>1. /\ u.participants = {p \in v.participants : Other(p)} \cup {new}
        /\ u0.participants = {p \in v0.participants : Other(p)} \cup {new}
    BY <1>1, <1>5, <1>6
  <2>2. \A p \in t.participants : Other(p) \/ p = new
    BY <1>6 DEF OneBlockEach
  <2>3. \A p \in v0.participants : Other(p) \/ p = new
    BY DEF Joined
  <2>4. new = <<n, new[2], new[3]>>
    OBVIOUS
  <2> HIDE DEF u, u0, w, w0, Other, new
  <2>5. u.participants = t.participants \cup u0.participants
    BY <2>1, <2>2, <2>3 DEF Joined
  <2>6. \A p \in u0.participants : p = <<n, p[2], p[3]>>
    BY <2>1, <2>4 DEF Joined
  <2>7. QED  BY <1>4, <2>5, <2>6 DEF Joined, w, w0
<1>7. CASE ~TakesPart(e)
  <2>1. u.participants = v.participants /\ u0.participants = v0.participants
    BY <1>1, <1>5, <1>7
  <2> HIDE DEF u, u0, w, w0
  <2>2. QED  BY <1>4, <2>1 DEF Joined, w, w0
<1>8. QED  BY <1>6, <1>7

LEMMA HooksJoin ==
  ASSUME NEW t, NEW n, NEW c, OneBlockEach(t, n, c), IsList(c.events),
         NEW v, NEW v0, Joined(v, t, v0, n)
  PROVE  Joined(RunEventHooks(v, n, c), t, RunEventHooks(v0, n, c), n)
<1> DEFINE S == DOMAIN c.events
           a == OfBlock(n, c)
<1>1. PICK iter : Hooking!Iterates(iter, a, v, S) /\ RunEventHooks(v, n, c) = iter[S]
  BY HooksIterate
<1>2. PICK jter : Hooking!Iterates(jter, a, v0, S) /\ RunEventHooks(v0, n, c) = jter[S]
  BY HooksIterate
<1>3. Hooking!Sized(S) /\ \A s \in SUBSET S : s # {} => Max(s) \in s
  BY LastIsMember DEF Hooking!Sized, Indexing!Sized
<1> DEFINE G == {s \in SUBSET S : Joined(iter[s], t, jter[s], n)}
<1>4. {} \in G
  <2>1. iter[{}] = v /\ jter[{}] = v0
    BY <1>1, <1>2 DEF Hooking!Iterates
  <2>2. QED  BY <2>1
<1>5. ASSUME NEW s \in SUBSET S, s # {}, s \ {Max(s)} \in G PROVE s \in G
  <2> DEFINE rest == s \ {Max(s)}
  <2>1. /\ iter[s] = HookStep(a, Max(s), iter[rest])
        /\ jter[s] = HookStep(a, Max(s), jter[rest])
    BY <1>1, <1>2, <1>5 DEF Hooking!Iterates
  <2>2. Joined(iter[rest], t, jter[rest], n) /\ Max(s) \in S
    BY <1>3, <1>5
  <2> HIDE DEF rest
  <2>3. Joined(iter[s], t, jter[s], n)
    BY <2>1, <2>2, HookStepJoins
  <2>4. QED  BY <2>3
<1>6. S \in G
  <2> HIDE DEF G, S, a
  <2>1. QED  BY <1>3, <1>4, <1>5, Hooking!IterationKeeps
<1>7. QED  BY <1>1, <1>2, <1>6 DEF S

\* u is v after the extrinsics at these places.
Called(u, v, n, c, places) ==
  /\ HasTables(u)
  /\ \A f \in TableNames \ {"index", "extrinsics"} : u[f] = v[f]
  /\ u.extrinsics = v.extrinsics \cup {CallRow(n, c, i) : i \in places}

LEMMA CallsAreRows ==
  ASSUME NEW v, HasTables(v), NEW n, NEW c, IsList(c.extrinsics)
  PROVE  Called(SaveExtrinsics(v, n, c), v, n, c, DOMAIN c.extrinsics)
<1> DEFINE S == DOMAIN c.extrinsics
           a == OfBlock(n, c)
<1>1. PICK iter : Calling!Iterates(iter, a, v, S) /\ SaveExtrinsics(v, n, c) = iter[S]
  BY CallsIterate
<1>2. Calling!Sized(S) /\ \A s \in SUBSET S : s # {} => Max(s) \in s
  BY LastIsMember DEF Calling!Sized, Indexing!Sized
<1> DEFINE G == {s \in SUBSET S : Called(iter[s], v, n, c, s)}
<1> HIDE DEF S
<1>3. {} \in G
  <2>1. iter[{}] = v
    BY <1>1 DEF Calling!Iterates
  <2>2. QED  BY <2>1 DEF Called
<1>4. ASSUME NEW s \in SUBSET S, s # {}, s \ {Max(s)} \in G PROVE s \in G
  <2> DEFINE rest == s \ {Max(s)}
             u == iter[rest]
             w == WithCall(u, n, c, Max(s))
  <2>1. iter[s] = CallStep(a, Max(s), u)
    BY <1>1, <1>4 DEF Calling!Iterates
  <2>2. Called(u, v, n, c, rest)
    BY <1>4
  <2>3. s = rest \cup {Max(s)}
    BY <1>2, <1>4
  <2> HIDE DEF rest, u
  <2>4. SameButIndex(iter[s], w)
    BY <2>1, <2>2, CallStepAdds DEF Called
  <2>5. /\ HasTables(w)
        /\ \A f \in TableNames \ {"extrinsics"} : w[f] = u[f]
        /\ w.extrinsics = u.extrinsics \cup {CallRow(n, c, Max(s))}
    BY <2>2 DEF Called, WithCall, HasTables, TableNames
  <2>6. {CallRow(n, c, i) : i \in s} = {CallRow(n, c, i) : i \in rest} \cup {CallRow(n, c, Max(s))}
    BY <2>3
  <2> HIDE DEF w
  <2>7. HasTables(iter[s]) /\ \A f \in TableNames \ {"index"} : iter[s][f] = w[f]
    BY <2>4 DEF SameButIndex
  <2>8. iter[s].extrinsics = v.extrinsics \cup {CallRow(n, c, i) : i \in s}
    <3>1. "extrinsics" \in TableNames \ {"index"}
      BY DEF TableNames
    <3>2. iter[s].extrinsics = w.extrinsics
      BY <2>7, <3>1
    <3>3. u.extrinsics = v.extrinsics \cup {CallRow(n, c, i) : i \in rest}
      BY <2>2 DEF Called
    <3>4. QED  BY <2>5, <2>6, <3>2, <3>3
  <2>9. \A f \in TableNames \ {"index", "extrinsics"} : iter[s][f] = v[f]
    BY <2>2, <2>5, <2>7 DEF Called
  <2>10. QED  BY <2>7, <2>8, <2>9 DEF Called
<1>5. S \in G
  <2> HIDE DEF G, a
  <2>1. QED  BY <1>2, <1>3, <1>4, Calling!IterationKeeps
<1>6. QED  BY <1>1, <1>5 DEF S

\* The rows of a block in the tables that are taken out again are its own, and
\* an event that writes to the table is among its events.
Owned(u, n, c) ==
  /\ HasTables(u)
  /\ \A f \in RevertedTables : \A r \in u[f] :
       r[1] = n /\ \E i \in DOMAIN c.events : c.events[i].kind \in RevertKinds[f]
  /\ \A p \in u.participants : \E i \in DOMAIN c.events :
       LET e == c.events[i] IN TakesPart(e) /\ p = <<n, e.estimate, e.account>>

\* u is v after hooks.
Hooked(u, v) == HasTables(u) /\ \A f \in KeptTables \ {"index"} : u[f] = v[f]

LEMMA HookStepOwns ==
  ASSUME NEW v, NEW n, NEW c, Owned(v, n, c), NEW i \in DOMAIN c.events
  PROVE  /\ Owned(HookStep(OfBlock(n, c), i, v), n, c)
         /\ Hooked(HookStep(OfBlock(n, c), i, v), v)
<1> DEFINE e == c.events[i]
           u == AccumulationHook(v, n, i, e)
           new == AccumulationHook(NoTables, n, i, e)
           w == HookStep(OfBlock(n, c), i, v)
<1>1. HasTables(v)
  BY DEF Owned
<1>2. HookDone(u, v, new) /\ OwnRows(new, n, e)
  BY <1>1, HookAdds, HookRowsAreOwn
<1>3. u.participants =
               IF TakesPart(e)
               THEN {p \in v.participants : p[2] # e.estimate \/ p[3] # e.account}
                      \cup {<<n, e.estimate, e.account>>}
               ELSE v.participants
  <2> HIDE DEF e
  <2>1. QED  BY <1>1, HookTakesPart
<1>4. HasTables(u)
  BY <1>2 DEF HookDone
<1>5. SameButIndex(w, u)
  BY <1>4, AddIndexOnly DEF HookStep, OfBlock
<1> HIDE DEF u, w, new
<1>6. ASSUME NEW f \in RevertedTables \ {"participants"}, NEW r \in u[f]
      PROVE  r[1] = n /\ \E j \in DOMAIN c.events : c.events[j].kind \in RevertKinds[f]
  <2>1. u[f] = v[f] \cup new[f]
    BY <1>2 DEF HookDone, HookTables, RevertedTables
  <2>2. CASE r \in v[f]
    BY <2>2 DEF Owned
  <2>3. CASE r \in new[f]
    BY <1>2, <2>3 DEF OwnRows
  <2>4. QED  BY <2>1, <2>2, <2>3
<1>7. ASSUME NEW r \in u.participants
      PROVE  r[1] = n /\ \E j \in DOMAIN c.events : c.events[j].kind \in RevertKinds["participants"]
  <2>1. CASE r \in v.participants
    BY <2>1 DEF Owned, RevertedTables
  <2>2. CASE TakesPart(e) /\ r = <<n, e.estimate, e.account>>
    <3>1. e.kind \in RevertKinds["participants"]
      BY <2>2 DEF TakesPart, RevertKinds
    <3>2. QED  BY <2>2, <3>1
  <2>3. QED  BY <1>3, <2>1, <2>2
<1>8. Owned(u, n, c)
  <2>1. ASSUME NEW p \in u.participants
        PROVE  \E j \in DOMAIN c.events :
                 TakesPart(c.events[j]) /\ p = <<n, c.events[j].estimate, c.events[j].account>>
    <3>1. CASE p \in v.participants
      BY <3>1 DEF Owned
    <3>2. CASE TakesPart(e) /\ p = <<n, e.estimate, e.account>>
      BY <3>2
    <3>3. QED  BY <1>3, <3>1, <3>2
  <2>2. QED  BY <1>4, <1>6, <1>7, <2>1 DEF Owned
<1>9. Hooked(u, v)
  BY <1>2 DEF HookDone, Hooked
<1>10. Owned(w, n, c)
  <2>1. w.participants = u.participants /\ \A f \in RevertedTables : w[f] = u[f]
    BY <1>5 DEF SameButIndex, RevertedTables, TableNames
  <2>2. QED  BY <1>5, <1>8, <2>1 DEF Owned, SameButIndex
<1>11. Hooked(w, v)
  BY <1>5, <1>9 DEF Hooked, SameButIndex, KeptTables, TableNames
<1>12. QED  BY <1>10, <1>11 DEF w

LEMMA HooksOwn ==
  ASSUME NEW v, NEW n, NEW c, Owned(v, n, c), IsList(c.events)
  PROVE  /\ Owned(RunEventHooks(v, n, c), n, c)
         /\ Hooked(RunEventHooks(v, n, c), v)
<1> DEFINE S == DOMAIN c.events
           a == OfBlock(n, c)
<1>1. PICK iter : Hooking!Iterates(iter, a, v, S) /\ RunEventHooks(v, n, c) = iter[S]
  BY HooksIterate
<1>2. Hooking!Sized(S) /\ \A s \in SUBSET S : s # {} => Max(s) \in s
  BY LastIsMember DEF Hooking!Sized, Indexing!Sized
<1> DEFINE G == {s \in SUBSET S : Owned(iter[s], n, c) /\ Hooked(iter[s], v)}
<1>3. {} \in G
  <2>1. iter[{}] = v
    BY <1>1 DEF Hooking!Iterates
  <2>2. QED  BY <2>1 DEF Hooked, Owned
<1>4. ASSUME NEW s \in SUBSET S, s # {}, s \ {Max(s)} \in G PROVE s \in G
  <2> DEFINE rest == s \ {Max(s)}
             u == iter[rest]
  <2>1. iter[s] = HookStep(a, Max(s), u)
    BY <1>1, <1>4 DEF Hooking!Iterates
  <2>2. Owned(u, n, c) /\ Hooked(u, v) /\ Max(s) \in S
    BY <1>2, <1>4
  <2> HIDE DEF rest, u
  <2>3. Owned(iter[s], n, c) /\ Hooked(iter[s], u)
    BY <2>1, <2>2, HookStepOwns
  <2>4. Hooked(iter[s], v)
    BY <2>2, <2>3 DEF Hooked
  <2>5. QED  BY <2>3, <2>4
<1>5. S \in G
  <2> HIDE DEF G, S, a
  <2>1. QED  BY <1>2, <1>3, <1>4, Hooking!IterationKeeps
<1>6. QED  BY <1>1, <1>5 DEF S

EventRows(n, c) == {<<n, i, c.events[i]>> : i \in DOMAIN c.events}
CallRows(n, c) == {CallRow(n, c, i) : i \in DOMAIN c.extrinsics}
LogRows(n, c) == {<<n, i>> : i \in DOMAIN c.logs}

\* The rows of block n alone.
RowsOf(v, n, c) ==
  /\ v.events = EventRows(n, c)
  /\ v.extrinsics = CallRows(n, c)
  /\ v.logs = LogRows(n, c)
  /\ Owned(v, n, c)

LEMMA GatheredAlone ==
  ASSUME NEW n, NEW c, IsList(c.events), IsList(c.extrinsics)
  PROVE  RowsOf(Gathered(NoTables, n, c), n, c)
<1> DEFINE t1 == SaveEvents(NoTables, n, c)
           t2 == SaveExtrinsics(t1, n, c)
           t3 == RunEventHooks(t2, n, c)
           t4 == SaveLogs(t3, n, c)
<1>1. /\ HasTables(t1) /\ t1.events = EventRows(n, c) /\ t1.extrinsics = {} /\ t1.logs = {}
      /\ \A f \in RevertedTables : t1[f] = {}
  BY NoTablesAreTables DEF SaveEvents, HasTables, TableNames, NoTables, EventRows, RevertedTables
<1> HIDE DEF t1
<1>2. Called(t2, t1, n, c, DOMAIN c.extrinsics)
  BY <1>1, CallsAreRows
<1> HIDE DEF t2
<1>3. HasTables(t2) /\ t2.events = EventRows(n, c) /\ t2.extrinsics = CallRows(n, c) /\ t2.logs = {}
  BY <1>1, <1>2 DEF Called, CallRows, TableNames
<1>4. Owned(t2, n, c)
  <2>1. t2.participants = {} /\ \A f \in RevertedTables : t2[f] = t1[f]
    BY <1>1, <1>2 DEF Called, RevertedTables, TableNames
  <2>2. QED  BY <1>1, <1>3, <2>1 DEF Owned
<1>5. Owned(t3, n, c) /\ Hooked(t3, t2)
  BY <1>4, HooksOwn
<1> HIDE DEF t3
<1>6. /\ t3.events = t2.events /\ t3.extrinsics = t2.extrinsics /\ t3.logs = t2.logs
  BY <1>5 DEF Hooked, KeptTables
<1>7. HasTables(t3)
  BY <1>5 DEF Hooked
<1>8. HasTables(t4) /\ (\A f \in TableNames \ {"logs"} : t4[f] = t3[f]) /\ t4.logs = t3.logs \cup LogRows(n, c)
  BY <1>7 DEF SaveLogs, HasTables, TableNames, LogRows
<1> HIDE DEF t4
<1>9. Owned(t4, n, c)
  <2>1. t4.participants = t3.participants /\ \A f \in RevertedTables : t4[f] = t3[f]
    BY <1>8 DEF RevertedTables, TableNames
  <2>2. QED  BY <1>5, <1>8, <2>1 DEF Owned
<1>10. t4.events = t3.events /\ t4.extrinsics = t3.extrinsics
  BY <1>8 DEF TableNames
<1>11. t4.logs = LogRows(n, c)
  BY <1>3, <1>6, <1>8
<1>12. RowsOf(t4, n, c)
  BY <1>3, <1>6, <1>9, <1>10, <1>11 DEF RowsOf
<1>13. QED  BY <1>12 DEF Gathered, t1, t2, t3, t4

LEMMA GatheredJoins ==
  ASSUME NEW t, HasTables(t), NEW n, NEW c, IsList(c.events), IsList(c.extrinsics),
         OneBlockEach(t, n, c)
  PROVE  Joined(Gathered(t, n, c), t, Gathered(NoTables, n, c), n)
<1>1. Joined(t, t, NoTables, n)
  BY NoTablesAreTables DEF Joined, NoTables
<1>2. \A v, v0 : Joined(v, t, v0, n) => Joined(SaveEvents(v, n, c), t, SaveEvents(v0, n, c), n)
  BY DEF Joined, SaveEvents, HasTables, TableNames
<1>3. \A v, v0 : Joined(v, t, v0, n) => Joined(SaveLogs(v, n, c), t, SaveLogs(v0, n, c), n)
  BY DEF Joined, SaveLogs, HasTables, TableNames
<1>4. ASSUME NEW v, NEW v0, Joined(v, t, v0, n)
      PROVE  Joined(SaveExtrinsics(v, n, c), t, SaveExtrinsics(v0, n, c), n)
  <2> DEFINE w == SaveExtrinsics(v, n, c)
             w0 == SaveExtrinsics(v0, n, c)
  <2>1. /\ Called(w, v, n, c, DOMAIN c.extrinsics)
        /\ Called(w0, v0, n, c, DOMAIN c.extrinsics)
    BY <1>4, CallsAreRows DEF Joined
  <2> HIDE DEF w, w0
  <2>2. HasTables(w) /\ HasTables(w0) /\ w.participants = v.participants /\ w0.participants = v0.participants
    BY <2>1 DEF Called, TableNames
  <2>3. Joined(w, t, w0, n)
    BY <1>4, <2>2 DEF Joined
  <2>4. QED  BY <2>3 DEF w, w0
<1>5. \A v, v0 : Joined(v, t, v0, n) => Joined(RunEventHooks(v, n, c), t, RunEventHooks(v0, n, c), n)
  BY HooksJoin
<1> HIDE DEF Joined
<1>6. QED  BY <1>1, <1>2, <1>3, <1>4, <1>5 DEF Gathered

\* What add_block does to each table but the index.
AddedTables == GrownTables \ {"fresh", "gone"}

\* A full block has none taken.
Snapshots(table, n, accounts, hash) ==
  LET keys == {<<n, a>> : a \in accounts}
  IN IF n \in FullBlocks THEN table
     ELSE [k \in DOMAIN table \cup keys |-> IF k \in keys THEN hash ELSE table[k]]

BlockRow(v, n, c) ==
  [hash |-> c.hash, counters |-> Counters(v, n, c), datetime |-> TimeOf(c), made |-> MadeIn(c)]

BlockAdded(v, t, v0, n, c) ==
  /\ HasTables(v) /\ HasTables(v0)
  /\ \A f \in AddedTables : v[f] = t[f] \cup v0[f]
  /\ v.blocks = Put(t.blocks, n, BlockRow(Gathered(NoTables, n, c), n, c))
  /\ v.snapshots = Snapshots(t.snapshots, n, IndexedAt(v, n), c.hash)
  /\ v.reorg = t.reorg /\ v.fresh = {} /\ v.gone = {}

LEMMA LastSteps ==
  ASSUME NEW u, HasTables(u), NEW n, NEW c
  PROVE  LET v == SaveBlock(SaveSnapshots(u, n, c), n, c)
         IN /\ HasTables(v)
            /\ \A f \in TableNames \ {"blocks", "snapshots", "fresh", "gone"} : v[f] = u[f]
            /\ v.blocks = Put(u.blocks, n, BlockRow(u, n, c))
            /\ v.snapshots = Snapshots(u.snapshots, n, IndexedAt(u, n), c.hash)
            /\ v.fresh = {} /\ v.gone = {}
<1> DEFINE w == SaveSnapshots(u, n, c)
           v == SaveBlock(w, n, c)
<1>1. /\ HasTables(w) /\ \A f \in TableNames \ {"snapshots"} : w[f] = u[f]
      /\ w.snapshots = Snapshots(u.snapshots, n, IndexedAt(u, n), c.hash)
  <2>1. CASE n \in FullBlocks
    BY <2>1 DEF SaveSnapshots, HasTables, TableNames, Snapshots
  <2>2. CASE n \notin FullBlocks
    BY <2>2 DEF SaveSnapshots, Snapshotted, HasTables, TableNames, Snapshots
  <2>3. QED  BY <2>1, <2>2
<1> HIDE DEF w
<1>2. /\ HasTables(v) /\ \A f \in TableNames \ {"blocks", "fresh", "gone"} : v[f] = w[f]
      /\ v.blocks = Put(w.blocks, n, BlockRow(w, n, c)) /\ v.fresh = {} /\ v.gone = {}
  BY <1>1 DEF SaveBlock, HasTables, TableNames, BlockRow
<1> HIDE DEF v
<1>3. BlockRow(w, n, c) = BlockRow(u, n, c) /\ w.blocks = u.blocks
  BY <1>1 DEF BlockRow, Counters, TableNames
<1>4. v.snapshots = w.snapshots
  BY <1>2 DEF TableNames
<1>5. QED  BY <1>1, <1>2, <1>3, <1>4 DEF v, w

LEMMA AddsBlock ==
  ASSUME NEW t, HasTables(t), t.fresh = {}, t.gone = {}, NEW n, NEW c,
         IsList(c.events), IsList(c.extrinsics)
  PROVE  BlockAdded(WithBlock(t, n, c), t, WithBlock(NoTables, n, c), n, c)
<1> DEFINE u == Gathered(t, n, c)
           u0 == Gathered(NoTables, n, c)
           v == WithBlock(t, n, c)
           v0 == WithBlock(NoTables, n, c)
<1>1. v = SaveBlock(SaveSnapshots(u, n, c), n, c) /\ v0 = SaveBlock(SaveSnapshots(u0, n, c), n, c)
  BY DEF WithBlock, Gathered
<1>2. Grown(u, t, u0)
  BY GatheredGrows
<1> HIDE DEF u, u0, v, v0
<1>3. HasTables(u) /\ HasTables(u0) /\ u.blocks = t.blocks /\ u.snapshots = t.snapshots /\ u.reorg = t.reorg
      /\ u.fresh = u0.fresh /\ u.gone = u0.gone
  BY <1>2 DEF Grown, StillTables, GrownTables, HookTables
<1>4. /\ HasTables(v)
      /\ \A f \in TableNames \ {"blocks", "snapshots", "fresh", "gone"} : v[f] = u[f]
      /\ v.blocks = Put(u.blocks, n, BlockRow(u, n, c))
      /\ v.snapshots = Snapshots(u.snapshots, n, IndexedAt(u, n), c.hash)
      /\ v.fresh = {} /\ v.gone = {}
  BY <1>1, <1>3, LastSteps
<1>5. /\ HasTables(v0)
      /\ \A f \in TableNames \ {"blocks", "snapshots", "fresh", "gone"} : v0[f] = u0[f]
  BY <1>1, <1>3, LastSteps
<1>6. BlockRow(u, n, c) = BlockRow(u0, n, c)
  BY <1>3 DEF BlockRow, Counters
<1>7. v.index = u.index /\ v.reorg = u.reorg
  BY <1>4 DEF TableNames
<1>8. IndexedAt(v, n) = IndexedAt(u, n)
  BY <1>7 DEF IndexedAt
<1>9. ASSUME NEW f \in AddedTables PROVE v[f] = t[f] \cup v0[f]
  <2>1. f \in TableNames \ {"blocks", "snapshots", "fresh", "gone"} /\ f \in GrownTables
    BY DEF AddedTables, GrownTables, HookTables, TableNames
  <2>2. v[f] = u[f] /\ v0[f] = u0[f] /\ u[f] = t[f] \cup u0[f]
    BY <1>2, <1>4, <1>5, <2>1 DEF Grown
  <2>3. QED  BY <2>2
<1>10. v.blocks = Put(t.blocks, n, BlockRow(u0, n, c))
  BY <1>3, <1>4, <1>6
<1>11. v.snapshots = Snapshots(t.snapshots, n, IndexedAt(v, n), c.hash)
  BY <1>3, <1>4, <1>8
<1>12. QED  BY <1>3, <1>4, <1>5, <1>7, <1>9, <1>10, <1>11 DEF BlockAdded, u0, v, v0

LEMMA AddsOwnRows ==
  ASSUME NEW n, NEW c, IsList(c.events), IsList(c.extrinsics)
  PROVE  RowsOf(WithBlock(NoTables, n, c), n, c)
<1> DEFINE u == Gathered(NoTables, n, c)
           v == WithBlock(NoTables, n, c)
<1>1. v = SaveBlock(SaveSnapshots(u, n, c), n, c)
  BY DEF WithBlock, Gathered
<1>2. RowsOf(u, n, c)
  BY GatheredAlone
<1> HIDE DEF u, v
<1>3. HasTables(u)
  BY <1>2 DEF RowsOf, Owned
<1>4. HasTables(v) /\ \A f \in TableNames \ {"blocks", "snapshots", "fresh", "gone"} : v[f] = u[f]
  BY <1>1, <1>3, LastSteps
<1>5. /\ v.events = u.events /\ v.extrinsics = u.extrinsics /\ v.logs = u.logs
      /\ v.participants = u.participants /\ \A f \in RevertedTables : v[f] = u[f]
  BY <1>4 DEF TableNames, RevertedTables
<1>6. Owned(v, n, c)
  BY <1>2, <1>4, <1>5 DEF Owned, RowsOf
<1>7. RowsOf(v, n, c)
  BY <1>2, <1>5, <1>6 DEF RowsOf
<1>8. QED  BY <1>7 DEF v

LEMMA AddsParticipants ==
  ASSUME NEW t, HasTables(t), NEW n, NEW c, IsList(c.events), IsList(c.extrinsics),
         OneBlockEach(t, n, c)
  PROVE  WithBlock(t, n, c).participants = t.participants \cup WithBlock(NoTables, n, c).participants
<1> DEFINE u == Gathered(t, n, c)
           u0 == Gathered(NoTables, n, c)
           v == WithBlock(t, n, c)
           v0 == WithBlock(NoTables, n, c)
<1>1. v = SaveBlock(SaveSnapshots(u, n, c), n, c) /\ v0 = SaveBlock(SaveSnapshots(u0, n, c), n, c)
  BY DEF WithBlock, Gathered
<1>2. Joined(u, t, u0, n)
  BY GatheredJoins
<1> HIDE DEF u, u0, v, v0
<1>3. HasTables(u) /\ HasTables(u0)
  BY <1>2 DEF Joined
<1>4. /\ \A f \in TableNames \ {"blocks", "snapshots", "fresh", "gone"} : v[f] = u[f]
      /\ \A f \in TableNames \ {"blocks", "snapshots", "fresh", "gone"} : v0[f] = u0[f]
  BY <1>1, <1>3, LastSteps
<1>5. v.participants = u.participants /\ v0.participants = u0.participants
  BY <1>4 DEF TableNames
<1>6. QED  BY <1>2, <1>5 DEF Joined, v, v0

------------------------------------------------------------------------------
(* remove_block.                                                           *)

\* u is t after the reverts of these events of block n.
RevertsDone(u, t, n, events) ==
  /\ HasTables(u)
  /\ \A f \in KeptTables \cup {"fresh", "gone", "checks"} : u[f] = t[f]
  /\ \A f \in RevertedTables :
       u[f] = IF \E e \in events : e.kind \in RevertKinds[f] THEN NotOf(t[f], n) ELSE t[f]

LEMMA RevertsMore ==
  ASSUME NEW u, NEW t, NEW n, NEW events, RevertsDone(u, t, n, events),
         NEW e, NEW w, RevertDone(w, u, n, e)
  PROVE  RevertsDone(w, t, n, events \cup {e})
<1>1. ASSUME NEW f \in RevertedTables
      PROVE  w[f] = IF \E x \in events \cup {e} : x.kind \in RevertKinds[f]
                    THEN NotOf(t[f], n) ELSE t[f]
  <2>1. w[f] = IF e.kind \in RevertKinds[f] THEN NotOf(u[f], n) ELSE u[f]
    BY DEF RevertDone
  <2>2. u[f] = IF \E x \in events : x.kind \in RevertKinds[f] THEN NotOf(t[f], n) ELSE t[f]
    BY DEF RevertsDone
  <2>3. NotOf(NotOf(t[f], n), n) = NotOf(t[f], n)
    BY DEF NotOf
  <2>4. QED  BY <2>1, <2>2, <2>3
<1>2. QED  BY <1>1 DEF RevertsDone, RevertDone

LEMMA RevertsTake ==
  ASSUME NEW t, HasTables(t), NEW n, NEW events, IsFiniteSet(events)
  PROVE  RevertsDone(Reverted(t, n, events), t, n, events)
<1> DEFINE a == OfBlock(n, 0)
<1>1. PICK iter : Reverting!Iterates(iter, a, t, events) /\ Reverted(t, n, events) = iter[events]
  BY RevertsIterate
<1>2. Reverting!Sized(events) /\ \A s \in SUBSET events : s # {} => One(s) \in s
  BY Reverting!FiniteSetsAreSized DEF One, IsFiniteSet, Reverting!IsFiniteSet
<1> DEFINE G == {s \in SUBSET events : RevertsDone(iter[s], t, n, s)}
<1>3. {} \in G
  <2>1. iter[{}] = t
    BY <1>1 DEF Reverting!Iterates
  <2>2. QED  BY <2>1 DEF RevertsDone
<1>4. ASSUME NEW s \in SUBSET events, s # {}, s \ {One(s)} \in G PROVE s \in G
  <2> DEFINE rest == s \ {One(s)}
             u == iter[rest]
             w == AccumulationRevert(u, n, One(s))
  <2>1. iter[s] = w
    BY <1>1, <1>4 DEF Reverting!Iterates, RevertStep, OfBlock
  <2>2. RevertsDone(u, t, n, rest)
    BY <1>4
  <2>3. s = rest \cup {One(s)}
    BY <1>2, <1>4
  <2> HIDE DEF rest, u, w
  <2>4. RevertDone(w, u, n, One(s))
    BY <2>2, RevertTakes DEF RevertsDone, w
  <2>5. RevertsDone(w, t, n, rest \cup {One(s)})
    BY <2>2, <2>4, RevertsMore
  <2>6. QED  BY <2>1, <2>3, <2>5
<1>5. events \in G
  <2> HIDE DEF G, a
  <2>1. \A s \in SUBSET events : s # {} /\ s \ {One(s)} \in G => s \in G
    BY <1>4
  <2>2. \A s \in SUBSET events : s \in G
    BY <1>2, <1>3, <2>1, Reverting!IterationKeeps
  <2>3. QED  BY <2>2
<1>6. QED  BY <1>1, <1>5

\* The tables of a block's own rows.
OwnTables == RevertedTables \cup {"events", "extrinsics", "logs"}

\* remove_block takes the rows of the block out of these tables and leaves the
\* others, if its stored events are those that have written them.
BlockTaken(v, t, n) ==
  /\ HasTables(v)
  /\ \A f \in OwnTables : v[f] = NotOf(t[f], n)
  /\ v.blocks = Without(t.blocks, {n})
  /\ \A f \in {"index", "snapshots", "reorg", "fresh", "gone", "checks"} : v[f] = t[f]

LEMMA TakesBlock ==
  ASSUME NEW t, HasTables(t), NEW n, IsFiniteSet(EventsOf(t, n)),
         \A f \in RevertedTables : \A r \in t[f] :
           r[1] = n => \E e \in EventsOf(t, n) : e.kind \in RevertKinds[f]
  PROVE  BlockTaken(WithoutBlock(t, n), t, n)
<1> DEFINE E == EventsOf(t, n)
           u == Reverted(t, n, E)
           v == WithoutBlock(t, n)
<1>1. RevertsDone(u, t, n, E)
  BY RevertsTake
<1>2. v = [LogsReverted(u, n) EXCEPT !.events = NotOf(@, n), !.extrinsics = NotOf(@, n),
                                     !.blocks = Without(@, {n})]
  BY DEF WithoutBlock, Reverted
<1> HIDE DEF u, v
<1>3. HasTables(u)
  BY <1>1 DEF RevertsDone
<1>4. /\ HasTables(v)
      /\ \A f \in TableNames \ {"events", "extrinsics", "logs", "blocks"} : v[f] = u[f]
      /\ \A f \in {"events", "extrinsics", "logs"} : v[f] = NotOf(u[f], n)
      /\ v.blocks = Without(u.blocks, {n})
  BY <1>2, <1>3 DEF LogsReverted, HasTables, TableNames, NotOf
<1>5. ASSUME NEW f \in RevertedTables PROVE v[f] = NotOf(t[f], n)
  <2>1. v[f] = u[f]
    BY <1>4 DEF RevertedTables, TableNames
  <2>2. CASE \E e \in E : e.kind \in RevertKinds[f]
    BY <1>1, <2>1, <2>2 DEF RevertsDone
  <2>3. CASE ~\E e \in E : e.kind \in RevertKinds[f]
    <3>1. NotOf(t[f], n) = t[f]
      BY <2>3 DEF NotOf
    <3>2. u[f] = t[f]
      BY <1>1, <2>3 DEF RevertsDone
    <3>3. QED  BY <2>1, <3>1, <3>2
  <2>4. QED  BY <2>2, <2>3
<1>6. \A f \in KeptTables \cup {"fresh", "gone", "checks"} : u[f] = t[f]
  BY <1>1 DEF RevertsDone
<1>7. \A f \in {"events", "extrinsics", "logs"} : v[f] = NotOf(t[f], n)
  BY <1>4, <1>6 DEF KeptTables
<1>8. v.blocks = Without(t.blocks, {n})
  BY <1>4, <1>6 DEF KeptTables
<1>9. \A f \in {"index", "snapshots", "reorg", "fresh", "gone", "checks"} : v[f] = t[f]
  BY <1>4, <1>6 DEF KeptTables, TableNames
<1> HIDE DEF E
<1>10. BlockTaken(v, t, n)
  BY <1>4, <1>5, <1>7, <1>8, <1>9 DEF BlockTaken, OwnTables
<1>11. QED  BY <1>10 DEF v

------------------------------------------------------------------------------
(* The index after add_block and after the rebuild of a block.             *)

KeysOf(n, c, slots) == UNION {KeysAt(n, from, AccountsAt(c, from)) : from \in slots}

\* rows after the index rows of block n at these slots have been added to old.
IndexedOver(rows, old, n, c, slots) ==
  /\ AddsOnly(rows, old, KeysOf(n, c, slots))
  /\ \A from \in slots :
       SameAt(rows, IndexRows(old, n, from, AccountsAt(c, from)), n, from)

\* The slots are there, with lists of accounts.
LEMMA AccountsAreLists ==
  ASSUME NEW c, IsBlock(c)
  PROVE  /\ IsList(c.events) /\ IsList(c.extrinsics)
         /\ \A from \in Slots(c) : IsList(AccountsAt(c, from))
<1>1. IsList(c.events) /\ IsList(c.extrinsics)
  BY DEF IsBlock
<1>2. ASSUME NEW i \in DOMAIN c.extrinsics PROVE IsList(AccountsAt(c, <<"signed", i>>))
  BY AreLists DEF AccountsAt
<1>3. ASSUME NEW i \in DOMAIN c.extrinsics PROVE IsList(AccountsAt(c, <<"extrinsic", i>>))
  <2>1. c.extrinsics[i].call = "vote" => IsList(c.extrinsics[i].params)
    BY DEF IsBlock
  <2>2. AccountsAt(c, <<"extrinsic", i>>) = ExtrinsicIndex(c.extrinsics[i], Succeeded(c, i))
    BY DEF AccountsAt
  <2>3. QED  BY <2>1, <2>2, ExtrinsicIndexIsList
<1>4. ASSUME NEW i \in DOMAIN c.events PROVE IsList(AccountsAt(c, <<"event", i>>))
  <2> DEFINE e == c.events[i]
  <2>1. /\ e.kind = "NewTerm" => IsList(e.members)
        /\ e.kind = "SomeOffline" => IsList(e.offline)
        /\ e.kind = "NewSession" => IsList(e.validators)
    BY DEF IsBlock
  <2>2. AccountsAt(c, <<"event", i>>) = EventIndex(e, SignerOf(c, e))
    BY DEF AccountsAt
  <2> HIDE DEF e
  <2>3. QED  BY <2>1, <2>2, EventIndexIsList
<1>5. QED  BY <1>1, <1>2, <1>3, <1>4 DEF Slots

LEMMA IndexedNone ==
  ASSUME NEW rows, NEW n, NEW c
  PROVE  IndexedOver(rows, rows, n, c, {})
BY DEF IndexedOver, AddsOnly, KeysOf

\* The rows of other slots and blocks are as they were.
LEMMA IndexedElsewhere ==
  ASSUME NEW rows, NEW old, NEW n, NEW c, NEW slots, IndexedOver(rows, old, n, c, slots),
         NEW m, NEW from, m # n \/ from \notin slots
  PROVE  SameAt(rows, old, m, from)
<1>1. ASSUME NEW account PROVE <<m, from, account>> \notin KeysOf(n, c, slots)
  BY DEF KeysOf, KeysAt
<1>2. QED  BY <1>1 DEF IndexedOver, AddsOnly, SameAt

\* One slot more.
LEMMA IndexedMore ==
  ASSUME NEW rows, NEW old, NEW n, NEW c, NEW slots, IndexedOver(rows, old, n, c, slots),
         NEW from, from \notin slots, IsList(AccountsAt(c, from))
  PROVE  IndexedOver(IndexRows(rows, n, from, AccountsAt(c, from)), old, n, c, slots \cup {from})
<1> DEFINE accounts == AccountsAt(c, from)
           new == IndexRows(rows, n, from, accounts)
           more == IndexRows(old, n, from, accounts)
<1>1. AddsOnly(new, rows, KeysAt(n, from, accounts))
  BY IndexRowsAdds
<1>2. KeysOf(n, c, slots \cup {from}) = KeysOf(n, c, slots) \cup KeysAt(n, from, accounts)
  BY DEF KeysOf
<1>3. SameAt(rows, old, n, from)
  BY IndexedElsewhere
<1>4. SameAt(new, more, n, from)
  BY <1>3, SameIsAdded
<1>5. \A other \in slots : SameAt(new, rows, n, other)
  BY OtherSlotsStay
<1> HIDE DEF accounts, new, more
<1>6. AddsOnly(new, old, KeysOf(n, c, slots \cup {from}))
  BY <1>1, <1>2 DEF IndexedOver, AddsOnly
<1>7. \A other \in slots :
        SameAt(new, IndexRows(old, n, other, AccountsAt(c, other)), n, other)
  BY <1>5, SameIsEquivalence DEF IndexedOver
<1>8. SameAt(new, IndexRows(old, n, from, AccountsAt(c, from)), n, from)
  BY <1>4 DEF more, accounts
<1>9. IndexedOver(new, old, n, c, slots \cup {from})
  BY <1>6, <1>7, <1>8 DEF IndexedOver
<1>10. QED  BY <1>9 DEF new, accounts

CallSlots(places) == {<<"signed", i>> : i \in places} \cup {<<"extrinsic", i>> : i \in places}
EventSlots(places) == {<<"event", i>> : i \in places}

LEMMA SlotsAre ==
  ASSUME NEW c
  PROVE  Slots(c) = CallSlots(DOMAIN c.extrinsics) \cup EventSlots(DOMAIN c.events)
BY DEF Slots, CallSlots, EventSlots

\* The two slots of an extrinsic.
LEMMA IndexedCall ==
  ASSUME NEW rows, NEW old, NEW n, NEW c, IsBlock(c), NEW places,
         IndexedOver(rows, old, n, c, CallSlots(places)),
         NEW i \in DOMAIN c.extrinsics, i \notin places
  PROVE  IndexedOver(
           IndexRows(IndexRows(rows, n, <<"signed", i>>, AccountsAt(c, <<"signed", i>>)),
                     n, <<"extrinsic", i>>, AccountsAt(c, <<"extrinsic", i>>)),
           old, n, c, CallSlots(places \cup {i}))
<1> DEFINE s == <<"signed", i>>
           x == <<"extrinsic", i>>
           signed == IndexRows(rows, n, s, AccountsAt(c, s))
<1>1. s \in Slots(c) /\ x \in Slots(c)
  BY DEF Slots
<1>2. IsList(AccountsAt(c, s)) /\ IsList(AccountsAt(c, x))
  BY <1>1, AccountsAreLists
<1>3. s \notin CallSlots(places) /\ x \notin CallSlots(places) \cup {s}
  BY DEF CallSlots
<1>4. (CallSlots(places) \cup {s}) \cup {x} = CallSlots(places \cup {i})
  BY DEF CallSlots
<1> HIDE DEF s, x, signed
<1>5. IndexedOver(signed, old, n, c, CallSlots(places) \cup {s})
  BY <1>2, <1>3, IndexedMore DEF signed
<1>6. IndexedOver(IndexRows(signed, n, x, AccountsAt(c, x)), old, n, c,
                  (CallSlots(places) \cup {s}) \cup {x})
  BY <1>2, <1>3, <1>5, IndexedMore
<1>7. QED  BY <1>4, <1>6 DEF s, x, signed

LEMMA CallsIndexed ==
  ASSUME NEW t, HasTables(t), NEW n, NEW c, IsBlock(c)
  PROVE  IndexedOver(SaveExtrinsics(t, n, c).index, t.index, n, c, CallSlots(DOMAIN c.extrinsics))
<1> DEFINE S == DOMAIN c.extrinsics
           a == OfBlock(n, c)
<1>0. IsList(c.extrinsics)
  BY DEF IsBlock
<1>1. PICK iter : Calling!Iterates(iter, a, t, S) /\ SaveExtrinsics(t, n, c) = iter[S]
  BY <1>0, CallsIterate
<1>2. Calling!Sized(S) /\ \A s \in SUBSET S : s # {} => Max(s) \in s
  BY <1>0, LastIsMember DEF Calling!Sized, Indexing!Sized
<1> DEFINE G == {s \in SUBSET S : HasTables(iter[s]) /\
                                  IndexedOver(iter[s].index, t.index, n, c, CallSlots(s))}
<1>3. {} \in G
  <2>1. iter[{}] = t
    BY <1>1 DEF Calling!Iterates
  <2>2. CallSlots({}) = {}
    BY DEF CallSlots
  <2>3. IndexedOver(t.index, t.index, n, c, {})
    BY IndexedNone
  <2>4. QED  BY <2>1, <2>2, <2>3
<1>4. ASSUME NEW s \in SUBSET S, s # {}, s \ {Max(s)} \in G PROVE s \in G
  <2> DEFINE rest == s \ {Max(s)}
             u == iter[rest]
             i == Max(s)
  <2>1. iter[s] = CallStep(a, i, u)
    BY <1>1, <1>4 DEF Calling!Iterates
  <2>2. HasTables(u) /\ IndexedOver(u.index, t.index, n, c, CallSlots(rest))
    BY <1>4
  <2>3. i \in S /\ i \notin rest /\ s = rest \cup {i}
    BY <1>2, <1>4
  <2> HIDE DEF rest, u, i
  <2>4. /\ SameButIndex(iter[s], WithCall(u, n, c, i))
        /\ iter[s].index =
             IndexRows(IndexRows(u.index, n, <<"signed", i>>, AccountsAt(c, <<"signed", i>>)),
                       n, <<"extrinsic", i>>, AccountsAt(c, <<"extrinsic", i>>))
    BY <2>1, <2>2, CallStepAdds
  <2>5. HasTables(iter[s])
    BY <2>4 DEF SameButIndex
  <2>6. IndexedOver(
           IndexRows(IndexRows(u.index, n, <<"signed", i>>, AccountsAt(c, <<"signed", i>>)),
                     n, <<"extrinsic", i>>, AccountsAt(c, <<"extrinsic", i>>)),
           t.index, n, c, CallSlots(rest \cup {i}))
    BY <2>2, <2>3, IndexedCall
  <2>7. IndexedOver(iter[s].index, t.index, n, c, CallSlots(s))
    BY <2>3, <2>4, <2>6
  <2>8. QED  BY <2>5, <2>7
<1>5. S \in G
  <2> HIDE DEF G, a, S
  <2>1. QED  BY <1>2, <1>3, <1>4, Calling!IterationKeeps
<1>6. QED  BY <1>1, <1>5

\* The slot of an event, after those of all extrinsics.
LEMMA HooksIndexed ==
  ASSUME NEW t, HasTables(t), NEW n, NEW c, IsBlock(c), NEW old,
         IndexedOver(t.index, old, n, c, CallSlots(DOMAIN c.extrinsics))
  PROVE  IndexedOver(RunEventHooks(t, n, c).index, old, n, c, Slots(c))
<1> DEFINE S == DOMAIN c.events
           calls == CallSlots(DOMAIN c.extrinsics)
           a == OfBlock(n, c)
<1>0. IsList(c.events)
  BY DEF IsBlock
<1>1. PICK iter : Hooking!Iterates(iter, a, t, S) /\ RunEventHooks(t, n, c) = iter[S]
  BY <1>0, HooksIterate
<1>2. Hooking!Sized(S) /\ \A s \in SUBSET S : s # {} => Max(s) \in s
  BY <1>0, LastIsMember DEF Hooking!Sized, Indexing!Sized
<1> DEFINE G == {s \in SUBSET S : HasTables(iter[s]) /\
                                  IndexedOver(iter[s].index, old, n, c, calls \cup EventSlots(s))}
<1>3. {} \in G
  <2>1. iter[{}] = t
    BY <1>1 DEF Hooking!Iterates
  <2>2. calls \cup EventSlots({}) = calls
    BY DEF EventSlots
  <2>3. QED  BY <2>1, <2>2
<1>4. ASSUME NEW s \in SUBSET S, s # {}, s \ {Max(s)} \in G PROVE s \in G
  <2> DEFINE rest == s \ {Max(s)}
             u == iter[rest]
             i == Max(s)
             e == c.events[i]
             w == AccumulationHook(u, n, i, e)
             from == <<"event", i>>
             slots == calls \cup EventSlots(rest)
  <2>1. iter[s] = HookStep(a, i, u)
    BY <1>1, <1>4 DEF Hooking!Iterates
  <2>2. HasTables(u) /\ IndexedOver(u.index, old, n, c, slots)
    BY <1>4
  <2>3. i \in S /\ i \notin rest /\ s = rest \cup {i}
    BY <1>2, <1>4
  <2>4. HookStep(a, i, u) = AddIndex(w, n, from, AccountsAt(c, from))
    BY DEF HookStep, OfBlock, AccountsAt
  <2> HIDE DEF rest, u, i
  <2>5. HasTables(w) /\ w.index = u.index
    BY <2>2, HookAdds DEF HookDone, KeptTables
  <2>6. from \in Slots(c) /\ from \notin slots /\ slots \cup {from} = calls \cup EventSlots(s)
    BY <2>3 DEF Slots, EventSlots, CallSlots
  <2>7. IsList(AccountsAt(c, from))
    BY <2>6, AccountsAreLists
  <2> HIDE DEF w, from, slots
  <2>8. HasTables(iter[s]) /\ iter[s].index = IndexRows(u.index, n, from, AccountsAt(c, from))
    BY <2>1, <2>4, <2>5, AddIndexOnly DEF SameButIndex
  <2>9. IndexedOver(iter[s].index, old, n, c, slots \cup {from})
    BY <2>2, <2>6, <2>7, <2>8, IndexedMore
  <2>10. QED  BY <2>6, <2>8, <2>9
<1>5. S \in G
  <2> HIDE DEF G, a, S
  <2>1. QED  BY <1>2, <1>3, <1>4, Hooking!IterationKeeps
<1>6. IndexedOver(iter[S].index, old, n, c, calls \cup EventSlots(S))
  BY <1>5
<1>7. QED  BY <1>1, <1>6, SlotsAre

\* add_block indexes the accounts of all its slots.
LEMMA AddsIndex ==
  ASSUME NEW t, HasTables(t), NEW n, NEW c, IsBlock(c)
  PROVE  IndexedOver(WithBlock(t, n, c).index, t.index, n, c, Slots(c))
<1> DEFINE t1 == SaveEvents(t, n, c)
           t2 == SaveExtrinsics(t1, n, c)
           t3 == RunEventHooks(t2, n, c)
           t4 == SaveLogs(t3, n, c)
           v == SaveBlock(SaveSnapshots(t4, n, c), n, c)
<1>0. IsList(c.events) /\ IsList(c.extrinsics)
  BY DEF IsBlock
<1>1. HasTables(t1) /\ t1.index = t.index
  BY DEF SaveEvents, HasTables, TableNames
<1> HIDE DEF t1
<1>2. IndexedOver(t2.index, t.index, n, c, CallSlots(DOMAIN c.extrinsics))
  BY <1>1, CallsIndexed
<1>3. HasTables(t2)
  BY <1>0, <1>1, CallsAreRows DEF Called
<1> HIDE DEF t2
<1>4. IndexedOver(t3.index, t.index, n, c, Slots(c))
  BY <1>2, <1>3, HooksIndexed
<1>5. Grown(t2, t2, NoTables)
  <2>1. \A f \in GrownTables : NoTables[f] = {}
    BY DEF GrownTables, HookTables, NoTables
  <2>2. QED  BY <1>3, <2>1, NoTablesAreTables DEF Grown
<1>6. HasTables(t3)
  BY <1>0, <1>5, HooksGrow DEF Grown
<1> HIDE DEF t3
<1>7. HasTables(t4) /\ t4.index = t3.index
  BY <1>6 DEF SaveLogs, HasTables, TableNames
<1> HIDE DEF t4
<1>8. \A f \in TableNames \ {"blocks", "snapshots", "fresh", "gone"} : v[f] = t4[f]
  BY <1>7, LastSteps
<1> HIDE DEF v
<1>9. v.index = t4.index
  BY <1>8 DEF TableNames
<1>10. IndexedOver(v.index, t.index, n, c, Slots(c))
  BY <1>4, <1>7, <1>9
<1>11. QED  BY <1>10 DEF v, t1, t2, t3, t4, WithBlock

SignerAmong(calls, e) ==
  IF \E r \in calls : r[2] = e.extrinsic
  THEN (CHOOSE r \in calls : r[2] = e.extrinsic)[3].call.address ELSE Null

CallAgainStep(a, r, u) == IndexExtrinsic(u, a.n, r[2], r[3].call, r[3].success)
EventAgainStep(a, r, u) ==
  AddIndex(u, a.n, <<"event", r[2]>>, EventIndex(r[3], SignerAmong(a.calls, r[3])))

CallingAgain == INSTANCE Recursion WITH Step <- CallAgainStep, Pick <- One
HookingAgain == INSTANCE Recursion WITH Step <- EventAgainStep, Pick <- One

CalledAgain(t, n, calls) ==
  FoldSet(LAMBDA r, u : IndexExtrinsic(u, n, r[2], r[3].call, r[3].success), t, calls)

HookedAgain(t, n, calls, events) ==
  FoldSet(LAMBDA r, u : AddIndex(u, n, <<"event", r[2]>>, EventIndex(r[3], SignerAmong(calls, r[3]))),
          t, events)

LEMMA ReindexedIs ==
  ASSUME NEW t, NEW n
  PROVE  LET calls == {r \in t.extrinsics : r[1] = n}
             events == {r \in t.events : r[1] = n}
         IN Reindexed(t, n) = HookedAgain(CalledAgain(t, n, calls), n, calls, events)
BY DEF Reindexed, HookedAgain, CalledAgain, SignerAmong

LEMMA OneIsMember ==
  ASSUME NEW S, IsFiniteSet(S)
  PROVE  Indexing!Sized(S) /\ \A s \in SUBSET S : s # {} => One(s) \in s
BY Indexing!FiniteSetsAreSized DEF One, IsFiniteSet, Indexing!IsFiniteSet

LEMMA CallsAgainIterate ==
  ASSUME NEW t, NEW n, NEW calls, IsFiniteSet(calls)
  PROVE  \E iter : /\ CallingAgain!Iterates(iter, [n |-> n], t, calls)
                   /\ CalledAgain(t, n, calls) = iter[calls]
<1> DEFINE Folds(g) ==
             g = [s \in SUBSET calls |->
                    IF s = {} THEN t
                    ELSE LET r == CHOOSE x \in s : TRUE
                         IN IndexExtrinsic(g[s \ {r}], n, r[2], r[3].call, r[3].success)]
<1>0. CallingAgain!Sized(calls) /\ \A s \in SUBSET calls : s # {} => One(s) \in s
  BY OneIsMember DEF CallingAgain!Sized, Indexing!Sized
<1>1. PICK iter : CallingAgain!Iterates(iter, [n |-> n], t, calls)
  BY <1>0, CallingAgain!IterationExists
<1>2. \A g : Folds(g) <=> CallingAgain!Iterates(g, [n |-> n], t, calls)
  BY DEF CallingAgain!Iterates, CallAgainStep, One
<1>3. CalledAgain(t, n, calls) = (CHOOSE g : Folds(g))[calls]
  BY DEF CalledAgain, FoldSet, MapThenFoldSet
<1>4. Folds(CHOOSE g : Folds(g))
  <2> HIDE DEF Folds
  <2>1. QED  BY <1>1, <1>2, Zenon
<1> HIDE DEF Folds
<1>5. QED  BY <1>2, <1>3, <1>4

LEMMA EventsAgainIterate ==
  ASSUME NEW t, NEW n, NEW calls, NEW events, IsFiniteSet(events)
  PROVE  \E iter : /\ HookingAgain!Iterates(iter, [n |-> n, calls |-> calls], t, events)
                   /\ HookedAgain(t, n, calls, events) = iter[events]
<1> DEFINE a == [n |-> n, calls |-> calls]
           Folds(g) ==
             g = [s \in SUBSET events |->
                    IF s = {} THEN t
                    ELSE LET r == CHOOSE x \in s : TRUE
                         IN AddIndex(g[s \ {r}], n, <<"event", r[2]>>,
                                     EventIndex(r[3], SignerAmong(calls, r[3])))]
<1>0. HookingAgain!Sized(events) /\ \A s \in SUBSET events : s # {} => One(s) \in s
  BY OneIsMember DEF HookingAgain!Sized, Indexing!Sized
<1>1. PICK iter : HookingAgain!Iterates(iter, a, t, events)
  <2> HIDE DEF a
  <2>1. QED  BY <1>0, HookingAgain!IterationExists
<1>2. \A g : Folds(g) <=> HookingAgain!Iterates(g, a, t, events)
  BY DEF HookingAgain!Iterates, EventAgainStep, One
<1>3. HookedAgain(t, n, calls, events) = (CHOOSE g : Folds(g))[events]
  BY DEF HookedAgain, FoldSet, MapThenFoldSet
<1>4. Folds(CHOOSE g : Folds(g))
  <2> HIDE DEF Folds
  <2>1. QED  BY <1>1, <1>2, Zenon
<1> HIDE DEF Folds
<1>5. QED  BY <1>2, <1>3, <1>4

LEMMA SignerIsStored ==
  ASSUME NEW n, NEW c, SignersKnown(c), NEW i \in DOMAIN c.events
  PROVE  SignerAmong(CallRows(n, c), c.events[i]) = SignerOf(c, c.events[i])
<1> DEFINE e == c.events[i]
           x == e.extrinsic
<1>1. CASE e.phase = 0
  <2>1. x \in DOMAIN c.extrinsics
    BY <1>1 DEF SignersKnown
  <2>2. CallRow(n, c, x) \in CallRows(n, c) /\ CallRow(n, c, x)[2] = x
    BY <2>1 DEF CallRows, CallRow
  <2>3. \A r \in CallRows(n, c) : r[2] = x => r = CallRow(n, c, x)
    BY DEF CallRows, CallRow
  <2>4. (CHOOSE r \in CallRows(n, c) : r[2] = x) = CallRow(n, c, x)
    BY <2>2, <2>3
  <2>5. CallRow(n, c, x)[3].call.address = c.extrinsics[x].address
    BY DEF CallRow
  <2>6. QED  BY <1>1, <2>2, <2>4, <2>5 DEF SignerAmong, SignerOf
<1>2. CASE e.phase # 0
  <2>1. x \notin DOMAIN c.extrinsics
    BY <1>2 DEF SignersKnown
  <2>2. \A r \in CallRows(n, c) : r[2] # x
    BY <2>1 DEF CallRows, CallRow
  <2>3. QED  BY <1>2, <2>2 DEF SignerAmong, SignerOf
<1>3. QED  BY <1>1, <1>2

\* A row each makes as many rows.
LEMMA RowsEach ==
  ASSUME NEW S, IsFiniteSet(S), NEW Rows, NEW row \in [S -> Rows],
         \A i, j \in S : row[i] = row[j] => i = j
  PROVE  /\ IsFiniteSet({row[i] : i \in S})
         /\ Cardinality({row[i] : i \in S}) = Cardinality(S)
<1> DEFINE T == {row[i] : i \in S}
<1>1. row \in Bijection(S, T)
  BY DEF Bijection, Injection, Surjection, IsInjective
<1>2. ExistsBijection(S, T)
  BY <1>1 DEF ExistsBijection
<1> HIDE DEF T
<1>3. IsFiniteSet(T) /\ Cardinality(T) = Cardinality(S)
  BY <1>2, FS_Bijection
<1>4. QED  BY <1>3 DEF T

LEMMA BlockRowsCounted ==
  ASSUME NEW n, NEW c, IsList(c.events), IsList(c.extrinsics)
  PROVE  /\ IsFiniteSet(EventRows(n, c)) /\ Cardinality(EventRows(n, c)) = Len(c.events)
         /\ IsFiniteSet(CallRows(n, c)) /\ Cardinality(CallRows(n, c)) = Len(c.extrinsics)
<1>1. ASSUME NEW s, IsList(s)
      PROVE  IsFiniteSet(DOMAIN s) /\ Cardinality(DOMAIN s) = Len(s)
  <2>1. Len(s) \in Nat /\ DOMAIN s = 1 .. Len(s)
    BY <1>1, ListDomain
  <2>2. \A m \in Nat : IsFiniteSet(1 .. m) /\ Cardinality(1 .. m) = m
    BY FS_Interval
  <2>3. QED  BY <2>1, <2>2
<1>2. /\ IsFiniteSet(EventRows(n, c))
      /\ Cardinality(EventRows(n, c)) = Cardinality(DOMAIN c.events)
  <2> DEFINE S == DOMAIN c.events
             row == [i \in S |-> <<n, i, c.events[i]>>]
             Rows == {row[i] : i \in S}
  <2>1. row \in [S -> Rows] /\ \A i, j \in S : row[i] = row[j] => i = j
    OBVIOUS
  <2>2. Rows = EventRows(n, c)
    BY DEF EventRows
  <2>3. IsFiniteSet(S)
    BY <1>1
  <2> HIDE DEF S, row
  <2>4. IsFiniteSet({row[i] : i \in S}) /\ Cardinality({row[i] : i \in S}) = Cardinality(S)
    BY <2>1, <2>3, RowsEach
  <2>5. QED  BY <2>2, <2>4 DEF S
<1>3. /\ IsFiniteSet(CallRows(n, c))
      /\ Cardinality(CallRows(n, c)) = Cardinality(DOMAIN c.extrinsics)
  <2> DEFINE S == DOMAIN c.extrinsics
             row == [i \in S |-> CallRow(n, c, i)]
             Rows == {row[i] : i \in S}
  <2>1. row \in [S -> Rows] /\ \A i, j \in S : row[i] = row[j] => i = j
    BY DEF CallRow
  <2>2. Rows = CallRows(n, c)
    BY DEF CallRows
  <2>3. IsFiniteSet(S)
    BY <1>1
  <2> HIDE DEF S, row
  <2>4. IsFiniteSet({row[i] : i \in S}) /\ Cardinality({row[i] : i \in S}) = Cardinality(S)
    BY <2>1, <2>3, RowsEach
  <2>5. QED  BY <2>2, <2>4 DEF S
<1>4. QED  BY <1>1, <1>2, <1>3

Places(rows) == {r[2] : r \in rows}

LEMMA CallsIndexedAgain ==
  ASSUME NEW t, HasTables(t), NEW n, NEW c, IsBlock(c)
  PROVE  LET u == CalledAgain(t, n, CallRows(n, c))
         IN /\ SameButIndex(u, t)
            /\ IndexedOver(u.index, t.index, n, c, CallSlots(DOMAIN c.extrinsics))
<1> DEFINE S == CallRows(n, c)
           a == [n |-> n]
<1>1. IsFiniteSet(S)
  BY BlockRowsCounted DEF IsBlock
<1>2. PICK iter : CallingAgain!Iterates(iter, a, t, S) /\ CalledAgain(t, n, S) = iter[S]
  BY <1>1, CallsAgainIterate
<1>3. CallingAgain!Sized(S) /\ \A s \in SUBSET S : s # {} => One(s) \in s
  BY <1>1, OneIsMember DEF CallingAgain!Sized, Indexing!Sized
<1> DEFINE G == {s \in SUBSET S :
                   /\ SameButIndex(iter[s], t)
                   /\ IndexedOver(iter[s].index, t.index, n, c, CallSlots(Places(s)))}
<1>4. {} \in G
  <2>1. iter[{}] = t
    BY <1>2 DEF CallingAgain!Iterates
  <2>2. CallSlots(Places({})) = {}
    BY DEF CallSlots, Places
  <2>3. IndexedOver(t.index, t.index, n, c, {})
    BY IndexedNone
  <2>4. QED  BY <2>1, <2>2, <2>3 DEF SameButIndex
<1>5. ASSUME NEW s \in SUBSET S, s # {}, s \ {One(s)} \in G PROVE s \in G
  <2> DEFINE r == One(s)
             rest == s \ {r}
             u == iter[rest]
             i == r[2]
  <2>1. iter[s] = IndexExtrinsic(u, n, i, r[3].call, r[3].success)
    BY <1>2, <1>5 DEF CallingAgain!Iterates, CallAgainStep
  <2>2. SameButIndex(u, t) /\ IndexedOver(u.index, t.index, n, c, CallSlots(Places(rest)))
    BY <1>5
  <2>3. r \in s
    BY <1>3, <1>5
  <2>4. PICK j \in DOMAIN c.extrinsics : r = CallRow(n, c, j)
    BY <2>3 DEF CallRows
  <2>5. i = j /\ r[3].call = c.extrinsics[i] /\ r[3].success = Succeeded(c, i)
    BY <2>4 DEF CallRow
  <2>6. i \notin Places(rest)
    <3>1. ASSUME NEW q \in rest, q[2] = i PROVE FALSE
      <4>1. PICK k \in DOMAIN c.extrinsics : q = CallRow(n, c, k)
        BY <3>1 DEF CallRows
      <4>2. q[2] = k
        BY <4>1 DEF CallRow
      <4>3. QED  BY <2>4, <2>5, <3>1, <4>1, <4>2
    <3>2. QED  BY <3>1 DEF Places
  <2>7. Places(s) = Places(rest) \cup {i}
    BY <2>3 DEF Places
  <2> HIDE DEF r, rest, u, i
  <2>8. HasTables(u)
    BY <2>2 DEF SameButIndex
  <2>9. /\ SameButIndex(iter[s], u)
        /\ iter[s].index =
             IndexRows(IndexRows(u.index, n, <<"signed", i>>, AccountsAt(c, <<"signed", i>>)),
                       n, <<"extrinsic", i>>, AccountsAt(c, <<"extrinsic", i>>))
    BY <2>1, <2>5, <2>8, IndexExtrinsicAdds
  <2>10. SameButIndex(iter[s], t)
    BY <2>2, <2>9 DEF SameButIndex
  <2>11. IndexedOver(
           IndexRows(IndexRows(u.index, n, <<"signed", i>>, AccountsAt(c, <<"signed", i>>)),
                     n, <<"extrinsic", i>>, AccountsAt(c, <<"extrinsic", i>>)),
           t.index, n, c, CallSlots(Places(rest) \cup {i}))
    BY <2>2, <2>5, <2>6, IndexedCall
  <2>12. IndexedOver(iter[s].index, t.index, n, c, CallSlots(Places(s)))
    BY <2>7, <2>9, <2>11
  <2>13. QED  BY <2>10, <2>12
<1>6. S \in G
  <2> HIDE DEF G, a, S
  <2>1. \A s \in SUBSET S : s # {} /\ s \ {One(s)} \in G => s \in G
    BY <1>5
  <2>2. \A s \in SUBSET S : s \in G
    BY <1>3, <1>4, <2>1, CallingAgain!IterationKeeps
  <2>3. QED  BY <2>2
<1>7. Places(S) = DOMAIN c.extrinsics
  <2>1. \A i : CallRow(n, c, i)[2] = i
    BY DEF CallRow
  <2>2. QED  BY <2>1 DEF Places, CallRows
<1>8. QED  BY <1>2, <1>6, <1>7

LEMMA EventsIndexedAgain ==
  ASSUME NEW t, HasTables(t), NEW n, NEW c, IsBlock(c), NEW old,
         IndexedOver(t.index, old, n, c, CallSlots(DOMAIN c.extrinsics))
  PROVE  LET u == HookedAgain(t, n, CallRows(n, c), EventRows(n, c))
         IN SameButIndex(u, t) /\ IndexedOver(u.index, old, n, c, Slots(c))
<1> DEFINE S == EventRows(n, c)
           calls == CallSlots(DOMAIN c.extrinsics)
           a == [n |-> n, calls |-> CallRows(n, c)]
<1>1. IsFiniteSet(S)
  BY BlockRowsCounted DEF IsBlock
<1>2. PICK iter : /\ HookingAgain!Iterates(iter, a, t, S)
                  /\ HookedAgain(t, n, CallRows(n, c), S) = iter[S]
  BY <1>1, EventsAgainIterate
<1>3. HookingAgain!Sized(S) /\ \A s \in SUBSET S : s # {} => One(s) \in s
  BY <1>1, OneIsMember DEF HookingAgain!Sized, Indexing!Sized
<1> DEFINE G == {s \in SUBSET S :
                   /\ SameButIndex(iter[s], t)
                   /\ IndexedOver(iter[s].index, old, n, c, calls \cup EventSlots(Places(s)))}
<1>4. {} \in G
  <2>1. iter[{}] = t
    BY <1>2 DEF HookingAgain!Iterates
  <2>2. calls \cup EventSlots(Places({})) = calls
    BY DEF EventSlots, Places
  <2>3. QED  BY <2>1, <2>2 DEF SameButIndex
<1>5. ASSUME NEW s \in SUBSET S, s # {}, s \ {One(s)} \in G PROVE s \in G
  <2> DEFINE r == One(s)
             rest == s \ {r}
             u == iter[rest]
             i == r[2]
             from == <<"event", i>>
             slots == calls \cup EventSlots(Places(rest))
  <2>1. iter[s] = AddIndex(u, n, from, EventIndex(r[3], SignerAmong(CallRows(n, c), r[3])))
    BY <1>2, <1>5 DEF HookingAgain!Iterates, EventAgainStep
  <2>2. SameButIndex(u, t) /\ IndexedOver(u.index, old, n, c, slots)
    BY <1>5
  <2>3. r \in s
    BY <1>3, <1>5
  <2>4. PICK j \in DOMAIN c.events : r = <<n, j, c.events[j]>>
    BY <2>3 DEF EventRows
  <2>5. i = j /\ r[3] = c.events[i] /\ i \in DOMAIN c.events
    BY <2>4
  <2>6. i \notin Places(rest)
    <3>1. ASSUME NEW q \in rest, q[2] = i PROVE FALSE
      <4>1. PICK k \in DOMAIN c.events : q = <<n, k, c.events[k]>>
        BY <3>1 DEF EventRows
      <4>2. QED  BY <2>4, <2>5, <3>1, <4>1
    <3>2. QED  BY <3>1 DEF Places
  <2>7. Places(s) = Places(rest) \cup {i}
    BY <2>3 DEF Places
  <2> HIDE DEF r, rest, u, i
  <2>8. EventIndex(r[3], SignerAmong(CallRows(n, c), r[3])) = AccountsAt(c, from)
    BY <2>5, SignerIsStored DEF AccountsAt, IsBlock
  <2>9. from \in Slots(c) /\ from \notin slots /\ slots \cup {from} = calls \cup EventSlots(Places(s))
    BY <2>5, <2>6, <2>7 DEF Slots, EventSlots, CallSlots
  <2>10. IsList(AccountsAt(c, from))
    BY <2>9, AccountsAreLists
  <2> HIDE DEF from, slots
  <2>11. HasTables(u)
    BY <2>2 DEF SameButIndex
  <2>12. /\ SameButIndex(iter[s], u)
         /\ iter[s].index = IndexRows(u.index, n, from, AccountsAt(c, from))
    BY <2>1, <2>8, <2>11, AddIndexOnly
  <2>13. SameButIndex(iter[s], t)
    BY <2>2, <2>12 DEF SameButIndex
  <2>14. IndexedOver(iter[s].index, old, n, c, slots \cup {from})
    BY <2>2, <2>9, <2>10, <2>12, IndexedMore
  <2>15. QED  BY <2>9, <2>13, <2>14
<1>6. S \in G
  <2> HIDE DEF G, a, S
  <2>1. \A s \in SUBSET S : s # {} /\ s \ {One(s)} \in G => s \in G
    BY <1>5
  <2>2. \A s \in SUBSET S : s \in G
    BY <1>3, <1>4, <2>1, HookingAgain!IterationKeeps
  <2>3. QED  BY <2>2
<1>7. Places(S) = DOMAIN c.events
  <2>1. \A i : <<n, i, c.events[i]>>[2] = i
    OBVIOUS
  <2>2. \A i \in DOMAIN c.events : i \in Places(S)
    BY <2>1 DEF Places, EventRows
  <2>3. \A i \in Places(S) : i \in DOMAIN c.events
    BY DEF Places, EventRows
  <2>4. QED  BY <2>2, <2>3
<1>8. QED  BY <1>2, <1>6, <1>7, SlotsAre

\* The rebuild of the index gives a block the rows that add_block gave it.
LEMMA RebuildsIndex ==
  ASSUME NEW t, HasTables(t), NEW n, NEW c, IsBlock(c),
         {r \in t.extrinsics : r[1] = n} = CallRows(n, c),
         {r \in t.events : r[1] = n} = EventRows(n, c)
  PROVE  /\ SameButIndex(Reindexed(t, n), t)
         /\ IndexedOver(Reindexed(t, n).index, t.index, n, c, Slots(c))
<1> DEFINE u == CalledAgain(t, n, CallRows(n, c))
           v == HookedAgain(u, n, CallRows(n, c), EventRows(n, c))
<1>1. Reindexed(t, n) = v
  BY ReindexedIs
<1>2. SameButIndex(u, t) /\ IndexedOver(u.index, t.index, n, c, CallSlots(DOMAIN c.extrinsics))
  BY CallsIndexedAgain
<1> HIDE DEF u
<1>3. SameButIndex(v, u) /\ IndexedOver(v.index, t.index, n, c, Slots(c))
  BY <1>2, EventsIndexedAgain DEF SameButIndex
<1>4. SameButIndex(v, t)
  BY <1>2, <1>3 DEF SameButIndex
<1>5. QED  BY <1>1, <1>3, <1>4

------------------------------------------------------------------------------
(* The tables that the events of many blocks share: purchases, eras, the list *)
(* of estimates and the checks of validators, against the events heard so far.*)
(* An event that was heard is the block and what the event says.              *)

Heard(n, e) == [block |-> n, e |-> e]

IsOf(f, kind) == f.e.kind = kind

PurchaseFields == {"created", "prepayment", "status", "payment", "ended"}

PurchasesTold(rows, F) ==
  /\ \A id \in DOMAIN rows : DOMAIN rows[id] = PurchaseFields
  /\ \A f \in F : IsOf(f, "NewPurchasedRequest") =>
       f.e.id \in DOMAIN rows /\ rows[f.e.id].created = f.block
  /\ \A f \in F : IsOf(f, "PayForPurchase") =>
       f.e.id \in DOMAIN rows /\ rows[f.e.id].status = 1 /\ rows[f.e.id].payment = f.e.fee
  /\ \A f \in F : IsOf(f, "PurchasedAvgPrice") =>
       f.e.id \in DOMAIN rows /\ rows[f.e.id].ended = f.block

EraFields == {"total_eras", "requests", "points", "fee", "ended"}

RequestsOf(F, era) == {f \in F : IsOf(f, "NewPurchasedRequest") /\ f.e.era = era}

ErasTold(rows, F) ==
  /\ \A era \in DOMAIN rows : DOMAIN rows[era] = EraFields
  /\ \A f \in F : IsOf(f, "NewPurchasedRequest") => f.e.era \in DOMAIN rows
  /\ \A f \in F : IsOf(f, "EndOfAskEra") /\ f.e.points > 0 =>
       f.e.era \in DOMAIN rows /\ rows[f.e.era].ended = f.block
  /\ \A era \in DOMAIN rows : rows[era].requests = Cardinality(RequestsOf(F, era))

\* What has not been heard before: each of these events tells of its purchase or era
\* once.
Once(F, f) ==
  /\ \A g \in F : \A kind \in {"NewPurchasedRequest", "PayForPurchase", "PurchasedAvgPrice"} :
       IsOf(f, kind) /\ IsOf(g, kind) => g.e.id # f.e.id
  /\ \A g \in F : IsOf(f, "EndOfAskEra") /\ IsOf(g, "EndOfAskEra") => g.e.era # f.e.era


\* What the hooks do to the shared tables.
PurchasesBy(rows, t, n, e) ==
  /\ e.kind = "NewPurchasedRequest" =>
       rows = Put(t.purchases, e.id, PurchaseOfRequest(t, n, e))
  /\ e.kind = "PayForPurchase" =>
       rows = Put(t.purchases, e.id, [RowOr(t.purchases, e.id, NewPurchase)
                                        EXCEPT !.payment = e.fee, !.status = 1])
  /\ e.kind = "PurchasedAvgPrice" =>
       rows = Put(t.purchases, e.id, [RowOr(t.purchases, e.id, NewPurchase) EXCEPT !.ended = n])
  /\ e.kind \notin {"NewPurchasedRequest", "PayForPurchase", "PurchasedAvgPrice"} =>
       rows = t.purchases

ErasBy(rows, t, n, e) ==
  /\ e.kind = "NewPurchasedRequest" => rows = Put(t.eras, e.era, EraOfRequest(t, e))
  /\ e.kind = "EndOfAskEra" => rows = EndOfAskEra(t, n, e).eras
  /\ e.kind \notin {"NewPurchasedRequest", "EndOfAskEra"} => rows = t.eras

EstimatesBy(rows, t, n, e) ==
  /\ e.kind = "NewEstimates" => rows = Append(t.estimates, EstimateRow(n, e))
  /\ e.kind \in {"ActiveEstimates", "CompletedEstimates"} => rows = WithState(t, n, e)
  /\ e.kind \notin EstimateKinds => rows = t.estimates

ChecksBy(rows, t, n, e) ==
  /\ e.kind = "NewSession" =>
       rows = [k \in DOMAIN t.checks \cup DOMAIN e.checks |->
                 IF k \in DOMAIN e.checks THEN e.checks[k] ELSE t.checks[k]]
  /\ e.kind # "NewSession" => rows = t.checks

LEMMA HookToPurchases ==
  ASSUME NEW t, HasTables(t), NEW n, NEW i, NEW e
  PROVE  PurchasesBy(AccumulationHook(t, n, i, e).purchases, t, n, e)
<1>1. CASE e.kind = "NewPurchasedRequest"
  <2>1. AccumulationHook(t, n, i, e) = NewPurchasedRequest(t, n, e)
    BY <1>1 DEF AccumulationHook
  <2>2. PurchasesBy(NewPurchasedRequest(t, n, e).purchases, t, n, e)
    BY <1>1 DEF PurchasesBy, NewPurchasedRequest, HasTables, TableNames
  <2>3. QED  BY <2>1, <2>2
<1>2. CASE e.kind = "PayForPurchase"
  <2>1. AccumulationHook(t, n, i, e) = PayForPurchase(t, n, e)
    BY <1>2 DEF AccumulationHook
  <2>2. PurchasesBy(PayForPurchase(t, n, e).purchases, t, n, e)
    BY <1>2 DEF PurchasesBy, PayForPurchase, HasTables, TableNames
  <2>3. QED  BY <2>1, <2>2
<1>3. CASE e.kind = "PurchasedAvgPrice"
  <2>1. AccumulationHook(t, n, i, e) = PurchasedAvgPrice(t, n, e)
    BY <1>3 DEF AccumulationHook
  <2>2. PurchasesBy(PurchasedAvgPrice(t, n, e).purchases, t, n, e)
    BY <1>3 DEF PurchasesBy, PurchasedAvgPrice, HasTables, TableNames
  <2>3. QED  BY <2>1, <2>2
<1>4. CASE e.kind \notin {"NewPurchasedRequest", "PayForPurchase", "PurchasedAvgPrice"}
  <2>1. AccumulationHook(t, n, i, e).purchases = t.purchases
    BY <1>4 DEF AccumulationHook, HasTables, TableNames, NewAccount, KilledAccount,
             ReapedAccount, IndexAssigned, NewAccountIndex, IndexFreed, IdentitySet,
             IdentityCleared, IdentityKilled, JudgementGiven, CodeStored, AggregatedPrice,
             ParticipateEstimates, IdentityAudit,
             EndOfAskEra, NewEstimates, ActiveEstimates, CompletedEstimates, ValidatorChecks
  <2>2. PurchasesBy(t.purchases, t, n, e)
    BY <1>4 DEF PurchasesBy
  <2>3. QED  BY <2>1, <2>2
<1>5. QED  BY <1>1, <1>2, <1>3, <1>4

LEMMA HookToEras ==
  ASSUME NEW t, HasTables(t), NEW n, NEW i, NEW e
  PROVE  ErasBy(AccumulationHook(t, n, i, e).eras, t, n, e)
<1>1. CASE e.kind = "NewPurchasedRequest"
  <2>1. AccumulationHook(t, n, i, e) = NewPurchasedRequest(t, n, e)
    BY <1>1 DEF AccumulationHook
  <2>2. ErasBy(NewPurchasedRequest(t, n, e).eras, t, n, e)
    BY <1>1 DEF ErasBy, NewPurchasedRequest, HasTables, TableNames
  <2>3. QED  BY <2>1, <2>2
<1>2. CASE e.kind = "EndOfAskEra"
  <2>1. AccumulationHook(t, n, i, e) = EndOfAskEra(t, n, e)
    BY <1>2 DEF AccumulationHook
  <2>2. ErasBy(EndOfAskEra(t, n, e).eras, t, n, e)
    BY <1>2 DEF ErasBy
  <2>3. QED  BY <2>1, <2>2
<1>3. CASE e.kind \notin {"NewPurchasedRequest", "EndOfAskEra"}
  <2>1. AccumulationHook(t, n, i, e).eras = t.eras
    BY <1>3 DEF AccumulationHook, HasTables, TableNames, NewAccount, KilledAccount,
             ReapedAccount, IndexAssigned, NewAccountIndex, IndexFreed, IdentitySet,
             IdentityCleared, IdentityKilled, JudgementGiven, CodeStored, AggregatedPrice,
             ParticipateEstimates, IdentityAudit,
             PayForPurchase, PurchasedAvgPrice, NewEstimates, ActiveEstimates, CompletedEstimates, ValidatorChecks
  <2>2. ErasBy(t.eras, t, n, e)
    BY <1>3 DEF ErasBy
  <2>3. QED  BY <2>1, <2>2
<1>4. QED  BY <1>1, <1>2, <1>3

LEMMA HookToEstimates ==
  ASSUME NEW t, HasTables(t), NEW n, NEW i, NEW e
  PROVE  EstimatesBy(AccumulationHook(t, n, i, e).estimates, t, n, e)
<1>1. CASE e.kind = "NewEstimates"
  <2>1. AccumulationHook(t, n, i, e) = NewEstimates(t, n, e)
    BY <1>1 DEF AccumulationHook
  <2>2. EstimatesBy(NewEstimates(t, n, e).estimates, t, n, e)
    BY <1>1 DEF EstimatesBy, NewEstimates, HasTables, TableNames, EstimateKinds
  <2>3. QED  BY <2>1, <2>2
<1>2. CASE e.kind = "ActiveEstimates"
  <2>1. AccumulationHook(t, n, i, e) = ActiveEstimates(t, n, e)
    BY <1>2 DEF AccumulationHook
  <2>2. EstimatesBy(ActiveEstimates(t, n, e).estimates, t, n, e)
    BY <1>2 DEF EstimatesBy, ActiveEstimates, HasTables, TableNames, EstimateKinds
  <2>3. QED  BY <2>1, <2>2
<1>3. CASE e.kind = "CompletedEstimates"
  <2>1. AccumulationHook(t, n, i, e) = CompletedEstimates(t, n, e)
    BY <1>3 DEF AccumulationHook
  <2>2. EstimatesBy(CompletedEstimates(t, n, e).estimates, t, n, e)
    BY <1>3 DEF EstimatesBy, CompletedEstimates, HasTables, TableNames, EstimateKinds
  <2>3. QED  BY <2>1, <2>2
<1>4. CASE e.kind \notin {"NewEstimates", "ActiveEstimates", "CompletedEstimates"}
  <2>1. AccumulationHook(t, n, i, e).estimates = t.estimates
    BY <1>4 DEF AccumulationHook, HasTables, TableNames, NewAccount, KilledAccount,
             ReapedAccount, IndexAssigned, NewAccountIndex, IndexFreed, IdentitySet,
             IdentityCleared, IdentityKilled, JudgementGiven, CodeStored, AggregatedPrice,
             ParticipateEstimates, IdentityAudit,
             NewPurchasedRequest, EndOfAskEra, PayForPurchase, PurchasedAvgPrice, ValidatorChecks
  <2>2. EstimatesBy(t.estimates, t, n, e)
    BY <1>4 DEF EstimatesBy, EstimateKinds
  <2>3. QED  BY <2>1, <2>2
<1>5. QED  BY <1>1, <1>2, <1>3, <1>4

LEMMA HookToChecks ==
  ASSUME NEW t, HasTables(t), NEW n, NEW i, NEW e
  PROVE  ChecksBy(AccumulationHook(t, n, i, e).checks, t, n, e)
<1>1. CASE e.kind = "NewSession"
  <2>1. AccumulationHook(t, n, i, e) = ValidatorChecks(t, e)
    BY <1>1 DEF AccumulationHook
  <2>2. ChecksBy(ValidatorChecks(t, e).checks, t, n, e)
    BY <1>1 DEF ChecksBy, ValidatorChecks, HasTables, TableNames
  <2>3. QED  BY <2>1, <2>2
<1>2. CASE e.kind \notin {"NewSession"}
  <2>1. AccumulationHook(t, n, i, e).checks = t.checks
    BY <1>2 DEF AccumulationHook, HasTables, TableNames, NewAccount, KilledAccount,
             ReapedAccount, IndexAssigned, NewAccountIndex, IndexFreed, IdentitySet,
             IdentityCleared, IdentityKilled, JudgementGiven, CodeStored, AggregatedPrice,
             ParticipateEstimates, IdentityAudit,
             NewPurchasedRequest, EndOfAskEra, PayForPurchase, PurchasedAvgPrice, NewEstimates, ActiveEstimates, CompletedEstimates
  <2>2. ChecksBy(t.checks, t, n, e)
    BY <1>2 DEF ChecksBy
  <2>3. QED  BY <2>1, <2>2
<1>3. QED  BY <1>1, <1>2

LEMMA PurchasesTellMore ==
  ASSUME NEW t, NEW F, PurchasesTold(t.purchases, F), NEW n, NEW e, Once(F, Heard(n, e)),
         NEW rows, PurchasesBy(rows, t, n, e)
  PROVE  PurchasesTold(rows, F \cup {Heard(n, e)})
<1> DEFINE f == Heard(n, e)
<1>1. f.block = n /\ f.e = e
  BY DEF Heard
<1> HIDE DEF f
<1>2. /\ \A g \in F : IsOf(g, "NewPurchasedRequest") /\ e.kind = "NewPurchasedRequest" =>
           g.e.id # e.id
      /\ \A g \in F : IsOf(g, "PayForPurchase") /\ e.kind = "PayForPurchase" => g.e.id # e.id
      /\ \A g \in F : IsOf(g, "PurchasedAvgPrice") /\ e.kind = "PurchasedAvgPrice" =>
           g.e.id # e.id
  BY <1>1 DEF Once, IsOf, f
<1>3. CASE e.kind = "NewPurchasedRequest"
  <2> DEFINE row == PurchaseOfRequest(t, n, e)
  <2>1. /\ DOMAIN row = PurchaseFields /\ row.created = n
        /\ e.id \in DOMAIN t.purchases =>
             /\ row.status = t.purchases[e.id].status /\ row.payment = t.purchases[e.id].payment
             /\ row.ended = t.purchases[e.id].ended
    BY DEF PurchaseOfRequest, NewPurchase, PurchasesTold, PurchaseFields
  <2> HIDE DEF row
  <2>2. rows = Put(t.purchases, e.id, row)
    BY <1>3 DEF PurchasesBy, row
  <2>3. /\ DOMAIN rows = DOMAIN t.purchases \cup {e.id}
        /\ \A id \in DOMAIN rows : rows[id] = IF id = e.id THEN row ELSE t.purchases[id]
    BY <2>2 DEF Put
  <2>4. PurchasesTold(rows, F \cup {f})
    BY <1>1, <1>2, <1>3, <2>1, <2>3 DEF PurchasesTold, IsOf
  <2>5. QED  BY <2>4 DEF f
<1>4. CASE e.kind = "PayForPurchase"
  <2> DEFINE row == [RowOr(t.purchases, e.id, NewPurchase) EXCEPT !.payment = e.fee, !.status = 1]
  <2>1. /\ DOMAIN row = PurchaseFields /\ row.status = 1 /\ row.payment = e.fee
        /\ e.id \in DOMAIN t.purchases =>
             row.created = t.purchases[e.id].created /\ row.ended = t.purchases[e.id].ended
    BY DEF RowOr, NewPurchase, PurchasesTold, PurchaseFields
  <2> HIDE DEF row
  <2>2. rows = Put(t.purchases, e.id, row)
    BY <1>4 DEF PurchasesBy, row
  <2>3. /\ DOMAIN rows = DOMAIN t.purchases \cup {e.id}
        /\ \A id \in DOMAIN rows : rows[id] = IF id = e.id THEN row ELSE t.purchases[id]
    BY <2>2 DEF Put
  <2>4. PurchasesTold(rows, F \cup {f})
    BY <1>1, <1>2, <1>4, <2>1, <2>3 DEF PurchasesTold, IsOf
  <2>5. QED  BY <2>4 DEF f
<1>5. CASE e.kind = "PurchasedAvgPrice"
  <2> DEFINE row == [RowOr(t.purchases, e.id, NewPurchase) EXCEPT !.ended = n]
  <2>1. /\ DOMAIN row = PurchaseFields /\ row.ended = n
        /\ e.id \in DOMAIN t.purchases =>
             /\ row.created = t.purchases[e.id].created
             /\ row.status = t.purchases[e.id].status /\ row.payment = t.purchases[e.id].payment
    BY DEF RowOr, NewPurchase, PurchasesTold, PurchaseFields
  <2> HIDE DEF row
  <2>2. rows = Put(t.purchases, e.id, row)
    BY <1>5 DEF PurchasesBy, row
  <2>3. /\ DOMAIN rows = DOMAIN t.purchases \cup {e.id}
        /\ \A id \in DOMAIN rows : rows[id] = IF id = e.id THEN row ELSE t.purchases[id]
    BY <2>2 DEF Put
  <2>4. PurchasesTold(rows, F \cup {f})
    BY <1>1, <1>2, <1>5, <2>1, <2>3 DEF PurchasesTold, IsOf
  <2>5. QED  BY <2>4 DEF f
<1>6. CASE e.kind \notin {"NewPurchasedRequest", "PayForPurchase", "PurchasedAvgPrice"}
  <2>1. rows = t.purchases
    BY <1>6 DEF PurchasesBy
  <2>2. PurchasesTold(rows, F \cup {f})
    BY <1>1, <1>6, <2>1 DEF PurchasesTold, IsOf
  <2>3. QED  BY <2>2 DEF f
<1>7. QED  BY <1>3, <1>4, <1>5, <1>6

LEMMA ErasTellMore ==
  ASSUME NEW t, HasTables(t), NEW F, IsFiniteSet(F), ErasTold(t.eras, F),
         NEW n, NEW e, Once(F, Heard(n, e)), NEW rows, ErasBy(rows, t, n, e)
  PROVE  ErasTold(rows, F \cup {Heard(n, e)})
<1> DEFINE f == Heard(n, e)
<1>1. f.block = n /\ f.e = e
  BY DEF Heard
<1> HIDE DEF f
<1>2. /\ \A g \in F : IsOf(g, "NewPurchasedRequest") /\ e.kind = "NewPurchasedRequest" =>
           g.e.id # e.id
      /\ \A g \in F : IsOf(g, "EndOfAskEra") /\ e.kind = "EndOfAskEra" => g.e.era # e.era
  BY <1>1 DEF Once, IsOf, f
<1>3. CASE e.kind = "NewPurchasedRequest"
  <2> DEFINE row == EraOfRequest(t, e)
             old == RequestsOf(F, e.era)
  <2>1. f \notin F
    BY <1>1, <1>2, <1>3 DEF IsOf
  <2>2. /\ RequestsOf(F \cup {f}, e.era) = old \cup {f}
        /\ \A era : era # e.era => RequestsOf(F \cup {f}, era) = RequestsOf(F, era)
    BY <1>1, <1>3 DEF RequestsOf, IsOf
  <2>3. IsFiniteSet(old) /\ f \notin old
    <3>1. old \subseteq F
      BY DEF RequestsOf
    <3>2. QED  BY <2>1, <3>1, FS_Subset
  <2>4. Cardinality(old \cup {f}) = Cardinality(old) + 1 /\ Cardinality(old) \in Nat
    BY <2>3, FS_AddElement, FS_CardinalityType
  <2>5. e.era \notin DOMAIN t.eras => Cardinality(old) = 0
    <3>1. e.era \notin DOMAIN t.eras => old = {}
      BY DEF ErasTold, RequestsOf
    <3>2. QED  BY <3>1, FS_EmptySet
  <2>6. /\ DOMAIN row = EraFields
        /\ e.era \in DOMAIN t.eras =>
             row.ended = t.eras[e.era].ended /\ row.requests = t.eras[e.era].requests + 1
        /\ e.era \notin DOMAIN t.eras => row.requests = 1
    BY DEF EraOfRequest, RowOr, NewEra, ErasTold, EraFields
  <2>7. e.era \in DOMAIN t.eras => t.eras[e.era].requests = Cardinality(old)
    BY DEF ErasTold
  <2> HIDE DEF row, old
  <2>8. rows = Put(t.eras, e.era, row)
    BY <1>3 DEF ErasBy, row
  <2>9. /\ DOMAIN rows = DOMAIN t.eras \cup {e.era}
        /\ \A era \in DOMAIN rows : rows[era] = IF era = e.era THEN row ELSE t.eras[era]
    BY <2>8 DEF Put
  <2>10. row.requests = Cardinality(RequestsOf(F \cup {f}, e.era))
    <3>1. Cardinality(RequestsOf(F \cup {f}, e.era)) = Cardinality(old) + 1
      BY <2>2, <2>4
    <3>2. CASE e.era \in DOMAIN t.eras
      BY <2>6, <2>7, <3>1, <3>2
    <3>3. CASE e.era \notin DOMAIN t.eras
      BY <2>5, <2>6, <3>1, <3>3
    <3>4. QED  BY <3>2, <3>3
  <2>11. \A era \in DOMAIN rows : rows[era].requests = Cardinality(RequestsOf(F \cup {f}, era))
    BY <2>2, <2>9, <2>10 DEF ErasTold
  <2>12. \A era \in DOMAIN rows : DOMAIN rows[era] = EraFields
    BY <2>6, <2>9 DEF ErasTold
  <2>13. \A g \in F \cup {f} : IsOf(g, "NewPurchasedRequest") => g.e.era \in DOMAIN rows
    BY <1>1, <2>9 DEF ErasTold
  <2>14. \A g \in F \cup {f} : IsOf(g, "EndOfAskEra") /\ g.e.points > 0 =>
           g.e.era \in DOMAIN rows /\ rows[g.e.era].ended = g.block
    BY <1>1, <1>3, <2>6, <2>9 DEF ErasTold, IsOf
  <2>15. ErasTold(rows, F \cup {f})
    BY <2>11, <2>12, <2>13, <2>14 DEF ErasTold
  <2>16. QED  BY <2>15 DEF f
<1>4. CASE e.kind = "EndOfAskEra"
  <2> DEFINE new == [NewEra(t, e.era) EXCEPT !.total_eras = 0]
             row == [RowOr(t.eras, e.era, new) EXCEPT !.fee = e.fee, !.points = e.points, !.ended = n]
  <2>1. \A era : RequestsOf(F \cup {f}, era) = RequestsOf(F, era)
    BY <1>1, <1>4 DEF RequestsOf, IsOf
  <2>2. /\ DOMAIN row = EraFields /\ row.ended = n
        /\ e.era \in DOMAIN t.eras => row.requests = t.eras[e.era].requests
        /\ e.era \notin DOMAIN t.eras => row.requests = 0
    BY DEF RowOr, NewEra, ErasTold, EraFields
  <2>3. e.era \notin DOMAIN t.eras => Cardinality(RequestsOf(F, e.era)) = 0
    <3>1. e.era \notin DOMAIN t.eras => RequestsOf(F, e.era) = {}
      BY DEF ErasTold, RequestsOf
    <3>2. QED  BY <3>1, FS_EmptySet
  <2> HIDE DEF row
  <2>4. CASE e.era \in DOMAIN t.eras \/ e.points > 0
    <3>1. rows = Put(t.eras, e.era, row)
      <4>1. rows = EndOfAskEra(t, n, e).eras
        BY <1>4 DEF ErasBy
      <4>2. EndOfAskEra(t, n, e) = [t EXCEPT !.eras = Put(@, e.era, row)]
        BY <2>4 DEF EndOfAskEra, row
      <4>3. QED  BY <4>1, <4>2 DEF HasTables, TableNames
    <3>2. /\ DOMAIN rows = DOMAIN t.eras \cup {e.era}
          /\ \A era \in DOMAIN rows : rows[era] = IF era = e.era THEN row ELSE t.eras[era]
      BY <3>1 DEF Put
    <3>3. \A era \in DOMAIN rows : rows[era].requests = Cardinality(RequestsOf(F \cup {f}, era))
      BY <2>1, <2>2, <2>3, <3>2 DEF ErasTold
    <3>4. \A era \in DOMAIN rows : DOMAIN rows[era] = EraFields
      BY <2>2, <3>2 DEF ErasTold
    <3>5. \A g \in F \cup {f} : IsOf(g, "NewPurchasedRequest") => g.e.era \in DOMAIN rows
      BY <1>1, <1>4, <3>2 DEF ErasTold, IsOf
    <3>6. \A g \in F \cup {f} : IsOf(g, "EndOfAskEra") /\ g.e.points > 0 =>
            g.e.era \in DOMAIN rows /\ rows[g.e.era].ended = g.block
      BY <1>1, <1>2, <1>4, <2>2, <3>2 DEF ErasTold, IsOf
    <3>7. ErasTold(rows, F \cup {f})
      BY <3>3, <3>4, <3>5, <3>6 DEF ErasTold
    <3>8. QED  BY <3>7 DEF f
  <2>5. CASE ~(e.era \in DOMAIN t.eras \/ e.points > 0)
    <3>1. rows = t.eras
      BY <1>4, <2>5 DEF ErasBy, EndOfAskEra
    <3>2. ErasTold(rows, F \cup {f})
      BY <1>1, <1>4, <2>1, <2>5, <3>1 DEF ErasTold, IsOf
    <3>3. QED  BY <3>2 DEF f
  <2>6. QED  BY <2>4, <2>5
<1>5. CASE e.kind \notin {"NewPurchasedRequest", "EndOfAskEra"}
  <2>1. rows = t.eras
    BY <1>5 DEF ErasBy
  <2>2. \A era : RequestsOf(F \cup {f}, era) = RequestsOf(F, era)
    BY <1>1, <1>5 DEF RequestsOf, IsOf
  <2>3. ErasTold(rows, F \cup {f})
    BY <1>1, <1>5, <2>1, <2>2 DEF ErasTold, IsOf
  <2>4. QED  BY <2>3 DEF f
<1>6. QED  BY <1>3, <1>4, <1>5

LEMMA AppendedIsList ==
  ASSUME NEW s, IsList(s), NEW x
  PROVE  LET r == Append(s, x)
             l == Len(s) + 1
         IN /\ IsList(r) /\ DOMAIN r = DOMAIN s \cup {l} /\ l \notin DOMAIN s /\ r[l] = x
            /\ \A i \in DOMAIN s : r[i] = s[i]
<1> DEFINE S == {s[i] : i \in DOMAIN s}
           T == S \cup {x}
           r == Append(s, x)
           l == Len(s) + 1
<1>1. s \in Seq(S)
  BY DEF IsList
<1> HIDE DEF S
<1>2. s \in Seq(T) /\ x \in T
  BY <1>1
<1> HIDE DEF T
<1>3. r \in Seq(T) /\ Len(r) = l /\ Len(s) \in Nat
  BY <1>2
<1>4. DOMAIN r = 1 .. l /\ DOMAIN s = 1 .. Len(s)
  BY <1>2, <1>3
<1>5. r[l] = x /\ \A i \in DOMAIN s : r[i] = s[i]
  BY <1>2, <1>4
<1>6. DOMAIN r = DOMAIN s \cup {l} /\ l \notin DOMAIN s
  BY <1>3, <1>4
<1>7. IsList(r)
  <2>1. \A i \in 1 .. l : r[i] \in {r[j] : j \in DOMAIN r}
    BY <1>4
  <2> HIDE DEF r
  <2>2. r \in [1 .. l -> {r[j] : j \in DOMAIN r}]
    BY <1>3, <1>4, <2>1
  <2>3. QED  BY <1>3, <2>2 DEF IsList
<1>8. QED  BY <1>5, <1>6, <1>7

LEMMA ChangedIsList ==
  ASSUME NEW s, IsList(s), NEW i \in DOMAIN s, NEW x
  PROVE  LET r == [s EXCEPT ![i] = x]
         IN IsList(r) /\ DOMAIN r = DOMAIN s
<1> DEFINE r == [s EXCEPT ![i] = x]
           T == {r[j] : j \in DOMAIN r}
<1>1. Len(s) \in Nat /\ DOMAIN s = 1 .. Len(s)
  BY ListDomain
<1>2. DOMAIN r = 1 .. Len(s) /\ r = [j \in 1 .. Len(s) |-> r[j]]
  BY <1>1
<1> HIDE DEF r
<1>3. r \in [1 .. Len(s) -> T]
  BY <1>2
<1>4. r \in Seq(T)
  BY <1>1, <1>3
<1>5. QED  BY <1>1, <1>2, <1>4 DEF IsList, r

RowsIn(list, estimate) == {i \in DOMAIN list : list[i].estimate = estimate}

IsOfEstimate(f) == f.e.kind \in EstimateKinds
SameEstimate(f, g) == IsOfEstimate(f) /\ IsOfEstimate(g) /\ f.e.estimate = g.e.estimate

EstimateFields == {"estimate", "state", "block"}

IsEstimateList(list) ==
  IsList(list) /\ \A i \in DOMAIN list : DOMAIN list[i] = EstimateFields

\* Every estimate heard of is listed.
EstimatesTold(list, F) == \A f \in F : IsOfEstimate(f) => RowsIn(list, f.e.estimate) # {}

\* Of what comes in upwards: no other estimate is listed and none twice, and each
\* has the state of what was heard of it last.
EstimatesLatest(list, F) ==
  /\ \A i \in DOMAIN list : \E f \in F : IsOfEstimate(f) /\ f.e.estimate = list[i].estimate
  /\ \A i, j \in DOMAIN list : list[i].estimate = list[j].estimate => i = j
  /\ \A f \in F : IsOfEstimate(f) /\ (\A g \in F : SameEstimate(f, g) => g.block <= f.block) =>
       \A i \in RowsIn(list, f.e.estimate) : list[i].state = f.e.state

\* What is heard of an estimate and of a session comes from a block above, and an
\* estimate is new in the first of its blocks.
Above(F, f) ==
  /\ f.block \in Nat /\ \A g \in F : g.block \in Nat
  /\ \A g \in F : SameEstimate(f, g) => g.block < f.block /\ f.e.kind # "NewEstimates"
  /\ \A g \in F : IsOf(f, "NewSession") /\ IsOf(g, "NewSession") => g.block < f.block

\* list has one row more, or the state of the one row is another one.
Listed(list, old, e, n) ==
  \/ list = Append(old, EstimateRow(n, e))
       /\ (e.kind = "NewEstimates" \/ RowsIn(old, e.estimate) = {})
  \/ /\ e.kind # "NewEstimates"
     /\ \E i \in RowsIn(old, e.estimate) :
          list = [old EXCEPT ![i] = [@ EXCEPT !.state = e.state]]

LEMMA HookLists ==
  ASSUME NEW t, IsEstimateList(t.estimates), NEW n, NEW e, e.kind \in EstimateKinds,
         NEW list, EstimatesBy(list, t, n, e)
  PROVE  Listed(list, t.estimates, e, n)
<1> DEFINE rows == RowsIn(t.estimates, e.estimate)
<1>1. RowsOfEstimate(t, e.estimate) = rows
  BY DEF RowsOfEstimate, RowsIn
<1>2. rows \in SUBSET Nat
  BY ListDomain DEF IsEstimateList, RowsIn
<1> HIDE DEF rows
<1>3. rows # {} => Min(rows) \in rows
  <2>1. rows # {} => \E m \in rows : \A k \in rows : m <= k
    BY <1>2, Indexing!Least
  <2>2. QED  BY <2>1 DEF Min
<1>4. CASE e.kind = "NewEstimates"
  BY <1>4 DEF EstimatesBy, Listed
<1>5. CASE e.kind # "NewEstimates"
  <2>1. list = WithState(t, n, e)
    BY <1>5 DEF EstimatesBy, EstimateKinds
  <2>2. CASE rows = {}
    BY <1>1, <1>5, <2>1, <2>2 DEF WithState, Listed, rows
  <2>3. CASE rows # {}
    <3>1. list = [t.estimates EXCEPT ![Min(rows)].state = e.state]
      BY <1>1, <2>1, <2>3 DEF WithState
    <3>2. list = [t.estimates EXCEPT ![Min(rows)] = [@ EXCEPT !.state = e.state]]
      BY <3>1
    <3>3. QED  BY <1>3, <1>5, <2>3, <3>2 DEF Listed, rows
  <2>4. QED  BY <2>2, <2>3
<1>6. QED  BY <1>4, <1>5

\* The rows of the list, one more or one changed.
Changed(list, old, e, l) ==
  /\ IsEstimateList(list) /\ DOMAIN list = DOMAIN old \cup {l}
  /\ list[l].estimate = e.estimate /\ list[l].state = e.state
  /\ \A i \in DOMAIN old : list[i].estimate = old[i].estimate
  /\ \A i \in DOMAIN old \ {l} : list[i].state = old[i].state
  /\ l \in DOMAIN old \/ e.kind = "NewEstimates" \/ RowsIn(old, e.estimate) = {}
  /\ l \in DOMAIN old => e.kind # "NewEstimates" /\ old[l].estimate = e.estimate

LEMMA ListedChanges ==
  ASSUME NEW old, IsEstimateList(old), NEW n, NEW e, NEW list, Listed(list, old, e, n)
  PROVE  \E l : Changed(list, old, e, l)
<1> DEFINE row == EstimateRow(n, e)
<1>1. DOMAIN row = EstimateFields /\ row.estimate = e.estimate /\ row.state = e.state
  BY DEF EstimateRow, EstimateFields
<1> HIDE DEF row
<1>2. CASE list = Append(old, row) /\ (e.kind = "NewEstimates" \/ RowsIn(old, e.estimate) = {})
  <2> DEFINE l == Len(old) + 1
  <2>1. /\ IsList(list) /\ DOMAIN list = DOMAIN old \cup {l} /\ l \notin DOMAIN old
        /\ list[l] = row /\ \A i \in DOMAIN old : list[i] = old[i]
    BY <1>2, AppendedIsList DEF IsEstimateList
  <2> HIDE DEF l
  <2>2. Changed(list, old, e, l)
    BY <1>1, <1>2, <2>1 DEF Changed, IsEstimateList
  <2>3. QED  BY <2>2
<1>3. ASSUME e.kind # "NewEstimates", NEW l \in RowsIn(old, e.estimate),
             list = [old EXCEPT ![l] = [@ EXCEPT !.state = e.state]]
      PROVE  Changed(list, old, e, l)
  <2>1. l \in DOMAIN old /\ old[l].estimate = e.estimate
    BY DEF RowsIn
  <2> DEFINE x == [old[l] EXCEPT !.state = e.state]
  <2>2. DOMAIN x = EstimateFields /\ x.estimate = e.estimate /\ x.state = e.state
    BY <2>1 DEF IsEstimateList, EstimateFields
  <2>3. list = [old EXCEPT ![l] = x]
    BY <1>3
  <2> HIDE DEF x
  <2>4. IsList(list) /\ DOMAIN list = DOMAIN old
    BY <2>1, <2>3, ChangedIsList DEF IsEstimateList
  <2>5. list[l] = x /\ \A i \in DOMAIN old \ {l} : list[i] = old[i]
    BY <2>1, <2>3
  <2>6. QED  BY <1>3, <2>1, <2>2, <2>4, <2>5 DEF Changed, IsEstimateList
<1>4. QED  BY <1>2, <1>3 DEF Listed, row

LEMMA EstimatesTellMore ==
  ASSUME NEW t, IsEstimateList(t.estimates), NEW F, EstimatesTold(t.estimates, F),
         NEW n, NEW e, NEW list, EstimatesBy(list, t, n, e)
  PROVE  /\ IsEstimateList(list) /\ EstimatesTold(list, F \cup {Heard(n, e)})
         /\ Above(F, Heard(n, e)) /\ EstimatesLatest(t.estimates, F) =>
              EstimatesLatest(list, F \cup {Heard(n, e)})
<1> DEFINE f == Heard(n, e)
           old == t.estimates
<1>1. f.block = n /\ f.e = e
  BY DEF Heard
<1> HIDE DEF f
<1>2. CASE e.kind \in EstimateKinds
  <2>1. Listed(list, old, e, n)
    BY <1>2, HookLists
  <2>2. PICK l : Changed(list, old, e, l)
    BY <2>1, ListedChanges
  <2> HIDE DEF old
  <2>3. EstimatesTold(list, F \cup {f})
    BY <1>1, <1>2, <2>2 DEF EstimatesTold, Changed, RowsIn, IsOfEstimate, old
  <2>4. ASSUME Above(F, f), EstimatesLatest(old, F)
        PROVE  EstimatesLatest(list, F \cup {f})
    <3>1. \A i \in DOMAIN list : \E g \in F \cup {f} :
            IsOfEstimate(g) /\ g.e.estimate = list[i].estimate
      BY <1>1, <1>2, <2>2, <2>4 DEF EstimatesLatest, Changed, IsOfEstimate
    <3>2. l \notin DOMAIN old => RowsIn(old, e.estimate) = {}
      <4>1. SUFFICES ASSUME e.kind = "NewEstimates", NEW i \in RowsIn(old, e.estimate) PROVE FALSE
        BY <2>2 DEF Changed
      <4>2. PICK g \in F : IsOfEstimate(g) /\ g.e.estimate = e.estimate
        BY <2>4, <4>1 DEF EstimatesLatest, RowsIn
      <4>3. SameEstimate(f, g)
        BY <1>1, <1>2, <4>2 DEF SameEstimate, IsOfEstimate
      <4>4. QED  BY <1>1, <2>4, <4>1, <4>3 DEF Above
    <3>3. \A i, j \in DOMAIN list : list[i].estimate = list[j].estimate => i = j
      BY <2>2, <2>4, <3>2 DEF EstimatesLatest, Changed, RowsIn
    <3>4. ASSUME NEW g \in F \cup {f}, IsOfEstimate(g),
                 \A h \in F \cup {f} : SameEstimate(g, h) => h.block <= g.block,
                 NEW i \in RowsIn(list, g.e.estimate)
          PROVE  list[i].state = g.e.state
      <4>1. CASE g.e.estimate = e.estimate
        <5>1. g = f
          <6>1. SUFFICES ASSUME g \in F PROVE FALSE
            OBVIOUS
          <6>2. SameEstimate(g, f) /\ SameEstimate(f, g)
            BY <1>1, <1>2, <3>4, <4>1 DEF SameEstimate, IsOfEstimate
          <6>3. f.block <= g.block /\ g.block < f.block /\ f.block \in Nat /\ g.block \in Nat
            BY <2>4, <3>4, <6>1, <6>2 DEF Above
          <6>4. QED  BY <6>3
        <5>2. i = l
          BY <2>2, <3>3, <3>4, <4>1 DEF RowsIn, Changed
        <5>3. QED  BY <1>1, <2>2, <5>1, <5>2 DEF Changed
      <4>2. CASE g.e.estimate # e.estimate
        <5>1. g \in F /\ i # l
          BY <1>1, <2>2, <3>4, <4>2 DEF RowsIn, Changed
        <5>2. i \in RowsIn(old, g.e.estimate) /\ list[i].state = old[i].state
          BY <2>2, <3>4, <5>1 DEF RowsIn, Changed
        <5>3. \A h \in F : SameEstimate(g, h) => h.block <= g.block
          BY <3>4
        <5>4. QED  BY <2>4, <3>4, <5>1, <5>2, <5>3 DEF EstimatesLatest
      <4>3. QED  BY <4>1, <4>2
    <3>5. QED  BY <3>1, <3>3, <3>4 DEF EstimatesLatest
  <2>5. IsEstimateList(list)
    BY <2>2 DEF Changed
  <2>6. QED  BY <2>3, <2>4, <2>5 DEF f, old
<1>3. CASE e.kind \notin EstimateKinds
  <2>1. list = old
    BY <1>3 DEF EstimatesBy
  <2>2. ~IsOfEstimate(f) /\ \A g : ~SameEstimate(f, g) /\ ~SameEstimate(g, f)
    BY <1>1, <1>3 DEF IsOfEstimate, SameEstimate
  <2>3. EstimatesTold(list, F \cup {f})
    BY <2>1, <2>2 DEF EstimatesTold
  <2>4. EstimatesLatest(old, F) => EstimatesLatest(list, F \cup {f})
    BY <2>1, <2>2 DEF EstimatesLatest
  <2>5. QED  BY <2>1, <2>3, <2>4 DEF f
<1>4. QED  BY <1>2, <1>3

\* The checks of validators that the sessions found.
ChecksTold(rows, F) ==
  \A f \in F : IsOf(f, "NewSession") => DOMAIN f.e.checks \subseteq DOMAIN rows

ChecksLatest(rows, F) ==
  \A f \in F : \A key \in DOMAIN f.e.checks :
    /\ IsOf(f, "NewSession")
    /\ \A g \in F : IsOf(g, "NewSession") /\ key \in DOMAIN g.e.checks => g.block <= f.block
    => rows[key] = f.e.checks[key]

LEMMA ChecksTellMore ==
  ASSUME NEW t, NEW F, ChecksTold(t.checks, F), NEW n, NEW e, NEW rows, ChecksBy(rows, t, n, e)
  PROVE  /\ ChecksTold(rows, F \cup {Heard(n, e)})
         /\ DOMAIN t.checks \subseteq DOMAIN rows
         /\ Above(F, Heard(n, e)) /\ ChecksLatest(t.checks, F) =>
              ChecksLatest(rows, F \cup {Heard(n, e)})
<1> DEFINE f == Heard(n, e)
           old == t.checks
<1>1. f.block = n /\ f.e = e
  BY DEF Heard
<1> HIDE DEF f, old
<1>2. CASE e.kind = "NewSession"
  <2>1. /\ DOMAIN rows = DOMAIN old \cup DOMAIN e.checks
        /\ \A k \in DOMAIN rows : rows[k] = IF k \in DOMAIN e.checks THEN e.checks[k] ELSE old[k]
    BY <1>2 DEF ChecksBy, old
  <2>2. ChecksTold(rows, F \cup {f})
    BY <1>1, <2>1 DEF ChecksTold, old
  <2>3. ASSUME Above(F, f), ChecksLatest(old, F) PROVE ChecksLatest(rows, F \cup {f})
    <3> SUFFICES ASSUME NEW g \in F \cup {f}, NEW key \in DOMAIN g.e.checks, IsOf(g, "NewSession"),
                        \A h \in F \cup {f} :
                          IsOf(h, "NewSession") /\ key \in DOMAIN h.e.checks => h.block <= g.block
                 PROVE  rows[key] = g.e.checks[key]
      BY DEF ChecksLatest
    <3>1. CASE key \in DOMAIN e.checks
      <4>1. g = f
        <5>1. SUFFICES ASSUME g \in F PROVE FALSE
          OBVIOUS
        <5>2. f.block <= g.block
          BY <1>1, <1>2, <3>1 DEF IsOf
        <5>3. g.block < f.block /\ f.block \in Nat /\ g.block \in Nat
          BY <1>1, <1>2, <2>3, <5>1 DEF Above, IsOf
        <5>4. QED  BY <5>2, <5>3
      <4>2. QED  BY <1>1, <2>1, <3>1, <4>1
    <3>2. CASE key \notin DOMAIN e.checks
      <4>1. g \in F
        BY <1>1, <3>2
      <4>2. key \in DOMAIN old
        BY <4>1 DEF ChecksTold, old
      <4>3. rows[key] = old[key]
        BY <2>1, <3>2, <4>2
      <4>4. old[key] = g.e.checks[key]
        BY <2>3, <4>1 DEF ChecksLatest
      <4>5. QED  BY <4>3, <4>4
    <3>3. QED  BY <3>1, <3>2
  <2>4. QED  BY <2>1, <2>2, <2>3 DEF f, old
<1>3. CASE e.kind # "NewSession"
  <2>1. rows = old /\ ~IsOf(f, "NewSession")
    BY <1>1, <1>3 DEF ChecksBy, IsOf, old
  <2>2. ChecksTold(rows, F \cup {f})
    BY <2>1 DEF ChecksTold, old
  <2>3. ChecksLatest(old, F) => ChecksLatest(rows, F \cup {f})
    BY <2>1 DEF ChecksLatest
  <2>4. QED  BY <2>1, <2>2, <2>3 DEF f, old
<1>4. QED  BY <1>2, <1>3

\* What was heard of a block that is at these places.
HeardIn(n, c, places) == {Heard(n, c.events[i]) : i \in places}

Told(t, F) ==
  /\ PurchasesTold(t.purchases, F) /\ ErasTold(t.eras, F)
  /\ IsEstimateList(t.estimates) /\ EstimatesTold(t.estimates, F)

Latest(t, F) == EstimatesLatest(t.estimates, F) /\ ChecksLatest(t.checks, F)

\* The events of a block among those heard before and each other.
Others(F, n, c, i) == F \cup HeardIn(n, c, DOMAIN c.events \ {i})
AllOnce(F, n, c) == \A i \in DOMAIN c.events : Once(Others(F, n, c, i), Heard(n, c.events[i]))
AllAbove(F, n, c) == \A i \in DOMAIN c.events : Above(Others(F, n, c, i), Heard(n, c.events[i]))

\* u has the shared tables of t and what was heard at these places of the block.
Tells(u, t, F, n, c, places) ==
  LET H == F \cup HeardIn(n, c, places)
  IN /\ HasTables(u) /\ IsFiniteSet(H)
     /\ DOMAIN t.checks \subseteq DOMAIN u.checks
     /\ ChecksTold(t.checks, F) => ChecksTold(u.checks, H)
     /\ AllOnce(F, n, c) /\ Told(t, F) => Told(u, H)
     /\ AllOnce(F, n, c) /\ AllAbove(F, n, c) /\ ChecksTold(t.checks, F)
          /\ Told(t, F) /\ Latest(t, F) => Latest(u, H)

LEMMA LessHeard ==
  ASSUME NEW F, NEW E, F \subseteq E, NEW f
  PROVE  /\ Once(E, f) => Once(F, f)
         /\ Above(E, f) => Above(F, f)
BY DEF Once, Above

LEMMA OneTells ==
  ASSUME NEW t, HasTables(t), NEW F, IsFiniteSet(F), NEW n, NEW c, NEW i \in DOMAIN c.events,
         NEW w, w = HookStep(OfBlock(n, c), i, t), NEW f, f = Heard(n, c.events[i])
  PROVE  /\ HasTables(w) /\ IsFiniteSet(F \cup {f})
         /\ ChecksTold(t.checks, F) =>
              ChecksTold(w.checks, F \cup {f})
         /\ DOMAIN t.checks \subseteq DOMAIN w.checks
         /\ Once(F, f) /\ Told(t, F) => Told(w, F \cup {f})
         /\ Once(F, f) /\ Above(F, f) /\ ChecksTold(t.checks, F) /\ Told(t, F) /\ Latest(t, F) =>
              Latest(w, F \cup {f})
<1> DEFINE e == c.events[i]
           u == AccumulationHook(t, n, i, e)
<1>1. HasTables(u)
  BY HookAdds DEF HookDone
<1>2. SameButIndex(w, u)
  BY <1>1, AddIndexOnly DEF HookStep, OfBlock
<1>3. /\ PurchasesBy(u.purchases, t, n, e) /\ ErasBy(u.eras, t, n, e)
      /\ EstimatesBy(u.estimates, t, n, e) /\ ChecksBy(u.checks, t, n, e)
  BY HookToPurchases, HookToEras, HookToEstimates, HookToChecks
<1> HIDE DEF u, e
<1>4. /\ w.purchases = u.purchases /\ w.eras = u.eras /\ w.estimates = u.estimates
      /\ w.checks = u.checks /\ HasTables(w)
  BY <1>2 DEF SameButIndex, TableNames
<1>5. IsFiniteSet(F \cup {f})
  BY FS_AddElement
<1>6. f = Heard(n, e)
  BY DEF e
<1>7. ChecksTold(t.checks, F) => ChecksTold(w.checks, F \cup {f})
  BY <1>3, <1>4, <1>6, ChecksTellMore
<1>8. DOMAIN t.checks \subseteq DOMAIN w.checks
  BY <1>3, <1>4 DEF ChecksBy
<1>9. ASSUME Once(F, f), Told(t, F) PROVE Told(w, F \cup {f})
  <2>1. PurchasesTold(w.purchases, F \cup {f})
    BY <1>3, <1>4, <1>6, <1>9, PurchasesTellMore DEF Told
  <2>2. ErasTold(w.eras, F \cup {f})
    BY <1>3, <1>4, <1>6, <1>9, ErasTellMore DEF Told
  <2>3. IsEstimateList(w.estimates) /\ EstimatesTold(w.estimates, F \cup {f})
    BY <1>3, <1>4, <1>6, <1>9, EstimatesTellMore DEF Told
  <2>4. QED  BY <2>1, <2>2, <2>3 DEF Told
<1>10. ASSUME Above(F, f), ChecksTold(t.checks, F), Told(t, F), Latest(t, F)
       PROVE  Latest(w, F \cup {f})
  <2>1. EstimatesLatest(w.estimates, F \cup {f})
    BY <1>3, <1>4, <1>6, <1>10, EstimatesTellMore DEF Told, Latest
  <2>2. ChecksLatest(w.checks, F \cup {f})
    BY <1>3, <1>4, <1>6, <1>10, ChecksTellMore DEF Latest
  <2>3. QED  BY <2>1, <2>2 DEF Latest
<1>11. QED  BY <1>4, <1>5, <1>7, <1>8, <1>9, <1>10

LEMMA OneTellsMore ==
  ASSUME NEW t, NEW F, NEW n, NEW c, NEW rest \in SUBSET DOMAIN c.events,
         NEW i \in DOMAIN c.events, i \notin rest, NEW v, Tells(v, t, F, n, c, rest)
  PROVE  Tells(HookStep(OfBlock(n, c), i, v), t, F, n, c, rest \cup {i})
<1> DEFINE w == HookStep(OfBlock(n, c), i, v)
           f == Heard(n, c.events[i])
           H == F \cup HeardIn(n, c, rest)
           K == F \cup HeardIn(n, c, rest \cup {i})
<1>1. K = H \cup {f}
  BY DEF HeardIn
<1>2. H \subseteq Others(F, n, c, i)
  BY DEF Others, HeardIn
<1>3. AllOnce(F, n, c) => Once(H, f)
  <2>1. AllOnce(F, n, c) => Once(Others(F, n, c, i), f)
    BY DEF AllOnce
  <2> HIDE DEF H, f
  <2>2. QED  BY <1>2, <2>1, LessHeard
<1>4. AllAbove(F, n, c) => Above(H, f)
  BY <1>2, LessHeard DEF AllAbove
<1>5. /\ HasTables(v) /\ IsFiniteSet(H) /\ DOMAIN t.checks \subseteq DOMAIN v.checks
      /\ ChecksTold(t.checks, F) => ChecksTold(v.checks, H)
      /\ AllOnce(F, n, c) /\ Told(t, F) => Told(v, H)
      /\ AllOnce(F, n, c) /\ AllAbove(F, n, c) /\ ChecksTold(t.checks, F)
           /\ Told(t, F) /\ Latest(t, F) => Latest(v, H)
  BY DEF Tells
<1> HIDE DEF w, f, H
<1>6. /\ HasTables(w) /\ IsFiniteSet(H \cup {f})
      /\ ChecksTold(v.checks, H) => ChecksTold(w.checks, H \cup {f})
      /\ DOMAIN v.checks \subseteq DOMAIN w.checks
      /\ Once(H, f) /\ Told(v, H) => Told(w, H \cup {f})
      /\ Once(H, f) /\ Above(H, f) /\ ChecksTold(v.checks, H) /\ Told(v, H) /\ Latest(v, H) =>
           Latest(w, H \cup {f})
  BY <1>5, OneTells DEF w, f
<1> HIDE DEF K
<1>7. /\ HasTables(w) /\ IsFiniteSet(K) /\ DOMAIN t.checks \subseteq DOMAIN w.checks
      /\ ChecksTold(t.checks, F) => ChecksTold(w.checks, K)
      /\ AllOnce(F, n, c) /\ Told(t, F) => Told(w, K)
      /\ AllOnce(F, n, c) /\ AllAbove(F, n, c) /\ ChecksTold(t.checks, F)
           /\ Told(t, F) /\ Latest(t, F) => Latest(w, K)
  BY <1>1, <1>3, <1>4, <1>5, <1>6
<1>8. Tells(w, t, F, n, c, rest \cup {i})
  BY <1>7 DEF Tells, K
<1>9. QED  BY <1>8 DEF w

LEMMA HooksTell ==
  ASSUME NEW t, HasTables(t), NEW F, IsFiniteSet(F), NEW n, NEW c, IsList(c.events)
  PROVE  Tells(RunEventHooks(t, n, c), t, F, n, c, DOMAIN c.events)
<1> DEFINE S == DOMAIN c.events
           a == OfBlock(n, c)
<1>1. PICK iter : Hooking!Iterates(iter, a, t, S) /\ RunEventHooks(t, n, c) = iter[S]
  BY HooksIterate
<1>2. Hooking!Sized(S) /\ \A s \in SUBSET S : s # {} => Max(s) \in s
  BY LastIsMember DEF Hooking!Sized, Indexing!Sized
<1> DEFINE G == {s \in SUBSET S : Tells(iter[s], t, F, n, c, s)}
<1>3. {} \in G
  <2>1. iter[{}] = t
    BY <1>1 DEF Hooking!Iterates
  <2>2. F \cup HeardIn(n, c, {}) = F
    BY DEF HeardIn
  <2>3. Tells(t, t, F, n, c, {})
    BY <2>2 DEF Tells
  <2>4. QED  BY <2>1, <2>3
<1>4. ASSUME NEW s \in SUBSET S, s # {}, s \ {Max(s)} \in G PROVE s \in G
  <2> DEFINE rest == s \ {Max(s)}
             u == iter[rest]
  <2>1. iter[s] = HookStep(a, Max(s), u)
    BY <1>1, <1>4 DEF Hooking!Iterates
  <2>2. Tells(u, t, F, n, c, rest) /\ Max(s) \in S /\ rest \in SUBSET S /\ Max(s) \notin rest
    BY <1>2, <1>4
  <2>3. s = rest \cup {Max(s)}
    BY <1>2, <1>4
  <2> HIDE DEF rest, u
  <2>4. Tells(iter[s], t, F, n, c, rest \cup {Max(s)})
    BY <2>1, <2>2, OneTellsMore
  <2>5. QED  BY <2>3, <2>4
<1>5. S \in G
  <2> HIDE DEF G, S, a
  <2>1. QED  BY <1>2, <1>3, <1>4, Hooking!IterationKeeps
<1>6. QED  BY <1>1, <1>5 DEF S

\* So do the shared tables after add_block.
LEMMA BlockTells ==
  ASSUME NEW t, HasTables(t), NEW F, IsFiniteSet(F), NEW n, NEW c,
         IsList(c.events), IsList(c.extrinsics)
  PROVE  Tells(WithBlock(t, n, c), t, F, n, c, DOMAIN c.events)
<1> DEFINE t1 == SaveEvents(t, n, c)
           t2 == SaveExtrinsics(t1, n, c)
           t3 == RunEventHooks(t2, n, c)
           t4 == SaveLogs(t3, n, c)
           v == WithBlock(t, n, c)
           Same(x, y) == /\ x.purchases = y.purchases /\ x.eras = y.eras
                         /\ x.estimates = y.estimates /\ x.checks = y.checks
<1>1. HasTables(t1) /\ Same(t1, t)
  BY DEF SaveEvents, HasTables, TableNames
<1> HIDE DEF t1
<1>2. HasTables(t2) /\ Same(t2, t1)
  <2>1. Called(t2, t1, n, c, DOMAIN c.extrinsics)
    BY <1>1, CallsAreRows
  <2> HIDE DEF t2
  <2>2. QED  BY <2>1 DEF Called, TableNames
<1> HIDE DEF t2
<1>3. Tells(t3, t2, F, n, c, DOMAIN c.events)
  BY <1>2, HooksTell
<1> HIDE DEF t3
<1>4. HasTables(t4) /\ Same(t4, t3)
  BY <1>3 DEF Tells, SaveLogs, HasTables, TableNames
<1>5. v = SaveBlock(SaveSnapshots(t4, n, c), n, c)
  BY DEF WithBlock, t1, t2, t3
<1> HIDE DEF t4, v
<1>6. HasTables(v) /\ Same(v, t4)
  <2>1. /\ HasTables(v)
        /\ \A f \in TableNames \ {"blocks", "snapshots", "fresh", "gone"} : v[f] = t4[f]
    BY <1>4, <1>5, LastSteps
  <2>2. QED  BY <2>1 DEF TableNames
<1>7. Same(v, t3) /\ Same(t2, t)
  BY <1>1, <1>2, <1>4, <1>6
<1>8. Tells(v, t, F, n, c, DOMAIN c.events)
  BY <1>3, <1>6, <1>7 DEF Tells, Told, Latest
<1>9. QED  BY <1>8 DEF v
================================================================================
