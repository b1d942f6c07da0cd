--------------------------- MODULE SequencingProofs ---------------------------
(***************************************************************************)
(* Theorems about Sequencing: what the pieces of a block do to the ledger, *)
(* one by one and as the fold that a block is, and what follows for the    *)
(* blocks counted in.                                                      *)
(***************************************************************************)
EXTENDS Sequencing, BlockRowsProofs

------------------------------------------------------------------------------
(* The shape of the ledger.                                                *)

LedgerFields ==
  {"accounts", "owners", "judgements", "sessions", "sessionTotals", "validators",
   "nominators", "totals", "zero", "genesis", "current", "failed", "raised"}

AccountFields ==
  {"reaped", "count_reaped", "is", "was", "index", "identity", "good", "bad", "balance",
   "created"}

TotalFields ==
  {"session", "extrinsics", "success", "error", "signed", "events", "transfers", "logs",
   "accounts", "reaped", "sessions", "contracts", "blocktime", "burn", "author"}

HasFields(s) == DOMAIN s = LedgerFields

\* A role that an account has it has had, the treasury apart.
IsAccount(row) == DOMAIN row = AccountFields /\ row.is \subseteq row.was \cup {"treasury"}

IsLedger(s) ==
  /\ HasFields(s)
  /\ \A a \in DOMAIN s.accounts : IsAccount(s.accounts[a])
  /\ DOMAIN s.current = TotalFields
  /\ \A m \in DOMAIN s.totals : DOMAIN s.totals[m] = TotalFields

LEMMA NoLedgerIsLedger == IsLedger(NoLedger)
BY DEF IsLedger, HasFields, LedgerFields, NoLedger, NoTotal, TotalFields, NoRows

\* u is s but for these fields.
OnlyChanges(u, s, fields) ==
  HasFields(u) /\ \A f \in LedgerFields \ fields : u[f] = s[f]

\* What working on block n does to an account, and to its roles but these.
AccountKept(row, old, n, roles) ==
  /\ IsAccount(row)
  /\ row.created = old.created /\ row.balance \in {old.balance, n}
  /\ row.is \ roles = old.is \ roles

AccountMade(row, n, roles) ==
  IsAccount(row) /\ row.created = n /\ row.balance = n /\ row.is \subseteq roles

AccountsKept(u, s, n, roles) ==
  /\ DOMAIN s.accounts \subseteq DOMAIN u.accounts
  /\ \A a \in DOMAIN u.accounts :
       IF a \in DOMAIN s.accounts THEN AccountKept(u.accounts[a], s.accounts[a], n, roles)
       ELSE AccountMade(u.accounts[a], n, roles)

LEMMA AccountsUnchanged ==
  ASSUME NEW u, NEW s, IsLedger(s), u.accounts = s.accounts, NEW n, NEW roles
  PROVE  AccountsKept(u, s, n, roles)
BY DEF AccountsKept, AccountKept, IsLedger

LEMMA AccountsKeptOn ==
  ASSUME NEW u, NEW v, NEW s, NEW n, NEW roles,
         AccountsKept(v, s, n, roles), AccountsKept(u, v, n, roles)
  PROVE  AccountsKept(u, s, n, roles)
BY DEF AccountsKept, AccountKept, AccountMade

LEMMA MoreRoles ==
  ASSUME NEW u, NEW s, NEW n, NEW roles, AccountsKept(u, s, n, roles), NEW more, roles \subseteq more
  PROVE  AccountsKept(u, s, n, more)
BY DEF AccountsKept, AccountKept, AccountMade

\* What leaves totals and accounts in shape.
LEMMA StaysLedger ==
  ASSUME NEW u, NEW s, IsLedger(s), NEW fields, OnlyChanges(u, s, fields),
         {"totals", "current"} \cap fields = {}, NEW n, NEW roles, AccountsKept(u, s, n, roles)
  PROVE  IsLedger(u)
<1>1. u.totals = s.totals /\ u.current = s.current
  BY DEF OnlyChanges, LedgerFields
<1>2. \A a \in DOMAIN u.accounts : IsAccount(u.accounts[a])
  BY DEF AccountsKept, AccountKept, AccountMade
<1>3. QED  BY <1>1, <1>2 DEF OnlyChanges, IsLedger

\* One account is changed.
LEMMA OneAccount ==
  ASSUME NEW u, NEW s, IsLedger(s), NEW account, account \in DOMAIN s.accounts, NEW new,
         u.accounts = [s.accounts EXCEPT ![account] = new], NEW n, NEW roles,
         AccountKept(new, s.accounts[account], n, roles)
  PROVE  AccountsKept(u, s, n, roles)
BY DEF AccountsKept, AccountKept, IsLedger

\* One account is added.
LEMMA OneMore ==
  ASSUME NEW u, NEW s, IsLedger(s), NEW account, account \notin DOMAIN s.accounts, NEW new,
         u.accounts = Put(s.accounts, account, new), NEW n, NEW roles, AccountMade(new, n, roles)
  PROVE  AccountsKept(u, s, n, roles)
BY DEF AccountsKept, AccountKept, Put, IsLedger

------------------------------------------------------------------------------
(* The hooks on accounts, one by one.                                      *)

LEMMA NewRowIsMade ==
  ASSUME NEW s, NEW n, NEW account, NEW roles
  PROVE  AccountMade(NewAccountRow(s, n, account, roles), n, roles)
BY DEF AccountMade, IsAccount, AccountFields, NewAccountRow

LEMMA AuditAppliedKeeps ==
  ASSUME NEW s, IsLedger(s), NEW n, NEW audit
  PROVE  /\ OnlyChanges(AuditApplied(s, n, audit), s, {"accounts"})
         /\ AccountsKept(AuditApplied(s, n, audit), s, n, RolesOf(audit))
<1> DEFINE account == audit[4]
           roles == RolesOf(audit)
           u == AuditApplied(s, n, audit)
           row == NewAccountRow(s, n, account, roles)
           old == s.accounts[account]
<1>1. CASE account \notin DOMAIN s.accounts
  <2>1. u = [s EXCEPT !.accounts = Put(@, account, row)]
    BY <1>1 DEF AuditApplied
  <2>2. AccountMade(row, n, roles)
    BY NewRowIsMade
  <2> HIDE DEF row
  <2>3. OnlyChanges(u, s, {"accounts"}) /\ u.accounts = Put(s.accounts, account, row)
    BY <2>1 DEF OnlyChanges, IsLedger, HasFields, LedgerFields
  <2> HIDE DEF u, account, roles
  <2>4. AccountsKept(u, s, n, roles)
    BY <1>1, <2>2, <2>3, OneMore
  <2>5. QED  BY <2>3, <2>4 DEF u, roles
<1>2. CASE account \in DOMAIN s.accounts /\ audit[3] = "reaped"
  <2> DEFINE new == [old EXCEPT !.reaped = TRUE, !.count_reaped = @ + 1]
  <2>1. u = [s EXCEPT !.accounts = [s.accounts EXCEPT ![account] = new]]
    BY <1>2 DEF AuditApplied, IsLedger, HasFields, LedgerFields, IsAccount, AccountFields
  <2>2. OnlyChanges(u, s, {"accounts"}) /\ u.accounts = [s.accounts EXCEPT ![account] = new]
    BY <2>1 DEF OnlyChanges, IsLedger, HasFields, LedgerFields
  <2>3. AccountKept(new, old, n, roles)
    BY <1>2 DEF AccountKept, IsLedger, IsAccount, AccountFields
  <2> HIDE DEF u, account, roles, new
  <2>4. AccountsKept(u, s, n, roles)
    BY <1>2, <2>2, <2>3, OneAccount
  <2>5. QED  BY <2>2, <2>4 DEF u, roles
<1>3. CASE account \in DOMAIN s.accounts /\ audit[3] # "reaped"
  <2> DEFINE new == [old EXCEPT !.reaped = FALSE, !.is = @ \cup roles,
                                !.was = @ \cup (roles \ {"treasury"})]
  <2>1. u = [s EXCEPT !.accounts = [s.accounts EXCEPT ![account] = new]]
    BY <1>3 DEF AuditApplied, IsLedger, HasFields, LedgerFields, IsAccount, AccountFields
  <2>2. OnlyChanges(u, s, {"accounts"}) /\ u.accounts = [s.accounts EXCEPT ![account] = new]
    BY <2>1 DEF OnlyChanges, IsLedger, HasFields, LedgerFields
  <2>3. AccountKept(new, old, n, roles)
    BY <1>3 DEF AccountKept, IsLedger, IsAccount, AccountFields
  <2> HIDE DEF u, account, roles, new
  <2>4. AccountsKept(u, s, n, roles)
    BY <1>3, <2>2, <2>3, OneAccount
  <2>5. QED  BY <2>2, <2>4 DEF u, roles
<1>4. QED  BY <1>1, <1>2, <1>3

LEMMA IndexedAccountKeeps ==
  ASSUME NEW s, IsLedger(s), NEW n, NEW account
  PROVE  /\ OnlyChanges(IndexedAccount(s, n, account), s, {"accounts"})
         /\ AccountsKept(IndexedAccount(s, n, account), s, n, {})
<1> DEFINE u == IndexedAccount(s, n, account)
           row == NewAccountRow(s, n, account, {})
<1>1. CASE account \in DOMAIN s.accounts
  <2>1. u = s
    BY <1>1 DEF IndexedAccount
  <2>2. QED  BY <2>1, AccountsUnchanged DEF OnlyChanges, IsLedger
<1>2. CASE account \notin DOMAIN s.accounts
  <2>1. u = [s EXCEPT !.accounts = Put(@, account, row)]
    BY <1>2 DEF IndexedAccount
  <2>2. AccountMade(row, n, {})
    BY NewRowIsMade
  <2> HIDE DEF row
  <2>3. OnlyChanges(u, s, {"accounts"}) /\ u.accounts = Put(s.accounts, account, row)
    BY <2>1 DEF OnlyChanges, IsLedger, HasFields, LedgerFields
  <2> HIDE DEF u
  <2>4. AccountsKept(u, s, n, {})
    BY <1>2, <2>2, <2>3, OneMore
  <2>5. QED  BY <2>3, <2>4 DEF u
<1>3. QED  BY <1>1, <1>2

LEMMA IndexAuditKeeps ==
  ASSUME NEW s, IsLedger(s), NEW n, NEW audit
  PROVE  /\ OnlyChanges(IndexAuditApplied(s, audit), s, {"accounts", "owners"})
         /\ AccountsKept(IndexAuditApplied(s, audit), s, n, {})
<1> DEFINE account == audit[4]
           owned == [s EXCEPT !.owners = Put(@, audit[5], account)]
           old == s.accounts[account]
           new == [old EXCEPT !.index = audit[5]]
           u == IndexAuditApplied(s, audit)
<1>1. OnlyChanges(owned, s, {"owners"}) /\ owned.accounts = s.accounts
  BY DEF OnlyChanges, IsLedger, HasFields, LedgerFields
<1>2. CASE audit[3] = "new" /\ account \in DOMAIN s.accounts
  <2>1. u = [owned EXCEPT !.accounts = [s.accounts EXCEPT ![account] = new]]
    BY <1>1, <1>2 DEF IndexAuditApplied
  <2>2. OnlyChanges(u, s, {"accounts", "owners"})
        /\ u.accounts = [s.accounts EXCEPT ![account] = new]
    <3> HIDE DEF owned, new, account
    <3>1. QED  BY <1>1, <2>1 DEF OnlyChanges, HasFields, LedgerFields
  <2>3. AccountKept(new, old, n, {})
    BY <1>2 DEF AccountKept, IsLedger, IsAccount, AccountFields
  <2> HIDE DEF u, account, new
  <2>4. AccountsKept(u, s, n, {})
    BY <1>2, <2>2, <2>3, OneAccount
  <2>5. QED  BY <2>2, <2>4 DEF u
<1>3. CASE audit[3] = "new" /\ account \notin DOMAIN s.accounts
  <2>1. u = owned
    BY <1>3 DEF IndexAuditApplied
  <2>2. QED  BY <1>1, <2>1, AccountsUnchanged DEF OnlyChanges
<1>4. CASE audit[3] # "new"
  <2>1. OnlyChanges(u, s, {"owners"}) /\ u.accounts = s.accounts
    BY <1>4 DEF IndexAuditApplied, OnlyChanges, IsLedger, HasFields, LedgerFields
  <2>2. QED  BY <2>1, AccountsUnchanged DEF OnlyChanges
<1>5. QED  BY <1>2, <1>3, <1>4

\* All accounts of a set are changed.
LEMMA SomeAccounts ==
  ASSUME NEW u, NEW s, IsLedger(s), DOMAIN u.accounts = DOMAIN s.accounts, NEW n, NEW roles,
         \A a \in DOMAIN s.accounts : AccountKept(u.accounts[a], s.accounts[a], n, roles)
  PROVE  AccountsKept(u, s, n, roles)
BY DEF AccountsKept

LEMMA SnapshotsKeep ==
  ASSUME NEW s, IsLedger(s), NEW n, NEW accounts
  PROVE  /\ OnlyChanges(SnapshotsApplied(s, n, accounts), s, {"accounts"})
         /\ AccountsKept(SnapshotsApplied(s, n, accounts), s, n, {})
         /\ \A a \in accounts \cap DOMAIN s.accounts :
              SnapshotsApplied(s, n, accounts).accounts[a].balance = n
<1> DEFINE u == SnapshotsApplied(s, n, accounts)
           shown(row) == [row EXCEPT !.balance = n]
<1>1. /\ OnlyChanges(u, s, {"accounts"})
      /\ u.accounts = [a \in DOMAIN s.accounts |->
                         IF a \in accounts THEN shown(s.accounts[a]) ELSE s.accounts[a]]
  BY DEF SnapshotsApplied, OnlyChanges, IsLedger, HasFields, LedgerFields
<1>2. \A row : IsAccount(row) => AccountKept(shown(row), row, n, {}) /\ AccountKept(row, row, n, {})
                                 /\ shown(row).balance = n
  BY DEF AccountKept, IsAccount, AccountFields
<1>3. \A a \in DOMAIN s.accounts : IsAccount(s.accounts[a])
  BY DEF IsLedger
<1> HIDE DEF u, shown
<1>4. /\ DOMAIN u.accounts = DOMAIN s.accounts
      /\ \A a \in DOMAIN s.accounts : AccountKept(u.accounts[a], s.accounts[a], n, {})
  BY <1>1, <1>2, <1>3
<1>5. \A a \in accounts \cap DOMAIN s.accounts : u.accounts[a].balance = n
  BY <1>1, <1>2, <1>3
<1>6. AccountsKept(u, s, n, {})
  BY <1>4, SomeAccounts
<1>7. QED  BY <1>1, <1>5, <1>6 DEF u

LEMMA IdentityKeeps ==
  ASSUME NEW s, IsLedger(s), NEW n, NEW audit
  PROVE  /\ OnlyChanges(IdentityApplied(s, audit), s, {"accounts"})
         /\ AccountsKept(IdentityApplied(s, audit), s, n, {})
<1> DEFINE account == audit[4]
           old == s.accounts[account]
           u == IdentityApplied(s, audit)
<1>1. CASE account \notin DOMAIN s.accounts
  <2>1. u = s
    BY <1>1 DEF IdentityApplied
  <2>2. QED  BY <2>1, AccountsUnchanged DEF OnlyChanges, IsLedger
<1>2. CASE account \in DOMAIN s.accounts
  <2> DEFINE new == IF audit[3] = "set" THEN [old EXCEPT !.identity = audit[5]]
                    ELSE [old EXCEPT !.identity = Null, !.good = 0, !.bad = 0]
  <2>1. u = [s EXCEPT !.accounts = [s.accounts EXCEPT ![account] = new]]
    <3>1. CASE audit[3] = "set"
      BY <1>2, <3>1 DEF IdentityApplied, IsLedger, HasFields, LedgerFields
    <3>2. CASE audit[3] # "set"
      BY <1>2, <3>2 DEF IdentityApplied, IsLedger, HasFields, LedgerFields
    <3>3. QED  BY <3>1, <3>2
  <2>2. AccountKept(new, old, n, {})
    BY <1>2 DEF AccountKept, IsLedger, IsAccount, AccountFields
  <2> HIDE DEF new
  <2>3. OnlyChanges(u, s, {"accounts"}) /\ u.accounts = [s.accounts EXCEPT ![account] = new]
    BY <2>1 DEF OnlyChanges, IsLedger, HasFields, LedgerFields
  <2> HIDE DEF u, account
  <2>4. AccountsKept(u, s, n, {})
    BY <1>2, <2>2, <2>3, OneAccount
  <2>5. QED  BY <2>3, <2>4 DEF u
<1>3. QED  BY <1>1, <1>2

LEMMA JudgementKeeps ==
  ASSUME NEW s, IsLedger(s), NEW n, NEW audit
  PROVE  /\ OnlyChanges(JudgementApplied(s, audit), s, {"accounts", "judgements"})
         /\ AccountsKept(JudgementApplied(s, audit), s, n, {})
<1> DEFINE account == audit[4]
           value == audit[5].value
           given == [s EXCEPT !.judgements = Put(@, <<account, audit[5].registrar>>, value)]
           old == s.accounts[account]
           u == JudgementApplied(s, audit)
<1>1. OnlyChanges(given, s, {"judgements"}) /\ given.accounts = s.accounts
  BY DEF OnlyChanges, IsLedger, HasFields, LedgerFields
<1>2. CASE value = Null
  <2>1. u = s
    BY <1>2 DEF JudgementApplied
  <2>2. QED  BY <2>1, AccountsUnchanged DEF OnlyChanges, IsLedger
<1>3. CASE value # Null /\ account \notin DOMAIN s.accounts
  <2>1. u = given
    BY <1>3 DEF JudgementApplied
  <2>2. QED  BY <1>1, <2>1, AccountsUnchanged DEF OnlyChanges
<1>4. CASE value # Null /\ account \in DOMAIN s.accounts
  <2> DEFINE new == [old EXCEPT !.good = IF GoodValue(value) THEN @ + 1 ELSE @,
                                !.bad = IF PoorValue(value) THEN @ + 1 ELSE @]
  <2>1. u = [given EXCEPT !.accounts = [s.accounts EXCEPT ![account] = new]]
    <3>1. u = [given EXCEPT !.accounts[account].good = IF GoodValue(value) THEN @ + 1 ELSE @,
                            !.accounts[account].bad = IF PoorValue(value) THEN @ + 1 ELSE @]
      BY <1>4 DEF JudgementApplied
    <3>2. HasFields(given) /\ given.accounts = s.accounts /\ IsAccount(s.accounts[account])
      BY <1>1, <1>4 DEF OnlyChanges, IsLedger
    <3> DEFINE good == GoodValue(value)
               poor == PoorValue(value)
    <3> HIDE DEF given, good, poor, account
    <3>3. [given EXCEPT !.accounts[account].good = IF good THEN @ + 1 ELSE @,
                        !.accounts[account].bad = IF poor THEN @ + 1 ELSE @]
            = [given EXCEPT !.accounts =
                 [s.accounts EXCEPT ![account] =
                    [old EXCEPT !.good = IF good THEN @ + 1 ELSE @,
                                !.bad = IF poor THEN @ + 1 ELSE @]]]
      BY <1>4, <3>2 DEF HasFields, LedgerFields, IsAccount, AccountFields
    <3>4. QED  BY <3>1, <3>3 DEF good, poor
  <2>2. AccountKept(new, old, n, {})
    BY <1>4 DEF AccountKept, IsLedger, IsAccount, AccountFields
  <2> HIDE DEF given, new, account
  <2>3. OnlyChanges(u, s, {"accounts", "judgements"})
        /\ u.accounts = [s.accounts EXCEPT ![account] = new]
    BY <1>1, <2>1 DEF OnlyChanges, HasFields, LedgerFields
  <2> HIDE DEF u
  <2>4. AccountsKept(u, s, n, {})
    BY <1>4, <2>2, <2>3, OneAccount
  <2>5. QED  BY <2>3, <2>4 DEF u
<1>5. QED  BY <1>2, <1>3, <1>4

\* A role passes to the accounts of a set.
RoleGiven(u, role, accounts) ==
  \A a \in DOMAIN u.accounts : role \in u.accounts[a].is <=> a \in accounts

LEMMA SetRoleKeeps ==
  ASSUME NEW s, IsLedger(s), NEW n, NEW role, NEW accounts
  PROVE  /\ OnlyChanges(SetRole(s, role, accounts), s, {"accounts"})
         /\ AccountsKept(SetRole(s, role, accounts), s, n, {role})
         /\ RoleGiven(SetRole(s, role, accounts), role, accounts)
         /\ DOMAIN SetRole(s, role, accounts).accounts = DOMAIN s.accounts
<1> DEFINE u == SetRole(s, role, accounts)
<1>1. /\ OnlyChanges(u, s, {"accounts"})
      /\ u.accounts = [a \in DOMAIN s.accounts |->
                         IF a \in accounts THEN Marked(s.accounts[a], role)
                         ELSE Unmarked(s.accounts[a], role)]
  BY DEF SetRole, OnlyChanges, IsLedger, HasFields, LedgerFields
<1>2. \A row : IsAccount(row) =>
        /\ AccountKept(Marked(row, role), row, n, {role}) /\ role \in Marked(row, role).is
        /\ AccountKept(Unmarked(row, role), row, n, {role}) /\ role \notin Unmarked(row, role).is
  BY DEF AccountKept, IsAccount, AccountFields, Marked, Unmarked
<1>3. \A a \in DOMAIN s.accounts : IsAccount(s.accounts[a])
  BY DEF IsLedger
<1> HIDE DEF u
<1>4. /\ DOMAIN u.accounts = DOMAIN s.accounts
      /\ \A a \in DOMAIN s.accounts : AccountKept(u.accounts[a], s.accounts[a], n, {role})
  BY <1>1, <1>2, <1>3
<1>5. RoleGiven(u, role, accounts)
  BY <1>1, <1>2, <1>3 DEF RoleGiven
<1>6. AccountsKept(u, s, n, {role})
  BY <1>4, SomeAccounts
<1>7. QED  BY <1>1, <1>4, <1>5, <1>6 DEF u

------------------------------------------------------------------------------
(* Sessions.                                                               *)

SessionRoles == {"validator", "nominator"}
SessionFields ==
  {"accounts", "validators", "nominators", "failed", "raised", "sessions", "sessionTotals"}

\* What the event of a session does.
SessionAdded(u, s, n, e) ==
  /\ OnlyChanges(u, s, SessionFields)
  /\ AccountsKept(u, s, n, SessionRoles)
  /\ DOMAIN u.accounts = DOMAIN s.accounts
  /\ ~Stopped(u) => RoleGiven(u, "validator", ToSet(e.validators))

LEMMA RoleGivenStays ==
  ASSUME NEW u, NEW s, NEW n, NEW roles, AccountsKept(u, s, n, roles),
         DOMAIN u.accounts = DOMAIN s.accounts, NEW role, role \notin roles, NEW accounts,
         RoleGiven(s, role, accounts)
  PROVE  RoleGiven(u, role, accounts)
BY DEF RoleGiven, AccountsKept, AccountKept

LEMMA FlaggedKeeps ==
  ASSUME NEW s, IsLedger(s), NEW n, NEW e
  PROVE  /\ OnlyChanges(Flagged(s, e), s, {"accounts"})
         /\ AccountsKept(Flagged(s, e), s, n, SessionRoles)
         /\ DOMAIN Flagged(s, e).accounts = DOMAIN s.accounts
         /\ RoleGiven(Flagged(s, e), "validator", ToSet(e.validators))
<1> DEFINE v == SetRole(s, "validator", ToSet(e.validators))
           them == UNION {ToSet(e.nominators[k]) : k \in DOMAIN e.validators}
           u == SetRole(v, "nominator", them)
<1>1. /\ OnlyChanges(v, s, {"accounts"}) /\ AccountsKept(v, s, n, {"validator"})
      /\ RoleGiven(v, "validator", ToSet(e.validators)) /\ DOMAIN v.accounts = DOMAIN s.accounts
  BY SetRoleKeeps
<1> HIDE DEF v
<1>2. IsLedger(v)
  BY <1>1, StaysLedger
<1>3. /\ OnlyChanges(u, v, {"accounts"}) /\ AccountsKept(u, v, n, {"nominator"})
      /\ DOMAIN u.accounts = DOMAIN v.accounts
  BY <1>2, SetRoleKeeps
<1>4. Flagged(s, e) = u
  BY DEF Flagged, u, v
<1> HIDE DEF u, them
<1>5. AccountsKept(v, s, n, SessionRoles) /\ AccountsKept(u, v, n, SessionRoles)
  BY <1>1, <1>3, MoreRoles DEF SessionRoles
<1>6. AccountsKept(u, s, n, SessionRoles)
  BY <1>5, AccountsKeptOn
<1>7. OnlyChanges(u, s, {"accounts"})
  BY <1>1, <1>3 DEF OnlyChanges
<1>8. RoleGiven(u, "validator", ToSet(e.validators))
  <2>1. "validator" \notin {"nominator"}
    OBVIOUS
  <2>2. QED  BY <1>1, <1>3, <2>1, RoleGivenStays
<1>9. QED  BY <1>1, <1>3, <1>4, <1>6, <1>7, <1>8

LEMMA AddSessionKeeps ==
  ASSUME NEW s, IsLedger(s), NEW n, NEW e
  PROVE  SessionAdded(AddSession(s, n, e), s, n, e)
<1> DEFINE t1 == WithValidators(s, e)
           t2 == WithNominators(t1, e)
           t3 == WithSession(t2, n, e)
           u == Flagged(t3, e)
<1>1. OnlyChanges(t1, s, {"validators"})
  BY DEF WithValidators, OnlyChanges, IsLedger, HasFields, LedgerFields
<1> HIDE DEF t1
<1>2. OnlyChanges(t2, t1, {"nominators", "failed"})
  BY <1>1 DEF WithNominators, OnlyChanges, HasFields, LedgerFields
<1> HIDE DEF t2
<1>3. OnlyChanges(t3, t2, {"sessions", "sessionTotals"})
  BY <1>2 DEF WithSession, OnlyChanges, HasFields, LedgerFields
<1> HIDE DEF t3
<1>4. OnlyChanges(t3, s, SessionFields \ {"accounts"}) /\ t3.accounts = s.accounts
  BY <1>1, <1>2, <1>3 DEF OnlyChanges, SessionFields, LedgerFields
<1>5. AccountsKept(t3, s, n, {}) /\ IsLedger(t3)
  <2>1. AccountsKept(t3, s, n, {})
    BY <1>4, AccountsUnchanged
  <2>2. {"totals", "current"} \cap (SessionFields \ {"accounts"}) = {}
    BY DEF SessionFields
  <2>3. QED  BY <1>4, <2>1, <2>2, StaysLedger
<1>6. /\ OnlyChanges(u, t3, {"accounts"}) /\ AccountsKept(u, t3, n, SessionRoles)
      /\ DOMAIN u.accounts = DOMAIN t3.accounts /\ RoleGiven(u, "validator", ToSet(e.validators))
  BY <1>5, FlaggedKeeps
<1>7. AddSession(s, n, e) = u
  BY DEF AddSession, t1, t2, t3
<1> HIDE DEF u
<1>8. AccountsKept(t3, s, n, SessionRoles)
  BY <1>4, AccountsUnchanged
<1>9. AccountsKept(u, s, n, SessionRoles)
  BY <1>6, <1>8, AccountsKeptOn
<1>10. OnlyChanges(u, s, SessionFields)
  BY <1>4, <1>6 DEF OnlyChanges, SessionFields
<1>11. QED  BY <1>4, <1>6, <1>7, <1>9, <1>10 DEF SessionAdded

LEMMA NewSessionKeeps ==
  ASSUME NEW s, IsLedger(s), NEW n, NEW e, NEW new
  PROVE  SessionAdded(NewSession(s, n, e, new), s, n, e)
<1> DEFINE inserted == WithNominators(WithValidators(s, e), e)
           u == NewSession(s, n, e, new)
<1>1. CASE u = AddSession(s, n, e)
  BY <1>1, AddSessionKeeps
<1>2. CASE u = [s EXCEPT !.failed = TRUE]
  <2>1. OnlyChanges(u, s, SessionFields) /\ u.accounts = s.accounts /\ u.failed
    BY <1>2 DEF OnlyChanges, IsLedger, HasFields, LedgerFields, SessionFields
  <2> HIDE DEF u
  <2>2. QED  BY <2>1, AccountsUnchanged DEF SessionAdded, Stopped, u
<1>3. CASE u = [inserted EXCEPT !.raised = TRUE]
  <2> DEFINE t1 == WithValidators(s, e)
  <2>1. OnlyChanges(t1, s, {"validators"})
    BY DEF WithValidators, OnlyChanges, IsLedger, HasFields, LedgerFields
  <2> HIDE DEF t1
  <2>2. OnlyChanges(inserted, t1, {"nominators", "failed"})
    BY <2>1 DEF WithNominators, OnlyChanges, HasFields, LedgerFields, t1
  <2> HIDE DEF inserted, u
  <2>3. OnlyChanges(u, s, SessionFields) /\ u.accounts = s.accounts /\ u.raised
    BY <1>3, <2>1, <2>2 DEF OnlyChanges, HasFields, LedgerFields, SessionFields
  <2>4. QED  BY <2>3, AccountsUnchanged DEF SessionAdded, Stopped, u
<1>4. u = AddSession(s, n, e) \/ u = [s EXCEPT !.failed = TRUE] \/ u = [inserted EXCEPT !.raised = TRUE]
  BY DEF NewSession, AddSessionOld
<1>5. QED  BY <1>1, <1>2, <1>3, <1>4

------------------------------------------------------------------------------
(* Any piece.                                                              *)

IsEvent(piece, kind) == piece.hook = "event" /\ piece.row.kind = kind

\* The roles that a piece may give and take.
PieceRoles(piece) ==
  CASE piece.hook = "audit" -> RolesOf(piece.row)
    [] piece.hook = "call" -> {"sudo"}
    [] IsEvent(piece, "NewTerm") -> {"council"}
    [] IsEvent(piece, "RegistrarAdded") -> {"registrar"}
    [] IsEvent(piece, "NewSession") \/ piece.hook = "genesis" -> SessionRoles
    [] OTHER -> {}

\* The totals of the block, as its parent's and its own counters give them.
TotalsSet(u, n) ==
  /\ ~TimeLost(DataBlock(u), n)
  /\ \E validators, burn : u.current = WithTotals(validators, DataBlock(u), n, BeforeOf(u, n), burn)

\* What a piece does to the accounts.
ToAccounts(u, s, n, shown, piece) ==
  /\ AccountsKept(u, s, n, PieceRoles(piece))
  /\ piece.hook \notin {"audit", "indexed"} => DOMAIN u.accounts = DOMAIN s.accounts
  /\ piece.hook = "info" =>
       \A a \in DOMAIN u.accounts : <<n, a>> \in snapshots => u.accounts[a].balance = n
  /\ IsEvent(piece, "NewTerm") => RoleGiven(u, "council", ToSet(piece.row.members))
  /\ IsEvent(piece, "NewSession") =>
       Stopped(u) \/ RoleGiven(u, "validator", ToSet(SessionShown(piece.row, shown).validators))

\* What it does to the totals, and to the rows of block 0.
ToTotals(u, s, n, piece) ==
  /\ piece.hook # "genesis" => u.zero = s.zero /\ u.genesis = s.genesis
  /\ u.totals = IF piece.hook = "old" THEN Without(s.totals, {n}) ELSE s.totals
  /\ piece.hook # "total" => \A f \in TotalFields \ {"burn"} : u.current[f] = s.current[f]
  /\ piece.hook = "total" => u.raised \/ TotalsSet(u, n)
  /\ u.current.burn = IF piece.hook = "old" THEN BeforeOf(s, n).burn
                      ELSE IF IsEvent(piece, "Burnt") THEN BurnTotal(BeforeOf(s, n), piece.row.value, Burns)
                      ELSE s.current.burn

PieceDone(u, s, n, shown, piece) ==
  IsLedger(u) /\ ToAccounts(u, s, n, shown, piece) /\ ToTotals(u, s, n, piece)

\* A piece that leaves the totals alone.
LEMMA NotOfTotals ==
  ASSUME NEW s, IsLedger(s), NEW n, NEW piece, NEW u, NEW fields, OnlyChanges(u, s, fields),
         fields \subseteq LedgerFields \ {"totals", "current", "zero", "genesis"},
         piece.hook \notin {"old", "total"}, ~IsEvent(piece, "Burnt")
  PROVE  ToTotals(u, s, n, piece)
<1>1. u.totals = s.totals /\ u.current = s.current /\ u.zero = s.zero /\ u.genesis = s.genesis
  BY DEF OnlyChanges, LedgerFields
<1>2. QED  BY <1>1 DEF ToTotals

\* And the accounts.
LEMMA NotOfAccounts ==
  ASSUME NEW s, IsLedger(s), NEW n, NEW shown, NEW piece, NEW u, u.accounts = s.accounts,
         piece.hook \notin {"info"}, ~IsEvent(piece, "NewTerm"), ~IsEvent(piece, "NewSession")
  PROVE  ToAccounts(u, s, n, shown, piece)
<1>1. AccountsKept(u, s, n, PieceRoles(piece))
  BY AccountsUnchanged
<1>2. QED  BY <1>1 DEF ToAccounts

\* The pieces of the accounts.
LEMMA AccountPieces ==
  ASSUME NEW s, IsLedger(s), NEW n, NEW shown, NEW piece,
         piece.hook \in {"audit", "indexed", "index", "info", "identity", "judgement"}
  PROVE  PieceDone(Done(s, n, shown, piece), s, n, shown, piece)
<1> DEFINE u == Done(s, n, shown, piece)
           fields == {"accounts", "owners", "judgements"}
<1>0. /\ ~IsEvent(piece, "NewTerm") /\ ~IsEvent(piece, "NewSession")
      /\ ~IsEvent(piece, "Burnt") /\ ~IsEvent(piece, "RegistrarAdded")
  BY DEF IsEvent
<1>1. OnlyChanges(u, s, fields) /\ AccountsKept(u, s, n, PieceRoles(piece))
  <2>1. CASE piece.hook = "audit"
    <3>1. u = AuditApplied(s, n, piece.row)
      BY <2>1 DEF Done
    <3>2. PieceRoles(piece) = RolesOf(piece.row)
      BY <1>0, <2>1 DEF PieceRoles
    <3>3. QED  BY <3>1, <3>2, AuditAppliedKeeps DEF OnlyChanges
  <2>2. CASE piece.hook # "audit"
    <3>0. PieceRoles(piece) = {}
      BY <1>0, <2>2 DEF PieceRoles
    <3>1. CASE piece.hook = "indexed"
      <4>1. u = IndexedAccount(s, n, piece.row)
        BY <3>1 DEF Done
      <4>2. QED  BY <3>0, <4>1, IndexedAccountKeeps DEF OnlyChanges
    <3>2. CASE piece.hook = "index"
      <4>1. u = IndexAuditApplied(s, piece.row)
        BY <3>2 DEF Done
      <4>2. QED  BY <3>0, <4>1, IndexAuditKeeps DEF OnlyChanges
    <3>3. CASE piece.hook = "info"
      <4>1. u = SnapshotsApplied(s, n, {key[2] : key \in {k \in snapshots : k[1] = n}})
        BY <3>3 DEF Done
      <4>2. QED  BY <3>0, <4>1, SnapshotsKeep DEF OnlyChanges
    <3>4. CASE piece.hook = "identity"
      <4>1. u = IdentityApplied(s, piece.row)
        BY <3>4 DEF Done
      <4>2. QED  BY <3>0, <4>1, IdentityKeeps DEF OnlyChanges
    <3>5. CASE piece.hook = "judgement"
      <4>1. u = JudgementApplied(s, piece.row)
        BY <3>5 DEF Done
      <4>2. QED  BY <3>0, <4>1, JudgementKeeps DEF OnlyChanges
    <3>6. QED  BY <2>2, <3>1, <3>2, <3>3, <3>4, <3>5
  <2>3. QED  BY <2>1, <2>2
<1>2. piece.hook \notin {"audit", "indexed"} => DOMAIN u.accounts = DOMAIN s.accounts
  <2>1. CASE piece.hook = "index"
    BY <2>1 DEF Done, IndexAuditApplied, IsLedger, HasFields, LedgerFields
  <2>2. CASE piece.hook = "info"
    BY <2>2 DEF Done, SnapshotsApplied, IsLedger, HasFields, LedgerFields
  <2>3. CASE piece.hook = "identity"
    BY <2>3 DEF Done, IdentityApplied, IsLedger, HasFields, LedgerFields
  <2>4. CASE piece.hook = "judgement"
    BY <2>4 DEF Done, JudgementApplied, IsLedger, HasFields, LedgerFields
  <2>5. QED  BY <2>1, <2>2, <2>3, <2>4
<1>3. piece.hook = "info" =>
        \A a \in DOMAIN u.accounts : <<n, a>> \in snapshots => u.accounts[a].balance = n
  <2> DEFINE them == {key[2] : key \in {k \in snapshots : k[1] = n}}
  <2>1. \A a : <<n, a>> \in snapshots => a \in them
    OBVIOUS
  <2>2. piece.hook = "info" => u = SnapshotsApplied(s, n, them)
    BY DEF Done
  <2> HIDE DEF them, u
  <2>3. piece.hook = "info" => \A a \in them \cap DOMAIN s.accounts : u.accounts[a].balance = n
    BY <2>2, SnapshotsKeep
  <2>4. QED  BY <1>2, <2>1, <2>3
<1> HIDE DEF u
<1>4. IsLedger(u)
  <2>1. {"totals", "current"} \cap fields = {}
    OBVIOUS
  <2> HIDE DEF fields
  <2>2. QED  BY <1>1, <2>1, StaysLedger
<1>5. ToAccounts(u, s, n, shown, piece)
  BY <1>0, <1>1, <1>2, <1>3 DEF ToAccounts
<1>6. ToTotals(u, s, n, piece)
  <2>1. fields \subseteq LedgerFields \ {"totals", "current", "zero", "genesis"}
    BY DEF LedgerFields
  <2>2. piece.hook \notin {"old", "total"}
    OBVIOUS
  <2> HIDE DEF fields
  <2>3. QED  BY <1>0, <1>1, <2>1, <2>2, NotOfTotals
<1>7. QED  BY <1>4, <1>5, <1>6 DEF PieceDone, u

\* The parts of process_genesis.
GenesisParts == {"added", "accounts", "sudo", "session", "members"}

LEMMA GenesisPiece ==
  ASSUME NEW s, IsLedger(s), NEW n, NEW shown, NEW piece, piece.hook = "genesis",
         piece.row \in GenesisParts, n = 0
  PROVE  PieceDone(Done(s, n, shown, piece), s, n, shown, piece)
<1> DEFINE u == Done(s, n, shown, piece)
           fields == SessionFields \cup {"zero", "genesis"}
           part == piece.row
<1>0. /\ ~IsEvent(piece, "NewTerm") /\ ~IsEvent(piece, "NewSession")
      /\ ~IsEvent(piece, "Burnt") /\ ~IsEvent(piece, "RegistrarAdded")
  BY DEF IsEvent
<1>1. u = GenesisDone(s, part, shown) /\ PieceRoles(piece) = SessionRoles
  BY <1>0 DEF Done, PieceRoles
<1>2. OnlyChanges(u, s, fields) /\ AccountsKept(u, s, n, SessionRoles)
      /\ DOMAIN u.accounts = DOMAIN s.accounts
  <2>1. CASE part = "session"
    <3> DEFINE e == SessionShown(content[0].genesis.session, shown)
    <3>1. u = NewSession(s, 0, e, NewHandler(0))
      BY <1>1, <2>1 DEF GenesisDone
    <3> HIDE DEF e
    <3>2. SessionAdded(u, s, 0, e)
      BY <3>1, NewSessionKeeps
    <3> HIDE DEF u
    <3>3. QED  BY <3>2 DEF SessionAdded, OnlyChanges
  <2>2. CASE part # "session"
    <3>1. OnlyChanges(u, s, {"zero", "genesis"}) /\ u.accounts = s.accounts
      <4>1. CASE part = "added"
        BY <1>1, <4>1 DEF GenesisDone, OnlyChanges, IsLedger, HasFields, LedgerFields
      <4>2. CASE part = "accounts"
        BY <1>1, <4>2 DEF GenesisDone, OnlyChanges, IsLedger, HasFields, LedgerFields
      <4>3. CASE part = "sudo"
        BY <1>1, <4>3 DEF GenesisDone, OnlyChanges, IsLedger, HasFields, LedgerFields
      <4>4. CASE part = "members"
        BY <1>1, <4>4 DEF GenesisDone, OnlyChanges, IsLedger, HasFields, LedgerFields
      <4>5. QED  BY <2>2, <4>1, <4>2, <4>3, <4>4 DEF GenesisParts
    <3> HIDE DEF u
    <3>2. QED  BY <3>1, AccountsUnchanged DEF OnlyChanges
  <2>3. QED  BY <2>1, <2>2
<1> HIDE DEF u
<1>3. IsLedger(u)
  <2>1. {"totals", "current"} \cap fields = {}
    BY DEF SessionFields
  <2> HIDE DEF fields
  <2>2. QED  BY <1>2, <2>1, StaysLedger
<1>4. ToAccounts(u, s, n, shown, piece)
  BY <1>0, <1>1, <1>2 DEF ToAccounts
<1>5. u.totals = s.totals /\ u.current = s.current
  BY <1>2 DEF OnlyChanges, LedgerFields, SessionFields
<1>6. ToTotals(u, s, n, piece)
  BY <1>0, <1>5 DEF ToTotals
<1>7. QED  BY <1>3, <1>4, <1>6 DEF PieceDone, u

LEMMA OldPiece ==
  ASSUME NEW s, IsLedger(s), NEW n, NEW shown, NEW piece, piece.hook = "old"
  PROVE  PieceDone(Done(s, n, shown, piece), s, n, shown, piece)
<1> DEFINE u == Done(s, n, shown, piece)
<1>0. ~IsEvent(piece, "NewTerm") /\ ~IsEvent(piece, "NewSession") /\ ~IsEvent(piece, "Burnt")
  BY DEF IsEvent
<1>1. u = [s EXCEPT !.totals = Without(@, {n}), !.current.burn = BeforeOf(s, n).burn]
  BY DEF Done
<1>2. /\ OnlyChanges(u, s, {"totals", "current"}) /\ u.totals = Without(s.totals, {n})
      /\ u.current = [s.current EXCEPT !.burn = BeforeOf(s, n).burn]
  BY <1>1 DEF OnlyChanges, IsLedger, HasFields, LedgerFields
<1> HIDE DEF u
<1>3. u.accounts = s.accounts /\ u.zero = s.zero /\ u.genesis = s.genesis
  BY <1>2 DEF OnlyChanges, LedgerFields
<1>4. IsLedger(u)
  BY <1>2, <1>3 DEF IsLedger, Without, OnlyChanges
<1>5. ToAccounts(u, s, n, shown, piece)
  BY <1>0, <1>3, NotOfAccounts
<1>6. ToTotals(u, s, n, piece)
  BY <1>0, <1>2, <1>3 DEF ToTotals, IsLedger, TotalFields
<1>7. QED  BY <1>4, <1>5, <1>6 DEF PieceDone, u

LEMMA TotalPiece ==
  ASSUME NEW s, IsLedger(s), NEW n, NEW shown, NEW piece, piece.hook = "total"
  PROVE  PieceDone(Done(s, n, shown, piece), s, n, shown, piece)
<1> DEFINE u == Done(s, n, shown, piece)
           new == WithTotals(s.validators, DataBlock(s), n, BeforeOf(s, n), s.current.burn)
<1>0. ~IsEvent(piece, "NewTerm") /\ ~IsEvent(piece, "NewSession") /\ ~IsEvent(piece, "Burnt")
  BY DEF IsEvent
<1>1. u = IF TimeLost(DataBlock(s), n) THEN [s EXCEPT !.raised = TRUE] ELSE [s EXCEPT !.current = new]
  BY DEF Done, TotalDone
<1>2. DOMAIN new = TotalFields /\ new.burn = s.current.burn
  BY DEF WithTotals, TotalFields
<1>3. CASE TimeLost(DataBlock(s), n)
  <2>1. OnlyChanges(u, s, {"raised"}) /\ u.raised
    BY <1>1, <1>3 DEF OnlyChanges, IsLedger, HasFields, LedgerFields
  <2> HIDE DEF u
  <2>2. /\ u.accounts = s.accounts /\ u.zero = s.zero /\ u.genesis = s.genesis
        /\ u.totals = s.totals /\ u.current = s.current
    BY <2>1 DEF OnlyChanges, LedgerFields
  <2>3. IsLedger(u)
    BY <2>1, <2>2 DEF IsLedger, OnlyChanges
  <2>4. ToAccounts(u, s, n, shown, piece)
    BY <1>0, <2>2, NotOfAccounts
  <2>5. ToTotals(u, s, n, piece)
    BY <1>0, <2>1, <2>2 DEF ToTotals
  <2>6. QED  BY <2>3, <2>4, <2>5 DEF PieceDone, u
<1>4. CASE ~TimeLost(DataBlock(s), n)
  <2> HIDE DEF new
  <2>1. OnlyChanges(u, s, {"current"}) /\ u.current = new
    BY <1>1, <1>4 DEF OnlyChanges, IsLedger, HasFields, LedgerFields
  <2> HIDE DEF u
  <2>2. /\ u.accounts = s.accounts /\ u.zero = s.zero /\ u.genesis = s.genesis
        /\ u.totals = s.totals
    BY <2>1 DEF OnlyChanges, LedgerFields
  <2>3. IsLedger(u)
    BY <1>2, <2>1, <2>2 DEF IsLedger, OnlyChanges
  <2>4. ToAccounts(u, s, n, shown, piece)
    BY <1>0, <2>2, NotOfAccounts
  <2>5. DataBlock(u) = DataBlock(s) /\ BeforeOf(u, n) = BeforeOf(s, n)
    BY <2>2 DEF DataBlock, BeforeOf
  <2>6. TotalsSet(u, n)
    BY <1>4, <2>1, <2>5 DEF TotalsSet, new
  <2>7. ToTotals(u, s, n, piece)
    BY <1>0, <1>2, <2>1, <2>2, <2>6 DEF ToTotals
  <2>8. QED  BY <2>3, <2>4, <2>7 DEF PieceDone, u
<1>5. QED  BY <1>3, <1>4

\* A piece by which roles pass to accounts.
LEMMA RolePiece ==
  ASSUME NEW s, IsLedger(s), NEW n, NEW shown, NEW piece, NEW role, NEW accounts, NEW u,
         u = SetRole(s, role, accounts), PieceRoles(piece) = {role},
         piece.hook \in {"call", "event"}, ~IsEvent(piece, "NewSession"), ~IsEvent(piece, "Burnt"),
         IsEvent(piece, "NewTerm") => role = "council" /\ accounts = ToSet(piece.row.members)
  PROVE  PieceDone(u, s, n, shown, piece)
<1>1. /\ OnlyChanges(u, s, {"accounts"}) /\ AccountsKept(u, s, n, PieceRoles(piece))
      /\ RoleGiven(u, role, accounts) /\ DOMAIN u.accounts = DOMAIN s.accounts
  BY SetRoleKeeps
<1>2. IsLedger(u)
  BY <1>1, StaysLedger
<1>3. ToAccounts(u, s, n, shown, piece)
  BY <1>1 DEF ToAccounts
<1>4. ToTotals(u, s, n, piece)
  <2>1. {"accounts"} \subseteq LedgerFields \ {"totals", "current", "zero", "genesis"}
    BY DEF LedgerFields
  <2>2. piece.hook \notin {"old", "total"}
    OBVIOUS
  <2>3. QED  BY <1>1, <2>1, <2>2, NotOfTotals
<1>5. QED  BY <1>2, <1>3, <1>4 DEF PieceDone

LEMMA CallPiece ==
  ASSUME NEW s, IsLedger(s), NEW n, NEW shown, NEW piece, piece.hook = "call"
  PROVE  PieceDone(Done(s, n, shown, piece), s, n, shown, piece)
<1> DEFINE u == Done(s, n, shown, piece)
           x == content[n].extrinsics[piece.row]
<1>0. ~IsEvent(piece, "NewTerm") /\ ~IsEvent(piece, "NewSession") /\ ~IsEvent(piece, "Burnt")
      /\ ~IsEvent(piece, "RegistrarAdded")
  BY DEF IsEvent
<1>1. u = s \/ u = SetRole(s, "sudo", {x.params[1]})
  BY DEF Done, CallDone, SudoSetKey
<1>2. PieceRoles(piece) = {"sudo"}
  BY <1>0 DEF PieceRoles
<1> HIDE DEF u
<1>3. CASE u = s
  <2>1. ToAccounts(u, s, n, shown, piece)
    BY <1>0, <1>3, NotOfAccounts
  <2>2. ToTotals(u, s, n, piece)
    BY <1>0, <1>3 DEF ToTotals
  <2>3. QED  BY <1>3, <2>1, <2>2 DEF PieceDone, u
<1>4. CASE u = SetRole(s, "sudo", {x.params[1]})
  <2> DEFINE accounts == {x.params[1]}
  <2> HIDE DEF accounts
  <2>1. u = SetRole(s, "sudo", accounts)
    BY <1>4 DEF accounts
  <2>2. PieceDone(u, s, n, shown, piece)
    BY <1>0, <1>2, <2>1, RolePiece
  <2>3. QED  BY <2>2 DEF u
<1>5. QED  BY <1>1, <1>3, <1>4

LEMMA EventPiece ==
  ASSUME NEW s, IsLedger(s), NEW n, NEW shown, NEW piece, piece.hook = "event"
  PROVE  PieceDone(Done(s, n, shown, piece), s, n, shown, piece)
<1> DEFINE u == Done(s, n, shown, piece)
           e == piece.row
<1>1. \A kind : IsEvent(piece, kind) <=> e.kind = kind
  BY DEF IsEvent
<1>2. u = EventDone(s, n, shown, e)
  BY DEF Done
<1>3. CASE e.kind = "NewTerm"
  <2> DEFINE accounts == ToSet(e.members)
  <2>1. u = SetRole(s, "council", accounts)
    BY <1>2, <1>3 DEF EventDone, CouncilNewTerm
  <2>2. PieceRoles(piece) = {"council"}
    BY <1>1, <1>3 DEF PieceRoles
  <2>3. accounts = ToSet(piece.row.members)
    OBVIOUS
  <2> HIDE DEF u, accounts
  <2>4. PieceDone(u, s, n, shown, piece)
    BY <1>1, <1>3, <2>1, <2>2, <2>3, RolePiece
  <2>5. QED  BY <2>4 DEF u
<1>4. CASE e.kind = "RegistrarAdded"
  <2>1. u = SetRole(s, "registrar", Registrars)
    BY <1>2, <1>4 DEF EventDone, RegistrarAdded
  <2>2. PieceRoles(piece) = {"registrar"}
    BY <1>1, <1>4 DEF PieceRoles
  <2> HIDE DEF u
  <2>3. PieceDone(u, s, n, shown, piece)
    BY <1>1, <1>4, <2>1, <2>2, RolePiece
  <2>4. QED  BY <2>3 DEF u
<1>5. CASE e.kind = "NewSession"
  <2> DEFINE e1 == SessionShown(e, shown)
  <2>1. u = NewSession(s, n, e1, NewHandler(n))
    BY <1>2, <1>5 DEF EventDone
  <2>2. PieceRoles(piece) = SessionRoles
    BY <1>1, <1>5 DEF PieceRoles
  <2> HIDE DEF u, e1
  <2>3. SessionAdded(u, s, n, e1)
    BY <2>1, NewSessionKeeps
  <2>4. IsLedger(u)
    <3>1. {"totals", "current"} \cap SessionFields = {}
      BY DEF SessionFields
    <3>2. QED  BY <2>3, <3>1, StaysLedger DEF SessionAdded
  <2>5. ToAccounts(u, s, n, shown, piece)
    BY <1>1, <1>5, <2>2, <2>3 DEF ToAccounts, SessionAdded, e1
  <2>6. ToTotals(u, s, n, piece)
    <3>1. SessionFields \subseteq LedgerFields \ {"totals", "current", "zero", "genesis"}
      BY DEF SessionFields, LedgerFields
    <3>2. QED  BY <1>1, <1>5, <2>3, <3>1, NotOfTotals DEF SessionAdded
  <2>7. QED  BY <2>4, <2>5, <2>6 DEF PieceDone, u
<1>6. CASE e.kind = "Burnt"
  <2> DEFINE burn == BurnTotal(BeforeOf(s, n), e.value, Burns)
  <2>1. u = [s EXCEPT !.current.burn = burn]
    BY <1>2, <1>6 DEF EventDone
  <2> HIDE DEF burn
  <2>2. OnlyChanges(u, s, {"current"}) /\ u.current = [s.current EXCEPT !.burn = burn]
    BY <2>1 DEF OnlyChanges, IsLedger, HasFields, LedgerFields
  <2> HIDE DEF u
  <2>3. /\ u.accounts = s.accounts /\ u.zero = s.zero /\ u.genesis = s.genesis
        /\ u.totals = s.totals
    BY <2>2 DEF OnlyChanges, LedgerFields
  <2>4. IsLedger(u)
    BY <2>2, <2>3 DEF IsLedger, OnlyChanges
  <2>5. ToAccounts(u, s, n, shown, piece)
    BY <1>1, <1>6, <2>3, NotOfAccounts
  <2>6. ToTotals(u, s, n, piece)
    BY <1>1, <1>6, <2>2, <2>3 DEF ToTotals, IsLedger, TotalFields, burn
  <2>7. QED  BY <2>4, <2>5, <2>6 DEF PieceDone, u
<1>7. CASE e.kind \notin {"NewTerm", "RegistrarAdded", "NewSession", "Burnt"}
  <2>1. u = s
    BY <1>2, <1>7 DEF EventDone
  <2>2. ToAccounts(u, s, n, shown, piece)
    BY <1>1, <1>7, <2>1, NotOfAccounts
  <2>3. ToTotals(u, s, n, piece)
    BY <1>1, <1>7, <2>1 DEF ToTotals
  <2>4. QED  BY <2>1, <2>2, <2>3 DEF PieceDone
<1>8. QED  BY <1>3, <1>4, <1>5, <1>6, <1>7

\* The pieces there are for block n.
IsPiece(n, piece) ==
  /\ piece.hook \in {"genesis", "old", "audit", "indexed", "index", "info", "identity",
                     "judgement", "total", "call", "event"}
  /\ piece.hook = "genesis" => n = 0 /\ piece.row \in GenesisParts

LEMMA PieceKeeps ==
  ASSUME NEW s, IsLedger(s), NEW n, NEW shown, NEW piece, IsPiece(n, piece)
  PROVE  PieceDone(Done(s, n, shown, piece), s, n, shown, piece)
BY GenesisPiece, OldPiece, AccountPieces, TotalPiece, CallPiece, EventPiece DEF IsPiece

------------------------------------------------------------------------------
(* The pieces of a list, one after the other.                              *)

AfterStep(a, k, u) == IF Stopped(u) THEN u ELSE Done(u, a.n, a.shown, a.pieces[k])

Working == INSTANCE Recursion WITH Step <- AfterStep, Pick <- Max

LEMMA AfterIterates ==
  ASSUME NEW s, NEW n, NEW shown, NEW pieces, IsList(pieces)
  PROVE  \E iter : /\ Working!Iterates(iter, [n |-> n, shown |-> shown, pieces |-> pieces], s,
                                       DOMAIN pieces)
                   /\ After(s, n, shown, pieces) = iter[DOMAIN pieces]
<1> DEFINE S == DOMAIN pieces
           a == [n |-> n, shown |-> shown, pieces |-> pieces]
           Folds(g) ==
             g = [x \in SUBSET S |->
                    IF x = {} THEN s
                    ELSE IF Stopped(g[x \ {Max(x)}]) THEN g[x \ {Max(x)}]
                         ELSE Done(g[x \ {Max(x)}], n, shown, pieces[Max(x)])]
<1>0. /\ Working!Sized(S)
      /\ \A x \in SUBSET S : x # {} => Max(x) \in x
  BY LastIsMember DEF Working!Sized, Indexing!Sized
<1>1. PICK iter : Working!Iterates(iter, a, s, S)
  <2> HIDE DEF a
  <2>1. QED  BY <1>0, Working!IterationExists
<1>2. \A g : Folds(g) <=> Working!Iterates(g, a, s, S)
  BY DEF Working!Iterates, AfterStep
<1>3. After(s, n, shown, pieces) = (CHOOSE g : Folds(g))[S]
  BY DEF After, FoldLeft, MapThenFoldSet
<1>4. Folds(CHOOSE g : Folds(g))
  <2> HIDE DEF Folds
  <2>1. QED  BY <1>1, <1>2, Zenon
<1> HIDE DEF Folds
<1>5. QED  BY <1>2, <1>3, <1>4

LEMMA MaxUpTo ==
  ASSUME NEW k \in Nat, k > 0
  PROVE  Max(1 .. k) = k
<1>1. k \in 1 .. k /\ \A j \in 1 .. k : k >= j
  OBVIOUS
<1>2. \A m \in 1 .. k : (\A j \in 1 .. k : m >= j) => m = k
  BY <1>1
<1>3. QED  BY <1>1, <1>2 DEF Max

\* run holds the ledger after each of the pieces.
IsRun(run, s, n, shown, pieces) ==
  /\ run[0] = s
  /\ \A k \in 1 .. Len(pieces) :
       run[k] = IF Stopped(run[k - 1]) THEN run[k - 1] ELSE Done(run[k - 1], n, shown, pieces[k])

LEMMA AfterIsRun ==
  ASSUME NEW s, NEW n, NEW shown, NEW pieces, IsList(pieces)
  PROVE  \E run : /\ IsRun(run, s, n, shown, pieces)
                  /\ After(s, n, shown, pieces) = run[Len(pieces)]
<1> DEFINE a == [n |-> n, shown |-> shown, pieces |-> pieces]
<1>1. Len(pieces) \in Nat /\ DOMAIN pieces = 1 .. Len(pieces)
  BY ListDomain
<1>2. PICK iter : /\ Working!Iterates(iter, a, s, 1 .. Len(pieces))
                  /\ After(s, n, shown, pieces) = iter[1 .. Len(pieces)]
  BY <1>1, AfterIterates
<1>3. \A k \in 1 .. Len(pieces) : Max(1 .. k) = k
  BY <1>1, MaxUpTo
<1>4. \A k, u : AfterStep(a, k, u) = IF Stopped(u) THEN u ELSE Done(u, n, shown, pieces[k])
  BY DEF AfterStep
<1> HIDE DEF a
<1>5. PICK run : /\ run[0] = s /\ run[Len(pieces)] = iter[1 .. Len(pieces)]
                 /\ \A k \in 1 .. Len(pieces) : run[k] = AfterStep(a, k, run[k - 1])
  BY <1>1, <1>2, <1>3, Working!RunExists
<1>6. IsRun(run, s, n, shown, pieces)
  BY <1>4, <1>5 DEF IsRun
<1>7. QED  BY <1>2, <1>5, <1>6

\* What a list of pieces leaves of the accounts and the totals, piece by piece.
ArePieces(n, pieces) == IsList(pieces) /\ \A k \in DOMAIN pieces : IsPiece(n, pieces[k])

RunKept(run, n, shown, pieces) ==
  /\ \A k \in 0 .. Len(pieces) : IsLedger(run[k])
  /\ \A k \in 1 .. Len(pieces) :
       run[k] = run[k - 1] \/ PieceDone(run[k], run[k - 1], n, shown, pieces[k])
  /\ \A k \in 1 .. Len(pieces) :
       ~Stopped(run[k]) =>
         ~Stopped(run[k - 1]) /\ PieceDone(run[k], run[k - 1], n, shown, pieces[k])

LEMMA RunKeeps ==
  ASSUME NEW run, NEW s, IsLedger(s), NEW n, NEW shown, NEW pieces, ArePieces(n, pieces),
         IsRun(run, s, n, shown, pieces)
  PROVE  RunKept(run, n, shown, pieces)
<1> DEFINE len == Len(pieces)
           G == {k \in 0 .. len : IsLedger(run[k])}
<1>1. len \in Nat /\ DOMAIN pieces = 1 .. len
  BY ListDomain DEF ArePieces
<1>2. 0 \in G
  BY <1>1 DEF IsRun
<1>3. ASSUME NEW k \in 1 .. len, IsLedger(run[k - 1])
      PROVE  /\ run[k] = run[k - 1] \/ PieceDone(run[k], run[k - 1], n, shown, pieces[k])
             /\ ~Stopped(run[k]) =>
                  ~Stopped(run[k - 1]) /\ PieceDone(run[k], run[k - 1], n, shown, pieces[k])
  <2>1. IsPiece(n, pieces[k])
    BY <1>1 DEF ArePieces
  <2>2. PieceDone(Done(run[k - 1], n, shown, pieces[k]), run[k - 1], n, shown, pieces[k])
    BY <1>3, <2>1, PieceKeeps
  <2>3. run[k] = IF Stopped(run[k - 1]) THEN run[k - 1] ELSE Done(run[k - 1], n, shown, pieces[k])
    BY DEF IsRun
  <2>4. QED  BY <2>2, <2>3
<1>4. ASSUME NEW k \in 0 .. len - 1, k \in G PROVE k + 1 \in G
  <2>1. k + 1 \in 1 .. len /\ (k + 1) - 1 = k /\ k + 1 \in 0 .. len
    BY <1>1
  <2>2. run[k + 1] = run[k] \/ PieceDone(run[k + 1], run[k], n, shown, pieces[k + 1])
    BY <1>3, <1>4, <2>1
  <2>3. QED  BY <1>4, <2>1, <2>2 DEF PieceDone
<1>5. \A k \in 0 .. len : k \in G
  <2> HIDE DEF G
  <2>1. QED  BY <1>1, <1>2, <1>4, Working!CountUp
<1>6. \A k \in 1 .. len : k - 1 \in 0 .. len
  BY <1>1
<1>7. QED  BY <1>3, <1>5, <1>6 DEF RunKept

------------------------------------------------------------------------------
(* What is stored of a block is finite.                                    *)

AuditTables == {"audits", "indices", "identities", "judgements", "fresh", "gone"}

FewRows(u) ==
  /\ HasTables(u)
  /\ \A f \in AuditTables : IsFiniteSet(u[f])
  /\ \A r \in u.audits : r[5] = Null

OneRow(table) == table = {} \/ \E x : table = {x}

\* One row at most for each, and an audit of an account has no data.
AddsFew(u) == (\A f \in AuditTables : OneRow(u[f])) /\ \A r \in u.audits : r[5] = Null

LEMMA HookAddsFew ==
  ASSUME NEW n, NEW i, NEW e
  PROVE  AddsFew(AccumulationHook(NoTables, n, i, e))
<1>1. ASSUME NEW t, HasTables(t), \A f \in AuditTables : t[f] = {}
      PROVE  AddsFew(AccumulationHook(t, n, i, e))
  <2> DEFINE u == AccumulationHook(t, n, i, e)
  <2> USE <1>1 DEF AddsFew, OneRow, AuditTables, HasTables, TableNames, Audit
  <2>1. CASE e.kind = "NewAccount"
    <3>1. u = NewAccount(t, n, i, e)
      BY <2>1 DEF AccumulationHook
    <3> HIDE DEF u
    <3>2. OneRow(u.audits) /\ OneRow(u.fresh)
      BY <3>1 DEF NewAccount
    <3>3. \A f \in AuditTables \ {"audits", "fresh"} : u[f] = {}
      BY <3>1 DEF NewAccount
    <3>4. \A r \in u.audits : r[5] = Null
      BY <3>1 DEF NewAccount
    <3>5. AddsFew(u)
      BY <3>2, <3>3, <3>4
    <3>6. QED  BY <3>5 DEF u
  <2>2. CASE e.kind = "KilledAccount"
    <3>1. u = KilledAccount(t, n, i, e)
      BY <2>2 DEF AccumulationHook
    <3> HIDE DEF u
    <3>2. OneRow(u.audits) /\ OneRow(u.gone)
      BY <3>1 DEF KilledAccount
    <3>3. \A f \in AuditTables \ {"audits", "gone"} : u[f] = {}
      BY <3>1 DEF KilledAccount
    <3>4. \A r \in u.audits : r[5] = Null
      BY <3>1 DEF KilledAccount
    <3>5. AddsFew(u)
      BY <3>2, <3>3, <3>4
    <3>6. QED  BY <3>5 DEF u
  <2>3. CASE e.kind = "ReapedAccount"
    <3>1. u = ReapedAccount(t, n, i, e)
      BY <2>3 DEF AccumulationHook
    <3> HIDE DEF u
    <3>2. OneRow(u.audits) /\ OneRow(u.indices) /\ OneRow(u.gone)
      BY <3>1 DEF ReapedAccount
    <3>3. \A f \in AuditTables \ {"audits", "indices", "gone"} : u[f] = {}
      BY <3>1 DEF ReapedAccount
    <3>4. \A r \in u.audits : r[5] = Null
      BY <3>1 DEF ReapedAccount
    <3>5. AddsFew(u)
      BY <3>2, <3>3, <3>4
    <3>6. QED  BY <3>5 DEF u
  <2>4. CASE e.kind = "IndexAssigned"
    <3>1. u = IndexAssigned(t, n, i, e)
      BY <2>4 DEF AccumulationHook
    <3> HIDE DEF u
    <3>2. AddsFew(u)
      BY <3>1 DEF IndexAssigned
    <3>3. QED  BY <3>2 DEF u
  <2>5. CASE e.kind = "NewAccountIndex"
    <3>1. u = NewAccountIndex(t, n, i, e)
      BY <2>5 DEF AccumulationHook
    <3> HIDE DEF u
    <3>2. AddsFew(u)
      BY <3>1 DEF NewAccountIndex
    <3>3. QED  BY <3>2 DEF u
  <2>6. CASE e.kind = "IndexFreed"
    <3>1. u = IndexFreed(t, n, i, e)
      BY <2>6 DEF AccumulationHook
    <3> HIDE DEF u
    <3>2. AddsFew(u)
      BY <3>1 DEF IndexFreed
    <3>3. QED  BY <3>2 DEF u
  <2>7. CASE e.kind = "IdentitySet"
    <3>1. u = IdentitySet(t, n, i, e)
      BY <2>7 DEF AccumulationHook
    <3> HIDE DEF u
    <3>2. AddsFew(u)
      BY <3>1 DEF IdentitySet, IdentityAudit
    <3>3. QED  BY <3>2 DEF u
  <2>8. CASE e.kind = "IdentityCleared"
    <3>1. u = IdentityCleared(t, n, i, e)
      BY <2>8 DEF AccumulationHook
    <3> HIDE DEF u
    <3>2. AddsFew(u)
      BY <3>1 DEF IdentityCleared, IdentityAudit
    <3>3. QED  BY <3>2 DEF u
  <2>9. CASE e.kind = "IdentityKilled"
    <3>1. u = IdentityKilled(t, n, i, e)
      BY <2>9 DEF AccumulationHook
    <3> HIDE DEF u
    <3>2. AddsFew(u)
      BY <3>1 DEF IdentityKilled, IdentityAudit
    <3>3. QED  BY <3>2 DEF u
  <2>10. CASE e.kind = "JudgementGiven"
    <3>1. u = JudgementGiven(t, n, i, e)
      BY <2>10 DEF AccumulationHook
    <3> HIDE DEF u
    <3>2. AddsFew(u)
      BY <3>1 DEF JudgementGiven
    <3>3. QED  BY <3>2 DEF u
  <2>11. CASE e.kind \notin
                {"NewAccount", "KilledAccount", "ReapedAccount", "IndexAssigned",
                 "NewAccountIndex", "IndexFreed", "IdentitySet", "IdentityCleared",
                 "IdentityKilled", "JudgementGiven"}
    <3>1. \A f \in AuditTables : u[f] = {}
      <4> HIDE DEF AddsFew, OneRow, Audit
      <4>1. ASSUME NEW v, v = CodeStored(t, n, i, e) PROVE \A f \in AuditTables : v[f] = {}
        BY <4>1 DEF CodeStored
      <4>2. ASSUME NEW v, v = AggregatedPrice(t, n, e) PROVE \A f \in AuditTables : v[f] = {}
        BY <4>2 DEF AggregatedPrice
      <4>3. ASSUME NEW v, v = NewPurchasedRequest(t, n, e) PROVE \A f \in AuditTables : v[f] = {}
        BY <4>3 DEF NewPurchasedRequest
      <4>4. ASSUME NEW v, v = EndOfAskEra(t, n, e) PROVE \A f \in AuditTables : v[f] = {}
        BY <4>4 DEF EndOfAskEra
      <4>5. ASSUME NEW v, v = PayForPurchase(t, n, e) PROVE \A f \in AuditTables : v[f] = {}
        BY <4>5 DEF PayForPurchase
      <4>6. ASSUME NEW v, v = PurchasedAvgPrice(t, n, e) PROVE \A f \in AuditTables : v[f] = {}
        BY <4>6 DEF PurchasedAvgPrice
      <4>7. ASSUME NEW v, v = NewEstimates(t, n, e) PROVE \A f \in AuditTables : v[f] = {}
        BY <4>7 DEF NewEstimates
      <4>8. ASSUME NEW v, v = ActiveEstimates(t, n, e) PROVE \A f \in AuditTables : v[f] = {}
        BY <4>8 DEF ActiveEstimates
      <4>9. ASSUME NEW v, v = CompletedEstimates(t, n, e) PROVE \A f \in AuditTables : v[f] = {}
        BY <4>9 DEF CompletedEstimates
      <4>10. ASSUME NEW v, v = ParticipateEstimates(t, n, e) PROVE \A f \in AuditTables : v[f] = {}
        BY <4>10 DEF ParticipateEstimates
      <4>11. ASSUME NEW v, v = ValidatorChecks(t, e) PROVE \A f \in AuditTables : v[f] = {}
        BY <4>11 DEF ValidatorChecks
      <4>12. \/ u = t \/ u = CodeStored(t, n, i, e) \/ u = AggregatedPrice(t, n, e)
             \/ u = NewPurchasedRequest(t, n, e) \/ u = EndOfAskEra(t, n, e)
             \/ u = PayForPurchase(t, n, e) \/ u = PurchasedAvgPrice(t, n, e)
             \/ u = NewEstimates(t, n, e) \/ u = ActiveEstimates(t, n, e)
             \/ u = CompletedEstimates(t, n, e) \/ u = ParticipateEstimates(t, n, e)
             \/ u = ValidatorChecks(t, e)
        BY <2>11 DEF AccumulationHook
      <4> HIDE DEF u
      <4>13. QED  BY <4>1, <4>2, <4>3, <4>4, <4>5, <4>6, <4>7, <4>8, <4>9, <4>10, <4>11, <4>12
    <3> HIDE DEF u
    <3>2. AddsFew(u)
      BY <3>1
    <3>3. QED  BY <3>2 DEF u
  <2>12. QED  BY <2>1, <2>2, <2>3, <2>4, <2>5, <2>6, <2>7, <2>8, <2>9, <2>10, <2>11
<1>2. \A f \in AuditTables : NoTables[f] = {}
  BY DEF NoTables, AuditTables
<1> HIDE DEF AddsFew
<1>3. QED  BY <1>1, <1>2, NoTablesAreTables

LEMMA HookStepFew ==
  ASSUME NEW v, FewRows(v), NEW n, NEW c, NEW i
  PROVE  FewRows(HookStep(OfBlock(n, c), i, v))
<1> DEFINE e == c.events[i]
           u == AccumulationHook(v, n, i, e)
           new == AccumulationHook(NoTables, n, i, e)
           w == HookStep(OfBlock(n, c), i, v)
<1>1. HasTables(v)
  BY DEF FewRows
<1>2. HookDone(u, v, new)
  BY <1>1, HookAdds
<1>3. AddsFew(new)
  BY HookAddsFew
<1>4. HasTables(u)
  BY <1>2 DEF HookDone
<1>5. SameButIndex(w, u)
  BY <1>4, AddIndexOnly DEF HookStep, OfBlock
<1> HIDE DEF u, w, new
<1>6. ASSUME NEW f \in AuditTables PROVE w[f] = v[f] \cup new[f] /\ IsFiniteSet(w[f])
  <2>1. w[f] = v[f] \cup new[f]
    BY <1>2, <1>5 DEF HookDone, HookTables, AuditTables, SameButIndex, TableNames
  <2>2. IsFiniteSet(new[f])
    BY <1>3, FS_EmptySet, FS_Singleton DEF OneRow, AddsFew
  <2>3. IsFiniteSet(v[f])
    BY DEF FewRows
  <2>4. QED  BY <2>1, <2>2, <2>3, FS_Union
<1>7. \A r \in w.audits : r[5] = Null
  BY <1>3, <1>6 DEF FewRows, AuditTables, AddsFew
<1>8. QED  BY <1>5, <1>6, <1>7 DEF FewRows, SameButIndex, w

LEMMA HooksFew ==
  ASSUME NEW v, FewRows(v), NEW n, NEW c, IsList(c.events)
  PROVE  FewRows(RunEventHooks(v, n, c))
<1> DEFINE S == DOMAIN c.events
           a == OfBlock(n, c)
<1>1. PICK iter : Hooking!Iterates(iter, a, v, S) /\ RunEventHooks(v, n, c) = iter[S]
  BY HooksIterate
<1>2. Hooking!Sized(S) /\ \A s \in SUBSET S : s # {} => Max(s) \in s
  BY LastIsMember DEF Hooking!Sized, Indexing!Sized
<1> DEFINE G == {s \in SUBSET S : FewRows(iter[s])}
<1>3. {} \in G
  BY <1>1 DEF Hooking!Iterates
<1>4. ASSUME NEW s \in SUBSET S, s # {}, s \ {Max(s)} \in G PROVE s \in G
  <2> DEFINE u == iter[s \ {Max(s)}]
  <2>1. iter[s] = HookStep(a, Max(s), u)
    BY <1>1, <1>4 DEF Hooking!Iterates
  <2>2. FewRows(u)
    BY <1>4
  <2> HIDE DEF u
  <2>3. QED  BY <2>1, <2>2, HookStepFew
<1>5. S \in G
  <2> HIDE DEF G, S, a
  <2>1. QED  BY <1>2, <1>3, <1>4, Hooking!IterationKeeps
<1>6. QED  BY <1>1, <1>5 DEF S

LEMMA GatheredFew ==
  ASSUME NEW n, NEW c, IsList(c.events), IsList(c.extrinsics)
  PROVE  FewRows(Gathered(NoTables, n, c))
<1> DEFINE t1 == SaveEvents(NoTables, n, c)
           t2 == SaveExtrinsics(t1, n, c)
           t3 == RunEventHooks(t2, n, c)
           t4 == SaveLogs(t3, n, c)
<1>1. HasTables(t1) /\ \A f \in AuditTables : t1[f] = {}
  BY NoTablesAreTables DEF SaveEvents, HasTables, TableNames, NoTables, AuditTables
<1> HIDE DEF t1
<1>2. Called(t2, t1, n, c, DOMAIN c.extrinsics)
  BY <1>1, CallsAreRows
<1> HIDE DEF t2
<1>3. HasTables(t2) /\ \A f \in AuditTables : t2[f] = {}
  BY <1>1, <1>2 DEF Called, AuditTables, TableNames
<1>4. FewRows(t2)
  BY <1>3, FS_EmptySet DEF FewRows, AuditTables
<1>5. FewRows(t3)
  BY <1>4, HooksFew
<1> HIDE DEF t3
<1>6. HasTables(t4) /\ \A f \in TableNames \ {"logs"} : t4[f] = t3[f]
  BY <1>5 DEF SaveLogs, HasTables, TableNames, FewRows
<1> HIDE DEF t4
<1>7. FewRows(t4)
  BY <1>5, <1>6 DEF FewRows, AuditTables, TableNames
<1>8. QED  BY <1>7 DEF Gathered, t1, t2, t3, t4

\* A set that is listed by a finite one is finite.
LEMMA ListedIsFinite ==
  ASSUME NEW S, IsFiniteSet(S), NEW T, NEW f, \A y \in T : \E x \in S : f[x] = y
  PROVE  IsFiniteSet(T)
<1> DEFINE U == {x \in S : f[x] \in T}
           g == [x \in U |-> f[x]]
<1>1. IsFiniteSet(U)
  BY FS_Subset
<1>2. g \in Surjection(U, T)
  BY DEF Surjection
<1> HIDE DEF U, g
<1>3. QED  BY <1>1, <1>2, FS_Surjection

LEMMA SlotsAreFinite ==
  ASSUME NEW c, IsList(c.events), IsList(c.extrinsics)
  PROVE  IsFiniteSet(Slots(c))
<1>1. IsFiniteSet(DOMAIN c.events) /\ IsFiniteSet(DOMAIN c.extrinsics)
  BY ListDomain
<1>2. ASSUME NEW D, IsFiniteSet(D), NEW name PROVE IsFiniteSet({<<name, i>> : i \in D})
  <2> DEFINE f == [i \in D |-> <<name, i>>]
             T == {<<name, i>> : i \in D}
  <2>1. \A y \in T : \E x \in D : f[x] = y
    OBVIOUS
  <2> HIDE DEF f, T
  <2>2. IsFiniteSet(T)
    BY <1>2, <2>1, ListedIsFinite
  <2>3. QED  BY <2>2 DEF T
<1>3. /\ IsFiniteSet({<<"signed", i>> : i \in DOMAIN c.extrinsics})
      /\ IsFiniteSet({<<"extrinsic", i>> : i \in DOMAIN c.extrinsics})
      /\ IsFiniteSet({<<"event", i>> : i \in DOMAIN c.events})
  BY <1>1, <1>2
<1>4. QED  BY <1>3, FS_Union DEF Slots

LEMMA IndexIsFinite ==
  ASSUME NEW n, NEW c, IsBlock(c)
  PROVE  IsFiniteSet(IndexedAt(WithBlock(NoTables, n, c), n))
<1> DEFINE keys(from) == KeysAt(n, from, AccountsAt(c, from))
           All == {keys(from) : from \in Slots(c)}
           rows == WithBlock(NoTables, n, c).index
           them == {k \in DOMAIN rows : k[1] = n}
<1>1. ASSUME NEW from \in Slots(c) PROVE IsFiniteSet(keys(from))
  <2> DEFINE accounts == AccountsAt(c, from)
             f == [i \in DOMAIN accounts |-> <<n, from, accounts[i]>>]
             T == keys(from)
  <2>1. IsFiniteSet(DOMAIN accounts)
    BY AccountsAreLists, ListDomain
  <2>2. \A y \in T : \E x \in DOMAIN accounts : f[x] = y
    BY DEF KeysAt
  <2> HIDE DEF f, T, accounts
  <2>3. IsFiniteSet(T)
    BY <2>1, <2>2, ListedIsFinite
  <2>4. QED  BY <2>3 DEF T
<1>2. IsFiniteSet(All)
  <2> DEFINE f == [from \in Slots(c) |-> keys(from)]
  <2>1. IsFiniteSet(Slots(c))
    BY SlotsAreFinite DEF IsBlock
  <2>2. \A y \in All : \E x \in Slots(c) : f[x] = y
    OBVIOUS
  <2> HIDE DEF f, All
  <2>3. QED  BY <2>1, <2>2, ListedIsFinite
<1>3. IsFiniteSet(UNION All)
  <2>1. \A T \in All : IsFiniteSet(T)
    BY <1>1
  <2> HIDE DEF All
  <2>2. QED  BY <1>2, <2>1, FS_UNION
<1>4. DOMAIN rows = UNION All
  <2>1. DOMAIN rows = DOMAIN NoTables.index \cup KeysOf(n, c, Slots(c))
    BY NoTablesAreTables, AddsIndex DEF IndexedOver, AddsOnly
  <2>2. DOMAIN NoTables.index = {}
    BY DEF NoTables, NoRows
  <2>3. QED  BY <2>1, <2>2 DEF KeysOf
<1> HIDE DEF rows, All
<1>5. IsFiniteSet(them)
  BY <1>3, <1>4, FS_Subset
<1> DEFINE account == [k \in them |-> k[3]]
           T == {k[3] : k \in them}
<1>6. \A y \in T : \E x \in them : account[x] = y
  OBVIOUS
<1> HIDE DEF account, them, T
<1>7. IsFiniteSet(T)
  BY <1>5, <1>6, ListedIsFinite
<1>8. QED  BY <1>7 DEF T, them, rows, IndexedAt

------------------------------------------------------------------------------
(* Lists.                                                                  *)

\* a and b joined.
IsJoined(c, a, b) ==
  /\ IsList(c) /\ Len(c) = Len(a) + Len(b)
  /\ \A k \in 1 .. Len(a) : c[k] = a[k]
  /\ \A k \in 1 .. Len(b) : c[Len(a) + k] = b[k]

LEMMA JoinsLists ==
  ASSUME NEW a, IsList(a), NEW b, IsList(b)
  PROVE  IsJoined(a \o b, a, b)
<1> DEFINE T == {a[i] : i \in DOMAIN a} \cup {b[i] : i \in DOMAIN b}
           c == a \o b
<1>1. a \in Seq(T) /\ b \in Seq(T)
  BY DEF IsList
<1> HIDE DEF T
<1>2. c \in Seq(T) /\ Len(c) = Len(a) + Len(b)
  BY <1>1
<1>3. /\ \A k \in 1 .. Len(a) : c[k] = a[k]
      /\ \A k \in 1 .. Len(b) : c[Len(a) + k] = b[k]
  BY <1>1
<1> HIDE DEF c
<1>4. IsList(c)
  <2>1. DOMAIN c = 1 .. Len(c) /\ Len(c) \in Nat
    BY <1>2
  <2>2. c = [i \in 1 .. Len(c) |-> c[i]]
    BY <1>2, <2>1
  <2>3. \A i \in 1 .. Len(c) : c[i] \in {c[j] : j \in DOMAIN c}
    BY <2>1
  <2>4. QED  BY <2>1, <2>2, <2>3 DEF IsList
<1>5. QED  BY <1>2, <1>3, <1>4 DEF IsJoined, c

LEMMA FunctionIsList ==
  ASSUME NEW len \in Nat, NEW f, f = [i \in 1 .. len |-> f[i]]
  PROVE  IsList(f) /\ Len(f) = len
<1> DEFINE T == {f[i] : i \in DOMAIN f}
<1>1. f \in [1 .. len -> T]
  OBVIOUS
<1> HIDE DEF T
<1>2. f \in Seq(T)
  BY <1>1
<1>3. DOMAIN f = 1 .. len
  BY <1>1
<1>4. QED  BY <1>2, <1>3 DEF IsList, T

\* The rows of a set, in some order.
LEMMA ListsSet ==
  ASSUME NEW S, IsFiniteSet(S)
  PROVE  /\ IsList(SetToSeq(S))
         /\ \A k \in DOMAIN SetToSeq(S) : SetToSeq(S)[k] \in S
<1> DEFINE m == Cardinality(S)
           f == SetToSeq(S)
<1>1. m \in Nat /\ ExistsBijection(1 .. m, S)
  BY FS_CardinalityType
<1>2. \E g \in [1 .. m -> S] : IsInjective(g)
  BY <1>1 DEF ExistsBijection, Bijection, Injection
<1>3. f \in [1 .. m -> S]
  BY <1>2 DEF SetToSeq
<1> HIDE DEF f, m
<1>4. f = [i \in 1 .. m |-> f[i]]
  BY <1>3
<1>5. IsList(f)
  BY <1>1, <1>4, FunctionIsList
<1>6. QED  BY <1>3, <1>5 DEF f

\* The rows as pieces for a hook.
ArePiecesOf(pieces, hook, rows) ==
  /\ IsList(pieces) /\ Len(pieces) = Len(rows)
  /\ \A k \in DOMAIN pieces : k \in DOMAIN rows /\ pieces[k] = [hook |-> hook, row |-> rows[k]]

LEMMA PiecesAre ==
  ASSUME NEW rows, IsList(rows), NEW hook
  PROVE  ArePiecesOf(Pieces(hook, rows), hook, rows)
<1> DEFINE f == Pieces(hook, rows)
<1>1. Len(rows) \in Nat /\ DOMAIN rows = 1 .. Len(rows)
  BY ListDomain
<1>2. f = [i \in 1 .. Len(rows) |-> [hook |-> hook, row |-> rows[i]]]
  BY <1>1 DEF Pieces
<1> HIDE DEF f
<1>3. f = [i \in 1 .. Len(rows) |-> f[i]] /\ DOMAIN f = DOMAIN rows
  BY <1>1, <1>2
<1>4. IsList(f) /\ Len(f) = Len(rows)
  BY <1>1, <1>3, FunctionIsList
<1>5. QED  BY <1>1, <1>2, <1>3, <1>4 DEF ArePiecesOf, f

------------------------------------------------------------------------------
(* The audits of a block in the order of its events.                       *)

OrderStep(audits, i, rows) == rows \o SetToSeq({a \in audits : a[2] = i})

Ordering == INSTANCE Recursion WITH Step <- OrderStep, Pick <- Max

LEMMA OrderIterates ==
  ASSUME NEW n, NEW audits, IsList(content[n].events)
  PROVE  \E iter : /\ Ordering!Iterates(iter, audits, <<>>, DOMAIN content[n].events)
                   /\ InOrder(n, audits) = iter[DOMAIN content[n].events]
<1> DEFINE S == DOMAIN content[n].events
           Added(i, rows) == rows \o SetToSeq({a \in audits : a[2] = i})
           places == [i \in S |-> i]
           Folds(g) ==
             g = [s \in SUBSET S |->
                    IF s = {} THEN <<>> ELSE Added(places[Max(s)], g[s \ {Max(s)}])]
<1>0. /\ Ordering!Sized(S)
      /\ \A s \in SUBSET S : s # {} => Max(s) \in s
  BY LastIsMember DEF Ordering!Sized, Indexing!Sized
<1>1. PICK iter : Ordering!Iterates(iter, audits, <<>>, S)
  BY <1>0, Ordering!IterationExists
<1>2. \A g : Folds(g) <=> Ordering!Iterates(g, audits, <<>>, S)
  <2>1. \A i, rows : OrderStep(audits, i, rows) = Added(i, rows)
    BY DEF OrderStep
  <2>2. \A s \in SUBSET S : s # {} => places[Max(s)] = Max(s)
    BY <1>0
  <2> HIDE DEF Added, places
  <2>3. QED  BY <2>1, <2>2 DEF Ordering!Iterates
<1>3. DOMAIN places = S
  OBVIOUS
<1>4. InOrder(n, audits) = (CHOOSE g : Folds(g))[S]
  BY <1>3 DEF InOrder, FoldLeftDomain, FoldLeft, MapThenFoldSet
<1>5. Folds(CHOOSE g : Folds(g))
  <2> HIDE DEF Folds
  <2>1. QED  BY <1>1, <1>2, Zenon
<1> HIDE DEF Folds
<1>6. QED  BY <1>2, <1>4, <1>5

\* rows is a list of things from S.
ListFrom(rows, S) == IsList(rows) /\ \A k \in DOMAIN rows : rows[k] \in S

LEMMA JoinsFrom ==
  ASSUME NEW S, NEW a, ListFrom(a, S), NEW b, ListFrom(b, S)
  PROVE  ListFrom(a \o b, S)
<1> DEFINE c == a \o b
<1>1. IsJoined(c, a, b)
  BY JoinsLists DEF ListFrom
<1>2. /\ Len(a) \in Nat /\ DOMAIN a = 1 .. Len(a)
      /\ Len(b) \in Nat /\ DOMAIN b = 1 .. Len(b)
  BY ListDomain DEF ListFrom
<1> HIDE DEF c
<1>3. DOMAIN c = 1 .. Len(a) + Len(b)
  BY <1>1, ListDomain DEF IsJoined
<1>4. ASSUME NEW k \in DOMAIN c PROVE c[k] \in S
  <2>1. CASE k <= Len(a)
    <3>1. k \in 1 .. Len(a)
      BY <1>2, <1>3, <2>1
    <3>2. QED  BY <1>1, <1>2, <3>1 DEF IsJoined, ListFrom
  <2>2. CASE k > Len(a)
    <3>1. k - Len(a) \in 1 .. Len(b) /\ Len(a) + (k - Len(a)) = k
      BY <1>2, <1>3, <2>2
    <3>2. c[Len(a) + (k - Len(a))] = b[k - Len(a)]
      BY <1>1, <3>1 DEF IsJoined
    <3>3. QED  BY <1>2, <3>1, <3>2 DEF ListFrom
  <2>3. QED  BY <1>2, <1>3, <2>1, <2>2
<1>5. QED  BY <1>1, <1>4 DEF IsJoined, ListFrom, c

LEMMA OrderIsList ==
  ASSUME NEW n, NEW audits, IsList(content[n].events), IsFiniteSet(audits)
  PROVE  ListFrom(InOrder(n, audits), audits)
<1> DEFINE S == DOMAIN content[n].events
<1>1. PICK iter : Ordering!Iterates(iter, audits, <<>>, S) /\ InOrder(n, audits) = iter[S]
  BY OrderIterates
<1>2. Ordering!Sized(S) /\ \A s \in SUBSET S : s # {} => Max(s) \in s
  BY LastIsMember DEF Ordering!Sized, Indexing!Sized
<1> DEFINE G == {s \in SUBSET S : ListFrom(iter[s], audits)}
<1>3. {} \in G
  <2>1. iter[{}] = <<>>
    BY <1>1 DEF Ordering!Iterates
  <2>2. QED  BY <2>1, AreLists DEF ListFrom
<1>4. ASSUME NEW s \in SUBSET S, s # {}, s \ {Max(s)} \in G PROVE s \in G
  <2> DEFINE u == iter[s \ {Max(s)}]
             them == {a \in audits : a[2] = Max(s)}
  <2>1. iter[s] = OrderStep(audits, Max(s), u)
    BY <1>1, <1>4 DEF Ordering!Iterates
  <2>2. ListFrom(u, audits)
    BY <1>4
  <2>3. IsFiniteSet(them)
    BY FS_Subset
  <2>4. them \subseteq audits /\ iter[s] = u \o SetToSeq(them)
    BY <2>1 DEF OrderStep
  <2> HIDE DEF u, them
  <2>5. ListFrom(SetToSeq(them), audits)
    BY <2>3, <2>4, ListsSet DEF ListFrom
  <2>6. ListFrom(iter[s], audits)
    BY <2>2, <2>4, <2>5, JoinsFrom
  <2>7. QED  BY <2>6
<1>5. S \in G
  <2> HIDE DEF G, S
  <2>1. QED  BY <1>2, <1>3, <1>4, Ordering!IterationKeeps
<1>6. QED  BY <1>1, <1>5 DEF S

------------------------------------------------------------------------------
(* The pieces of a block.                                                  *)

\* What is in the list a is in c.
Within(a, c) == \A i \in DOMAIN a : \E k \in DOMAIN c : c[k] = a[i]

LEMMA JoinsWithin ==
  ASSUME NEW a, IsList(a), NEW b, IsList(b)
  PROVE  /\ Within(a, a \o b) /\ Within(b, a \o b)
         /\ \A k \in DOMAIN (a \o b) :
              \/ \E i \in DOMAIN a : (a \o b)[k] = a[i]
              \/ \E i \in DOMAIN b : (a \o b)[k] = b[i]
<1> DEFINE c == a \o b
           S == {a[i] : i \in DOMAIN a} \cup {b[i] : i \in DOMAIN b}
<1>1. IsJoined(c, a, b)
  BY JoinsLists
<1>2. /\ Len(a) \in Nat /\ DOMAIN a = 1 .. Len(a)
      /\ Len(b) \in Nat /\ DOMAIN b = 1 .. Len(b)
  BY ListDomain
<1>3. ListFrom(c, S)
  <2>1. ListFrom(a, S) /\ ListFrom(b, S)
    BY DEF ListFrom
  <2> HIDE DEF S
  <2>2. QED  BY <2>1, JoinsFrom
<1> HIDE DEF c
<1>4. DOMAIN c = 1 .. Len(a) + Len(b)
  BY <1>1, ListDomain DEF IsJoined
<1>5. Within(a, c)
  BY <1>1, <1>2, <1>4 DEF IsJoined, Within
<1>6. Within(b, c)
  <2>1. \A i \in DOMAIN b : Len(a) + i \in DOMAIN c /\ c[Len(a) + i] = b[i]
    BY <1>1, <1>2, <1>4 DEF IsJoined
  <2>2. QED  BY <2>1 DEF Within
<1>7. \A k \in DOMAIN c : (\E i \in DOMAIN a : c[k] = a[i]) \/ \E i \in DOMAIN b : c[k] = b[i]
  BY <1>3 DEF ListFrom
<1>8. QED  BY <1>5, <1>6, <1>7 DEF c

\* What there is to know of the rows of a block, and of the audits of genesis.
NoRolesOf(audit) == RolesOf(audit) \cap {"council", "validator"} = {}

BlockStored(n) ==
  /\ IsBlock(content[n]) /\ FewRows(stored[n])
  /\ IsFiniteSet(IndexedAt(stored[n], n))

\* The audits of genesis are of accounts that are new.
OfGenesis(audit) == NoRolesOf(audit) /\ audit[3] = "new"
GenesisListed(s) == IsList(s.genesis) /\ \A k \in DOMAIN s.genesis : OfGenesis(s.genesis[k])

HookNames == {"audit", "indexed", "index", "info", "identity", "judgement", "total"}

FromHooks(pieces) ==
  /\ IsList(pieces)
  /\ \A k \in DOMAIN pieces :
       pieces[k].hook \in HookNames /\ (pieces[k].hook = "audit" => NoRolesOf(pieces[k].row))

Occurs(pieces, hook) == \E k \in DOMAIN pieces : pieces[k].hook = hook

LEMMA JoinsFromHooks ==
  ASSUME NEW a, FromHooks(a), NEW b, FromHooks(b)
  PROVE  /\ FromHooks(a \o b)
         /\ \A hook : Occurs(a, hook) \/ Occurs(b, hook) => Occurs(a \o b, hook)
<1> DEFINE c == a \o b
<1>1. IsList(c)
  BY JoinsLists DEF IsJoined, FromHooks
<1>2. /\ Within(a, c) /\ Within(b, c)
      /\ \A k \in DOMAIN c : (\E i \in DOMAIN a : c[k] = a[i]) \/ \E i \in DOMAIN b : c[k] = b[i]
  BY JoinsWithin DEF FromHooks
<1> HIDE DEF c
<1>3. FromHooks(c)
  BY <1>1, <1>2 DEF FromHooks
<1>4. \A hook : Occurs(a, hook) \/ Occurs(b, hook) => Occurs(c, hook)
  BY <1>2 DEF Occurs, Within
<1>5. QED  BY <1>3, <1>4 DEF c

\* The pieces of one hook.
LEMMA RowsFromHooks ==
  ASSUME NEW rows, IsList(rows), NEW hook \in HookNames,
         hook = "audit" => \A k \in DOMAIN rows : NoRolesOf(rows[k])
  PROVE  FromHooks(Pieces(hook, rows))
<1> DEFINE f == Pieces(hook, rows)
<1>1. ArePiecesOf(f, hook, rows)
  BY PiecesAre
<1> HIDE DEF f
<1>2. FromHooks(f)
  BY <1>1 DEF ArePiecesOf, FromHooks
<1>3. QED  BY <1>2 DEF f

LEMMA HookPiecesAre ==
  ASSUME NEW s, GenesisListed(s), NEW n, BlockStored(n), NEW hook \in BlockHooks
  PROVE  /\ FromHooks(HookPieces(s, n, hook))
         /\ hook \in {"info", "total"} => Occurs(HookPieces(s, n, hook), hook)
<1>1. IsList(content[n].events)
  BY DEF BlockStored, IsBlock
<1>2. \A f \in AuditTables : IsFiniteSet(stored[n][f])
  BY DEF BlockStored, FewRows
<1>3. \A f \in AuditTables : ListFrom(InOrder(n, stored[n][f]), stored[n][f])
  BY <1>1, <1>2, OrderIsList
<1>4. CASE hook = "account"
  <2> DEFINE audits == AuditsOf(s, n)
             them == SetToSeq(IndexedAt(stored[n], n))
  <2>1. IsList(audits) /\ \A k \in DOMAIN audits : NoRolesOf(audits[k])
    <3>1. CASE n = 0
      BY <3>1 DEF AuditsOf, GenesisListed, OfGenesis
    <3>2. CASE n # 0
      <4>1. audits = InOrder(n, stored[n].audits)
        BY <3>2 DEF AuditsOf
      <4>2. ListFrom(audits, stored[n].audits)
        BY <1>3, <4>1 DEF AuditTables
      <4>3. \A r \in stored[n].audits : NoRolesOf(r)
        BY DEF BlockStored, FewRows, NoRolesOf, RolesOf
      <4>4. QED  BY <4>2, <4>3 DEF ListFrom
    <3>3. QED  BY <3>1, <3>2
  <2>2. IsList(them)
    BY ListsSet DEF BlockStored
  <2>3. HookPieces(s, n, hook) = Pieces("audit", audits) \o Pieces("indexed", them)
    BY <1>4 DEF HookPieces
  <2> HIDE DEF audits, them
  <2>4. FromHooks(Pieces("audit", audits)) /\ FromHooks(Pieces("indexed", them))
    BY <2>1, <2>2, RowsFromHooks DEF HookNames
  <2>5. QED  BY <1>4, <2>3, <2>4, JoinsFromHooks
<1>5. CASE hook = "index"
  <2>1. HookPieces(s, n, hook) = Pieces("index", InOrder(n, stored[n].indices))
    BY <1>5 DEF HookPieces
  <2>2. IsList(InOrder(n, stored[n].indices))
    BY <1>3 DEF AuditTables, ListFrom
  <2>3. QED  BY <1>5, <2>1, <2>2, RowsFromHooks DEF HookNames
<1>6. CASE hook = "identity"
  <2>1. HookPieces(s, n, hook) = Pieces("identity", InOrder(n, stored[n].identities))
    BY <1>6 DEF HookPieces
  <2>2. IsList(InOrder(n, stored[n].identities))
    BY <1>3 DEF AuditTables, ListFrom
  <2>3. QED  BY <1>6, <2>1, <2>2, RowsFromHooks DEF HookNames
<1>7. CASE hook = "judgement"
  <2>1. HookPieces(s, n, hook) = Pieces("judgement", InOrder(n, stored[n].judgements))
    BY <1>7 DEF HookPieces
  <2>2. IsList(InOrder(n, stored[n].judgements))
    BY <1>3 DEF AuditTables, ListFrom
  <2>3. QED  BY <1>7, <2>1, <2>2, RowsFromHooks DEF HookNames
<1>8. CASE hook \in {"info", "total"}
  <2> DEFINE f == Pieces(hook, <<n>>)
  <2>1. HookPieces(s, n, hook) = f
    BY <1>8 DEF HookPieces
  <2>2. FromHooks(f)
    BY <1>8, AreLists, RowsFromHooks DEF HookNames
  <2>3. 1 \in DOMAIN f /\ f[1].hook = hook
    BY DEF Pieces
  <2> HIDE DEF f
  <2>4. Occurs(f, hook)
    BY <2>3 DEF Occurs
  <2>5. QED  BY <2>1, <2>2, <2>4
<1>9. QED  BY <1>4, <1>5, <1>6, <1>7, <1>8 DEF BlockHooks

\* Those of all hooks, in the order of the process.
AllHooks(s, n, order) ==
  FoldLeft(LAMBDA pieces, hook : pieces \o HookPieces(s, n, hook), <<>>, order)

GatherStep(a, i, pieces) == pieces \o HookPieces(a.s, a.n, a.order[i])

Gathering == INSTANCE Recursion WITH Step <- GatherStep, Pick <- Max

LEMMA GatherIterates ==
  ASSUME NEW s, NEW n, NEW order, IsList(order)
  PROVE  \E iter : /\ Gathering!Iterates(iter, [s |-> s, n |-> n, order |-> order], <<>>,
                                         DOMAIN order)
                   /\ AllHooks(s, n, order) = iter[DOMAIN order]
<1> DEFINE S == DOMAIN order
           a == [s |-> s, n |-> n, order |-> order]
           Folds(g) ==
             g = [x \in SUBSET S |->
                    IF x = {} THEN <<>>
                    ELSE g[x \ {Max(x)}] \o HookPieces(s, n, order[Max(x)])]
<1>0. /\ Gathering!Sized(S)
      /\ \A x \in SUBSET S : x # {} => Max(x) \in x
  BY LastIsMember DEF Gathering!Sized, Indexing!Sized
<1>1. PICK iter : Gathering!Iterates(iter, a, <<>>, S)
  <2> HIDE DEF a
  <2>1. QED  BY <1>0, Gathering!IterationExists
<1>2. \A g : Folds(g) <=> Gathering!Iterates(g, a, <<>>, S)
  BY DEF Gathering!Iterates, GatherStep
<1>3. AllHooks(s, n, order) = (CHOOSE g : Folds(g))[S]
  BY DEF AllHooks, FoldLeft, MapThenFoldSet
<1>4. Folds(CHOOSE g : Folds(g))
  <2> HIDE DEF Folds
  <2>1. QED  BY <1>1, <1>2, Zenon
<1> HIDE DEF Folds
<1>5. QED  BY <1>2, <1>3, <1>4

LEMMA AllHooksAre ==
  ASSUME NEW s, GenesisListed(s), NEW n, BlockStored(n), NEW order \in Orders
  PROVE  /\ FromHooks(AllHooks(s, n, order))
         /\ Occurs(AllHooks(s, n, order), "info") /\ Occurs(AllHooks(s, n, order), "total")
<1> DEFINE S == DOMAIN order
           a == [s |-> s, n |-> n, order |-> order]
<1>0. IsList(order) /\ \A hook \in BlockHooks : \E i \in S : order[i] = hook
  BY SequencingAssumption DEF ToSet
<1>1. \A i \in S : order[i] \in BlockHooks
  BY SequencingAssumption DEF ToSet
<1>2. PICK iter : Gathering!Iterates(iter, a, <<>>, S) /\ AllHooks(s, n, order) = iter[S]
  BY <1>0, GatherIterates
<1>3. Gathering!Sized(S) /\ \A x \in SUBSET S : x # {} => Max(x) \in x
  BY <1>0, LastIsMember DEF Gathering!Sized, Indexing!Sized
<1> DEFINE Good(x) ==
             /\ FromHooks(iter[x])
             /\ \A i \in x : order[i] \in {"info", "total"} => Occurs(iter[x], order[i])
           G == {x \in SUBSET S : Good(x)}
<1>4. {} \in G
  <2>1. iter[{}] = <<>>
    BY <1>2 DEF Gathering!Iterates
  <2>2. QED  BY <2>1, AreLists DEF FromHooks
<1>5. ASSUME NEW x \in SUBSET S, x # {}, x \ {Max(x)} \in G PROVE x \in G
  <2> DEFINE u == iter[x \ {Max(x)}]
             hook == order[Max(x)]
             new == HookPieces(s, n, hook)
  <2>1. iter[x] = u \o new
    BY <1>2, <1>5 DEF Gathering!Iterates, GatherStep
  <2>2. FromHooks(u) /\ \A i \in x \ {Max(x)} : order[i] \in {"info", "total"} => Occurs(u, order[i])
    BY <1>5
  <2>3. hook \in BlockHooks
    BY <1>1, <1>3, <1>5
  <2>4. FromHooks(new) /\ (hook \in {"info", "total"} => Occurs(new, hook))
    BY <2>3, HookPiecesAre
  <2> HIDE DEF new, u
  <2>5. FromHooks(iter[x]) /\ \A h : Occurs(u, h) \/ Occurs(new, h) => Occurs(iter[x], h)
    BY <2>1, <2>2, <2>4, JoinsFromHooks
  <2>6. \A i \in x : order[i] \in {"info", "total"} => Occurs(iter[x], order[i])
    BY <2>2, <2>4, <2>5
  <2>7. QED  BY <2>5, <2>6
<1>6. S \in G
  <2> HIDE DEF G, S, a
  <2>1. QED  BY <1>3, <1>4, <1>5, Gathering!IterationKeeps
<1>7. \A hook \in {"info", "total"} : Occurs(iter[S], hook)
  <2>1. \A hook \in {"info", "total"} : \E i \in S : order[i] = hook
    BY <1>0 DEF BlockHooks
  <2>2. QED  BY <1>6, <2>1
<1>8. QED  BY <1>2, <1>6, <1>7

\* The pieces before those of the events.
FrontList(pieces) ==
  /\ IsList(pieces) /\ Len(pieces) >= 1
  /\ \A k \in DOMAIN pieces :
       /\ pieces[k].hook \in HookNames \cup {"old", "call"}
       /\ pieces[k].hook = "old" <=> k = 1
       /\ pieces[k].hook = "audit" => NoRolesOf(pieces[k].row)
  /\ Occurs(pieces, "info") /\ Occurs(pieces, "total")

LEMMA FrontIs ==
  ASSUME NEW s, GenesisListed(s), NEW n, BlockStored(n), NEW order \in Orders
  PROVE  FrontList(Pieces("old", <<n>>) \o AllHooks(s, n, order)
                     \o Pieces("call", [i \in DOMAIN content[n].extrinsics |-> i]))
<1> DEFINE o == Pieces("old", <<n>>)
           m == AllHooks(s, n, order)
           places == [i \in DOMAIN content[n].extrinsics |-> i]
           c == Pieces("call", places)
           om == o \o m
           omc == om \o c
<1>1. IsList(o) /\ Len(o) = 1 /\ DOMAIN o = {1} /\ o[1].hook = "old"
  <2>1. ArePiecesOf(o, "old", <<n>>)
    BY AreLists, PiecesAre
  <2> HIDE DEF o
  <2>2. Len(<<n>>) = 1
    OBVIOUS
  <2>3. DOMAIN o = 1 .. 1 /\ 1 .. 1 = {1}
    BY <2>1, <2>2, ListDomain DEF ArePiecesOf
  <2>4. QED  BY <2>1, <2>2, <2>3 DEF ArePiecesOf
<1>2. FromHooks(m) /\ Occurs(m, "info") /\ Occurs(m, "total")
  BY AllHooksAre
<1>3. IsList(c) /\ \A k \in DOMAIN c : c[k].hook = "call"
  <2>1. IsList(places)
    <3>1. Len(content[n].extrinsics) \in Nat
          /\ DOMAIN content[n].extrinsics = 1 .. Len(content[n].extrinsics)
      BY ListDomain DEF BlockStored, IsBlock
    <3>2. places = [i \in 1 .. Len(content[n].extrinsics) |-> places[i]]
      BY <3>1
    <3> HIDE DEF places
    <3>3. QED  BY <3>1, <3>2, FunctionIsList
  <2> HIDE DEF places
  <2>2. ArePiecesOf(c, "call", places)
    BY <2>1, PiecesAre
  <2> HIDE DEF c
  <2>3. QED  BY <2>2 DEF ArePiecesOf
<1> HIDE DEF o, m, c
<1>4. IsList(m)
  BY <1>2 DEF FromHooks
<1>5. IsJoined(om, o, m)
  BY <1>1, <1>4, JoinsLists
<1>6. Within(o, om) /\ Within(m, om)
  BY <1>1, <1>4, JoinsWithin
<1> HIDE DEF om
<1>7. IsList(om)
  BY <1>5 DEF IsJoined
<1>8. IsJoined(omc, om, c) /\ Within(om, omc)
  BY <1>3, <1>7, JoinsLists, JoinsWithin
<1> HIDE DEF omc
<1>9. /\ Len(m) \in Nat /\ DOMAIN m = 1 .. Len(m)
      /\ Len(om) \in Nat /\ DOMAIN om = 1 .. Len(om)
      /\ Len(c) \in Nat /\ DOMAIN c = 1 .. Len(c)
      /\ Len(omc) \in Nat /\ DOMAIN omc = 1 .. Len(omc)
  BY <1>3, <1>4, <1>7, <1>8, ListDomain DEF IsJoined
<1>10. Len(om) = 1 + Len(m) /\ om[1].hook = "old"
  BY <1>1, <1>5 DEF IsJoined
<1>11. ASSUME NEW k \in 2 .. Len(om)
       PROVE  om[k].hook \in HookNames /\ (om[k].hook = "audit" => NoRolesOf(om[k].row))
  <2>1. k - 1 \in DOMAIN m /\ om[1 + (k - 1)] = m[k - 1] /\ 1 + (k - 1) = k
    BY <1>1, <1>5, <1>9, <1>10 DEF IsJoined
  <2>2. QED  BY <1>2, <2>1 DEF FromHooks
<1>12. Len(omc) = Len(om) + Len(c) /\ \A k \in 1 .. Len(om) : omc[k] = om[k]
  BY <1>8 DEF IsJoined
<1>13. ASSUME NEW k \in DOMAIN omc, k > Len(om) PROVE omc[k].hook = "call"
  <2>1. k - Len(om) \in DOMAIN c /\ Len(om) + (k - Len(om)) = k
    BY <1>9, <1>12, <1>13
  <2>2. omc[Len(om) + (k - Len(om))] = c[k - Len(om)]
    BY <1>8, <1>9, <2>1 DEF IsJoined
  <2>3. QED  BY <1>3, <2>1, <2>2
<1>14. ASSUME NEW k \in DOMAIN omc
       PROVE  /\ omc[k].hook \in HookNames \cup {"old", "call"}
              /\ omc[k].hook = "old" <=> k = 1
              /\ omc[k].hook = "audit" => NoRolesOf(omc[k].row)
  <2>1. CASE k = 1
    <3>1. omc[k] = om[1]
      BY <1>9, <1>10, <1>12, <2>1
    <3>2. QED  BY <1>10, <2>1, <3>1
  <2>2. CASE k > 1 /\ k <= Len(om)
    <3>1. k \in 2 .. Len(om) /\ omc[k] = om[k]
      BY <1>9, <1>12, <2>2
    <3>2. QED  BY <1>11, <2>2, <3>1 DEF HookNames
  <2>3. CASE k > Len(om)
    <3>1. k # 1
      BY <1>9, <1>10, <2>3
    <3>2. QED  BY <1>13, <2>3, <3>1
  <2>4. QED  BY <1>9, <2>1, <2>2, <2>3
<1>15. Occurs(omc, "info") /\ Occurs(omc, "total")
  BY <1>2, <1>6, <1>8 DEF Occurs, Within
<1>16. IsList(omc) /\ Len(omc) >= 1
  BY <1>8, <1>9, <1>10, <1>12 DEF IsJoined
<1>17. FrontList(omc)
  BY <1>14, <1>15, <1>16 DEF FrontList
<1>18. QED  BY <1>17 DEF omc, om, o, m, c, places

\* The pieces of a whole block: first is the place of the old total, and after
\* last come those of the events.
PieceList(pieces, n, first, last) ==
  /\ ArePieces(n, pieces)
  /\ first \in Nat /\ last \in Nat /\ 1 <= first /\ first <= last
  /\ Len(pieces) = last + Len(content[n].events)
  /\ \A k \in DOMAIN pieces :
       /\ pieces[k].hook = "genesis" <=> k < first
       /\ pieces[k].hook = "old" <=> k = first
       /\ pieces[k].hook = "event" <=> k > last
       /\ pieces[k].hook = "audit" => NoRolesOf(pieces[k].row)
  /\ \A i \in DOMAIN content[n].events :
       pieces[last + i] = [hook |-> "event", row |-> content[n].events[i]]
  /\ Occurs(pieces, "info") /\ Occurs(pieces, "total")

LEMMA BlockPiecesAre ==
  ASSUME NEW s, GenesisListed(s), NEW n, BlockStored(n), NEW order \in Orders
  PROVE  \E last \in Nat : PieceList(BlockPieces(s, n, order), n, 1, last)
<1> DEFINE front == Pieces("old", <<n>>) \o AllHooks(s, n, order)
                      \o Pieces("call", [i \in DOMAIN content[n].extrinsics |-> i])
           events == content[n].events
           e == Pieces("event", events)
           all == front \o e
<1>1. FrontList(front)
  BY FrontIs
<1>2. BlockPieces(s, n, order) = all
  BY DEF BlockPieces, AllHooks
<1> HIDE DEF front
<1>3. IsList(events)
  BY DEF BlockStored, IsBlock
<1>4. ArePiecesOf(e, "event", events)
  BY <1>3, PiecesAre
<1> HIDE DEF e
<1>5. IsList(front) /\ IsList(e)
  BY <1>1, <1>4 DEF FrontList, ArePiecesOf
<1>6. IsJoined(all, front, e) /\ Within(front, all)
  BY <1>5, JoinsLists, JoinsWithin
<1> HIDE DEF all
<1>7. /\ Len(front) \in Nat /\ DOMAIN front = 1 .. Len(front)
      /\ Len(e) \in Nat /\ DOMAIN e = 1 .. Len(e)
      /\ Len(all) \in Nat /\ DOMAIN all = 1 .. Len(all)
      /\ DOMAIN events = 1 .. Len(events) /\ Len(e) = Len(events)
  BY <1>3, <1>4, <1>5, <1>6, ListDomain DEF IsJoined, ArePiecesOf
<1> DEFINE last == Len(front)
<1>8. Len(all) = last + Len(events) /\ (\A k \in 1 .. last : all[k] = front[k]) /\ last >= 1
  BY <1>1, <1>6, <1>7 DEF IsJoined, FrontList
<1>9. ASSUME NEW i \in DOMAIN events
      PROVE  all[last + i] = [hook |-> "event", row |-> events[i]]
  <2>1. i \in 1 .. Len(e) /\ i \in DOMAIN e
    BY <1>7
  <2>2. all[Len(front) + i] = e[i]
    BY <1>6, <2>1 DEF IsJoined
  <2>3. e[i] = [hook |-> "event", row |-> events[i]]
    BY <1>4, <2>1 DEF ArePiecesOf
  <2>4. QED  BY <2>2, <2>3
<1>10. ASSUME NEW k \in DOMAIN all
       PROVE  /\ IsPiece(n, all[k])
              /\ all[k].hook = "genesis" <=> k < 1
              /\ all[k].hook = "old" <=> k = 1
              /\ all[k].hook = "event" <=> k > last
              /\ all[k].hook = "audit" => NoRolesOf(all[k].row)
  <2>1. CASE k <= last
    <3>1. k \in DOMAIN front /\ all[k] = front[k]
      BY <1>7, <1>8, <2>1
    <3>2. /\ all[k].hook \in HookNames \cup {"old", "call"}
          /\ all[k].hook = "old" <=> k = 1
          /\ all[k].hook = "audit" => NoRolesOf(all[k].row)
      BY <1>1, <3>1 DEF FrontList
    <3>3. ~(k > last) /\ ~(k < 1)
      BY <1>7, <2>1
    <3>4. QED  BY <3>2, <3>3 DEF HookNames, IsPiece
  <2>2. CASE k > last
    <3>1. PICK j \in DOMAIN events : last + j = k
      <4>1. k - last \in DOMAIN events /\ last + (k - last) = k
        BY <1>7, <1>8, <2>2
      <4>2. QED  BY <4>1
    <3>2. all[k].hook = "event"
      <4>1. all[last + j] = [hook |-> "event", row |-> events[j]]
        BY <1>9
      <4>2. [hook |-> "event", row |-> events[j]].hook = "event"
        OBVIOUS
      <4> HIDE DEF last, events
      <4>3. QED  BY <3>1, <4>1, <4>2
    <3>3. ~(k < 1) /\ k # 1
      BY <1>7, <1>8, <2>2
    <3>4. QED  BY <2>2, <3>2, <3>3 DEF IsPiece
  <2>3. QED  BY <1>7, <2>1, <2>2
<1>11. Occurs(all, "info") /\ Occurs(all, "total")
  BY <1>1, <1>6 DEF Occurs, Within, FrontList
<1>12. ArePieces(n, all)
  BY <1>6, <1>10 DEF ArePieces, IsJoined
<1>13. PieceList(all, n, 1, last)
  BY <1>7, <1>8, <1>9, <1>10, <1>11, <1>12 DEF PieceList
<1>14. QED  BY <1>2, <1>7, <1>13

\* The pieces of process_genesis.
LEMMA GenesisPiecesAre ==
  ASSUME NEW n
  PROVE  /\ ArePieces(n, GenesisPieces(n))
         /\ \A k \in DOMAIN GenesisPieces(n) : GenesisPieces(n)[k].hook = "genesis"
         /\ n # 0 => Len(GenesisPieces(n)) = 0
<1> DEFINE parts == <<"added", "accounts", "sudo", "session", "members">>
           f == GenesisPieces(n)
<1>1. CASE n = 0
  <2>1. IsList(parts)
    BY DEF IsList
  <2>2. \A k \in DOMAIN parts : parts[k] \in GenesisParts
    BY DEF GenesisParts
  <2>3. f = Pieces("genesis", parts)
    BY <1>1 DEF GenesisPieces
  <2> HIDE DEF f, parts
  <2>4. ArePiecesOf(f, "genesis", parts)
    BY <2>1, <2>3, PiecesAre
  <2>5. \A k \in DOMAIN f : f[k].hook = "genesis" /\ f[k].row \in GenesisParts
    BY <2>2, <2>4 DEF ArePiecesOf
  <2>6. ArePieces(n, f)
    BY <1>1, <2>4, <2>5 DEF ArePieces, ArePiecesOf, IsPiece
  <2>7. QED  BY <1>1, <2>5, <2>6 DEF f
<1>2. CASE n # 0
  <2>1. f = <<>>
    BY <1>2 DEF GenesisPieces
  <2>2. QED  BY <2>1, AreLists DEF ArePieces
<1>3. QED  BY <1>1, <1>2

LEMMA WithGenesis ==
  ASSUME NEW n, NEW pieces, NEW last, PieceList(pieces, n, 1, last), IsList(content[n].events)
  PROVE  \E first, end \in Nat : PieceList(GenesisPieces(n) \o pieces, n, first, end)
<1> DEFINE g == GenesisPieces(n)
           all == g \o pieces
           len == Len(g)
           events == content[n].events
<1>1. ArePieces(n, g) /\ \A k \in DOMAIN g : g[k].hook = "genesis"
  BY GenesisPiecesAre
<1> HIDE DEF g
<1>2. IsList(g) /\ IsList(pieces)
  BY <1>1 DEF ArePieces, PieceList
<1>3. IsJoined(all, g, pieces) /\ Within(pieces, all)
  BY <1>2, JoinsLists, JoinsWithin
<1> HIDE DEF all
<1>4. /\ len \in Nat /\ DOMAIN g = 1 .. len
      /\ Len(pieces) \in Nat /\ DOMAIN pieces = 1 .. Len(pieces)
      /\ Len(all) \in Nat /\ DOMAIN all = 1 .. Len(all)
      /\ Len(events) \in Nat /\ DOMAIN events = 1 .. Len(events)
  BY <1>2, <1>3, ListDomain DEF IsJoined
<1>5. /\ Len(all) = len + Len(pieces) /\ (\A k \in 1 .. len : all[k] = g[k])
      /\ \A k \in 1 .. Len(pieces) : all[len + k] = pieces[k]
  BY <1>3 DEF IsJoined
<1>6. last \in Nat /\ 1 <= last /\ Len(pieces) = last + Len(events)
  BY DEF PieceList
<1> HIDE DEF len
<1>7. ASSUME NEW k \in DOMAIN all
      PROVE  /\ IsPiece(n, all[k])
             /\ all[k].hook = "genesis" <=> k < len + 1
             /\ all[k].hook = "old" <=> k = len + 1
             /\ all[k].hook = "event" <=> k > len + last
             /\ all[k].hook = "audit" => NoRolesOf(all[k].row)
  <2>1. CASE k <= len
    <3>1. k \in DOMAIN g /\ all[k] = g[k]
      BY <1>4, <1>5, <2>1
    <3>2. all[k].hook = "genesis" /\ IsPiece(n, all[k])
      BY <1>1, <3>1 DEF ArePieces
    <3>3. k < len + 1 /\ k # len + 1 /\ ~(k > len + last)
      BY <1>4, <1>6, <2>1
    <3>4. QED  BY <3>2, <3>3
  <2>2. CASE k > len
    <3> DEFINE j == k - len
    <3>1. j \in DOMAIN pieces /\ len + j = k
      BY <1>4, <1>5, <2>2
    <3>2. all[k] = pieces[j]
      BY <1>4, <1>5, <3>1
    <3>3. /\ IsPiece(n, pieces[j])
          /\ pieces[j].hook = "genesis" <=> j < 1
          /\ pieces[j].hook = "old" <=> j = 1
          /\ pieces[j].hook = "event" <=> j > last
          /\ pieces[j].hook = "audit" => NoRolesOf(pieces[j].row)
      BY <3>1 DEF PieceList, ArePieces
    <3>4. /\ j < 1 <=> k < len + 1
          /\ j = 1 <=> k = len + 1
          /\ j > last <=> k > len + last
      BY <1>4, <1>6, <2>2
    <3> HIDE DEF j
    <3>5. QED  BY <3>2, <3>3, <3>4
  <2>3. QED  BY <1>4, <2>1, <2>2
<1>8. ASSUME NEW i \in DOMAIN events
      PROVE  all[(len + last) + i] = [hook |-> "event", row |-> events[i]]
  <2>1. last + i \in 1 .. Len(pieces) /\ len + (last + i) = (len + last) + i
    BY <1>4, <1>6
  <2>2. pieces[last + i] = [hook |-> "event", row |-> events[i]]
    BY DEF PieceList
  <2>3. all[len + (last + i)] = pieces[last + i]
    BY <1>5, <2>1
  <2>4. QED  BY <2>1, <2>2, <2>3
<1>9. Occurs(all, "info") /\ Occurs(all, "total")
  BY <1>3 DEF Occurs, Within, PieceList
<1>10. ArePieces(n, all)
  BY <1>3, <1>7 DEF ArePieces, IsJoined
<1>11. /\ len + 1 \in Nat /\ len + last \in Nat /\ 1 <= len + 1 /\ len + 1 <= len + last
       /\ Len(all) = (len + last) + Len(events)
  <2> DEFINE most == Len(events)
  <2>1. most \in Nat /\ Len(all) = len + (last + most)
    BY <1>4, <1>5, <1>6
  <2> HIDE DEF most
  <2>2. Len(all) = (len + last) + most
    BY <1>4, <1>6, <2>1
  <2>3. /\ len + 1 \in Nat /\ len + last \in Nat /\ 1 <= len + 1 /\ len + 1 <= len + last
    BY <1>4, <1>6
  <2>4. QED  BY <2>2, <2>3 DEF most
<1>12. PieceList(all, n, len + 1, len + last)
  BY <1>7, <1>8, <1>9, <1>10, <1>11 DEF PieceList
<1>13. QED  BY <1>11, <1>12 DEF all, g
------------------------------------------------------------------------------
(* Sums.                                                                   *)

Plus(v, n, sum) == v[n] + sum
AnyOf(s) == CHOOSE x \in s : TRUE
Sums == INSTANCE Recursion WITH Step <- Plus, Pick <- AnyOf

LEMMA FiniteSetsAreSized ==
  ASSUME NEW S, IsFiniteSet(S)
  PROVE  Sums!Sized(S)
BY Sums!FiniteSetsAreSized DEF IsFiniteSet, Sums!IsFiniteSet

LEMMA SumFunctionIsSum ==
  ASSUME NEW v, IsFiniteSet(DOMAIN v)
  PROVE  \E f : Sums!IsSum(f, v, DOMAIN v) /\ SumFunction(v) = f[DOMAIN v]
<1> DEFINE S == DOMAIN v
           Folds(f) ==
             f = [s \in SUBSET S |->
                    IF s = {} THEN 0
                    ELSE v[CHOOSE x \in s : TRUE] + f[s \ {CHOOSE x \in s : TRUE}]]
<1>1. \A s \in SUBSET S : s # {} => AnyOf(s) \in s
  BY DEF AnyOf
<1>2. Sums!Sized(S)
  BY FiniteSetsAreSized
<1>3. PICK f : Sums!Iterates(f, v, 0, S)
  BY <1>1, <1>2, Sums!IterationExists
<1>4. Folds(f)
  BY <1>1, <1>3 DEF Plus, AnyOf, Sums!Iterates
<1>5. \A g : Folds(g) => Sums!IsSum(g, v, S)
  BY <1>1 DEF Sums!IsSum, Sums!Any, AnyOf
<1>6. SumFunction(v) = (CHOOSE g : Folds(g))[S]
  BY DEF SumFunction, SumFunctionOnSet, FoldFunctionOnSet, MapThenFoldSet
<1>7. Folds(CHOOSE g : Folds(g))
  BY <1>4, Zenon
<1>8. QED  BY <1>5, <1>6, <1>7

LEMMA SumOfNone ==
  ASSUME NEW v, DOMAIN v = {}
  PROVE  SumFunction(v) = 0
<1>1. IsFiniteSet(DOMAIN v)
  BY FS_EmptySet
<1>2. PICK f : Sums!IsSum(f, v, DOMAIN v) /\ SumFunction(v) = f[DOMAIN v]
  BY <1>1, SumFunctionIsSum
<1>3. QED  BY <1>2 DEF Sums!IsSum

\* w has one value more than v.
OneValueMore(w, v, n) ==
  /\ IsFiniteSet(DOMAIN v) /\ n \notin DOMAIN v /\ DOMAIN w = DOMAIN v \cup {n}
  /\ \A m \in DOMAIN v : w[m] = v[m]

LEMMA SumOfOneMore ==
  ASSUME NEW v, NEW w, NEW n, OneValueMore(w, v, n), \A m \in DOMAIN w : w[m] \in Int
  PROVE  SumFunction(v) \in Int /\ SumFunction(w) = w[n] + SumFunction(v)
<1> DEFINE S == DOMAIN v
           T == DOMAIN w
           w1 == [m \in T |-> w[m]]
<1>1. IsFiniteSet(S) /\ IsFiniteSet(T)
  BY FS_AddElement DEF OneValueMore
<1>2. PICK f : Sums!IsSum(f, v, S) /\ SumFunction(v) = f[S]
  BY <1>1, SumFunctionIsSum
<1>3. PICK g : Sums!IsSum(g, w, T) /\ SumFunction(w) = g[T]
  BY <1>1, SumFunctionIsSum
<1>4. \A s \in SUBSET T : g[s] \in Int /\ \A x \in s : g[s] = w[x] + g[s \ {x}]
  <2>1. Sums!Sized(T) /\ w1 \in [T -> Int]
    BY <1>1, FiniteSetsAreSized
  <2>2. \A m \in T : w1[m] = w[m]
    OBVIOUS
  <2>3. Sums!IsSum(g, w1, T)
    <3>1. \A s \in SUBSET T : s # {} => Sums!Any(s) \in T
      BY DEF Sums!Any
    <3> HIDE DEF w1
    <3>2. QED  BY <1>3, <2>2, <3>1 DEF Sums!IsSum
  <2> HIDE DEF w1, T
  <2>4. Sums!TakesAny(g, w1, T)
    BY <2>1, <2>3, Sums!SumTakesAny
  <2>5. QED  BY <2>2, <2>4 DEF Sums!TakesAny
<1>5. f[S] = g[S]
  <2>1. Sums!Sized(S) /\ S \subseteq T /\ \A m \in S : v[m] = w[m]
    BY <1>1, FiniteSetsAreSized DEF OneValueMore
  <2> HIDE DEF T, S
  <2>2. QED  BY <1>2, <1>3, <2>1, Sums!SumsAgree
<1>6. T \ {n} = S /\ S \in SUBSET T /\ n \in T
  BY DEF OneValueMore
<1>7. g[T] = w[n] + g[S]
  BY <1>4, <1>6
<1>8. QED  BY <1>2, <1>3, <1>4, <1>5, <1>6, <1>7

LEMMA SumOfNaturals ==
  ASSUME NEW v, IsFiniteSet(DOMAIN v), \A m \in DOMAIN v : v[m] \in Nat
  PROVE  SumFunction(v) \in Nat
<1> DEFINE S == DOMAIN v
<1>1. PICK f : Sums!IsSum(f, v, S) /\ SumFunction(v) = f[S]
  BY SumFunctionIsSum
<1> DEFINE H == {s \in SUBSET S : f[s] \in Nat}
<1>2. Sums!Sized(S)
  BY FiniteSetsAreSized
<1>3. ASSUME NEW s \in SUBSET S, \A x \in s : s \ {x} \in H
      PROVE  s \in H
  <2>1. CASE s = {}
    BY <1>1, <2>1 DEF Sums!IsSum
  <2>2. CASE s # {}
    <3>1. Sums!Any(s) \in s
      BY <2>2 DEF Sums!Any
    <3>2. f[s] = v[Sums!Any(s)] + f[s \ {Sums!Any(s)}]
      BY <1>1, <2>2 DEF Sums!IsSum
    <3>3. f[s \ {Sums!Any(s)}] \in Nat /\ v[Sums!Any(s)] \in Nat
      BY <1>3, <3>1
    <3>4. QED  BY <3>2, <3>3
  <2>3. QED  BY <2>1, <2>2
<1>4. \A s \in SUBSET S : s \in H
  <2> HIDE DEF H, S
  <2>1. QED  BY <1>2, <1>3, Sums!SetsUp
<1>5. QED  BY <1>1, <1>4

------------------------------------------------------------------------------
(* What is stored of the blocks, and the row of block 0.                   *)

\* The blocks are those of a chain, and stored is what add_block has made of them.
Filed ==
  /\ content \in Chains
  /\ stored = [n \in Numbers |-> WithBlock(NoTables, n, content[n])]

CounterFields ==
  {"events", "transfers", "applying", "extrinsics", "signed", "success", "error", "sessions",
   "logs", "new", "reaped", "contracts"}

AreCounters(k) == DOMAIN k = CounterFields /\ \A f \in Summed \cup {"new"} : k[f] \in Nat

IsRow(row) ==
  /\ DOMAIN row = {"hash", "counters", "datetime", "made"}
  /\ AreCounters(row.counters)
  /\ row.datetime \in Int \cup {Null}

LEMMA PositionsAreFinite ==
  ASSUME NEW events, IsList(events), NEW kinds
  PROVE  IsFiniteSet(Positions(events, kinds)) /\ Cardinality(Positions(events, kinds)) \in Nat
BY ListDomain, FS_Subset, FS_CardinalityType DEF Positions

LEMMA CountersAre ==
  ASSUME NEW t, FewRows(t), NEW n, NEW c, IsBlock(c)
  PROVE  AreCounters(Counters(t, n, c))
<1> DEFINE k == Counters(t, n, c)
<1>1. IsList(c.events) /\ IsList(c.extrinsics) /\ IsList(c.logs)
  BY DEF IsBlock
<1>2. Len(c.events) \in Nat /\ Len(c.extrinsics) \in Nat /\ Len(c.logs) \in Nat
  BY <1>1, ListDomain
<1>3. Cardinality(t.fresh) \in Nat /\ Cardinality(t.gone) \in Nat
  BY FS_CardinalityType DEF FewRows, AuditTables
<1>4. Cardinality({i \in DOMAIN c.extrinsics : c.extrinsics[i].signed}) \in Nat
  BY <1>1, ListDomain, FS_Subset, FS_CardinalityType
<1>5. \A kinds : Cardinality(Positions(c.events, kinds)) \in Nat
  BY <1>1, PositionsAreFinite
<1>6. DOMAIN k = CounterFields
  BY DEF Counters, CounterFields
<1>7. /\ k.extrinsics \in Nat /\ k.events \in Nat /\ k.logs \in Nat
      /\ k.new \in Nat /\ k.reaped \in Nat /\ k.signed \in Nat
  BY <1>2, <1>3, <1>4 DEF Counters
<1>8. /\ k.success \in Nat /\ k.error \in Nat /\ k.transfers \in Nat /\ k.sessions \in Nat
      /\ k.contracts \in Nat
  BY <1>5 DEF Counters, Outcomes
<1> HIDE DEF k
<1>9. QED  BY <1>6, <1>7, <1>8 DEF AreCounters, Summed, k

LEMMA StoredBlocks ==
  ASSUME Filed, NEW n \in Numbers
  PROVE  /\ IsBlock(content[n]) /\ BlockStored(n)
         /\ n \in DOMAIN stored[n].blocks /\ IsRow(stored[n].blocks[n])
<1> DEFINE c == content[n]
           u == Gathered(NoTables, n, c)
           v == WithBlock(NoTables, n, c)
<1>1. IsBlock(c) /\ c.time \in Int
  BY ChainsAssumption DEF Filed
<1>2. IsList(c.events) /\ IsList(c.extrinsics)
  BY <1>1 DEF IsBlock
<1>3. stored[n] = v
  BY DEF Filed
<1>4. v = SaveBlock(SaveSnapshots(u, n, c), n, c)
  BY DEF WithBlock, Gathered
<1>5. FewRows(u)
  BY <1>2, GatheredFew
<1>6. IsFiniteSet(IndexedAt(v, n))
  BY <1>1, IndexIsFinite
<1> HIDE DEF u, v
<1>7. /\ HasTables(v)
      /\ \A f \in TableNames \ {"blocks", "snapshots", "fresh", "gone"} : v[f] = u[f]
      /\ v.blocks = Put(u.blocks, n, BlockRow(u, n, c)) /\ v.fresh = {} /\ v.gone = {}
  BY <1>4, <1>5, LastSteps DEF FewRows
<1>8. FewRows(v)
  <2>1. \A f \in AuditTables : IsFiniteSet(v[f])
    BY <1>5, <1>7, FS_EmptySet DEF FewRows, AuditTables, TableNames
  <2>2. v.audits = u.audits
    BY <1>7 DEF TableNames
  <2>3. QED  BY <1>5, <1>7, <2>1, <2>2 DEF FewRows
<1>9. n \in DOMAIN v.blocks /\ v.blocks[n] = BlockRow(u, n, c)
  BY <1>7 DEF Put
<1>10. AreCounters(Counters(u, n, c)) /\ TimeOf(c) \in Int \cup {Null}
  BY <1>1, <1>5, CountersAre DEF TimeOf
<1>11. IsRow(BlockRow(u, n, c))
  BY <1>10 DEF IsRow, BlockRow
<1>12. QED  BY <1>1, <1>3, <1>6, <1>8, <1>9, <1>11 DEF BlockStored

\* The row of block 0 has the counters that were stored but for the new accounts.
ZeroRight(s) ==
  /\ DOMAIN s.zero \subseteq {0}
  /\ 0 \in DOMAIN s.zero =>
       /\ IsRow(s.zero[0])
       /\ \A f \in Summed : s.zero[0].counters[f] = stored[0].blocks[0].counters[f]

\* Audits of genesis that name roles: none that is given by events.
LEMMA NewAuditsListed ==
  ASSUME NEW accounts, IsList(accounts), NEW roles,
         roles = Null \/ roles \cap {"council", "validator"} = {}
  PROVE  /\ IsList(NewAudits(accounts, roles))
         /\ \A k \in DOMAIN NewAudits(accounts, roles) : OfGenesis(NewAudits(accounts, roles)[k])
<1> DEFINE rows == NewAudits(accounts, roles)
           D == DOMAIN accounts
<1>1. D = 1 .. Len(accounts) /\ Len(accounts) \in Nat
  BY ListDomain
<1>2. rows = [i \in D |-> Audit(0, Null, "new", accounts[i], roles)]
  BY DEF NewAudits
<1>3. \A k \in D : OfGenesis(Audit(0, Null, "new", accounts[k], roles))
  BY DEF OfGenesis, NoRolesOf, RolesOf, Audit
<1> HIDE DEF rows
<1>4. DOMAIN rows = D /\ \A k \in D : OfGenesis(rows[k])
  BY <1>2, <1>3
<1>5. rows = [i \in 1 .. Len(accounts) |-> rows[i]]
  BY <1>1, <1>2
<1>6. IsList(rows)
  <2> HIDE DEF D
  <2>1. QED  BY <1>1, <1>5, FunctionIsList
<1>7. QED  BY <1>4, <1>6 DEF rows

LEMMA ListedOn ==
  ASSUME NEW a, IsList(a), \A k \in DOMAIN a : OfGenesis(a[k]),
         NEW b, IsList(b), \A k \in DOMAIN b : OfGenesis(b[k])
  PROVE  IsList(a \o b) /\ \A k \in DOMAIN (a \o b) : OfGenesis((a \o b)[k])
<1>1. IsJoined(a \o b, a, b)
  BY JoinsLists
<1>2. \A k \in DOMAIN (a \o b) : \/ \E i \in DOMAIN a : (a \o b)[k] = a[i]
                                 \/ \E i \in DOMAIN b : (a \o b)[k] = b[i]
  BY JoinsWithin
<1>3. \A k \in DOMAIN (a \o b) : OfGenesis((a \o b)[k])
  BY <1>2
<1>4. QED  BY <1>1, <1>3 DEF IsJoined

\* What process_genesis leaves of the rows of block 0, part by part.
GenesisKept(u, s) ==
  /\ GenesisListed(u) /\ ZeroRight(u)
  /\ DOMAIN s.zero \subseteq DOMAIN u.zero

LEMMA GenesisKeeps ==
  ASSUME Filed, NEW s, IsLedger(s), GenesisListed(s), ZeroRight(s), NEW shown,
         NEW part \in GenesisParts
  PROVE  /\ GenesisKept(GenesisDone(s, part, shown), s)
         /\ part = "added" => 0 \in DOMAIN GenesisDone(s, part, shown).zero
<1> DEFINE u == GenesisDone(s, part, shown)
           g == content[0].genesis
           block == stored[0].blocks[0]
           row == RowOr(s.zero, 0, block)
           child == stored[1].blocks[1].datetime
<1>0. "zero" \in DOMAIN s /\ "genesis" \in DOMAIN s
  BY DEF IsLedger, HasFields, LedgerFields
<1>1. 0 \in Numbers /\ 1 \in Numbers
  BY SequencingAssumption DEF Numbers
<1>2. IsRow(block) /\ IsRow(stored[1].blocks[1])
  BY <1>1, StoredBlocks
<1>3. IsRow(row) /\ \A f \in Summed : row.counters[f] = block.counters[f]
  BY <1>2 DEF RowOr, ZeroRight
<1>4. child \in Int \cup {Null}
  BY <1>2 DEF IsRow
<1>5. IsList(g.accounts) /\ IsList(g.members)
  BY ChainsAssumption DEF Filed
<1>6. CASE part = "added"
  <2> DEFINE time == IF child = Null THEN row.datetime ELSE child
             new == [row EXCEPT !.datetime = time]
  <2>1. u = [s EXCEPT !.zero = Put(@, 0, new)]
    BY <1>6 DEF GenesisDone
  <2>2. time \in Int \cup {Null}
    BY <1>3, <1>4 DEF IsRow
  <2> HIDE DEF row, child, time
  <2>3. IsRow(new) /\ new.counters = row.counters
    BY <1>3, <2>2 DEF IsRow
  <2> HIDE DEF new
  <2>4. u.zero = Put(s.zero, 0, new) /\ u.genesis = s.genesis
    BY <1>0, <2>1
  <2> HIDE DEF u, block
  <2>5. DOMAIN u.zero = DOMAIN s.zero \cup {0} /\ u.zero[0] = new
    BY <2>4 DEF Put
  <2>6. ZeroRight(u)
    BY <1>3, <2>3, <2>5 DEF ZeroRight, block
  <2>7. GenesisListed(u)
    BY <2>4 DEF GenesisListed
  <2>8. QED  BY <2>5, <2>6, <2>7 DEF GenesisKept, u
<1>7. CASE part = "accounts"
  <2> DEFINE rows == NewAudits(g.accounts, Null)
             treasury == NewAudits(<<Treasury>>, {"treasury"})
             zero == [s.zero EXCEPT ![0].counters.new = Len(g.accounts)]
             genesis == s.genesis \o rows \o treasury
  <2>1. u.genesis = genesis /\ u.zero = zero
    BY <1>0, <1>7 DEF GenesisDone
  <2>2. Len(g.accounts) \in Nat
    BY <1>5, ListDomain
  <2>3. IsList(rows) /\ \A k \in DOMAIN rows : OfGenesis(rows[k])
    BY <1>5, NewAuditsListed
  <2>4. IsList(treasury) /\ \A k \in DOMAIN treasury : OfGenesis(treasury[k])
    BY AreLists, NewAuditsListed
  <2> HIDE DEF rows, treasury
  <2>5. IsList(s.genesis \o rows) /\ \A k \in DOMAIN (s.genesis \o rows) : OfGenesis((s.genesis \o rows)[k])
    BY <2>3, ListedOn DEF GenesisListed
  <2>6. IsList(genesis) /\ \A k \in DOMAIN genesis : OfGenesis(genesis[k])
    BY <2>4, <2>5, ListedOn
  <2> HIDE DEF genesis
  <2>7. GenesisListed(u)
    BY <2>1, <2>6 DEF GenesisListed
  <2>8. DOMAIN zero = DOMAIN s.zero
    OBVIOUS
  <2>9. ASSUME 0 \in DOMAIN s.zero
        PROVE  /\ IsRow(zero[0])
               /\ \A f \in Summed : zero[0].counters[f] = s.zero[0].counters[f]
    <3> DEFINE old == s.zero[0]
               k == [old.counters EXCEPT !.new = Len(g.accounts)]
    <3>1. zero[0] = [old EXCEPT !.counters = k]
      BY <2>9
    <3>2. IsRow(old)
      BY <2>9 DEF ZeroRight
    <3>3. AreCounters(k) /\ \A f \in Summed : k[f] = old.counters[f]
      BY <2>2, <3>2 DEF IsRow, AreCounters, CounterFields, Summed
    <3> HIDE DEF k
    <3>4. QED  BY <3>1, <3>2, <3>3 DEF IsRow
  <2> HIDE DEF zero
  <2>10. ZeroRight(u)
    BY <2>1, <2>8, <2>9 DEF ZeroRight
  <2>11. QED  BY <1>7, <2>1, <2>7, <2>8, <2>10 DEF GenesisKept
<1>8. ASSUME NEW accounts, IsList(accounts), NEW role \in {"sudo", "tech_comm"},
             u.genesis = s.genesis \o NewAudits(accounts, {role}), u.zero = s.zero
      PROVE  GenesisKept(u, s)
  <2> DEFINE rows == NewAudits(accounts, {role})
  <2>1. IsList(rows) /\ \A k \in DOMAIN rows : OfGenesis(rows[k])
    <3>1. {role} \cap {"council", "validator"} = {}
      OBVIOUS
    <3>2. QED  BY <1>8, <3>1, NewAuditsListed
  <2> HIDE DEF rows
  <2>2. IsList(s.genesis \o rows) /\ \A k \in DOMAIN (s.genesis \o rows) : OfGenesis((s.genesis \o rows)[k])
    BY <2>1, ListedOn DEF GenesisListed
  <2>3. u.genesis = s.genesis \o rows
    BY <1>8 DEF rows
  <2> HIDE DEF u
  <2>4. GenesisListed(u)
    BY <2>2, <2>3 DEF GenesisListed
  <2>5. QED  BY <1>8, <2>4 DEF GenesisKept, ZeroRight
<1>9. CASE part = "sudo"
  <2>1. u.genesis = s.genesis \o NewAudits(<<g.sudo>>, {"sudo"}) /\ u.zero = s.zero
    BY <1>0, <1>9 DEF GenesisDone
  <2>2. GenesisKept(u, s)
    <3> HIDE DEF u
    <3>1. QED  BY <1>8, <2>1, AreLists
  <2>3. QED  BY <1>9, <2>2
<1>10. CASE part = "members"
  <2>1. u.genesis = s.genesis \o NewAudits(g.members, {"tech_comm"}) /\ u.zero = s.zero
    BY <1>0, <1>10 DEF GenesisDone
  <2>2. GenesisKept(u, s)
    <3> HIDE DEF u
    <3>1. QED  BY <1>5, <1>8, <2>1
  <2>3. QED  BY <1>10, <2>2
<1>11. CASE part = "session"
  <2> DEFINE e == SessionShown(content[0].genesis.session, shown)
  <2>1. u = NewSession(s, 0, e, NewHandler(0))
    BY <1>11 DEF GenesisDone
  <2> HIDE DEF e
  <2>2. SessionAdded(u, s, 0, e)
    BY <2>1, NewSessionKeeps
  <2> HIDE DEF u
  <2>3. u.zero = s.zero /\ u.genesis = s.genesis
    BY <2>2 DEF SessionAdded, OnlyChanges, SessionFields, LedgerFields
  <2>4. GenesisKept(u, s)
    BY <2>3 DEF GenesisKept, GenesisListed, ZeroRight
  <2>5. QED  BY <1>11, <2>4 DEF u
<1>12. QED  BY <1>6, <1>7, <1>9, <1>10, <1>11 DEF GenesisParts

------------------------------------------------------------------------------
(* What working on a block leaves, whether it comes to an end or not.      *)

LedgerRight(s) ==
  /\ IsLedger(s) /\ GenesisListed(s) /\ ZeroRight(s)
  /\ DOMAIN s.totals \subseteq Numbers
  /\ \A a \in DOMAIN s.accounts :
       s.accounts[a].balance \in Numbers /\ s.accounts[a].created \in Numbers

\* The totals are those of s, but that of block n may be gone.
OthersCounted(u, s, n) ==
  /\ DOMAIN u.totals \subseteq DOMAIN s.totals /\ DOMAIN s.totals \subseteq DOMAIN u.totals \cup {n}
  /\ \A m \in DOMAIN u.totals : u.totals[m] = s.totals[m]

\* Block 0 has its row once it is there, and another block leaves it alone.
ZeroKept(u, s, n) ==
  /\ DOMAIN s.zero \subseteq DOMAIN u.zero
  /\ n # 0 => u.zero = s.zero /\ u.genesis = s.genesis

Begun(u, s, n, roles) ==
  /\ LedgerRight(u) /\ OthersCounted(u, s, n) /\ ZeroKept(u, s, n)
  /\ AccountsKept(u, s, n, roles)

LEMMA BegunOn ==
  ASSUME NEW u, NEW v, NEW s, NEW n, NEW some, NEW roles, some \subseteq roles,
         Begun(v, s, n, roles), Begun(u, v, n, some)
  PROVE  Begun(u, s, n, roles)
<1>1. AccountsKept(u, s, n, roles)
  BY MoreRoles, AccountsKeptOn DEF Begun
<1>2. OthersCounted(u, s, n) /\ ZeroKept(u, s, n)
  BY DEF Begun, OthersCounted, ZeroKept
<1>3. QED  BY <1>1, <1>2 DEF Begun

LEMMA NothingBegun ==
  ASSUME NEW s, LedgerRight(s), NEW n, NEW roles
  PROVE  Begun(s, s, n, roles)
BY AccountsUnchanged DEF Begun, LedgerRight, OthersCounted, ZeroKept

LEMMA AgesKept ==
  ASSUME NEW u, NEW s, LedgerRight(s), NEW n \in Numbers, NEW roles, AccountsKept(u, s, n, roles)
  PROVE  \A a \in DOMAIN u.accounts :
           u.accounts[a].balance \in Numbers /\ u.accounts[a].created \in Numbers
BY DEF LedgerRight, AccountsKept, AccountKept, AccountMade

LEMMA PieceBegun ==
  ASSUME Filed, NEW s, LedgerRight(s), NEW n \in Numbers, NEW shown, NEW piece, IsPiece(n, piece)
  PROVE  /\ Begun(Done(s, n, shown, piece), s, n, PieceRoles(piece))
         /\ piece.hook = "genesis" /\ piece.row = "added" => 0 \in DOMAIN Done(s, n, shown, piece).zero
<1> DEFINE u == Done(s, n, shown, piece)
<1>1. PieceDone(u, s, n, shown, piece)
  BY PieceKeeps DEF LedgerRight
<1>2. piece.hook = "genesis" => u = GenesisDone(s, piece.row, shown) /\ n = 0
                                /\ piece.row \in GenesisParts
  BY DEF Done, IsPiece
<1>3. piece.hook = "genesis" => /\ GenesisKept(u, s)
                                /\ piece.row = "added" => 0 \in DOMAIN u.zero
  <2> HIDE DEF u
  <2>1. QED  BY <1>2, GenesisKeeps DEF LedgerRight
<1> HIDE DEF u
<1>4. AccountsKept(u, s, n, PieceRoles(piece)) /\ IsLedger(u)
  BY <1>1 DEF PieceDone, ToAccounts
<1>5. piece.hook # "genesis" => u.zero = s.zero /\ u.genesis = s.genesis
  BY <1>1 DEF PieceDone, ToTotals
<1>6. GenesisListed(u) /\ ZeroRight(u) /\ DOMAIN s.zero \subseteq DOMAIN u.zero
  BY <1>3, <1>5 DEF GenesisKept, LedgerRight, GenesisListed, ZeroRight
<1>7. ZeroKept(u, s, n)
  BY <1>2, <1>5, <1>6 DEF ZeroKept
<1>8. u.totals = s.totals \/ u.totals = Without(s.totals, {n})
  BY <1>1 DEF PieceDone, ToTotals
<1>9. OthersCounted(u, s, n)
  BY <1>8 DEF OthersCounted, Without
<1>10. DOMAIN u.totals \subseteq Numbers
  BY <1>9 DEF OthersCounted, LedgerRight
<1>11. \A a \in DOMAIN u.accounts :
         u.accounts[a].balance \in Numbers /\ u.accounts[a].created \in Numbers
  BY <1>4, AgesKept
<1>12. LedgerRight(u)
  BY <1>4, <1>6, <1>10, <1>11 DEF LedgerRight
<1>13. QED  BY <1>3, <1>4, <1>7, <1>9, <1>12 DEF Begun, u

\* The pieces give and take these roles at most.
RolesWithin(pieces, roles) == \A k \in DOMAIN pieces : PieceRoles(pieces[k]) \subseteq roles

LEMMA RunBegun ==
  ASSUME Filed, NEW s, LedgerRight(s), NEW n \in Numbers, NEW shown, NEW pieces,
         ArePieces(n, pieces), NEW roles, RolesWithin(pieces, roles),
         NEW run, IsRun(run, s, n, shown, pieces)
  PROVE  \A k \in 0 .. Len(pieces) : Begun(run[k], s, n, roles)
<1> DEFINE len == Len(pieces)
           G == {k \in 0 .. len : Begun(run[k], s, n, roles)}
<1>1. len \in Nat /\ DOMAIN pieces = 1 .. len
  BY ListDomain DEF ArePieces
<1>2. 0 \in G
  BY <1>1, NothingBegun DEF IsRun
<1>3. ASSUME NEW k \in 0 .. len - 1, k \in G PROVE k + 1 \in G
  <2> DEFINE j == k + 1
             v == run[k]
  <2>1. j \in 1 .. len /\ j \in 0 .. len /\ j - 1 = k
    BY <1>1
  <2>2. Begun(v, s, n, roles) /\ LedgerRight(v)
    BY <1>3 DEF Begun
  <2>3. run[j] = IF Stopped(v) THEN v ELSE Done(v, n, shown, pieces[j])
    BY <2>1 DEF IsRun
  <2> HIDE DEF j, v
  <2>4. IsPiece(n, pieces[j]) /\ PieceRoles(pieces[j]) \subseteq roles
    BY <1>1, <2>1 DEF ArePieces, RolesWithin
  <2>5. CASE Stopped(v)
    BY <2>1, <2>2, <2>3, <2>5 DEF j
  <2>6. CASE ~Stopped(v)
    <3>1. Begun(Done(v, n, shown, pieces[j]), v, n, PieceRoles(pieces[j]))
      BY <2>2, <2>4, PieceBegun
    <3>2. Begun(run[j], s, n, roles)
      BY <2>2, <2>3, <2>4, <2>6, <3>1, BegunOn
    <3>3. QED  BY <2>1, <3>2 DEF j
  <2>7. QED  BY <2>5, <2>6
<1>4. \A k \in 0 .. len : k \in G
  <2> HIDE DEF G, len
  <2>1. QED  BY <1>1, <1>2, <1>3, Working!CountUp
<1>5. QED  BY <1>4

\* Block n has an event of the kind that gives the role.
Gives(n, role) ==
  \/ n = 0
  \/ role = "council" /\ Positions(content[n].events, {"NewTerm"}) # {}
  \/ role = "validator" /\ Positions(content[n].events, {"NewSession"}) # {}

\* The roles that working on block n may change.
BlockRoles(n, roles) == \A role \in roles \cap {"council", "validator"} : Gives(n, role)

BlockBegun(u, s, n) == \E roles : BlockRoles(n, roles) /\ Begun(u, s, n, roles)

LEMMA ListRoles ==
  ASSUME NEW n, NEW pieces, NEW first, NEW last, PieceList(pieces, n, first, last),
         IsList(content[n].events)
  PROVE  \E roles : BlockRoles(n, roles) /\ RolesWithin(pieces, roles)
<1> DEFINE events == content[n].events
           roles == UNION {PieceRoles(pieces[k]) : k \in DOMAIN pieces}
<1>1. RolesWithin(pieces, roles)
  BY DEF RolesWithin
<1>2. /\ Len(pieces) \in Nat /\ DOMAIN pieces = 1 .. Len(pieces)
      /\ Len(events) \in Nat /\ DOMAIN events = 1 .. Len(events)
      /\ Len(pieces) = last + Len(events) /\ last \in Nat
  BY ListDomain DEF PieceList, ArePieces
<1>3. ASSUME NEW role \in roles \cap {"council", "validator"} PROVE Gives(n, role)
  <2>1. PICK k \in DOMAIN pieces : role \in PieceRoles(pieces[k])
    OBVIOUS
  <2> DEFINE piece == pieces[k]
  <2>2. IsPiece(n, piece)
    BY DEF PieceList, ArePieces
  <2>3. piece.hook # "audit"
    <3>1. piece.hook = "audit" => NoRolesOf(piece.row)
      BY DEF PieceList
    <3>2. piece.hook = "audit" => PieceRoles(piece) = RolesOf(piece.row)
      <4> HIDE DEF piece
      <4>1. QED  BY DEF PieceRoles, IsEvent
    <3>3. QED  BY <2>1, <3>1, <3>2 DEF NoRolesOf
  <2>4. \/ piece.hook = "genesis"
        \/ role = "council" /\ IsEvent(piece, "NewTerm")
        \/ role = "validator" /\ IsEvent(piece, "NewSession")
    <3> HIDE DEF piece
    <3>1. piece.hook # "call" /\ ~IsEvent(piece, "RegistrarAdded")
      BY <2>1 DEF piece, PieceRoles, IsEvent
    <3>2. QED  BY <2>1, <2>3, <3>1 DEF piece, PieceRoles, SessionRoles
  <2>5. CASE piece.hook = "genesis"
    BY <2>2, <2>5 DEF IsPiece, Gives
  <2>6. CASE piece.hook = "event"
    <3>1. k > last
      BY <2>6 DEF PieceList
    <3>2. PICK i \in DOMAIN events : last + i = k
      <4>1. k - last \in DOMAIN events /\ last + (k - last) = k
        BY <1>2, <3>1
      <4>2. QED  BY <4>1
    <3>3. pieces[last + i] = [hook |-> "event", row |-> events[i]]
      BY DEF PieceList
    <3>4. piece.row = events[i]
      BY <3>2, <3>3
    <3> HIDE DEF piece, events
    <3>5. QED  BY <2>4, <2>6, <3>4 DEF IsEvent, Gives, Positions, events
  <2>7. QED  BY <2>4, <2>5, <2>6 DEF IsEvent
<1> HIDE DEF roles
<1>4. BlockRoles(n, roles)
  BY <1>3 DEF BlockRoles
<1>5. QED  BY <1>1, <1>4

\* A part of the pieces, or all of them.
LEMMA AfterBegun ==
  ASSUME Filed, NEW s, LedgerRight(s), NEW n \in Numbers, NEW shown, NEW pieces,
         ArePieces(n, pieces), NEW roles, RolesWithin(pieces, roles)
  PROVE  Begun(After(s, n, shown, pieces), s, n, roles)
<1>1. PICK run : IsRun(run, s, n, shown, pieces) /\ After(s, n, shown, pieces) = run[Len(pieces)]
  BY AfterIsRun DEF ArePieces
<1>2. Len(pieces) \in Nat
  BY ListDomain DEF ArePieces
<1>3. QED  BY <1>1, <1>2, RunBegun

\* The pieces before the k-th.
LEMMA PiecesBefore ==
  ASSUME NEW n, NEW pieces, ArePieces(n, pieces), NEW k \in Nat, 1 <= k, k <= Len(pieces)
  PROVE  LET before == SubSeq(pieces, 1, k - 1)
         IN /\ ArePieces(n, before)
            /\ \A roles : RolesWithin(pieces, roles) => RolesWithin(before, roles)
<1> DEFINE before == SubSeq(pieces, 1, k - 1)
           S == {pieces[i] : i \in DOMAIN pieces}
           len == k - 1
<1>1. pieces \in Seq(S) /\ Len(pieces) \in Nat /\ DOMAIN pieces = 1 .. Len(pieces)
  BY ListDomain DEF ArePieces, IsList
<1>2. len \in Nat /\ len <= Len(pieces)
  OBVIOUS
<1>3. before = [i \in 1 .. len |-> pieces[i]]
  <2> HIDE DEF S
  <2>1. QED  BY <1>1, <1>2
<1> HIDE DEF before, len
<1>4. IsList(before) /\ Len(before) = len
  <2>1. before = [i \in 1 .. len |-> before[i]]
    BY <1>3
  <2>2. QED  BY <1>2, <2>1, FunctionIsList
<1>5. \A i \in DOMAIN before : i \in DOMAIN pieces /\ before[i] = pieces[i]
  BY <1>1, <1>2, <1>3
<1>6. QED  BY <1>4, <1>5 DEF ArePieces, RolesWithin, before

------------------------------------------------------------------------------
(* What working on a block leaves when it comes to its end.                *)

SnapshotsTaken(u, n) ==
  \A a \in DOMAIN u.accounts : <<n, a>> \in snapshots => u.accounts[a].balance = n

\* The totals but for the burns, over those of the parent.
TotalsOver(u, n, before) ==
  \E validators, burn : \A f \in TotalFields \ {"burn"} :
    u.current[f] = WithTotals(validators, DataBlock(u), n, before, burn)[f]

TotalsTaken(u, s, n) == ~TimeLost(DataBlock(u), n) /\ TotalsOver(u, n, BeforeOf(s, n))

BurnTaken(u, s, n) ==
  LET burns == Positions(content[n].events, {"Burnt"})
  IN /\ burns = {} => u.current.burn = BeforeOf(s, n).burn
     /\ \A i \in burns :
          u.current.burn = BurnTotal(BeforeOf(s, n), content[n].events[i].value, Burns)

\* Who gets the role by an event.
GivenBy(role, e, shown) ==
  ToSet(IF role = "council" THEN e.members ELSE SessionShown(e, shown).validators)

KindOf(role) == IF role = "council" THEN "NewTerm" ELSE "NewSession"

RolesPassed(u, n, shown) ==
  \A role \in {"council", "validator"} :
    LET places == Positions(content[n].events, {KindOf(role)})
    IN places # {} => RoleGiven(u, role, GivenBy(role, content[n].events[Max(places)], shown))

BlockDone(u, s, n, shown) ==
  /\ BlockBegun(u, s, n)
  /\ SnapshotsTaken(u, n) /\ TotalsTaken(u, s, n) /\ BurnTaken(u, s, n) /\ RolesPassed(u, n, shown)

\* run comes to the end of the pieces, and none has stopped it.
WholeRun(run, s, n, shown, pieces) ==
  /\ \A k \in 0 .. Len(pieces) : OthersCounted(run[k], s, n)
  /\ \A k \in 1 .. Len(pieces) :
       PieceDone(run[k], run[k - 1], n, shown, pieces[k]) /\ ~Stopped(run[k])

LEMMA RunIsWhole ==
  ASSUME Filed, NEW s, LedgerRight(s), NEW n \in Numbers, NEW shown, NEW pieces,
         ArePieces(n, pieces), NEW run, IsRun(run, s, n, shown, pieces),
         ~Stopped(run[Len(pieces)])
  PROVE  WholeRun(run, s, n, shown, pieces)
<1> DEFINE len == Len(pieces)
           G == {k \in 0 .. len : ~Stopped(run[len - k])}
           roles == UNION {PieceRoles(pieces[k]) : k \in DOMAIN pieces}
<1>1. len \in Nat
  BY ListDomain DEF ArePieces
<1>2. RunKept(run, n, shown, pieces)
  BY RunKeeps DEF LedgerRight
<1>3. 0 \in G
  BY <1>1
<1>4. ASSUME NEW k \in 0 .. len - 1, k \in G PROVE k + 1 \in G
  <2> DEFINE j == len - k
  <2>1. j \in 1 .. len /\ k + 1 \in 0 .. len /\ len - (k + 1) = j - 1
    BY <1>1
  <2>2. ~Stopped(run[j])
    BY <1>4
  <2>3. ~Stopped(run[j - 1])
    <3> HIDE DEF j
    <3>1. QED  BY <1>2, <2>1, <2>2 DEF RunKept
  <2>4. QED  BY <2>1, <2>3
<1>5. \A k \in 0 .. len : k \in G
  <2> HIDE DEF G, len
  <2>1. QED  BY <1>1, <1>3, <1>4, Working!CountUp
<1>6. ASSUME NEW k \in 1 .. len PROVE ~Stopped(run[k])
  <2>1. len - k \in 0 .. len /\ len - (len - k) = k
    BY <1>1
  <2>2. len - k \in G
    BY <1>5, <2>1
  <2>3. QED  BY <2>1, <2>2
<1>7. \A k \in 1 .. len : PieceDone(run[k], run[k - 1], n, shown, pieces[k])
  BY <1>2, <1>6 DEF RunKept
<1>8. RolesWithin(pieces, roles)
  BY DEF RolesWithin
<1>9. \A k \in 0 .. len : OthersCounted(run[k], s, n)
  <2> HIDE DEF roles
  <2>1. QED  BY <1>8, RunBegun DEF Begun
<1>10. QED  BY <1>6, <1>7, <1>9 DEF WholeRun

LEMMA BeforeStays ==
  ASSUME NEW u, NEW s, NEW n \in Numbers, OthersCounted(u, s, n)
  PROVE  BeforeOf(u, n) = BeforeOf(s, n)
<1>1. n - 1 # n
  BY DEF Numbers
<1>2. QED  BY <1>1 DEF OthersCounted, BeforeOf, RowOr

\* From a piece on something holds that the pieces after it keep.
LEMMA FromPieceOn ==
  ASSUME NEW len \in Nat, NEW i \in 1 .. len, NEW H, i \in H,
         \A k \in i .. len - 1 : k \in H => k + 1 \in H
  PROVE  len \in H
<1> DEFINE G == {k \in 0 .. len : k >= i => k \in H}
<1>1. 0 \in G
  OBVIOUS
<1>2. ASSUME NEW k \in 0 .. len - 1, k \in G PROVE k + 1 \in G
  <2>1. CASE k + 1 < i
    BY <2>1
  <2>2. CASE k + 1 = i
    BY <2>2
  <2>3. CASE k >= i
    BY <1>2, <2>3
  <2>4. QED  BY <2>1, <2>2, <2>3
<1>3. \A k \in 0 .. len : k \in G
  <2> HIDE DEF G
  <2>1. QED  BY <1>1, <1>2, Working!CountUp
<1>4. QED  BY <1>3

LEMMA WholeSnapshots ==
  ASSUME NEW run, NEW s, NEW n, NEW shown, NEW pieces, NEW first, NEW last,
         PieceList(pieces, n, first, last), WholeRun(run, s, n, shown, pieces)
  PROVE  SnapshotsTaken(run[Len(pieces)], n)
<1> DEFINE len == Len(pieces)
           H == {k \in 1 .. len : SnapshotsTaken(run[k], n)}
<1>1. len \in Nat /\ DOMAIN pieces = 1 .. len
  BY ListDomain DEF PieceList, ArePieces
<1>2. PICK i \in DOMAIN pieces : pieces[i].hook = "info"
  BY DEF PieceList, Occurs
<1>3. i \in H
  BY <1>1, <1>2 DEF WholeRun, PieceDone, ToAccounts, SnapshotsTaken
<1>4. ASSUME NEW k \in i .. len - 1, k \in H PROVE k + 1 \in H
  <2> DEFINE j == k + 1
  <2>1. j \in 1 .. len /\ j - 1 = k
    BY <1>1
  <2>2. PieceDone(run[j], run[j - 1], n, shown, pieces[j])
    BY <2>1 DEF WholeRun
  <2>3. AccountsKept(run[j], run[k], n, PieceRoles(pieces[j]))
    BY <2>1, <2>2 DEF PieceDone, ToAccounts
  <2>4. SnapshotsTaken(run[k], n)
    BY <1>4
  <2> HIDE DEF j
  <2>5. SnapshotsTaken(run[j], n)
    BY <2>3, <2>4 DEF SnapshotsTaken, AccountsKept, AccountKept, AccountMade
  <2>6. QED  BY <2>1, <2>5 DEF j
<1>5. len \in H
  <2> HIDE DEF H, len
  <2>1. QED  BY <1>1, <1>2, <1>3, <1>4, FromPieceOn
<1>6. QED  BY <1>5

LEMMA WholeTotals ==
  ASSUME NEW run, NEW s, NEW n \in Numbers, NEW shown, NEW pieces, NEW first, NEW last,
         PieceList(pieces, n, first, last), WholeRun(run, s, n, shown, pieces)
  PROVE  TotalsTaken(run[Len(pieces)], s, n)
<1> DEFINE len == Len(pieces)
           H == {k \in 1 .. len : k >= first /\ TotalsTaken(run[k], s, n)}
<1>1. len \in Nat /\ DOMAIN pieces = 1 .. len
  BY ListDomain DEF PieceList, ArePieces
<1>2. first \in Nat
  BY DEF PieceList
<1>3. ASSUME NEW k \in 1 .. len
      PROVE  /\ ToTotals(run[k], run[k - 1], n, pieces[k]) /\ ~run[k].raised
             /\ BeforeOf(run[k], n) = BeforeOf(s, n)
  <2>1. ~Stopped(run[k]) /\ PieceDone(run[k], run[k - 1], n, shown, pieces[k])
    BY DEF WholeRun
  <2>2. OthersCounted(run[k], s, n)
    BY <1>1 DEF WholeRun
  <2>3. QED  BY <2>1, <2>2, BeforeStays DEF Stopped, PieceDone
<1>4. ASSUME NEW k \in 1 .. len, pieces[k].hook = "total"
      PROVE  TotalsTaken(run[k], s, n)
  <2>1. TotalsSet(run[k], n)
    BY <1>3, <1>4 DEF ToTotals
  <2>2. QED  BY <1>3, <2>1 DEF TotalsSet, TotalsTaken, TotalsOver
<1>5. PICK i \in DOMAIN pieces : pieces[i].hook = "total"
  BY DEF PieceList, Occurs
<1>6. i \in H
  <2>1. ~(i < first)
    BY <1>5 DEF PieceList
  <2>2. QED  BY <1>1, <1>2, <1>4, <1>5, <2>1
<1>7. ASSUME NEW k \in i .. len - 1, k \in H PROVE k + 1 \in H
  <2> DEFINE j == k + 1
  <2>1. j \in 1 .. len /\ j - 1 = k /\ j >= first /\ j # first
    BY <1>1, <1>2, <1>7
  <2>2. TotalsTaken(run[k], s, n)
    BY <1>7
  <2> HIDE DEF j
  <2>3. pieces[j].hook # "genesis" /\ pieces[j].hook # "old"
    BY <1>1, <1>2, <2>1 DEF PieceList
  <2>4. CASE pieces[j].hook = "total"
    <3>1. TotalsTaken(run[j], s, n)
      BY <1>4, <2>1, <2>4
    <3>2. QED  BY <2>1, <3>1 DEF j
  <2>5. CASE pieces[j].hook # "total"
    <3>1. /\ run[j].zero = run[k].zero
          /\ \A f \in TotalFields \ {"burn"} : run[j].current[f] = run[k].current[f]
      BY <1>3, <2>1, <2>3, <2>5 DEF ToTotals
    <3>2. DataBlock(run[j]) = DataBlock(run[k])
      BY <3>1 DEF DataBlock
    <3>3. TotalsTaken(run[j], s, n)
      BY <2>2, <3>1, <3>2 DEF TotalsTaken, TotalsOver
    <3>4. QED  BY <2>1, <3>3 DEF j
  <2>6. QED  BY <2>4, <2>5
<1>8. len \in H
  <2> HIDE DEF H, len
  <2>1. QED  BY <1>1, <1>5, <1>6, <1>7, FromPieceOn
<1>9. QED  BY <1>8

\* The burns when the events up to place m have been processed.
BurnUpTo(u, s, n, m) ==
  LET burns == Positions(content[n].events, {"Burnt"})
  IN /\ (\A i \in burns : i > m) => u.current.burn = BeforeOf(s, n).burn
     /\ \A i \in burns : i <= m =>
          u.current.burn = BurnTotal(BeforeOf(s, n), content[n].events[i].value, Burns)

LEMMA WholeBurn ==
  ASSUME Filed, NEW run, NEW s, NEW n \in Numbers, NEW shown, NEW pieces, NEW first, NEW last,
         PieceList(pieces, n, first, last), WholeRun(run, s, n, shown, pieces)
  PROVE  BurnTaken(run[Len(pieces)], s, n)
<1> DEFINE len == Len(pieces)
           events == content[n].events
           burns == Positions(events, {"Burnt"})
           H == {k \in 1 .. len : BurnUpTo(run[k], s, n, k - last)}
<1>1. /\ len \in Nat /\ DOMAIN pieces = 1 .. len
      /\ Len(events) \in Nat /\ DOMAIN events = 1 .. Len(events)
      /\ len = last + Len(events)
  <2>1. IsList(events)
    BY StoredBlocks DEF IsBlock
  <2>2. QED  BY <2>1, ListDomain DEF PieceList, ArePieces
<1>2. first \in Nat /\ last \in Nat /\ 1 <= first /\ first <= last /\ first \in 1 .. len
  BY <1>1 DEF PieceList
<1>3. burns \subseteq 1 .. Len(events) /\ \A i, j \in burns : i = j
  <2>1. \A i, j \in burns : i = j
    BY ChainsAssumption DEF Filed
  <2>2. QED  BY <1>1, <2>1 DEF Positions
<1>4. ASSUME NEW k \in 1 .. len
      PROVE  /\ ToTotals(run[k], run[k - 1], n, pieces[k])
             /\ BeforeOf(run[k - 1], n) = BeforeOf(s, n)
  <2>1. PieceDone(run[k], run[k - 1], n, shown, pieces[k])
    BY DEF WholeRun
  <2>2. OthersCounted(run[k - 1], s, n)
    BY <1>1 DEF WholeRun
  <2>3. QED  BY <2>1, <2>2, BeforeStays DEF PieceDone
<1>5. first \in H
  <2>1. pieces[first].hook = "old"
    BY <1>1, <1>2 DEF PieceList
  <2>2. run[first].current.burn = BeforeOf(s, n).burn
    BY <1>2, <1>4, <2>1 DEF ToTotals
  <2>3. \A i \in burns : ~(i <= first - last)
    BY <1>1, <1>2, <1>3
  <2>4. QED  BY <1>2, <2>2, <2>3 DEF BurnUpTo
<1>6. ASSUME NEW k \in first .. len - 1, k \in H PROVE k + 1 \in H
  <2> DEFINE j == k + 1
             m == j - last
             u == run[j]
  <2>1. j \in 1 .. len /\ j - 1 = k /\ j # first /\ k - last = m - 1 /\ m \in Int
    BY <1>1, <1>2, <1>6
  <2>2. BurnUpTo(run[k], s, n, m - 1)
    BY <1>6, <2>1
  <2>3. ToTotals(u, run[k], n, pieces[j]) /\ BeforeOf(run[k], n) = BeforeOf(s, n)
    BY <1>4, <2>1
  <2>4. pieces[j].hook # "old"
    BY <1>1, <2>1 DEF PieceList
  <2>5. last + m = j /\ (m \in burns => m > 0) /\ (m > 0 => m \in DOMAIN events)
    BY <1>1, <1>2, <1>3, <2>1
  <2> HIDE DEF j, u, m, events
  <2>6. m \in DOMAIN events => pieces[j] = [hook |-> "event", row |-> events[m]]
    BY <2>5 DEF PieceList, events
  <2>7. CASE m \in burns
    <3>1. m \in DOMAIN events /\ events[m].kind = "Burnt"
      BY <2>7 DEF Positions
    <3>2. IsEvent(pieces[j], "Burnt") /\ pieces[j].row = events[m]
      BY <2>6, <3>1 DEF IsEvent
    <3>3. u.current.burn = BurnTotal(BeforeOf(s, n), events[m].value, Burns)
      BY <2>3, <2>4, <3>2 DEF ToTotals
    <3>4. (\A i \in burns : i = m) /\ ~(m > m)
      BY <1>3, <2>1, <2>7
    <3>5. BurnUpTo(u, s, n, m)
      <4> HIDE DEF burns
      <4>1. QED  BY <2>7, <3>3, <3>4 DEF BurnUpTo, burns, events
    <3>6. QED  BY <2>1, <3>5 DEF j, u, m
  <2>8. CASE m \notin burns
    <3>1. ~IsEvent(pieces[j], "Burnt")
      <4>1. CASE m > 0
        <5>1. m \in DOMAIN events
          BY <2>5, <4>1
        <5>2. pieces[j] = [hook |-> "event", row |-> events[m]]
          BY <2>6, <5>1
        <5>3. QED  BY <2>8, <5>1, <5>2 DEF IsEvent, Positions
      <4>2. CASE ~(m > 0)
        <5>1. ~(j > last)
          BY <1>2, <2>1, <2>5, <4>2
        <5>2. pieces[j].hook # "event"
          BY <1>1, <2>1, <5>1 DEF PieceList
        <5>3. QED  BY <5>2 DEF IsEvent
      <4>3. QED  BY <4>1, <4>2
    <3>2. u.current.burn = run[k].current.burn
      BY <2>3, <2>4, <3>1 DEF ToTotals
    <3>3. \A i \in burns : (i > m <=> i > m - 1) /\ (i <= m <=> i <= m - 1)
      BY <1>1, <1>3, <2>1, <2>8
    <3>4. BurnUpTo(u, s, n, m)
      <4> HIDE DEF burns
      <4>1. QED  BY <2>2, <3>2, <3>3 DEF BurnUpTo, burns, events
    <3>5. QED  BY <2>1, <3>4 DEF j, u, m
  <2>9. QED  BY <2>7, <2>8
<1>7. len \in H
  <2> HIDE DEF H, len
  <2>1. QED  BY <1>1, <1>2, <1>5, <1>6, FromPieceOn
<1>8. \A i \in burns : i <= len - last /\ i \in Int
  BY <1>1, <1>2, <1>3
<1>9. QED  BY <1>7, <1>8 DEF BurnUpTo, BurnTaken

LEMMA WholeRoles ==
  ASSUME Filed, NEW run, NEW s, NEW n \in Numbers, NEW shown, NEW pieces, NEW first, NEW last,
         PieceList(pieces, n, first, last), WholeRun(run, s, n, shown, pieces)
  PROVE  RolesPassed(run[Len(pieces)], n, shown)
<1> DEFINE len == Len(pieces)
           events == content[n].events
<1>1. /\ len \in Nat /\ DOMAIN pieces = 1 .. len
      /\ Len(events) \in Nat /\ DOMAIN events = 1 .. Len(events)
      /\ len = last + Len(events) /\ last \in Nat
  <2>1. IsList(events)
    BY StoredBlocks DEF IsBlock
  <2>2. QED  BY <2>1, ListDomain DEF PieceList, ArePieces
<1>2. ASSUME NEW role \in {"council", "validator"}, Positions(events, {KindOf(role)}) # {}
      PROVE  RoleGiven(run[len], role,
                       GivenBy(role, events[Max(Positions(events, {KindOf(role)}))], shown))
  <2> DEFINE places == Positions(events, {KindOf(role)})
             place == Max(places)
             given == GivenBy(role, events[place], shown)
             i == last + place
             H == {k \in 1 .. len : RoleGiven(run[k], role, given)}
  <2>1. place \in places /\ \A p \in places : p <= place
    <3>1. places \subseteq 0 .. Len(events)
      BY <1>1 DEF Positions
    <3>2. \E m \in places : \A p \in places : p <= m
      <4> HIDE DEF places
      <4>1. QED  BY <1>1, <1>2, <3>1, Working!Greatest DEF places
    <3> HIDE DEF places
    <3>3. QED  BY <3>2, Zenon DEF Max
  <2>2. place \in DOMAIN events /\ events[place].kind = KindOf(role)
    BY <2>1 DEF Positions
  <2> HIDE DEF place, places
  <2>3. i \in 1 .. len /\ place \in 1 .. Len(events)
    BY <1>1, <2>2
  <2>4. ASSUME NEW k \in 1 .. len
        PROVE  ToAccounts(run[k], run[k - 1], n, shown, pieces[k]) /\ ~Stopped(run[k])
    BY DEF WholeRun, PieceDone
  <2>5. pieces[i] = [hook |-> "event", row |-> events[place]]
    BY <2>2 DEF PieceList
  <2>6. IsEvent(pieces[i], KindOf(role)) /\ pieces[i].row = events[place]
    BY <2>2, <2>5 DEF IsEvent
  <2>7. i \in H
    <3> HIDE DEF i, events
    <3>1. RoleGiven(run[i], role, given)
      BY <2>3, <2>4, <2>6 DEF ToAccounts, KindOf, GivenBy
    <3>2. QED  BY <2>3, <3>1
  <2>8. ASSUME NEW k \in i .. len - 1, k \in H PROVE k + 1 \in H
    <3> DEFINE j == k + 1
               q == j - last
    <3>1. j \in 1 .. len /\ j - 1 = k /\ q \in DOMAIN events /\ last + q = j /\ q > place
      BY <1>1, <2>3
    <3>2. RoleGiven(run[k], role, given)
      BY <2>8
    <3> HIDE DEF j, q
    <3>3. pieces[j] = [hook |-> "event", row |-> events[q]]
      BY <3>1 DEF PieceList
    <3>4. pieces[j].hook = "event" /\ pieces[j].row = events[q]
      BY <3>3
    <3>5. events[q].kind # KindOf(role)
      <4>1. q \notin places
        BY <1>1, <2>1, <2>3, <3>1
      <4>2. QED  BY <3>1, <4>1 DEF places, Positions
    <3> HIDE DEF events
    <3>6. role \notin PieceRoles(pieces[j])
      BY <3>4, <3>5 DEF PieceRoles, IsEvent, KindOf, SessionRoles
    <3>7. ToAccounts(run[j], run[k], n, shown, pieces[j])
      BY <2>4, <3>1
    <3>8. /\ AccountsKept(run[j], run[k], n, PieceRoles(pieces[j]))
          /\ DOMAIN run[j].accounts = DOMAIN run[k].accounts
      BY <3>4, <3>7 DEF ToAccounts
    <3> HIDE DEF given
    <3>9. RoleGiven(run[j], role, given)
      BY <3>2, <3>6, <3>8, RoleGivenStays
    <3>10. QED  BY <3>1, <3>9 DEF j
  <2>9. len \in H
    <3> HIDE DEF H, len, i
    <3>1. QED  BY <1>1, <2>3, <2>7, <2>8, FromPieceOn
  <2>10. QED  BY <2>9 DEF place, places
<1>3. QED  BY <1>2 DEF RolesPassed

LEMMA AfterDone ==
  ASSUME Filed, NEW s, LedgerRight(s), NEW n \in Numbers, NEW shown, NEW pieces,
         NEW first, NEW last, PieceList(pieces, n, first, last),
         ~Stopped(After(s, n, shown, pieces))
  PROVE  BlockDone(After(s, n, shown, pieces), s, n, shown)
<1> DEFINE u == After(s, n, shown, pieces)
<1>1. ArePieces(n, pieces) /\ IsList(content[n].events)
  BY StoredBlocks DEF PieceList, IsBlock
<1>2. PICK run : IsRun(run, s, n, shown, pieces) /\ u = run[Len(pieces)]
  BY <1>1, AfterIsRun DEF ArePieces
<1> HIDE DEF u
<1>3. WholeRun(run, s, n, shown, pieces)
  BY <1>1, <1>2, RunIsWhole DEF u
<1>4. PICK roles : BlockRoles(n, roles) /\ RolesWithin(pieces, roles)
  BY <1>1, ListRoles
<1>5. BlockBegun(u, s, n)
  BY <1>1, <1>4, AfterBegun DEF BlockBegun, u
<1>6. SnapshotsTaken(u, n)
  BY <1>2, <1>3, WholeSnapshots
<1>7. TotalsTaken(u, s, n)
  BY <1>2, <1>3, WholeTotals
<1>8. BurnTaken(u, s, n)
  BY <1>2, <1>3, WholeBurn
<1>9. RolesPassed(u, n, shown)
  BY <1>2, <1>3, WholeRoles
<1>10. QED  BY <1>5, <1>6, <1>7, <1>8, <1>9 DEF BlockDone, u

------------------------------------------------------------------------------
(* What the actions leave.                                                 *)

\* What is committed of u: the total of block n with it, or not.
Committed(v, u) ==
  /\ OnlyChanges(v, u, {"totals", "current", "raised"})
  /\ DOMAIN v.current = TotalFields

LEMMA WithTotalIs ==
  ASSUME NEW u, IsLedger(u), NEW n
  PROVE  Committed(WithTotal(u, n), u) /\ WithTotal(u, n).totals = Put(u.totals, n, u.current)
BY DEF Committed, WithTotal, OnlyChanges, IsLedger, HasFields, LedgerFields, NoTotal, TotalFields

LEMMA CutIs ==
  ASSUME NEW u, IsLedger(u)
  PROVE  Committed(Cut(u), u) /\ Cut(u).totals = u.totals
BY DEF Committed, Cut, OnlyChanges, IsLedger, HasFields, LedgerFields, NoTotal, TotalFields

\* What is committed shows the same blocks and accounts.
LEMMA CommittedSame ==
  ASSUME NEW v, NEW u, Committed(v, u)
  PROVE  v.accounts = u.accounts /\ v.zero = u.zero /\ v.genesis = u.genesis
BY DEF Committed, OnlyChanges, LedgerFields

LEMMA CommittedRight ==
  ASSUME NEW v, NEW u, LedgerRight(u), Committed(v, u), NEW n \in Numbers,
         v.totals = u.totals \/ v.totals = Put(u.totals, n, u.current)
  PROVE  LedgerRight(v)
<1>1. v.accounts = u.accounts /\ v.zero = u.zero /\ v.genesis = u.genesis
  BY CommittedSame
<1>2. /\ \A m \in DOMAIN v.totals : DOMAIN v.totals[m] = TotalFields
      /\ DOMAIN v.totals \subseteq Numbers
  BY DEF Put, LedgerRight, IsLedger
<1>3. IsLedger(v)
  BY <1>1, <1>2 DEF Committed, OnlyChanges, LedgerRight, IsLedger
<1>4. QED  BY <1>1, <1>2, <1>3 DEF LedgerRight, GenesisListed, ZeroRight

LEMMA AllPiecesAre ==
  ASSUME Filed, NEW s, LedgerRight(s), NEW n \in Numbers, NEW shown, NEW order \in Orders
  PROVE  \E first, last \in Nat :
           PieceList(GenesisPieces(n)
                       \o BlockPieces(After(s, n, shown, GenesisPieces(n)), n, order),
                     n, first, last)
<1> DEFINE g == GenesisPieces(n)
           u == After(s, n, shown, g)
           roles == UNION {PieceRoles(g[k]) : k \in DOMAIN g}
           pieces == BlockPieces(u, n, order)
<1>1. ArePieces(n, g)
  BY GenesisPiecesAre
<1>2. RolesWithin(g, roles)
  BY DEF RolesWithin
<1>3. BlockStored(n) /\ IsList(content[n].events)
  BY StoredBlocks DEF IsBlock
<1> HIDE DEF g, roles
<1>4. Begun(u, s, n, roles)
  BY <1>1, <1>2, AfterBegun
<1> HIDE DEF u
<1>5. GenesisListed(u)
  BY <1>4 DEF Begun, LedgerRight
<1>6. PICK last \in Nat : PieceList(pieces, n, 1, last)
  BY <1>3, <1>5, BlockPiecesAre
<1> HIDE DEF pieces
<1>7. QED  BY <1>3, <1>6, WithGenesis DEF g, u, pieces

\* process_genesis leaves the row of block 0.
LEMMA GenesisAdds ==
  ASSUME Filed, NEW s, LedgerRight(s), NEW shown, NEW pieces, ArePieces(0, pieces),
         Len(pieces) >= 1, pieces[1].hook = "genesis", pieces[1].row = "added",
         ~Stopped(After(s, 0, shown, pieces))
  PROVE  0 \in DOMAIN After(s, 0, shown, pieces).zero
<1> DEFINE u == After(s, 0, shown, pieces)
           len == Len(pieces)
           roles == UNION {PieceRoles(pieces[k]) : k \in DOMAIN pieces}
<1>1. len \in Nat /\ DOMAIN pieces = 1 .. len /\ 1 \in 1 .. len
  BY ListDomain DEF ArePieces
<1>2. 0 \in Numbers
  BY SequencingAssumption DEF Numbers
<1>3. RolesWithin(pieces, roles)
  BY DEF RolesWithin
<1> HIDE DEF roles
<1>4. PICK run : IsRun(run, s, 0, shown, pieces) /\ u = run[len]
  BY AfterIsRun DEF ArePieces
<1>5. \A k \in 0 .. len : LedgerRight(run[k])
  BY <1>2, <1>3, <1>4, RunBegun DEF Begun
<1>6. WholeRun(run, s, 0, shown, pieces)
  BY <1>2, <1>4, RunIsWhole
<1> HIDE DEF u
<1>7. ASSUME NEW k \in 1 .. len
      PROVE  /\ LedgerRight(run[k - 1])
             /\ run[k] = Done(run[k - 1], 0, shown, pieces[k])
             /\ IsPiece(0, pieces[k])
  <2>1. ~Stopped(run[k]) /\ k - 1 \in 0 .. len
    BY <1>1, <1>6 DEF WholeRun
  <2>2. run[k] = IF Stopped(run[k - 1]) THEN run[k - 1] ELSE Done(run[k - 1], 0, shown, pieces[k])
    BY <1>4 DEF IsRun
  <2>3. QED  BY <1>1, <1>5, <2>1, <2>2 DEF ArePieces
<1> DEFINE H == {k \in 1 .. len : 0 \in DOMAIN run[k].zero}
<1>8. 1 \in H
  BY <1>1, <1>2, <1>7, PieceBegun
<1>9. ASSUME NEW k \in 1 .. len - 1, k \in H PROVE k + 1 \in H
  <2> DEFINE j == k + 1
  <2>1. j \in 1 .. len /\ j - 1 = k
    BY <1>1
  <2>2. Begun(Done(run[j - 1], 0, shown, pieces[j]), run[j - 1], 0, PieceRoles(pieces[j]))
    BY <1>2, <1>7, <2>1, PieceBegun
  <2>3. Begun(run[j], run[k], 0, PieceRoles(pieces[j]))
    BY <1>7, <2>1, <2>2
  <2>4. QED  BY <1>9, <2>1, <2>3 DEF Begun, ZeroKept
<1>10. len \in H
  <2> HIDE DEF H, len
  <2>1. QED  BY <1>1, <1>8, <1>9, FromPieceOn
<1>11. QED  BY <1>4, <1>10 DEF u

\* The first piece of block 0.
LEMMA GenesisFirst ==
  ASSUME NEW pieces, IsList(pieces), NEW n, n = 0
  PROVE  LET all == GenesisPieces(n) \o pieces
         IN Len(all) >= 1 /\ all[1].hook = "genesis" /\ all[1].row = "added"
<1> DEFINE parts == <<"added", "accounts", "sudo", "session", "members">>
           g == GenesisPieces(n)
           all == g \o pieces
<1>1. IsList(parts) /\ Len(parts) = 5 /\ parts[1] = "added"
  BY DEF IsList
<1>2. g = Pieces("genesis", parts)
  BY DEF GenesisPieces
<1> HIDE DEF g, parts
<1>3. ArePiecesOf(g, "genesis", parts)
  BY <1>1, <1>2, PiecesAre
<1>4. IsList(g) /\ Len(g) = 5 /\ DOMAIN g = 1 .. 5 /\ 1 \in 1 .. 5
  BY <1>1, <1>3, ListDomain DEF ArePiecesOf
<1>5. g[1] = [hook |-> "genesis", row |-> "added"]
  BY <1>1, <1>3, <1>4 DEF ArePiecesOf
<1>6. IsJoined(all, g, pieces) /\ Len(pieces) \in Nat
  BY <1>4, JoinsLists, ListDomain
<1> HIDE DEF all
<1>7. Len(all) >= 1 /\ all[1] = g[1]
  BY <1>4, <1>6 DEF IsJoined
<1>8. QED  BY <1>5, <1>7 DEF all, g

\* v is what is committed of the work on block n, over s: when it came to its
\* end, and when it did not.
WorkDone(v, s, n, shown) ==
  \E u : /\ BlockDone(u, s, n, shown) /\ n \in DOMAIN DataBlock(u)
         /\ Committed(v, u) /\ v.totals = Put(u.totals, n, u.current)

WorkCut(v, s, n) == \E u : BlockBegun(u, s, n) /\ Committed(v, u) /\ v.totals = u.totals

LEMMA StepWorks ==
  ASSUME Filed, LedgerRight(ledger), NEW n \in Numbers, NEW order \in Orders, NEW shown,
         ~Stopped(After(ledger, n, shown, AllPieces(n, order, shown))),
         NEW v, v = WithTotal(After(ledger, n, shown, AllPieces(n, order, shown)), n)
  PROVE  WorkDone(v, ledger, n, shown)
<1> DEFINE g == GenesisPieces(n)
           b == BlockPieces(After(ledger, n, shown, g), n, order)
           pieces == AllPieces(n, order, shown)
           u == After(ledger, n, shown, pieces)
<1>1. pieces = g \o b
  BY DEF AllPieces
<1>2. PICK first, last \in Nat : PieceList(pieces, n, first, last)
  BY <1>1, AllPiecesAre
<1>3. BlockDone(u, ledger, n, shown)
  <2> HIDE DEF pieces
  <2>1. QED  BY <1>2, AfterDone DEF pieces
<1>4. LedgerRight(u)
  BY <1>3 DEF BlockDone, BlockBegun, Begun
<1>5. n \in DOMAIN DataBlock(u)
  <2>1. CASE n = 0
    <3>1. IsList(b)
      <4>1. BlockStored(n) /\ IsList(content[n].events)
        BY StoredBlocks DEF IsBlock
      <4> DEFINE roles == UNION {PieceRoles(g[k]) : k \in DOMAIN g}
      <4>2. ArePieces(n, g) /\ RolesWithin(g, roles)
        BY GenesisPiecesAre DEF RolesWithin
      <4>3. GenesisListed(After(ledger, n, shown, g))
        BY <4>2, AfterBegun DEF Begun, LedgerRight
      <4>4. QED  BY <4>1, <4>3, BlockPiecesAre DEF PieceList, ArePieces
    <3> HIDE DEF b
    <3>2. Len(pieces) >= 1 /\ pieces[1].hook = "genesis" /\ pieces[1].row = "added"
      BY <1>1, <2>1, <3>1, GenesisFirst
    <3> HIDE DEF pieces
    <3>3. 0 \in DOMAIN u.zero
      BY <1>2, <2>1, <3>2, GenesisAdds DEF PieceList, pieces
    <3> HIDE DEF u
    <3>4. QED  BY <2>1, <3>3 DEF DataBlock
  <2>2. CASE n # 0
    <3> HIDE DEF u
    <3>1. QED  BY <2>2 DEF DataBlock
  <2>3. QED  BY <2>1, <2>2
<1> HIDE DEF u
<1>6. Committed(v, u) /\ v.totals = Put(u.totals, n, u.current)
  BY <1>4, WithTotalIs DEF LedgerRight, u
<1>7. QED  BY <1>3, <1>5, <1>6 DEF WorkDone

\* A hook has raised, or the node has not answered before the k-th piece.
LEMMA CutWorks ==
  ASSUME Filed, LedgerRight(ledger), NEW n \in Numbers, NEW shown, NEW pieces, NEW first, NEW last,
         PieceList(pieces, n, first, last),
         NEW some, ArePieces(n, some),
         \A roles : RolesWithin(pieces, roles) => RolesWithin(some, roles),
         NEW v, v = Cut(After(ledger, n, shown, some))
  PROVE  WorkCut(v, ledger, n)
<1> DEFINE u == After(ledger, n, shown, some)
<1>1. IsList(content[n].events)
  BY StoredBlocks DEF IsBlock
<1>2. PICK roles : BlockRoles(n, roles) /\ RolesWithin(pieces, roles)
  BY <1>1, ListRoles
<1>3. Begun(u, ledger, n, roles)
  BY <1>2, AfterBegun
<1> HIDE DEF u
<1>4. IsLedger(u)
  BY <1>3 DEF Begun, LedgerRight
<1>5. Committed(v, u) /\ v.totals = u.totals
  BY <1>4, CutIs DEF u
<1>6. QED  BY <1>2, <1>3, <1>5 DEF WorkCut, BlockBegun

\* POST /sequence starts from the ledger, with block 0 when block 1 is counted.
FromLedger(s) == OnlyChanges(s, ledger, {"zero"}) /\ DOMAIN ledger.zero \subseteq DOMAIN s.zero

\* What is committed of a request that starts from s.
Requested(s, n, order) ==
  LET u == After(s, n, TRUE, BlockPieces(s, n, order))
  IN ~Stopped(u) /\ ledger' = WithTotal(u, n)

LEMMA RequestWorks ==
  ASSUME Filed, LedgerRight(ledger), NEW n \in Numbers, NEW order \in Orders, Request(n, order)
  PROVE  \E s : /\ LedgerRight(s) /\ FromLedger(s) /\ WorkDone(ledger', s, n, TRUE)
               /\ Requested(s, n, order)
<1> DEFINE zero == Put(ledger.zero, 0, stored[0].blocks[0])
           s == IF n = 1 THEN [ledger EXCEPT !.zero = zero] ELSE ledger
           pieces == BlockPieces(s, n, order)
           u == After(s, n, TRUE, pieces)
<1>1. 0 \in Numbers /\ IsRow(stored[0].blocks[0])
  BY SequencingAssumption, StoredBlocks DEF Numbers
<1>2. LedgerRight(s) /\ FromLedger(s)
  <2>1. CASE n = 1
    <3>1. s = [ledger EXCEPT !.zero = zero]
      BY <2>1
    <3>2. DOMAIN zero = DOMAIN ledger.zero \cup {0} /\ zero[0] = stored[0].blocks[0]
      BY DEF Put
    <3> HIDE DEF zero, s
    <3>3. OnlyChanges(s, ledger, {"zero"}) /\ s.zero = zero
      BY <3>1 DEF OnlyChanges, LedgerRight, IsLedger, HasFields, LedgerFields
    <3>4. /\ s.accounts = ledger.accounts /\ s.genesis = ledger.genesis
          /\ s.totals = ledger.totals /\ s.current = ledger.current /\ HasFields(s)
      BY <3>3 DEF OnlyChanges, LedgerFields
    <3>5. ZeroRight(s)
      BY <1>1, <3>2, <3>3 DEF ZeroRight, LedgerRight
    <3>6. LedgerRight(s)
      BY <3>4, <3>5 DEF LedgerRight, IsLedger, GenesisListed
    <3>7. QED  BY <3>2, <3>3, <3>6 DEF FromLedger
  <2>2. CASE n # 1
    <3>1. s = ledger
      BY <2>2
    <3> HIDE DEF s
    <3>2. QED  BY <3>1 DEF FromLedger, OnlyChanges, LedgerRight, IsLedger
  <2>3. QED  BY <2>1, <2>2
<1>3. /\ ~Stopped(u) /\ ledger' = WithTotal(u, n)
      /\ n = 0 => 0 \in DOMAIN ledger.zero
  BY DEF Request
<1> HIDE DEF s
<1>4. BlockStored(n) /\ GenesisListed(s)
  BY <1>2, StoredBlocks DEF LedgerRight
<1>5. PICK last \in Nat : PieceList(pieces, n, 1, last)
  BY <1>4, BlockPiecesAre
<1>6. BlockDone(u, s, n, TRUE)
  <2> HIDE DEF pieces
  <2>1. QED  BY <1>2, <1>3, <1>5, AfterDone
<1> HIDE DEF u
<1>7. Begun(u, s, n, {}) \/ \E roles : Begun(u, s, n, roles)
  BY <1>6 DEF BlockDone, BlockBegun
<1>8. LedgerRight(u) /\ DOMAIN s.zero \subseteq DOMAIN u.zero
  BY <1>7 DEF Begun, ZeroKept
<1>9. n \in DOMAIN DataBlock(u)
  BY <1>2, <1>3, <1>8 DEF DataBlock, FromLedger
<1>10. Committed(ledger', u) /\ ledger'.totals = Put(u.totals, n, u.current)
  BY <1>3, <1>8, WithTotalIs DEF LedgerRight
<1>11. WorkDone(ledger', s, n, TRUE)
  BY <1>6, <1>9, <1>10 DEF WorkDone
<1>12. Requested(s, n, order)
  BY <1>3 DEF Requested, u
<1>13. QED  BY <1>2, <1>11, <1>12

------------------------------------------------------------------------------
(* The steps, as the proofs below look at them.                            *)

\* The key of a row of data_account_info_snapshot.
IsSnapshot(key) == key[1] \in Numbers /\ key = <<key[1], key[2]>>

\* What is always so.
SequencingInv ==
  /\ Filed /\ LedgerRight(ledger)
  /\ at = Null \/ at \in -1 .. MaxBlock
  /\ requests \in Nat
  /\ burning = Null \/ burning \in Nat \ {0}
  /\ \A key \in snapshots : IsSnapshot(key)
  /\ harvested \subseteq Numbers
  /\ \A a \in DOMAIN selected : selected[a] \in Numbers

\* Block n is counted: by the running sequencer, or on request.
Counts(n, s, shown) ==
  /\ LedgerRight(s) /\ FromLedger(s) /\ WorkDone(ledger', s, n, shown)
  /\ Worked(n) /\ Shown(n, shown) /\ n \in harvested
  /\ UNCHANGED <<content, stored, harvested, snapshots, updating, selected, late, burning>>
  /\ \/ requests' = requests /\ s = ledger /\ at # Null /\ n = at + 1 /\ at' = n
     \/ requests' = requests + 1 /\ at' = at

\* The sequencer has begun with block n and has given it up.
GivesUp(n) ==
  /\ WorkCut(ledger', ledger, n)
  /\ Worked(n) /\ Shown(n, TRUE)
  /\ UNCHANGED <<content, stored, harvested, snapshots, updating, selected, late, burning,
                 requests>>
  /\ at # Null /\ n = at + 1 /\ at' = Null

\* What becomes of the blocks that are there, the snapshots, and the task that
\* reads them.
BalanceRows ==
  \/ UNCHANGED <<harvested, snapshots, updating, selected, late>>
  \/ \E n \in Numbers : HarvestBlock(n)
  \/ \E n \in Numbers : FullSnapshot(n)
  \/ SelectBalances

\* An account gets the balance that the task has read for it.
UpdateBalances == \E a \in DOMAIN selected : UpdateBalance(a)

\* Nothing is written but blocks and snapshots.
Rests ==
  /\ UNCHANGED <<content, stored, ledger, requests, begun, again>>
  /\ at' \in {at, Null, SequencerHead}
  /\ \/ hidden' = hidden
     \/ at # Null /\ at + 1 \in Numbers /\ hidden' \ {at + 1} = hidden \ {at + 1}
  /\ burning' \in {burning, 1}
  /\ BalanceRows

LEMMA HeadIs ==
  ASSUME NEW s, LedgerRight(s)
  PROVE  /\ DOMAIN s.totals # {} => /\ Max(DOMAIN s.totals) \in DOMAIN s.totals
                                    /\ \A m \in DOMAIN s.totals : m <= Max(DOMAIN s.totals)
         /\ DOMAIN s.totals \subseteq Numbers
<1> DEFINE S == DOMAIN s.totals
<1>1. S \in SUBSET (0 .. MaxBlock) /\ MaxBlock \in Nat
  BY SequencingAssumption DEF LedgerRight, Numbers
<1>2. CASE S # {}
  <2> HIDE DEF S
  <2>1. \E m \in S : \A p \in S : p <= m
    BY <1>1, <1>2, Working!Greatest
  <2>2. Max(S) \in S /\ \A m \in S : m <= Max(S)
    BY <2>1, Zenon DEF Max
  <2>3. QED  BY <1>1, <2>2 DEF S, Numbers
<1>3. QED  BY <1>1, <1>2 DEF Numbers

LEMMA NewestIs ==
  ASSUME \A key \in snapshots : key[1] \in Numbers
  PROVE  LET newest == Newest(snapshots)
         IN /\ DOMAIN newest = {key[2] : key \in snapshots}
            /\ \A a \in DOMAIN newest : newest[a] \in Numbers
            /\ \A key \in snapshots : newest[key[2]] >= key[1]
<1> DEFINE blocks(a) == {key[1] : key \in {k \in snapshots : k[2] = a}}
           newest == Newest(snapshots)
<1>1. DOMAIN newest = {key[2] : key \in snapshots}
      /\ \A a \in DOMAIN newest : newest[a] = Max(blocks(a))
  BY DEF Newest
<1>2. ASSUME NEW a \in DOMAIN newest
      PROVE  newest[a] \in Numbers /\ \A m \in blocks(a) : newest[a] >= m
  <2> DEFINE B == blocks(a)
  <2>1. B # {} /\ B \in SUBSET (0 .. MaxBlock) /\ MaxBlock \in Nat
    BY <1>1, <1>2, SequencingAssumption DEF Numbers
  <2>2. newest[a] = Max(B)
    BY <1>1
  <2> HIDE DEF B, newest
  <2>3. \E m \in B : \A p \in B : p <= m
    BY <2>1, Working!Greatest
  <2>4. Max(B) \in B /\ \A p \in B : p <= Max(B)
    BY <2>3, Zenon DEF Max
  <2>5. newest[a] \in Numbers /\ \A m \in B : newest[a] >= m
    BY <2>1, <2>2, <2>4 DEF Numbers
  <2>6. QED  BY <2>5 DEF B
<1>3. ASSUME NEW key \in snapshots PROVE newest[key[2]] >= key[1]
  <2>1. key[1] \in blocks(key[2]) /\ key[2] \in DOMAIN newest
    BY <1>1
  <2> HIDE DEF newest, blocks
  <2>2. QED  BY <1>2, <2>1
<1>4. QED  BY <1>1, <1>2, <1>3

\* These write nothing but the snapshots and what the task for balances has read,
LEMMA SnapshotsOnly ==
  (\E m \in Numbers : HarvestBlock(m)) \/ (\E m \in Numbers : FullSnapshot(m))
     \/ SelectBalances => Rests
<1>1. ASSUME NEW m \in Numbers, HarvestBlock(m)
      PROVE  UNCHANGED <<content, stored, ledger, at, burning, requests, ghosts>>
  BY <1>1 DEF HarvestBlock
<1>2. ASSUME NEW m \in Numbers, FullSnapshot(m)
      PROVE  UNCHANGED <<content, stored, ledger, at, burning, requests, ghosts>>
  BY <1>2 DEF FullSnapshot
<1>3. SelectBalances => UNCHANGED <<content, stored, ledger, at, burning, requests, ghosts>>
  BY DEF SelectBalances
<1>4. BalanceRows /\ UNCHANGED <<content, stored, ledger, at, burning, requests, ghosts>> => Rests
  BY DEF Rests, ghosts
<1>5. QED  BY <1>1, <1>2, <1>3, <1>4 DEF BalanceRows

\* and these not even that.
LEMMA RestsOnly == StartBurns \/ Start \/ Leave \/ UNCHANGED vars => Rests
<1>1. StartBurns => Rests
  BY DEF StartBurns, Rests, BalanceRows, ghosts
<1>2. Start \/ Leave \/ UNCHANGED vars => Rests
  BY DEF Start, Leave, vars, Rests, BalanceRows, ghosts
<1>3. QED  BY <1>1, <1>2

LEMMA BalanceRowsAre ==
  ASSUME SequencingInv, BalanceRows
  PROVE  /\ harvested \subseteq harvested' /\ harvested' \subseteq Numbers
         /\ \A key \in snapshots' : IsSnapshot(key)
         /\ \A a \in DOMAIN selected' : selected'[a] \in Numbers
<1>1. CASE UNCHANGED <<harvested, snapshots, updating, selected, late>>
  BY <1>1 DEF SequencingInv
<1>2. ASSUME NEW n \in Numbers, HarvestBlock(n)
      PROVE  /\ harvested' = harvested \cup {n} /\ selected' = selected
             /\ \A key \in snapshots' : IsSnapshot(key)
  <2>1. \A key \in SnapshotsOf(n) : IsSnapshot(key)
    BY DEF SnapshotsOf, IsSnapshot
  <2>2. QED  BY <1>2, <2>1 DEF HarvestBlock, SequencingInv
<1>3. ASSUME NEW n \in Numbers, FullSnapshot(n)
      PROVE  /\ harvested' = harvested /\ selected' = selected
             /\ \A key \in snapshots' : IsSnapshot(key)
  <2>1. \A key \in {n} \X Holders : IsSnapshot(key)
    BY DEF IsSnapshot
  <2>2. QED  BY <1>3, <2>1 DEF FullSnapshot, SequencingInv
<1>4. CASE SelectBalances
  <2>1. \A key \in snapshots : key[1] \in Numbers
    BY DEF SequencingInv, IsSnapshot
  <2>2. UNCHANGED <<harvested, snapshots>> /\ selected' = Newest(snapshots)
    BY <1>4 DEF SelectBalances
  <2>3. QED  BY <2>1, <2>2, NewestIs DEF SequencingInv
<1>5. QED  BY <1>1, <1>2, <1>3, <1>4 DEF BalanceRows, SequencingInv

\* A step is one of these.
LEMMA NextIs ==
  ASSUME SequencingInv, [Next]_vars
  PROVE  \/ \E n \in Numbers, shown \in BOOLEAN : \E s : Counts(n, s, shown)
         \/ \E n \in Numbers : GivesUp(n)
         \/ Rests
         \/ UpdateBalances
         \/ RebuildBurn
<1> DEFINE n == at + 1
<1>1. Filed /\ LedgerRight(ledger)
  BY DEF SequencingInv
<1>2. ASSUME at # Null, at < MaxBlock PROVE n \in Numbers
  BY <1>2, SequencingAssumption DEF SequencingInv, Numbers
<1>3. ASSUME NEW order \in Orders, NEW shown \in BOOLEAN, Step(order, shown)
      PROVE  \E m \in Numbers : \E s : Counts(m, s, shown)
  <2>1. /\ at # Null /\ at < MaxBlock /\ at' = n /\ Shown(n, shown) /\ Worked(n)
        /\ UNCHANGED <<content, stored, harvested, snapshots, burning, updating, selected, late,
                       requests>>
        /\ Reached(n)
    BY <1>3 DEF Step, Taken
  <2>2. n \in Numbers /\ n \in harvested
    <3>1. n \in Numbers
      BY <1>2, <2>1
    <3>2. n \in UpTo(n)
      BY <3>1 DEF UpTo, Numbers
    <3>3. QED  BY <2>1, <3>1, <3>2 DEF Reached
  <2>3. /\ ~Stopped(After(ledger, n, shown, AllPieces(n, order, shown)))
        /\ ledger' = WithTotal(After(ledger, n, shown, AllPieces(n, order, shown)), n)
    BY <1>3 DEF Step
  <2>4. WorkDone(ledger', ledger, n, shown)
    <3> HIDE DEF n
    <3>1. QED  BY <1>1, <2>2, <2>3, StepWorks
  <2>5. FromLedger(ledger)
    BY <1>1 DEF FromLedger, OnlyChanges, LedgerRight, IsLedger
  <2>6. Counts(n, ledger, shown)
    BY <1>1, <2>1, <2>2, <2>4, <2>5 DEF Counts
  <2>7. QED  BY <2>2, <2>6
<1>4. ASSUME NEW pieces, NEW first, NEW last, n \in Numbers, PieceList(pieces, n, first, last),
             NEW some, ArePieces(n, some),
             \A roles : RolesWithin(pieces, roles) => RolesWithin(some, roles),
             ledger' = Cut(After(ledger, n, TRUE, some)),
             Taken(n, TRUE), Worked(n), at' = Null
      PROVE  \E m \in Numbers : GivesUp(m)
  <2>1. WorkCut(ledger', ledger, n)
    <3> HIDE DEF n
    <3>1. QED  BY <1>1, <1>4, CutWorks
  <2>2. GivesUp(n)
    BY <1>4, <2>1 DEF GivesUp, Taken
  <2>3. QED  BY <1>4, <2>2
<1>5. ASSUME NEW order \in Orders, n \in Numbers
      PROVE  \E first, last : PieceList(AllPieces(n, order, TRUE), n, first, last)
  <2> HIDE DEF n
  <2>1. QED  BY <1>1, <1>5, AllPiecesAre DEF AllPieces
<1>6. ASSUME NEW order \in Orders, Raise(order) PROVE \E m \in Numbers : GivesUp(m)
  <2> DEFINE pieces == AllPieces(n, order, TRUE)
  <2>1. /\ Taken(n, TRUE) /\ Worked(n) /\ at' = Null
        /\ ledger' = Cut(After(ledger, n, TRUE, pieces))
    BY <1>6 DEF Raise
  <2>2. n \in Numbers
    BY <1>2, <2>1 DEF Taken
  <2>3. PICK first, last : PieceList(pieces, n, first, last)
    BY <1>5, <2>2
  <2>4. ArePieces(n, pieces)
    BY <2>3 DEF PieceList
  <2> HIDE DEF pieces, n
  <2>5. QED  BY <1>4, <2>1, <2>2, <2>3, <2>4
<1>7. ASSUME NEW order \in Orders, NEW k \in 1 .. MaxPieces, Fail(order, k)
      PROVE  \E m \in Numbers : GivesUp(m)
  <2> DEFINE pieces == AllPieces(n, order, TRUE)
             some == SubSeq(pieces, 1, k - 1)
  <2>1. /\ Taken(n, TRUE) /\ Worked(n) /\ at' = Null
        /\ ledger' = Cut(After(ledger, n, TRUE, some)) /\ k <= Len(pieces)
    BY <1>7 DEF Fail
  <2>2. n \in Numbers
    BY <1>2, <2>1 DEF Taken
  <2>3. PICK first, last : PieceList(pieces, n, first, last)
    BY <1>5, <2>2
  <2>4. ArePieces(n, pieces)
    BY <2>3 DEF PieceList
  <2>5. k \in Nat /\ 1 <= k
    BY SequencingAssumption
  <2> HIDE DEF pieces, n
  <2>6. /\ ArePieces(n, some)
        /\ \A roles : RolesWithin(pieces, roles) => RolesWithin(some, roles)
    BY <2>1, <2>4, <2>5, PiecesBefore
  <2> HIDE DEF some
  <2>7. QED  BY <1>4, <2>1, <2>2, <2>3, <2>6
<1>8. ASSUME NEW order \in Orders, Clash(order) PROVE Rests
  <2>1. Taken(n, TRUE) /\ UNCHANGED <<ledger, begun, again>> /\ at' = Null
    BY <1>8 DEF Clash
  <2>2. hidden' = hidden \ {n} /\ at # Null /\ n \in Numbers
    BY <1>2, <2>1 DEF Taken, Shown
  <2>3. QED  BY <2>1, <2>2 DEF Rests, Taken, BalanceRows
<1>9. ASSUME NEW m \in Numbers, NEW order \in Orders, Request(m, order)
      PROVE  \E s : Counts(m, s, TRUE)
  <2>1. PICK s : LedgerRight(s) /\ FromLedger(s) /\ WorkDone(ledger', s, m, TRUE)
    BY <1>1, <1>9, RequestWorks
  <2>2. /\ Worked(m) /\ Shown(m, TRUE) /\ requests' = requests + 1
        /\ UNCHANGED <<content, stored, harvested, snapshots, at, burning, updating, selected,
                       late>>
        /\ Reached(m)
    BY <1>9 DEF Request
  <2>3. m \in harvested
    BY <2>2 DEF Reached, UpTo, Numbers
  <2>4. QED  BY <2>1, <2>2, <2>3 DEF Counts
<1>10. StartBurns \/ Start \/ Leave \/ UNCHANGED vars => Rests
  BY RestsOnly
<1>11. (\E m \in Numbers : HarvestBlock(m)) \/ (\E m \in Numbers : FullSnapshot(m))
          \/ SelectBalances => Rests
  BY SnapshotsOnly
<1>12. (\E a \in DOMAIN selected : UpdateBalance(a)) => UpdateBalances
  BY DEF UpdateBalances
<1> HIDE DEF n
<1>13. CASE \E order \in Orders, shown \in BOOLEAN : Step(order, shown)
  BY <1>3, <1>13
<1>14. CASE \E m \in Numbers, order \in Orders : Request(m, order)
  BY <1>9, <1>14
<1>15. QED
  BY <1>6, <1>7, <1>8, <1>10, <1>11, <1>12, <1>13, <1>14 DEF Next

\* What is left of s after work on block n.
WorkKept(v, s, n) ==
  /\ LedgerRight(v) /\ ZeroKept(v, s, n)
  /\ \E roles : BlockRoles(n, roles) /\ AccountsKept(v, s, n, roles)
  /\ \A m \in DOMAIN s.totals \ {n} : m \in DOMAIN v.totals /\ v.totals[m] = s.totals[m]
  /\ DOMAIN v.totals \subseteq DOMAIN s.totals \cup {n}

\* And what is there for block n when the work has come to its end.
BlockCounted(v, s, n, shown) ==
  /\ n \in DOMAIN v.totals /\ n \in DOMAIN DataBlock(v)
  /\ ~TimeLost(DataBlock(v), n)
  /\ \E validators, burn : \A f \in TotalFields \ {"burn"} :
       v.totals[n][f] = WithTotals(validators, DataBlock(v), n, BeforeOf(s, n), burn)[f]
  /\ LET burns == Positions(content[n].events, {"Burnt"})
     IN /\ burns = {} => v.totals[n].burn = BeforeOf(s, n).burn
        /\ \A i \in burns :
             v.totals[n].burn = BurnTotal(BeforeOf(s, n), content[n].events[i].value, Burns)
  /\ SnapshotsTaken(v, n) /\ RolesPassed(v, n, shown)

LEMMA WorkKeeps ==
  ASSUME NEW v, NEW u, NEW s, NEW n \in Numbers, LedgerRight(s), BlockBegun(u, s, n),
         Committed(v, u), v.totals = u.totals \/ v.totals = Put(u.totals, n, u.current)
  PROVE  WorkKept(v, s, n)
<1>1. PICK roles : BlockRoles(n, roles) /\ Begun(u, s, n, roles)
  BY DEF BlockBegun
<1>2. LedgerRight(v)
  BY <1>1, CommittedRight DEF Begun
<1>3. v.accounts = u.accounts /\ v.zero = u.zero /\ v.genesis = u.genesis
  BY CommittedSame
<1>4. ZeroKept(v, s, n) /\ AccountsKept(v, s, n, roles)
  BY <1>1, <1>3 DEF Begun, ZeroKept, AccountsKept
<1>5. /\ \A m \in DOMAIN s.totals \ {n} : m \in DOMAIN v.totals /\ v.totals[m] = s.totals[m]
      /\ DOMAIN v.totals \subseteq DOMAIN s.totals \cup {n}
  BY <1>1 DEF Begun, OthersCounted, Put
<1>6. QED  BY <1>1, <1>2, <1>4, <1>5 DEF WorkKept

LEMMA WorkCounts ==
  ASSUME NEW v, NEW s, NEW n \in Numbers, NEW shown, LedgerRight(s), WorkDone(v, s, n, shown)
  PROVE  WorkKept(v, s, n) /\ BlockCounted(v, s, n, shown)
<1>1. PICK u : /\ BlockDone(u, s, n, shown) /\ n \in DOMAIN DataBlock(u)
               /\ Committed(v, u) /\ v.totals = Put(u.totals, n, u.current)
  BY DEF WorkDone
<1>2. WorkKept(v, s, n)
  BY <1>1, WorkKeeps DEF BlockDone
<1>3. v.accounts = u.accounts /\ v.zero = u.zero
  BY <1>1, CommittedSame
<1>4. DataBlock(v) = DataBlock(u)
  BY <1>3 DEF DataBlock
<1>5. n \in DOMAIN v.totals /\ v.totals[n] = u.current
  BY <1>1 DEF Put
<1>6. /\ ~TimeLost(DataBlock(v), n)
      /\ \E validators, burn : \A f \in TotalFields \ {"burn"} :
           v.totals[n][f] = WithTotals(validators, DataBlock(v), n, BeforeOf(s, n), burn)[f]
  BY <1>1, <1>4, <1>5 DEF BlockDone, TotalsTaken, TotalsOver
<1>7. SnapshotsTaken(v, n) /\ RolesPassed(v, n, shown)
  BY <1>1, <1>3 DEF BlockDone, SnapshotsTaken, RolesPassed, RoleGiven
<1>8. BurnTaken(u, s, n)
  BY <1>1 DEF BlockDone
<1>9. BlockCounted(v, s, n, shown)
  BY <1>1, <1>4, <1>5, <1>6, <1>7, <1>8 DEF BlockCounted, BurnTaken
<1>10. QED  BY <1>2, <1>9

LEMMA CountsKeeps ==
  ASSUME NEW n \in Numbers, NEW s, NEW shown, Counts(n, s, shown)
  PROVE  /\ WorkKept(ledger', s, n) /\ BlockCounted(ledger', s, n, shown)
         /\ s.accounts = ledger.accounts /\ s.totals = ledger.totals
<1>1. LedgerRight(s) /\ FromLedger(s) /\ WorkDone(ledger', s, n, shown)
  BY DEF Counts
<1>2. WorkKept(ledger', s, n) /\ BlockCounted(ledger', s, n, shown)
  BY <1>1, WorkCounts
<1>3. QED  BY <1>1, <1>2 DEF FromLedger, OnlyChanges, LedgerFields

LEMMA GivesUpKeeps ==
  ASSUME LedgerRight(ledger), NEW n \in Numbers, GivesUp(n)
  PROVE  WorkKept(ledger', ledger, n)
<1>1. PICK u : BlockBegun(u, ledger, n) /\ Committed(ledger', u) /\ ledger'.totals = u.totals
  BY DEF GivesUp, WorkCut
<1>2. QED  BY <1>1, WorkKeeps

\* Nothing but balances has changed, and those are numbers of blocks.
BalancesOnly(u, s) ==
  /\ OnlyChanges(u, s, {"accounts"})
  /\ DOMAIN u.accounts = DOMAIN s.accounts
  /\ \A a \in DOMAIN s.accounts :
       /\ IsAccount(u.accounts[a])
       /\ u.accounts[a].created = s.accounts[a].created /\ u.accounts[a].is = s.accounts[a].is
       /\ u.accounts[a].balance \in Numbers

LEMMA BalancesUpdatedIs ==
  ASSUME NEW s, LedgerRight(s), NEW newest, \A a \in DOMAIN newest : newest[a] \in Numbers
  PROVE  /\ BalancesOnly(BalancesUpdated(s, newest), s)
         /\ \A a \in DOMAIN s.accounts :
              BalancesUpdated(s, newest).accounts[a].balance
                = IF a \in DOMAIN newest THEN newest[a] ELSE s.accounts[a].balance
<1> DEFINE new(a) == IF a \in DOMAIN newest THEN [s.accounts[a] EXCEPT !.balance = newest[a]]
                     ELSE s.accounts[a]
           u == BalancesUpdated(s, newest)
<1>1. OnlyChanges(u, s, {"accounts"}) /\ u.accounts = [a \in DOMAIN s.accounts |-> new(a)]
  BY DEF BalancesUpdated, OnlyChanges, LedgerRight, IsLedger, HasFields, LedgerFields
<1>2. ASSUME NEW a \in DOMAIN s.accounts
      PROVE  /\ IsAccount(new(a))
             /\ new(a).created = s.accounts[a].created /\ new(a).is = s.accounts[a].is
             /\ new(a).balance \in Numbers
             /\ new(a).balance = IF a \in DOMAIN newest THEN newest[a] ELSE s.accounts[a].balance
  <2> DEFINE old == s.accounts[a]
             row == new(a)
  <2>1. IsAccount(old) /\ old.balance \in Numbers
    BY DEF LedgerRight, IsLedger
  <2>2. row = IF a \in DOMAIN newest THEN [old EXCEPT !.balance = newest[a]] ELSE old
    OBVIOUS
  <2> HIDE DEF row, old
  <2>3. CASE a \notin DOMAIN newest
    BY <2>1, <2>2, <2>3 DEF row, old
  <2>4. CASE a \in DOMAIN newest
    <3>1. /\ IsAccount(row) /\ row.created = old.created /\ row.is = old.is
          /\ row.balance = newest[a]
      BY <2>1, <2>2, <2>4 DEF IsAccount, AccountFields
    <3>2. QED  BY <2>4, <3>1 DEF row, old
  <2>5. QED  BY <2>3, <2>4
<1>3. DOMAIN u.accounts = DOMAIN s.accounts /\ \A a \in DOMAIN s.accounts : u.accounts[a] = new(a)
  <2> HIDE DEF new
  <2>1. QED  BY <1>1
<1> HIDE DEF u, new
<1>4. BalancesOnly(u, s)
  BY <1>1, <1>2, <1>3 DEF BalancesOnly
<1>5. QED  BY <1>2, <1>3, <1>4 DEF u

LEMMA UpdateIs ==
  ASSUME SequencingInv, UpdateBalances
  PROVE  /\ BalancesOnly(ledger', ledger)
         /\ DOMAIN selected' \subseteq DOMAIN selected
         /\ \A a \in DOMAIN selected' : selected'[a] = selected[a]
         /\ UNCHANGED <<content, stored, harvested, snapshots, at, burning, updating, late,
                        requests, ghosts>>
<1>1. PICK a \in DOMAIN selected : UpdateBalance(a)
  BY DEF UpdateBalances
<1>2. /\ ledger' = BalancesUpdated(ledger, [b \in {a} |-> selected[b]])
      /\ selected' = Without(selected, {a})
      /\ UNCHANGED <<content, stored, harvested, snapshots, at, burning, updating, late,
                     requests, ghosts>>
  BY <1>1 DEF UpdateBalance
<1>3. LedgerRight(ledger)
      /\ \A c \in DOMAIN [b \in {a} |-> selected[b]] : [b \in {a} |-> selected[b]][c] \in Numbers
  BY DEF SequencingInv
<1>4. BalancesOnly(ledger', ledger)
  BY <1>2, <1>3, BalancesUpdatedIs
<1>5. /\ DOMAIN selected' \subseteq DOMAIN selected
      /\ \A c \in DOMAIN selected' : selected'[c] = selected[c]
  BY <1>2 DEF Without
<1>6. QED  BY <1>2, <1>4, <1>5

\* One burn is written over, or nothing.
BurnRebuilt(v, n) ==
  /\ OnlyChanges(v, ledger, {"totals"})
  /\ DOMAIN v.totals = DOMAIN ledger.totals
  /\ \A m \in DOMAIN v.totals :
       /\ DOMAIN v.totals[m] = TotalFields
       /\ \A f \in TotalFields \ {"burn"} : v.totals[m][f] = ledger.totals[m][f]
       /\ m # n \/ (n > 1 /\ n - 1 \notin Counted) => v.totals[m] = ledger.totals[m]

LEMMA RebuildIs ==
  ASSUME SequencingInv, RebuildBurn
  PROVE  /\ BurnRebuilt(ledger', burning)
         /\ burning # Null /\ (burning' = Null \/ burning' = burning + 1)
         /\ UNCHANGED <<content, stored, harvested, snapshots, at, updating, selected, late, requests,
                        begun, hidden>>
<1> DEFINE n == burning
           before == IF n > 1 THEN BeforeOf(ledger, n) ELSE NoTotal
           burns == Positions(content[n].events, {"Burnt"})
           burn == IF burns = {} THEN before.burn
                   ELSE BurnTotal(before, content[n].events[Min(burns)].value, Burns)
<1>1. /\ burning # Null /\ (burning' = Null \/ burning' = burning + 1)
      /\ ledger' = IF n \notin Counted \/ (n > 1 /\ n - 1 \notin Counted) THEN ledger
                   ELSE [ledger EXCEPT !.totals[n].burn = burn]
      /\ UNCHANGED <<content, stored, harvested, snapshots, at, updating, selected, late, requests,
                     begun, hidden>>
  BY DEF RebuildBurn, ghosts
<1> HIDE DEF burn
<1>2. IsLedger(ledger)
  BY DEF SequencingInv, LedgerRight
<1>3. CASE n \notin Counted \/ (n > 1 /\ n - 1 \notin Counted)
  <2>1. ledger' = ledger
    BY <1>1, <1>3
  <2>2. QED  BY <1>1, <1>2, <2>1 DEF BurnRebuilt, OnlyChanges, IsLedger
<1>4. CASE ~(n \notin Counted \/ (n > 1 /\ n - 1 \notin Counted))
  <2> DEFINE row == [ledger.totals[n] EXCEPT !.burn = burn]
             totals == [ledger.totals EXCEPT ![n] = row]
  <2>1. ledger' = [ledger EXCEPT !.totals = totals]
    BY <1>1, <1>4
  <2>2. DOMAIN row = TotalFields /\ \A f \in TotalFields \ {"burn"} : row[f] = ledger.totals[n][f]
    BY <1>2, <1>4 DEF IsLedger, Counted
  <2> HIDE DEF row
  <2>3. /\ DOMAIN totals = DOMAIN ledger.totals
        /\ \A m \in DOMAIN totals : totals[m] = IF m = n THEN row ELSE ledger.totals[m]
    BY <1>4
  <2> HIDE DEF totals, n
  <2>4. OnlyChanges(ledger', ledger, {"totals"}) /\ ledger'.totals = totals
    BY <1>2, <2>1 DEF OnlyChanges, IsLedger, HasFields, LedgerFields
  <2> DEFINE v == ledger'
  <2>5. v.totals = totals /\ OnlyChanges(v, ledger, {"totals"})
    BY <2>4
  <2>6. BurnRebuilt(v, n)
    <3> HIDE DEF v
    <3>1. QED  BY <1>2, <1>4, <2>2, <2>3, <2>5 DEF BurnRebuilt, IsLedger
  <2>7. QED  BY <1>1, <2>6 DEF n
<1>5. QED  BY <1>3, <1>4

------------------------------------------------------------------------------
(* What is always so, and how far the sequencer has come.                  *)

LEMMA InitInv == Init => SequencingInv
<1> SUFFICES ASSUME Init PROVE SequencingInv
  OBVIOUS
<1>1. Filed
  BY DEF Init, Filed
<1>2. LedgerRight(NoLedger)
  <2>1. GenesisListed(NoLedger)
    BY AreLists DEF GenesisListed, NoLedger
  <2>2. ZeroRight(NoLedger)
    BY DEF ZeroRight, NoLedger, NoRows
  <2>3. QED  BY <2>1, <2>2, NoLedgerIsLedger DEF LedgerRight, NoLedger, NoRows
<1>3. \A key \in snapshots : IsSnapshot(key)
  BY DEF Init, SnapshotsOf, IsSnapshot
<1>4. harvested \subseteq Numbers /\ DOMAIN selected = {}
  BY DEF Init, NoRows
<1>5. QED  BY <1>1, <1>2, <1>3, <1>4 DEF SequencingInv, Init

LEMMA RightStays ==
  ASSUME NEW v, LedgerRight(v), v = ledger', UNCHANGED <<content, stored>>, Filed
  PROVE  (Filed /\ LedgerRight(ledger))'
BY DEF Filed, LedgerRight, ZeroRight

LEMMA HeadRange ==
  ASSUME SequencingInv
  PROVE  SequencerHead \in -1 .. MaxBlock
<1>1. MaxBlock \in Nat
  BY SequencingAssumption
<1>2. CASE Counted = {}
  BY <1>1, <1>2 DEF SequencerHead
<1>3. CASE Counted # {}
  <2>1. Max(Counted) \in Numbers
    BY <1>3, HeadIs DEF Counted, SequencingInv
  <2>2. QED  BY <1>3, <2>1 DEF SequencerHead, Numbers
<1>4. QED  BY <1>2, <1>3

LEMMA StepInv == SequencingInv /\ [Next]_vars => SequencingInv'
<1> SUFFICES ASSUME SequencingInv, [Next]_vars PROVE SequencingInv'
  OBVIOUS
<1>1. Filed /\ LedgerRight(ledger) /\ MaxBlock \in Nat
  BY SequencingAssumption DEF SequencingInv
<1>2. SequencerHead \in -1 .. MaxBlock
  BY HeadRange
<1>3. ASSUME NEW n \in Numbers, NEW s, NEW shown \in BOOLEAN, Counts(n, s, shown)
      PROVE  SequencingInv'
  <2>1. LedgerRight(ledger')
    BY <1>3, CountsKeeps DEF WorkKept
  <2>2. /\ UNCHANGED <<content, stored, harvested, snapshots, selected, burning>>
        /\ requests' = requests \/ requests' = requests + 1
        /\ at' = n \/ at' = at
    BY <1>3 DEF Counts
  <2>3. (Filed /\ LedgerRight(ledger))'
    BY <1>1, <2>1, <2>2, RightStays
  <2>4. n \in -1 .. MaxBlock
    BY DEF Numbers
  <2>5. QED  BY <2>2, <2>3, <2>4 DEF SequencingInv
<1>4. ASSUME NEW n \in Numbers, GivesUp(n) PROVE SequencingInv'
  <2>1. LedgerRight(ledger')
    BY <1>1, <1>4, GivesUpKeeps DEF WorkKept
  <2>2. UNCHANGED <<content, stored, harvested, snapshots, selected, burning, requests>>
        /\ at' = Null
    BY <1>4 DEF GivesUp
  <2>3. (Filed /\ LedgerRight(ledger))'
    BY <1>1, <2>1, <2>2, RightStays
  <2>4. QED  BY <2>2, <2>3 DEF SequencingInv
<1>5. CASE Rests
  <2>1. /\ UNCHANGED <<content, stored, ledger, requests>> /\ at' \in {at, Null, SequencerHead}
        /\ burning' \in {burning, 1}
    BY <1>5 DEF Rests
  <2>2. (Filed /\ LedgerRight(ledger))'
    BY <1>1, <2>1, RightStays
  <2>3. /\ harvested' \subseteq Numbers /\ \A key \in snapshots' : IsSnapshot(key)
        /\ \A a \in DOMAIN selected' : selected'[a] \in Numbers
    BY <1>5, BalanceRowsAre DEF Rests
  <2>4. QED  BY <1>2, <2>1, <2>2, <2>3 DEF SequencingInv
<1>6. CASE UpdateBalances
  <2> DEFINE v == ledger'
  <2>1. /\ UNCHANGED <<content, stored, harvested, snapshots, at, burning, requests>>
        /\ \A a \in DOMAIN selected' : a \in DOMAIN selected /\ selected'[a] = selected[a]
    BY <1>6, UpdateIs
  <2>2. BalancesOnly(v, ledger)
    BY <1>6, UpdateIs
  <2> HIDE DEF v
  <2>3. /\ v.zero = ledger.zero /\ v.genesis = ledger.genesis /\ v.totals = ledger.totals
        /\ v.current = ledger.current /\ HasFields(v)
    BY <2>2 DEF BalancesOnly, OnlyChanges, LedgerFields
  <2>4. \A a \in DOMAIN v.accounts :
          /\ IsAccount(v.accounts[a])
          /\ v.accounts[a].balance \in Numbers /\ v.accounts[a].created \in Numbers
    BY <1>1, <2>2 DEF BalancesOnly, LedgerRight
  <2>5. LedgerRight(v)
    BY <1>1, <2>3, <2>4 DEF LedgerRight, IsLedger, GenesisListed, ZeroRight
  <2>6. (Filed /\ LedgerRight(ledger))'
    BY <1>1, <2>1, <2>5, RightStays DEF v
  <2>7. QED  BY <2>1, <2>6 DEF SequencingInv
<1>7. CASE RebuildBurn
  <2> DEFINE v == ledger'
  <2>1. /\ BurnRebuilt(v, burning)
        /\ burning # Null /\ (burning' = Null \/ burning' = burning + 1)
        /\ UNCHANGED <<content, stored, harvested, snapshots, selected, at, requests>>
    BY <1>7, RebuildIs
  <2> HIDE DEF v
  <2>2. /\ v.zero = ledger.zero /\ v.genesis = ledger.genesis /\ v.accounts = ledger.accounts
        /\ v.current = ledger.current /\ HasFields(v)
    BY <2>1 DEF BurnRebuilt, OnlyChanges, LedgerFields
  <2>3. /\ DOMAIN v.totals = DOMAIN ledger.totals
        /\ \A m \in DOMAIN v.totals : DOMAIN v.totals[m] = TotalFields
    BY <2>1 DEF BurnRebuilt
  <2>4. LedgerRight(v)
    BY <1>1, <2>2, <2>3 DEF LedgerRight, IsLedger, GenesisListed, ZeroRight
  <2>5. (Filed /\ LedgerRight(ledger))'
    BY <1>1, <2>1, <2>4, RightStays DEF v
  <2>6. burning' = Null \/ burning' \in Nat \ {0}
    BY <2>1 DEF SequencingInv
  <2>7. QED  BY <2>1, <2>5, <2>6 DEF SequencingInv
<1>8. QED  BY <1>3, <1>4, <1>5, <1>6, <1>7, NextIs

\* As long as only the sequencer has been at work it has counted the blocks up
\* to the highest, block 0 has got its row, and at most the next one is begun.
Upward ==
  requests = 0 =>
    /\ Counted = 0 .. SequencerHead /\ Counted \subseteq harvested
    /\ at = Null \/ at = SequencerHead
    /\ begun \subseteq 0 .. SequencerHead + 1
    /\ SequencerHead >= 0 => 0 \in DOMAIN ledger.zero
    /\ \A a \in DOMAIN ledger.accounts : ledger.accounts[a].created <= SequencerHead + 1

LEMMA LastOfUpTo ==
  ASSUME NEW h \in -1 .. MaxBlock, NEW S, S = 0 .. h
  PROVE  (IF S = {} THEN -1 ELSE Max(S)) = h
<1>1. MaxBlock \in Nat
  BY SequencingAssumption
<1>2. CASE h = -1
  BY <1>2
<1>3. CASE h >= 0
  <2>1. h \in 0 .. h /\ \A m \in 0 .. h : m <= h
    BY <1>1, <1>3
  <2>2. \A m \in 0 .. h : (\A p \in 0 .. h : p <= m) => m = h
    BY <1>1, <1>3
  <2>3. Max(0 .. h) = h
    BY <2>1, <2>2 DEF Max
  <2>4. QED  BY <2>1, <2>3
<1>4. QED  BY <1>1, <1>2, <1>3

\* The step of the sequencer to its next block.
OneOn(n, s, shown) ==
  /\ Counts(n, s, shown) /\ s = ledger /\ n = SequencerHead + 1 /\ SequencerHead' = n
  /\ Counted' = 0 .. n /\ requests = 0 /\ at' = n

LEMMA CountsOneOn ==
  ASSUME SequencingInv, Upward, NEW n \in Numbers, NEW s, NEW shown, Counts(n, s, shown),
         requests' = 0
  PROVE  OneOn(n, s, shown)
<1> DEFINE h == SequencerHead
<1>1. h \in -1 .. MaxBlock /\ MaxBlock \in Nat
  BY HeadRange, SequencingAssumption
<1>2. requests = 0 /\ s = ledger /\ at # Null /\ n = at + 1 /\ at' = n
  BY DEF Counts, SequencingInv
<1>3. Counted = 0 .. h /\ at = h
  BY <1>2 DEF Upward
<1> HIDE DEF h
<1>4. /\ \A m \in DOMAIN s.totals \ {n} : m \in DOMAIN ledger'.totals
      /\ DOMAIN ledger'.totals \subseteq DOMAIN s.totals \cup {n} /\ n \in DOMAIN ledger'.totals
  BY CountsKeeps DEF WorkKept, BlockCounted
<1>5. n = h + 1 /\ n \in -1 .. MaxBlock
  BY <1>2, <1>3 DEF Numbers
<1>6. 0 .. n = (0 .. h) \cup {n}
  BY <1>1, <1>5 DEF Numbers
<1>7. Counted' = 0 .. n
  BY <1>2, <1>3, <1>4, <1>6 DEF Counted
<1>8. SequencerHead' = n
  BY <1>5, <1>7, LastOfUpTo DEF SequencerHead
<1>9. QED  BY <1>2, <1>5, <1>7, <1>8 DEF OneOn, h

\* The sequencer stays where it is, whatever it has done to its next block.
LEMMA GivesUpThere ==
  ASSUME SequencingInv, Upward, NEW n \in Numbers, GivesUp(n), requests' = 0
  PROVE  /\ requests = 0 /\ n = SequencerHead + 1
         /\ Counted' = Counted /\ SequencerHead' = SequencerHead
         /\ \A m \in Counted : ledger'.totals[m] = ledger.totals[m]
<1> DEFINE h == SequencerHead
<1>1. h \in -1 .. MaxBlock /\ MaxBlock \in Nat
  BY HeadRange, SequencingAssumption
<1>2. requests = 0 /\ at # Null /\ n = at + 1
  BY DEF GivesUp
<1>3. Counted = 0 .. h /\ at = h
  BY <1>2 DEF Upward
<1>4. PICK u : BlockBegun(u, ledger, n) /\ ledger'.totals = u.totals
  BY DEF GivesUp, WorkCut
<1>5. OthersCounted(u, ledger, n)
  BY <1>4 DEF BlockBegun, Begun
<1> HIDE DEF h
<1>6. n \notin Counted
  BY <1>1, <1>2, <1>3
<1>7. DOMAIN ledger'.totals = DOMAIN ledger.totals
  BY <1>4, <1>5, <1>6 DEF OthersCounted, Counted
<1>8. Counted' = Counted /\ SequencerHead' = SequencerHead
  BY <1>7 DEF Counted, SequencerHead
<1>9. \A m \in Counted : ledger'.totals[m] = ledger.totals[m]
  BY <1>4, <1>5, <1>7 DEF OthersCounted, Counted
<1>10. QED  BY <1>2, <1>3, <1>8, <1>9 DEF h

\* Steps that count nothing.
LEMMA NothingCounted ==
  ASSUME SequencingInv, Rests \/ UpdateBalances \/ RebuildBurn
  PROVE  /\ Counted' = Counted /\ SequencerHead' = SequencerHead
         /\ ledger'.zero = ledger.zero /\ begun' = begun /\ requests' = requests
         /\ UNCHANGED <<content, stored>>
<1>1. CASE Rests
  <2>1. UNCHANGED <<content, stored, ledger, begun, requests>>
    BY <1>1 DEF Rests
  <2>2. QED  BY <2>1 DEF Counted, SequencerHead
<1>2. CASE UpdateBalances
  <2>1. OnlyChanges(ledger', ledger, {"accounts"})
    BY <1>2, UpdateIs DEF BalancesOnly
  <2>2. ledger'.totals = ledger.totals /\ ledger'.zero = ledger.zero
    BY <2>1 DEF OnlyChanges, LedgerFields
  <2>3. UNCHANGED <<content, stored, begun, requests>>
    BY <1>2, UpdateIs DEF ghosts
  <2>4. QED  BY <2>2, <2>3 DEF Counted, SequencerHead
<1>3. CASE RebuildBurn
  <2>1. BurnRebuilt(ledger', burning) /\ UNCHANGED <<content, stored, begun, requests>>
    BY <1>3, RebuildIs
  <2>2. DOMAIN ledger'.totals = DOMAIN ledger.totals /\ ledger'.zero = ledger.zero
    BY <2>1 DEF BurnRebuilt, OnlyChanges, LedgerFields
  <2>3. QED  BY <2>1, <2>2 DEF Counted, SequencerHead
<1>4. QED  BY <1>1, <1>2, <1>3

LEMMA AgesBelow ==
  ASSUME NEW v, NEW s, NEW n \in Int, NEW roles, AccountsKept(v, s, n, roles),
         NEW h \in Int, h <= n,
         \A a \in DOMAIN s.accounts : s.accounts[a].created \in Int /\ s.accounts[a].created <= h
  PROVE  \A a \in DOMAIN v.accounts : v.accounts[a].created \in Int /\ v.accounts[a].created <= n
BY DEF AccountsKept, AccountKept, AccountMade

LEMMA InitUpward == Init => Upward
<1> SUFFICES ASSUME Init PROVE Upward
  OBVIOUS
<1>1. Counted = {} /\ ledger.accounts = NoRows /\ at = Null /\ begun = {}
  BY DEF Init, NoLedger, NoRows, Counted
<1>2. SequencerHead = -1 /\ DOMAIN ledger.accounts = {}
  BY <1>1 DEF SequencerHead, NoRows
<1>3. QED  BY <1>1, <1>2 DEF Upward

LEMMA StepUpward == SequencingInv /\ Upward /\ [Next]_vars => Upward'
<1> SUFFICES ASSUME SequencingInv, Upward, [Next]_vars, requests' = 0 PROVE Upward'
  BY DEF Upward
<1> DEFINE h == SequencerHead
<1>1. h \in -1 .. MaxBlock /\ MaxBlock \in Nat /\ LedgerRight(ledger)
  BY HeadRange, SequencingAssumption DEF SequencingInv
<1>2. ASSUME requests = 0
      PROVE  /\ Counted = 0 .. h /\ (at = Null \/ at = h) /\ begun \subseteq 0 .. h + 1
             /\ Counted \subseteq harvested
             /\ h >= 0 => 0 \in DOMAIN ledger.zero
             /\ \A a \in DOMAIN ledger.accounts :
                  ledger.accounts[a].created \in Int /\ ledger.accounts[a].created <= h + 1
  <2>1. \A a \in DOMAIN ledger.accounts : ledger.accounts[a].created \in Int
    BY <1>1 DEF LedgerRight, Numbers
  <2>2. QED  BY <1>2, <2>1 DEF Upward
<1>3. ASSUME NEW n \in Numbers, NEW s, NEW shown \in BOOLEAN, Counts(n, s, shown)
      PROVE  Upward'
  <2>1. OneOn(n, s, shown)
    BY <1>3, CountsOneOn
  <2>2. /\ requests = 0 /\ n = h + 1 /\ SequencerHead' = n /\ Counted' = 0 .. n
        /\ at' = n /\ s = ledger
    BY <2>1 DEF OneOn
  <2>3. WorkKept(ledger', ledger, n) /\ n \in DOMAIN DataBlock(ledger')
    BY <1>3, <2>2, CountsKeeps DEF BlockCounted
  <2>4. begun' = begun \cup {n} /\ n \in Int
    BY <1>3 DEF Counts, Worked, Numbers
  <2> HIDE DEF h
  <2>5. begun' \subseteq 0 .. n + 1
    BY <1>1, <1>2, <2>2, <2>4
  <2>6. 0 \in DOMAIN ledger'.zero
    <3>1. CASE n = 0
      BY <2>3, <3>1 DEF DataBlock
    <3>2. CASE n # 0
      <4>1. h >= 0
        BY <1>1, <2>2, <3>2
      <4>2. QED  BY <1>2, <2>2, <2>3, <4>1 DEF WorkKept, ZeroKept
    <3>3. QED  BY <3>1, <3>2
  <2>7. \A a \in DOMAIN ledger'.accounts :
          ledger'.accounts[a].created \in Int /\ ledger'.accounts[a].created <= n
    <3>1. PICK roles : AccountsKept(ledger', ledger, n, roles)
      BY <2>3 DEF WorkKept
    <3>2. QED  BY <1>1, <1>2, <2>2, <2>4, <3>1, AgesBelow
  <2>8. \A a \in DOMAIN ledger'.accounts : ledger'.accounts[a].created <= n + 1
    BY <2>4, <2>7
  <2>9. Counted' \subseteq harvested'
    <3>1. harvested' = harvested /\ n \in harvested
      BY <1>3 DEF Counts
    <3>2. 0 .. n = (0 .. h) \cup {n}
      BY <1>1, <2>2, <2>4
    <3>3. QED  BY <1>2, <2>2, <3>1, <3>2
  <2>10. QED  BY <2>2, <2>5, <2>6, <2>8, <2>9 DEF Upward
<1>4. ASSUME NEW n \in Numbers, GivesUp(n) PROVE Upward'
  <2>1. /\ requests = 0 /\ n = h + 1 /\ Counted' = Counted /\ SequencerHead' = h
    BY <1>4, GivesUpThere
  <2>2. WorkKept(ledger', ledger, n)
    BY <1>1, <1>4, GivesUpKeeps
  <2>3. begun' = begun \cup {n} /\ at' = Null /\ n \in Int /\ harvested' = harvested
    BY <1>4 DEF GivesUp, Worked, Numbers
  <2>4. DOMAIN ledger.zero \subseteq DOMAIN ledger'.zero
    BY <2>2 DEF WorkKept, ZeroKept
  <2>5. PICK roles : AccountsKept(ledger', ledger, n, roles)
    BY <2>2 DEF WorkKept
  <2> HIDE DEF h
  <2>6. begun' \subseteq 0 .. h + 1
    BY <1>1, <1>2, <2>1, <2>3
  <2>7. \A a \in DOMAIN ledger'.accounts : ledger'.accounts[a].created <= n
    BY <1>1, <1>2, <2>1, <2>3, <2>5, AgesBelow
  <2>8. QED  BY <1>2, <2>1, <2>3, <2>4, <2>6, <2>7 DEF Upward
<1>5. ASSUME Rests \/ UpdateBalances \/ RebuildBurn PROVE Upward'
  <2>1. /\ Counted' = Counted /\ SequencerHead' = h
        /\ ledger'.zero = ledger.zero /\ begun' = begun /\ requests = 0
    BY <1>5, NothingCounted
  <2>2. at' \in {at, Null, h} /\ harvested \subseteq harvested'
    BY <1>5, UpdateIs, RebuildIs, BalanceRowsAre DEF Rests
  <2>3. \A a \in DOMAIN ledger'.accounts :
          /\ a \in DOMAIN ledger.accounts
          /\ ledger'.accounts[a].created = ledger.accounts[a].created
    <3>1. CASE Rests
      BY <3>1 DEF Rests
    <3>2. CASE UpdateBalances
      BY <3>2, UpdateIs DEF BalancesOnly
    <3>3. CASE RebuildBurn
      <4>1. ledger'.accounts = ledger.accounts
        BY <3>3, RebuildIs DEF BurnRebuilt, OnlyChanges, LedgerFields
      <4>2. QED  BY <4>1
    <3>4. QED  BY <1>5, <3>1, <3>2, <3>3
  <2> HIDE DEF h
  <2>4. QED  BY <1>2, <2>1, <2>2, <2>3 DEF Upward
<1>6. QED  BY <1>3, <1>4, <1>5, NextIs

------------------------------------------------------------------------------
(* Balances.                                                               *)

\* The balances are up to date, but for those that the task is about to write; and
\* what it has read is.
UpToDate ==
  requests = 0 =>
    \A key \in snapshots \ late :
      /\ key[1] \in Counted /\ key[2] \in DOMAIN ledger.accounts /\ BalanceRests(key[2]) =>
           ledger.accounts[key[2]].balance >= key[1]
      /\ key[2] \in DOMAIN selected => selected[key[2]] >= key[1]

\* Work on the block after the highest leaves no older balance.
LEMMA BalancesKept ==
  ASSUME NEW v, NEW h \in Int, NEW n, n = h + 1, NEW roles, LedgerRight(ledger),
         AccountsKept(v, ledger, n, roles), NEW key, key[1] \in 0 .. h,
         key[2] \in DOMAIN ledger.accounts => ledger.accounts[key[2]].balance >= key[1],
         key[2] \in DOMAIN v.accounts
  PROVE  v.accounts[key[2]].balance >= key[1]
<1> DEFINE a == key[2]
<1>1. CASE a \in DOMAIN ledger.accounts
  <2>1. AccountKept(v.accounts[a], ledger.accounts[a], n, roles)
    BY <1>1 DEF AccountsKept
  <2>2. QED  BY <1>1, <2>1 DEF AccountKept
<1>2. CASE a \notin DOMAIN ledger.accounts
  <2>1. AccountMade(v.accounts[a], n, roles)
    BY <1>2 DEF AccountsKept
  <2>2. QED  BY <2>1 DEF AccountMade
<1>3. QED  BY <1>1, <1>2

LEMMA StepUpToDate == SequencingInv /\ Upward /\ UpToDate /\ [Next]_vars => UpToDate'
<1> SUFFICES ASSUME SequencingInv, Upward, UpToDate, [Next]_vars, requests' = 0 PROVE UpToDate'
  BY DEF UpToDate
<1> DEFINE h == SequencerHead
<1>1. h \in -1 .. MaxBlock /\ MaxBlock \in Nat /\ LedgerRight(ledger)
  BY HeadRange, SequencingAssumption DEF SequencingInv
<1>2. ASSUME requests = 0, NEW key \in snapshots \ late
      PROVE  /\ key[1] \in 0 .. h /\ key[2] \in DOMAIN ledger.accounts /\ BalanceRests(key[2]) =>
                  ledger.accounts[key[2]].balance >= key[1]
             /\ key[2] \in DOMAIN selected => selected[key[2]] >= key[1]
             /\ Counted = 0 .. h
  BY <1>2 DEF Upward, UpToDate
<1>3. ASSUME NEW n \in Numbers, NEW s, NEW shown \in BOOLEAN, Counts(n, s, shown)
      PROVE  UpToDate'
  <2>1. OneOn(n, s, shown)
    BY <1>3, CountsOneOn
  <2>2. requests = 0 /\ n = h + 1 /\ Counted' = 0 .. n /\ s = ledger
    BY <2>1 DEF OneOn
  <2>3. UNCHANGED <<snapshots, updating, selected, late>>
    BY <1>3 DEF Counts
  <2> DEFINE v == ledger'
  <2>4. WorkKept(v, ledger, n) /\ SnapshotsTaken(v, n)
    BY <1>3, <2>2, CountsKeeps DEF BlockCounted
  <2>5. PICK roles : AccountsKept(v, ledger, n, roles)
    BY <2>4 DEF WorkKept
  <2> HIDE DEF h, v
  <2>6. ASSUME NEW key \in snapshots \ late, key[1] \in 0 .. n, key[2] \in DOMAIN v.accounts,
               BalanceRests(key[2])
        PROVE  v.accounts[key[2]].balance >= key[1]
    <3>1. CASE key[1] = n
      <4>1. key = <<n, key[2]>>
        BY <2>3, <3>1 DEF SequencingInv, IsSnapshot
      <4>2. v.accounts[key[2]].balance = n
        BY <2>4, <2>6, <4>1 DEF SnapshotsTaken
      <4>3. QED  BY <3>1, <4>2 DEF Numbers
    <3>2. CASE key[1] # n
      <4>1. key[1] \in 0 .. h
        BY <1>1, <2>2, <2>6, <3>2
      <4>2. key[2] \in DOMAIN ledger.accounts => ledger.accounts[key[2]].balance >= key[1]
        BY <1>2, <2>2, <2>6, <4>1
      <4>3. QED  BY <1>1, <2>2, <2>5, <2>6, <4>1, <4>2, BalancesKept
    <3>3. QED  BY <3>1, <3>2
  <2>7. \A a : (BalanceRests(a))' <=> BalanceRests(a)
    BY <2>3 DEF BalanceRests
  <2>8. QED  BY <1>2, <2>2, <2>3, <2>6, <2>7 DEF UpToDate, v
<1>4. ASSUME NEW n \in Numbers, GivesUp(n) PROVE UpToDate'
  <2>1. requests = 0 /\ n = h + 1 /\ Counted' = Counted
    BY <1>4, GivesUpThere
  <2>2. UNCHANGED <<snapshots, updating, selected, late>>
    BY <1>4 DEF GivesUp
  <2> DEFINE v == ledger'
  <2>3. WorkKept(v, ledger, n)
    BY <1>1, <1>4, GivesUpKeeps
  <2>4. PICK roles : AccountsKept(v, ledger, n, roles)
    BY <2>3 DEF WorkKept
  <2> HIDE DEF h, v
  <2>5. ASSUME NEW key \in snapshots \ late, key[1] \in Counted, key[2] \in DOMAIN v.accounts,
               BalanceRests(key[2])
        PROVE  v.accounts[key[2]].balance >= key[1]
    <3>1. key[1] \in 0 .. h
      BY <1>2, <2>1, <2>5
    <3>2. key[2] \in DOMAIN ledger.accounts => ledger.accounts[key[2]].balance >= key[1]
      BY <1>2, <2>1, <2>5, <3>1
    <3>3. QED  BY <1>1, <2>1, <2>4, <2>5, <3>1, <3>2, BalancesKept
  <2>6. \A a : (BalanceRests(a))' <=> BalanceRests(a)
    BY <2>2 DEF BalanceRests
  <2>7. QED  BY <1>2, <2>1, <2>2, <2>5, <2>6 DEF UpToDate, v
<1>5. CASE Rests
  <2>1. Counted' = Counted /\ requests = 0 /\ ledger' = ledger /\ BalanceRows
    BY <1>5, NothingCounted DEF Rests
  <2>2. CASE UNCHANGED <<harvested, snapshots, updating, selected, late>>
    BY <2>1, <2>2 DEF UpToDate, BalanceRests
  <2>3. ASSUME NEW n \in Numbers, HarvestBlock(n) PROVE UpToDate'
    <3>1. /\ n \notin harvested /\ snapshots' = snapshots \cup SnapshotsOf(n)
          /\ late' = IF DOMAIN selected = {} THEN late ELSE late \cup SnapshotsOf(n)
          /\ UNCHANGED <<updating, selected>>
      BY <2>3 DEF HarvestBlock
    <3>2. n \notin Counted /\ \A key \in SnapshotsOf(n) : key[1] = n
      BY <2>1, <3>1 DEF Upward, SnapshotsOf
    <3>3. \A key \in snapshots' \ late' : \/ key \in snapshots \ late
                                           \/ /\ key \in SnapshotsOf(n)
                                              /\ DOMAIN selected = {}
      BY <3>1
    <3>4. QED  BY <2>1, <3>1, <3>2, <3>3 DEF UpToDate, BalanceRests
  <2>4. ASSUME NEW n \in Numbers, FullSnapshot(n) PROVE UpToDate'
    <3>1. updating' /\ DOMAIN selected' = {}
      BY <2>4 DEF FullSnapshot
    <3>2. QED  BY <3>1 DEF UpToDate, BalanceRests
  <2>5. CASE SelectBalances
    <3>1. snapshots' = snapshots /\ selected' = Newest(snapshots)
      BY <2>5 DEF SelectBalances
    <3>2. \A key \in snapshots : key[1] \in Numbers
      BY DEF SequencingInv, IsSnapshot
    <3>3. \A key \in snapshots' : key[2] \in DOMAIN selected' /\ selected'[key[2]] >= key[1]
      BY <3>1, <3>2, NewestIs
    <3>4. QED  BY <3>3 DEF UpToDate, BalanceRests
  <2>6. QED  BY <2>1, <2>2, <2>3, <2>4, <2>5 DEF BalanceRows
<1>6. CASE UpdateBalances
  <2>1. PICK a \in DOMAIN selected : UpdateBalance(a)
    BY <1>6 DEF UpdateBalances
  <2> DEFINE one == [b \in {a} |-> selected[b]]
             v == ledger'
  <2>2. /\ v = BalancesUpdated(ledger, one) /\ selected' = Without(selected, {a})
        /\ UNCHANGED <<snapshots, updating, late>>
    BY <2>1 DEF UpdateBalance
  <2>3. DOMAIN one = {a} /\ one[a] = selected[a] /\ \A b \in DOMAIN one : one[b] \in Numbers
    BY DEF SequencingInv
  <2>4. Counted' = Counted /\ requests = 0
    BY <1>6, NothingCounted
  <2> HIDE DEF one, v
  <2>5. /\ DOMAIN v.accounts = DOMAIN ledger.accounts
        /\ \A b \in DOMAIN ledger.accounts :
             v.accounts[b].balance = IF b = a THEN selected[a] ELSE ledger.accounts[b].balance
    BY <1>1, <2>2, <2>3, BalancesUpdatedIs DEF BalancesOnly
  <2>6. DOMAIN selected' = DOMAIN selected \ {a} /\ \A b \in DOMAIN selected' : selected'[b] = selected[b]
    BY <2>2 DEF Without
  <2>7. ASSUME NEW key \in snapshots \ late, key[1] \in Counted, key[2] \in DOMAIN v.accounts,
               (BalanceRests(key[2]))'
        PROVE  v.accounts[key[2]].balance >= key[1]
    <3>1. CASE key[2] = a
      BY <1>2, <2>4, <2>5, <2>7, <3>1
    <3>2. CASE key[2] # a
      <4>1. BalanceRests(key[2])
        BY <2>2, <2>6, <2>7, <3>2 DEF BalanceRests
      <4>2. QED  BY <2>4, <2>5, <2>7, <3>2, <4>1 DEF UpToDate
    <3>3. QED  BY <3>1, <3>2
  <2>8. QED  BY <1>2, <2>2, <2>4, <2>6, <2>7 DEF UpToDate, v
<1>7. CASE RebuildBurn
  <2>1. Counted' = Counted /\ requests = 0
    BY <1>7, NothingCounted
  <2>2. UNCHANGED <<snapshots, updating, selected, late>> /\ ledger'.accounts = ledger.accounts
    BY <1>7, RebuildIs DEF BurnRebuilt, OnlyChanges, LedgerFields
  <2>3. QED  BY <2>1, <2>2 DEF UpToDate, BalanceRests
<1>8. QED  BY <1>3, <1>4, <1>5, <1>6, <1>7, NextIs

\* The balance of an account is never older than its last snapshot in a block
\* that is counted, in whatever order the hooks of the blocks run, wherever the
\* sequencer is stopped, and whatever blocks come in and are counted while the task
\* writes balances - unless the snapshot came when the task had read the snapshots
\* and not yet written the balances.
THEOREM BalancesStayLatest == Spec => []BalancesLatest
<1>1. Init => UpToDate
  <2>1. Init => Counted = {} /\ DOMAIN selected = {}
    BY DEF Init, NoLedger, NoRows, Counted
  <2>2. QED  BY <2>1 DEF UpToDate
<1>2. UpToDate => BalancesLatest
  BY DEF UpToDate, BalancesLatest, InStep
<1>3. QED
  BY <1>1, <1>2, InitInv, StepInv, InitUpward, StepUpward, StepUpToDate, PTL DEF Spec

------------------------------------------------------------------------------
(* Roles.                                                                  *)

\* The role is that of the accounts it was given to which had a row by then.
Held(s, role, by) ==
  \A a \in DOMAIN s.accounts :
    role \in s.accounts[a].is <=> a \in by.accounts /\ s.accounts[a].created <= by.block

\* The roles are those given last, as long as the next block that gives them is
\* not half done.
RolesRight ==
  requests = 0 =>
    \A role \in {"council", "validator"} :
      LET by == Appointed(role, SequencerHead)
      IN /\ SequencerHead + 1 \in begun => ~Gives(SequencerHead + 1, role)
         /\ by.block \notin hidden \cup {Null}
         => Held(ledger, role, by)

\* The blocks up to n that give the role.
Giving(role, n) == {m \in 1 .. n : Positions(content[m].events, {KindOf(role)}) # {}}

LEMMA AppointedIs ==
  ASSUME NEW role \in {"council", "validator"}, NEW n \in -1 .. MaxBlock
  PROVE  /\ Giving(role, n) = {} => Appointed(role, n).block = Null
         /\ Giving(role, n) # {} =>
              LET last == Max(Giving(role, n))
                  places == Positions(content[last].events, {KindOf(role)})
              IN /\ last \in Giving(role, n) /\ \A m \in Giving(role, n) : m <= last
                 /\ Appointed(role, n) =
                      [block |-> last,
                       accounts |-> GivenBy(role, content[last].events[Max(places)], TRUE)]
<1> DEFINE blocks == Giving(role, n)
           last == Max(blocks)
           place == Max(Positions(content[last].events, {KindOf(role)}))
           e == content[last].events[place]
<1>1. Appointed(role, n) =
        IF blocks = {} THEN [block |-> Null, accounts |-> {}]
        ELSE [block |-> last,
              accounts |-> ToSet(IF role = "council" THEN e.members ELSE e.validators)]
  BY DEF Appointed, Giving, KindOf
<1>2. blocks # {} => last \in blocks /\ \A m \in blocks : m <= last
  <2>1. CASE blocks # {}
    <3>1. n \in Nat /\ blocks \in SUBSET (0 .. n)
      BY <2>1, SequencingAssumption DEF Giving
    <3> HIDE DEF blocks
    <3>2. \E m \in blocks : \A p \in blocks : p <= m
      BY <2>1, <3>1, Working!Greatest
    <3>3. QED  BY <3>2, Zenon DEF Max, blocks
  <2>2. QED  BY <2>1
<1>3. GivenBy(role, e, TRUE) = ToSet(IF role = "council" THEN e.members ELSE e.validators)
  BY DEF GivenBy, SessionShown
<1> HIDE DEF e
<1>4. CASE blocks = {}
  BY <1>1, <1>4
<1>5. CASE blocks # {}
  <2>1. Appointed(role, n) = [block |-> last, accounts |-> GivenBy(role, e, TRUE)]
    BY <1>1, <1>3, <1>5
  <2>2. QED  BY <1>2, <1>5, <2>1 DEF e
<1>6. QED  BY <1>4, <1>5

\* Who has got the role is not changed by a block that does not give it.
LEMMA NotGiven ==
  ASSUME NEW role \in {"council", "validator"}, NEW h \in -1 .. MaxBlock, NEW n \in Numbers,
         n = h + 1, ~Gives(n, role)
  PROVE  Appointed(role, n) = Appointed(role, h)
<1>1. n # 0 /\ Positions(content[n].events, {KindOf(role)}) = {}
  BY DEF Gives, KindOf
<1>2. 1 .. n = (1 .. h) \cup {n}
  BY <1>1 DEF Numbers
<1>3. Giving(role, n) = Giving(role, h)
  BY <1>1, <1>2 DEF Giving
<1> DEFINE kind == IF role = "council" THEN "NewTerm" ELSE "NewSession"
           some(m) == {i \in 1 .. m : Positions(content[i].events, {kind}) # {}}
<1>4. some(n) = some(h)
  BY <1>3 DEF Giving, KindOf
<1>5. QED  BY <1>4 DEF Appointed

\* It is by one that does, at that block.
LEMMA NowGiven ==
  ASSUME NEW role \in {"council", "validator"}, NEW n \in Numbers, n # 0, Gives(n, role)
  PROVE  LET places == Positions(content[n].events, {KindOf(role)})
         IN /\ places # {}
            /\ Appointed(role, n) =
                 [block |-> n, accounts |-> GivenBy(role, content[n].events[Max(places)], TRUE)]
<1>1. Positions(content[n].events, {KindOf(role)}) # {}
  BY DEF Gives, KindOf
<1>2. n \in Giving(role, n) /\ \A m \in Giving(role, n) : m \in Int /\ m <= n
  BY <1>1 DEF Giving, Numbers
<1>3. n \in -1 .. MaxBlock
  BY DEF Numbers
<1> DEFINE last == Max(Giving(role, n))
           places == Positions(content[last].events, {KindOf(role)})
<1>4. /\ last \in Giving(role, n) /\ \A m \in Giving(role, n) : m <= last
      /\ Appointed(role, n) =
           [block |-> last, accounts |-> GivenBy(role, content[last].events[Max(places)], TRUE)]
  BY <1>2, <1>3, AppointedIs
<1>5. last = n
  <2> HIDE DEF last
  <2>1. last <= n /\ n <= last /\ last \in Int /\ n \in Int
    BY <1>2, <1>4 DEF Numbers
  <2>2. QED  BY <2>1
<1>6. QED  BY <1>1, <1>4, <1>5

LEMMA BlockOfBy ==
  ASSUME NEW role \in {"council", "validator"}, NEW n \in -1 .. MaxBlock,
         Appointed(role, n).block # Null
  PROVE  Appointed(role, n).block \in 1 .. n
<1>1. Giving(role, n) # {}
  BY AppointedIs
<1>2. \E last, accounts : last \in Giving(role, n)
                           /\ Appointed(role, n) = [block |-> last, accounts |-> accounts]
  BY <1>1, AppointedIs, Zenon
<1>3. \E last \in Giving(role, n) : Appointed(role, n).block = last
  BY <1>2
<1>4. QED  BY <1>3 DEF Giving

LEMMA HeldOn ==
  ASSUME NEW v, NEW s, NEW h \in Int, NEW n, n = h + 1, NEW roles, AccountsKept(v, s, n, roles),
         NEW role, role \notin roles, NEW by, by.block \in 1 .. h, Held(s, role, by)
  PROVE  Held(v, role, by)
<1> SUFFICES ASSUME NEW a \in DOMAIN v.accounts
             PROVE  role \in v.accounts[a].is
                      <=> a \in by.accounts /\ v.accounts[a].created <= by.block
  BY DEF Held
<1>1. CASE a \in DOMAIN s.accounts
  <2>1. AccountKept(v.accounts[a], s.accounts[a], n, roles)
    BY <1>1 DEF AccountsKept
  <2>2. QED  BY <1>1, <2>1 DEF AccountKept, Held
<1>2. CASE a \notin DOMAIN s.accounts
  <2>1. AccountMade(v.accounts[a], n, roles)
    BY <1>2 DEF AccountsKept
  <2>2. QED  BY <2>1 DEF AccountMade
<1>3. QED  BY <1>1, <1>2

LEMMA StepRoles == SequencingInv /\ Upward /\ RolesRight /\ [Next]_vars => RolesRight'
<1> DEFINE h == SequencerHead
           Open(n, role) == n \in begun' => ~Gives(n, role)
<1> SUFFICES ASSUME SequencingInv, Upward, RolesRight, [Next]_vars, requests' = 0, content' = content,
                    NEW role \in {"council", "validator"},
                    Open(SequencerHead' + 1, role),
                    Appointed(role, SequencerHead').block \notin hidden' \cup {Null}
             PROVE  Held(ledger', role, Appointed(role, SequencerHead'))
  <2>1. ASSUME SequencingInv, [Next]_vars PROVE content' = content
    BY <2>1, NextIs, NothingCounted DEF Counts, GivesUp
  <2>2. ASSUME content' = content
        PROVE  \A role \in {"council", "validator"} :
                 /\ Appointed(role, SequencerHead)' = Appointed(role, SequencerHead')
                 /\ \A n : Gives(n, role)' = Gives(n, role)
    BY <2>2 DEF Appointed, Gives
  <2>3. QED  BY <2>1, <2>2 DEF RolesRight, Held, Gives
<1>1. h \in -1 .. MaxBlock /\ MaxBlock \in Nat /\ LedgerRight(ledger)
  BY HeadRange, SequencingAssumption DEF SequencingInv
<1>2. ASSUME requests = 0, ~(h + 1 \in begun /\ Gives(h + 1, role)),
             Appointed(role, h).block \notin hidden \cup {Null}
      PROVE  Held(ledger, role, Appointed(role, h)) /\ Appointed(role, h).block \in 1 .. h
  <2>1. Held(ledger, role, Appointed(role, h))
    BY <1>2 DEF RolesRight
  <2>2. Appointed(role, h).block \in 1 .. h
    <3> HIDE DEF h
    <3>1. QED  BY <1>1, <1>2, BlockOfBy
  <2>3. QED  BY <2>1, <2>2
<1>3. ASSUME NEW n \in Numbers, NEW s, NEW shown \in BOOLEAN, Counts(n, s, shown)
      PROVE  Held(ledger', role, Appointed(role, SequencerHead'))
  <2> DEFINE v == ledger'
  <2>1. OneOn(n, s, shown)
    BY <1>3, CountsOneOn
  <2>2. /\ requests = 0 /\ n = h + 1 /\ SequencerHead' = n /\ s = ledger
    BY <2>1 DEF OneOn
  <2>3. Shown(n, shown)
    BY <1>3 DEF Counts
  <2>4. WorkKept(v, ledger, n) /\ RolesPassed(v, n, shown)
    BY <1>3, <2>2, CountsKeeps DEF BlockCounted
  <2>5. PICK roles : BlockRoles(n, roles) /\ AccountsKept(v, ledger, n, roles)
    BY <2>4 DEF WorkKept
  <2>6. Appointed(role, n).block \notin hidden' \cup {Null}
    BY <2>2
  <2>7. \A a \in DOMAIN ledger.accounts :
          ledger.accounts[a].created \in Int /\ ledger.accounts[a].created <= n
    BY <1>1, <2>2 DEF Upward, LedgerRight, Numbers
  <2> HIDE DEF v
  <2>8. CASE n = 0
    <3>1. Giving(role, n) = {} /\ n \in -1 .. MaxBlock
      BY <1>1, <2>8 DEF Giving
    <3>2. QED  BY <2>6, <3>1, AppointedIs
  <2>9. CASE n # 0 /\ ~Gives(n, role)
    <3> DEFINE by == Appointed(role, h)
    <3>1. Appointed(role, n) = by
      <4> HIDE DEF h
      <4>1. QED  BY <1>1, <2>2, <2>9, NotGiven
    <3>2. by.block # Null /\ by.block \notin hidden'
      BY <2>6, <3>1
    <3> HIDE DEF h
    <3>3. by.block \in 1 .. h
      BY <1>1, <3>2, BlockOfBy
    <3>4. by.block \notin hidden
      BY <1>1, <2>2, <2>3, <3>2, <3>3 DEF Shown
    <3>5. Held(ledger, role, by)
      BY <1>2, <2>2, <2>9, <3>2, <3>4
    <3>6. role \notin roles
      BY <2>5, <2>9 DEF BlockRoles
    <3> HIDE DEF by
    <3>7. Held(v, role, by)
      BY <1>1, <2>2, <2>5, <3>3, <3>5, <3>6, HeldOn
    <3>8. QED  BY <2>2, <3>1, <3>7 DEF v
  <2>10. CASE n # 0 /\ Gives(n, role)
    <3> DEFINE places == Positions(content[n].events, {KindOf(role)})
               given == GivenBy(role, content[n].events[Max(places)], TRUE)
    <3>1. places # {} /\ Appointed(role, n) = [block |-> n, accounts |-> given]
      BY <2>10, NowGiven
    <3>2. n \notin hidden'
      BY <2>6, <3>1
    <3>3. shown
      BY <2>3, <3>2 DEF Shown
    <3>4. RoleGiven(v, role, given)
      BY <2>4, <3>1, <3>3 DEF RolesPassed
    <3> HIDE DEF given, places
    <3>5. \A a \in DOMAIN v.accounts : v.accounts[a].created <= n
      <4>1. n \in Int /\ n <= n
        BY DEF Numbers
      <4>2. QED  BY <2>5, <2>7, <4>1, AgesBelow
    <3>6. Held(v, role, Appointed(role, n))
      BY <3>1, <3>4, <3>5 DEF Held, RoleGiven
    <3>7. QED  BY <2>2, <3>6 DEF v
  <2>11. QED  BY <2>8, <2>9, <2>10
<1>4. ASSUME NEW n \in Numbers, GivesUp(n)
      PROVE  Held(ledger', role, Appointed(role, SequencerHead'))
  <2> DEFINE v == ledger'
             by == Appointed(role, h)
  <2>1. requests = 0 /\ n = h + 1 /\ SequencerHead' = h
    BY <1>4, GivesUpThere
  <2>2. WorkKept(v, ledger, n)
    BY <1>1, <1>4, GivesUpKeeps
  <2>3. PICK roles : BlockRoles(n, roles) /\ AccountsKept(v, ledger, n, roles)
    BY <2>2 DEF WorkKept
  <2>4. n \in begun' /\ hidden' = hidden \ {n}
    BY <1>4 DEF GivesUp, Worked, Shown
  <2>5. ~Gives(n, role)
    BY <2>1, <2>4
  <2>6. by.block # Null /\ by.block \notin hidden'
    BY <2>1
  <2> HIDE DEF v, h
  <2>7. by.block \in 1 .. h
    BY <1>1, <2>6, BlockOfBy
  <2>8. by.block \notin hidden
    BY <1>1, <2>1, <2>4, <2>6, <2>7
  <2>9. Held(ledger, role, by)
    BY <1>2, <2>1, <2>5, <2>6, <2>8
  <2>10. role \notin roles
    BY <2>3, <2>5 DEF BlockRoles
  <2> HIDE DEF by
  <2>11. Held(v, role, by)
    BY <1>1, <2>1, <2>3, <2>7, <2>9, <2>10, HeldOn
  <2>12. QED  BY <2>1, <2>11 DEF v, by
<1>5. ASSUME Rests \/ UpdateBalances \/ RebuildBurn
      PROVE  Held(ledger', role, Appointed(role, SequencerHead'))
  <2> DEFINE by == Appointed(role, h)
  <2>1. SequencerHead' = h /\ begun' = begun /\ requests = 0
    BY <1>5, NothingCounted
  <2>2. by.block # Null /\ by.block \notin hidden'
    BY <2>1
  <2>3. h + 1 \in begun => ~Gives(h + 1, role)
    BY <2>1
  <2>4. at = Null \/ at = h
    BY <2>1 DEF Upward
  <2>5. \/ hidden' = hidden
        \/ at # Null /\ hidden' \ {at + 1} = hidden \ {at + 1}
    BY <1>5, RebuildIs, UpdateIs DEF Rests, ghosts
  <2>6. /\ DOMAIN ledger'.accounts = DOMAIN ledger.accounts
        /\ \A a \in DOMAIN ledger.accounts :
             /\ ledger'.accounts[a].created = ledger.accounts[a].created
             /\ ledger'.accounts[a].is = ledger.accounts[a].is
    <3>1. CASE Rests
      BY <3>1 DEF Rests
    <3>2. CASE UpdateBalances
      BY <3>2, UpdateIs DEF BalancesOnly
    <3>3. CASE RebuildBurn
      <4>1. ledger'.accounts = ledger.accounts
        BY <3>3, RebuildIs DEF BurnRebuilt, OnlyChanges, LedgerFields
      <4>2. QED  BY <4>1
    <3>4. QED  BY <1>5, <3>1, <3>2, <3>3
  <2> HIDE DEF h
  <2>7. by.block \in 1 .. h
    BY <1>1, <2>2, BlockOfBy
  <2>8. by.block \notin hidden
    <3> DEFINE block == by.block
    <3>1. block # h + 1
      BY <1>1, <2>7
    <3> HIDE DEF block
    <3>2. QED  BY <2>2, <2>4, <2>5, <3>1 DEF block
  <2>9. Held(ledger, role, by)
    BY <1>2, <2>1, <2>2, <2>3, <2>8
  <2>10. QED  BY <2>1, <2>6, <2>9 DEF Held
<1>6. QED  BY <1>3, <1>4, <1>5, NextIs

\* The council and the validators are the accounts that the last term and the
\* last session named, of those that had a row by then, and whoever has a role
\* has had it: whatever audits of genesis, judgements and sudo keys there are,
\* and also when the next block is half done but gives no such role.
THEOREM RolesAlwaysFollow == Spec => []RolesFollow
<1>1. Init => RolesRight
  <2> SUFFICES ASSUME Init PROVE RolesRight
    OBVIOUS
  <2>1. DOMAIN ledger.accounts = {}
    BY DEF Init, NoLedger, NoRows
  <2>2. QED  BY <2>1 DEF RolesRight, Held
<1>2. SequencingInv /\ Upward /\ RolesRight => RolesFollow
  <2> SUFFICES ASSUME SequencingInv, Upward, RolesRight PROVE RolesFollow
    OBVIOUS
  <2>1. \A a \in DOMAIN ledger.accounts :
          ledger.accounts[a].is \subseteq ledger.accounts[a].was \cup {"treasury"}
    BY DEF SequencingInv, LedgerRight, IsLedger, IsAccount
  <2> DEFINE h == SequencerHead
  <2>2. ASSUME InStep PROVE requests = 0 /\ h + 1 \notin begun
    <3>1. requests = 0 /\ begun \subseteq Counted /\ Counted = 0 .. h
      BY <2>2 DEF InStep, Upward
    <3>2. h \in -1 .. MaxBlock /\ MaxBlock \in Nat
      BY HeadRange, SequencingAssumption
    <3> HIDE DEF h
    <3>3. h + 1 \notin 0 .. h
      BY <3>2
    <3>4. QED  BY <3>1, <3>3
  <2>3. QED  BY <2>1, <2>2 DEF RolesFollow, RolesRight, Held
<1>3. QED
  BY <1>1, <1>2, InitInv, StepInv, InitUpward, StepUpward, StepRoles, PTL DEF Spec

------------------------------------------------------------------------------
(* Burns.                                                                  *)

\* What the events up to block n have burnt.
BurnsTo(n) == SumFunction([m \in 1 .. n |-> BurntIn(m)])

LEMMA BurntInIs ==
  ASSUME Filed, NEW n \in Numbers
  PROVE  /\ BurntIn(n) \in Nat
         /\ Positions(content[n].events, {"Burnt"}) = {} => BurntIn(n) = 0
         /\ \A i \in Positions(content[n].events, {"Burnt"}) :
              content[n].events[i].value \in Nat /\ BurntIn(n) = content[n].events[i].value
<1> DEFINE S == Positions(content[n].events, {"Burnt"})
           w == [i \in S |-> content[n].events[i].value]
           none == [i \in {} |-> 0]
<1>1. IsFiniteSet(S)
  BY StoredBlocks, PositionsAreFinite DEF IsBlock
<1>2. (\A i \in S : content[n].events[i].value \in Nat) /\ \A i, j \in S : i = j
  BY ChainsAssumption DEF Filed
<1>3. BurntIn(n) = SumFunction(w)
  BY DEF BurntIn
<1>4. BurntIn(n) \in Nat
  <2>1. DOMAIN w = S /\ \A i \in DOMAIN w : w[i] \in Nat
    BY <1>2
  <2> HIDE DEF w, S
  <2>2. QED  BY <1>1, <1>3, <2>1, SumOfNaturals
<1>5. ASSUME S = {} PROVE BurntIn(n) = 0
  <2>1. DOMAIN w = {}
    BY <1>5
  <2> HIDE DEF w
  <2>2. QED  BY <1>3, <2>1, SumOfNone
<1>6. ASSUME NEW i \in S PROVE BurntIn(n) = content[n].events[i].value
  <2>1. SumFunction(none) = 0
    <3>1. DOMAIN none = {}
      OBVIOUS
    <3> HIDE DEF none
    <3>2. QED  BY <3>1, SumOfNone
  <2>2. OneValueMore(w, none, i)
    <3>1. S = {i}
      BY <1>2
    <3>2. QED  BY <3>1, FS_EmptySet DEF OneValueMore
  <2>3. (\A m \in DOMAIN w : w[m] \in Int) /\ w[i] = content[n].events[i].value /\ w[i] \in Nat
    BY <1>2
  <2> HIDE DEF w, none
  <2>4. SumFunction(w) = w[i] + 0
    BY <2>1, <2>2, <2>3, SumOfOneMore
  <2>5. QED  BY <1>3, <2>3, <2>4
<1>7. QED  BY <1>2, <1>4, <1>5, <1>6

LEMMA BurnsToNext ==
  ASSUME Filed, NEW n \in Numbers
  PROVE  /\ BurnsTo(n) \in Int /\ BurnsTo(n - 1) \in Int
         /\ n = 0 => BurnsTo(n) = 0
         /\ n # 0 => BurnsTo(n) = BurntIn(n) + BurnsTo(n - 1)
<1> DEFINE w == [m \in 1 .. n |-> BurntIn(m)]
           v == [m \in 1 .. n - 1 |-> BurntIn(m)]
<1>1. n \in Nat /\ n <= MaxBlock /\ MaxBlock \in Nat
  BY SequencingAssumption DEF Numbers
<1>2. \A m \in 1 .. n : m \in Numbers
  BY <1>1 DEF Numbers
<1>3. /\ DOMAIN w = 1 .. n /\ \A m \in DOMAIN w : w[m] \in Nat
      /\ DOMAIN v = 1 .. n - 1 /\ \A m \in DOMAIN v : v[m] \in Nat
  BY <1>1, <1>2, BurntInIs
<1>4. IsFiniteSet(1 .. n) /\ IsFiniteSet(1 .. n - 1)
  BY <1>1, FS_Interval
<1>5. BurnsTo(n) = SumFunction(w) /\ BurnsTo(n - 1) = SumFunction(v)
  BY DEF BurnsTo
<1>6. n # 0 => OneValueMore(w, v, n) /\ w[n] = BurntIn(n)
  BY <1>1, <1>4 DEF OneValueMore
<1> HIDE DEF w, v
<1>7. SumFunction(w) \in Nat /\ SumFunction(v) \in Nat
  BY <1>3, <1>4, SumOfNaturals
<1>8. ASSUME n # 0 PROVE SumFunction(w) = BurntIn(n) + SumFunction(v)
  <2>1. OneValueMore(w, v, n) /\ w[n] = BurntIn(n) /\ \A m \in DOMAIN w : w[m] \in Int
    BY <1>3, <1>6, <1>8
  <2>2. SumFunction(w) = w[n] + SumFunction(v)
    BY <2>1, SumOfOneMore
  <2>3. QED  BY <2>1, <2>2
<1>9. n = 0 => SumFunction(w) = 0
  BY <1>3, SumOfNone
<1>10. QED  BY <1>5, <1>7, <1>8, <1>9

LEMMA BurnsAre ==
  ASSUME Filed, harvested \subseteq Numbers
  PROVE  Burns \in Nat
<1> DEFINE w == [m \in harvested \ {0} |-> BurntIn(m)]
<1>1. MaxBlock \in Nat /\ Numbers = 0 .. MaxBlock
  BY SequencingAssumption DEF Numbers
<1>2. /\ DOMAIN w = harvested \ {0} /\ (\A m \in DOMAIN w : w[m] \in Nat)
      /\ Burns = SumFunction(w)
  BY BurntInIs DEF Burns
<1>3. IsFiniteSet(harvested \ {0})
  <2>1. IsFiniteSet(0 .. MaxBlock) /\ harvested \ {0} \subseteq 0 .. MaxBlock
    BY <1>1, FS_Interval
  <2>2. QED  BY <2>1, FS_Subset
<1> HIDE DEF w
<1>4. QED  BY <1>2, <1>3, SumOfNaturals

\* The burns of a block over those of its parent.
LEMMA BurnsOn ==
  ASSUME Filed, harvested \subseteq Numbers, NEW n \in Numbers, NEW before, before.burn \in Int,
         n # 0 => before.burn >= BurnsTo(n - 1), n = 0 => before.burn = 0, NEW burn,
         Positions(content[n].events, {"Burnt"}) = {} => burn = before.burn,
         \A i \in Positions(content[n].events, {"Burnt"}) :
           burn = BurnTotal(before, content[n].events[i].value, Burns)
  PROVE  burn \in Int /\ burn >= BurnsTo(n)
<1> DEFINE S == Positions(content[n].events, {"Burnt"})
<1>1. BurnsTo(n) \in Int /\ BurnsTo(n - 1) \in Int /\ Burns \in Nat /\ BurntIn(n) \in Nat
  BY BurnsToNext, BurnsAre, BurntInIs
<1>2. CASE n = 0
  <2>1. content[0].events = <<>>
    BY ChainsAssumption DEF Filed
  <2>2. S = {}
    BY <1>2, <2>1 DEF Positions
  <2>3. QED  BY <1>2, <2>2, BurnsToNext
<1>3. CASE n # 0
  <2>1. BurnsTo(n) = BurntIn(n) + BurnsTo(n - 1)
    BY <1>3, BurnsToNext
  <2>2. CASE S = {}
    <3>1. BurntIn(n) = 0
      BY <2>2, BurntInIs
    <3>2. QED  BY <1>1, <1>3, <2>1, <2>2, <3>1
  <2>3. CASE S # {}
    <3>1. PICK i \in S : TRUE
      BY <2>3
    <3> DEFINE value == content[n].events[i].value
    <3>2. value \in Nat /\ BurntIn(n) = value
      BY BurntInIs
    <3>3. burn = BurnTotal(before, value, Burns)
      OBVIOUS
    <3> HIDE DEF value, S
    <3>4. burn = value + (IF before.burn = 0 THEN Burns ELSE before.burn)
      BY <3>3 DEF BurnTotal
    <3>5. QED  BY <1>1, <1>3, <2>1, <3>2, <3>4
  <2>4. QED  BY <2>2, <2>3
<1>4. QED  BY <1>2, <1>3

BurnsRight ==
  requests = 0 =>
    \A n \in Counted : ledger.totals[n].burn \in Int /\ ledger.totals[n].burn >= BurnsTo(n)

LEMMA StepBurns == SequencingInv /\ Upward /\ BurnsRight /\ [Next]_vars => BurnsRight'
<1> SUFFICES ASSUME SequencingInv, Upward, BurnsRight, [Next]_vars, requests' = 0,
                    NEW m \in Counted'
             PROVE  ledger'.totals[m].burn \in Int /\ ledger'.totals[m].burn >= BurnsTo(m)
  <2>1. ASSUME SequencingInv, [Next]_vars PROVE content' = content
    BY <2>1, NextIs, NothingCounted DEF Counts, GivesUp
  <2>2. QED  BY <2>1 DEF BurnsRight, BurnsTo, BurntIn
<1> DEFINE h == SequencerHead
<1>1. h \in -1 .. MaxBlock /\ MaxBlock \in Nat /\ LedgerRight(ledger) /\ Filed
      /\ harvested \subseteq Numbers
  BY HeadRange, SequencingAssumption DEF SequencingInv
<1>2. ASSUME requests = 0
      PROVE  /\ Counted = 0 .. h
             /\ \A k \in Counted :
                  ledger.totals[k].burn \in Int /\ ledger.totals[k].burn >= BurnsTo(k)
  BY <1>2 DEF Upward, BurnsRight
<1>3. ASSUME NEW n \in Numbers, NEW s, NEW shown \in BOOLEAN, Counts(n, s, shown)
      PROVE  ledger'.totals[m].burn \in Int /\ ledger'.totals[m].burn >= BurnsTo(m)
  <2> DEFINE v == ledger'
             before == BeforeOf(ledger, n)
  <2>1. OneOn(n, s, shown)
    BY <1>3, CountsOneOn
  <2>2. /\ requests = 0 /\ n = h + 1 /\ Counted' = 0 .. n /\ s = ledger
    BY <2>1 DEF OneOn
  <2>3. WorkKept(v, ledger, n) /\ BlockCounted(v, ledger, n, shown)
    BY <1>3, <2>2, CountsKeeps
  <2>4. CASE m # n
    <3>1. m \in Counted \ {n}
      <4> HIDE DEF h
      <4>1. QED  BY <1>1, <1>2, <2>2, <2>4
    <3>2. v.totals[m] = ledger.totals[m]
      BY <2>3, <3>1 DEF WorkKept, Counted
    <3>3. QED  BY <1>2, <2>2, <3>1, <3>2
  <2>5. CASE m = n
    <3>1. /\ Positions(content[n].events, {"Burnt"}) = {} => v.totals[n].burn = before.burn
          /\ \A i \in Positions(content[n].events, {"Burnt"}) :
               v.totals[n].burn = BurnTotal(before, content[n].events[i].value, Burns)
      BY <2>3 DEF BlockCounted
    <3>2. CASE n = 0
      <4>1. before = NoTotal
        <5>1. n - 1 \notin DOMAIN ledger.totals
          BY <1>1, <3>2 DEF LedgerRight, Numbers
        <5>2. QED  BY <5>1 DEF BeforeOf, RowOr
      <4>2. before.burn = 0
        BY <4>1 DEF NoTotal
      <4> HIDE DEF v, before
      <4>3. QED  BY <1>1, <2>5, <3>1, <3>2, <4>2, BurnsOn DEF v
    <3>3. CASE n # 0
      <4>1. n - 1 = h /\ h \in Counted
        <5> HIDE DEF h
        <5>1. QED  BY <1>1, <1>2, <2>2, <3>3
      <4>2. before = ledger.totals[n - 1]
        BY <4>1 DEF BeforeOf, RowOr, Counted
      <4>3. before.burn \in Int /\ before.burn >= BurnsTo(n - 1)
        BY <1>2, <2>2, <4>1, <4>2
      <4> HIDE DEF v, before
      <4>4. QED  BY <1>1, <2>5, <3>1, <3>3, <4>3, BurnsOn DEF v
    <3>4. QED  BY <3>2, <3>3
  <2>6. QED  BY <2>4, <2>5
<1>4. ASSUME NEW n \in Numbers, GivesUp(n)
      PROVE  ledger'.totals[m].burn \in Int /\ ledger'.totals[m].burn >= BurnsTo(m)
  <2>1. requests = 0 /\ Counted' = Counted /\ ledger'.totals[m] = ledger.totals[m]
    BY <1>4, GivesUpThere
  <2>2. QED  BY <1>2, <2>1
<1>5. ASSUME Rests \/ UpdateBalances
      PROVE  ledger'.totals[m].burn \in Int /\ ledger'.totals[m].burn >= BurnsTo(m)
  <2>1. requests = 0 /\ Counted' = Counted
    BY <1>5, NothingCounted
  <2>2. ledger'.totals = ledger.totals
    BY <1>5, UpdateIs DEF Rests, BalancesOnly, OnlyChanges, LedgerFields
  <2>3. QED  BY <1>2, <2>1, <2>2
<1>6. CASE RebuildBurn
  <2> DEFINE n == burning
             v == ledger'
             before == IF n > 1 THEN BeforeOf(ledger, n) ELSE NoTotal
             burns == Positions(content[n].events, {"Burnt"})
             burn == IF burns = {} THEN before.burn
                     ELSE BurnTotal(before, content[n].events[Min(burns)].value, Burns)
  <2>1. requests = 0 /\ Counted' = Counted
    BY <1>6, NothingCounted
  <2>2. /\ BurnRebuilt(v, n) /\ n # Null
    BY <1>6, RebuildIs
  <2>3. n \in Nat \ {0}
    BY <2>2 DEF SequencingInv
  <2>4. CASE m # n \/ (n > 1 /\ n - 1 \notin Counted)
    <3>1. v.totals[m] = ledger.totals[m]
      BY <2>2, <2>4 DEF BurnRebuilt, Counted
    <3>2. QED  BY <1>2, <2>1, <3>1
  <2>5. CASE ~(m # n \/ (n > 1 /\ n - 1 \notin Counted))
    <3>1. m = n /\ n \in Counted /\ (n > 1 => n - 1 \in Counted) /\ n \in Numbers
      BY <1>1, <2>1, <2>5 DEF LedgerRight, Counted
    <3>2. v.totals[n].burn = burn
      <4> HIDE DEF burn
      <4>1. v = [ledger EXCEPT !.totals[n].burn = burn]
        BY <1>6, <3>1 DEF RebuildBurn, burn
      <4>2. "totals" \in DOMAIN ledger /\ "burn" \in DOMAIN ledger.totals[n]
        BY <1>1, <3>1 DEF LedgerRight, IsLedger, HasFields, LedgerFields, TotalFields, Counted
      <4>3. n \in DOMAIN ledger.totals
        BY <3>1 DEF Counted
      <4>4. QED  BY <4>1, <4>2, <4>3
    <3>3. before.burn \in Int /\ before.burn >= BurnsTo(n - 1)
      <4>1. CASE n > 1
        <5>1. before = ledger.totals[n - 1]
          BY <3>1, <4>1 DEF BeforeOf, RowOr, Counted
        <5>2. QED  BY <1>2, <2>1, <3>1, <4>1, <5>1
      <4>2. CASE ~(n > 1)
        <5>1. n - 1 = 0 /\ 0 \in Numbers
          BY <1>1, <2>3, <4>2 DEF Numbers
        <5>2. BurnsTo(n - 1) = 0
          BY <1>1, <5>1, BurnsToNext
        <5>3. before.burn = 0
          BY <4>2 DEF NoTotal
        <5>4. QED  BY <5>2, <5>3
      <4>3. QED  BY <4>1, <4>2
    <3>4. burns = {} => burn = before.burn
      OBVIOUS
    <3>5. \A i \in burns : burn = BurnTotal(before, content[n].events[i].value, Burns)
      <4> SUFFICES ASSUME NEW i \in burns
                   PROVE  burn = BurnTotal(before, content[n].events[i].value, Burns)
        OBVIOUS
      <4>1. \A j \in burns : j = i
        BY <1>1, <3>1, ChainsAssumption DEF Filed
      <4>2. burns \subseteq Int
        <5>1. IsList(content[n].events)
          BY <1>1, <3>1, StoredBlocks DEF IsBlock
        <5>2. QED  BY <5>1, ListDomain DEF Positions
      <4> HIDE DEF burns
      <4>3. \E x \in burns : \A y \in burns : x <= y
        BY <4>1, <4>2
      <4>4. Min(burns) \in burns
        BY <4>3, Zenon DEF Min
      <4>5. Min(burns) = i
        BY <4>1, <4>4
      <4>6. burns # {}
        BY <4>4
      <4>7. QED  BY <4>5, <4>6 DEF burn
    <3> HIDE DEF v, before, burn
    <3>6. QED  BY <1>1, <2>3, <3>1, <3>2, <3>3, <3>4, <3>5, BurnsOn DEF v
  <2>6. QED  BY <2>4, <2>5
<1>7. QED  BY <1>3, <1>4, <1>5, <1>6, NextIs

\* The burns of a block are at least those its events and the ones below it tell
\* of, however the sequencer and the task that rebuilds them take turns.
THEOREM BurnsNeverUnderstated == Spec => []BurnNotUnderstated
<1>1. Init => BurnsRight
  <2>1. Init => Counted = {}
    BY DEF Init, NoLedger, NoRows, Counted
  <2>2. QED  BY <2>1 DEF BurnsRight
<1>2. BurnsRight => BurnNotUnderstated
  BY DEF BurnsRight, BurnNotUnderstated, BurnsTo
<1>3. QED
  BY <1>1, <1>2, InitInv, StepInv, InitUpward, StepUpward, StepBurns, PTL DEF Spec

------------------------------------------------------------------------------
(* Totals.                                                                 *)

\* The total of block m is as it was, but for the burns.
TotalStays(m) ==
  m \in Counted /\ \A f \in TotalFields \ {"burn"} : ledger'.totals[m][f] = ledger.totals[m][f]

\* It is set, over that of the parent.
TotalMade(v, m) ==
  /\ m \in DOMAIN DataBlock(v) /\ ~TimeLost(DataBlock(v), m)
  /\ \E validators, burn : \A f \in TotalFields \ {"burn"} :
       v.totals[m][f] = WithTotals(validators, DataBlock(v), m, BeforeOf(ledger, m), burn)[f]

LEMMA TotalsStay ==
  ASSUME SequencingInv, Upward, [Next]_vars
  PROVE  /\ LedgerRight(ledger') /\ UNCHANGED <<content, stored>>
         /\ DOMAIN ledger.zero \subseteq DOMAIN ledger'.zero
         /\ requests' = 0 => requests = 0
         /\ requests' = 0 /\ Counted # {} => ledger'.zero = ledger.zero
         /\ \A m \in Counted' :
              \/ TotalStays(m)
              \/ /\ m \in Numbers /\ TotalMade(ledger', m)
                 /\ requests' = 0 => m = SequencerHead + 1
<1>1. LedgerRight(ledger) /\ Filed /\ requests \in Nat
  BY DEF SequencingInv
<1>2. ASSUME requests = 0, Counted # {} PROVE SequencerHead \in Nat
  <2>1. SequencerHead \in -1 .. MaxBlock /\ MaxBlock \in Nat /\ Counted = 0 .. SequencerHead
    BY <1>2, HeadRange, SequencingAssumption DEF Upward
  <2>2. SequencerHead # -1
    BY <1>2, <2>1
  <2>3. QED  BY <2>1, <2>2
<1>3. ASSUME NEW n \in Numbers, NEW s, NEW shown \in BOOLEAN, Counts(n, s, shown)
      PROVE  /\ LedgerRight(ledger') /\ UNCHANGED <<content, stored>>
             /\ DOMAIN ledger.zero \subseteq DOMAIN ledger'.zero
             /\ requests' = 0 => requests = 0
             /\ requests' = 0 /\ Counted # {} => ledger'.zero = ledger.zero
             /\ \A m \in Counted' :
                  \/ TotalStays(m)
                  \/ /\ m \in Numbers /\ TotalMade(ledger', m)
                     /\ requests' = 0 => m = SequencerHead + 1
  <2> DEFINE v == ledger'
  <2>1. /\ WorkKept(v, s, n) /\ BlockCounted(v, s, n, shown) /\ s.totals = ledger.totals
    BY <1>3, CountsKeeps
  <2>2. /\ FromLedger(s) /\ UNCHANGED <<content, stored>>
        /\ (requests' = requests /\ s = ledger) \/ requests' = requests + 1
    BY <1>3 DEF Counts
  <2>3. requests' = 0 => requests = 0 /\ s = ledger /\ n = SequencerHead + 1
    <3>1. requests' = 0 => OneOn(n, s, shown)
      BY <1>3, CountsOneOn
    <3>2. QED  BY <3>1 DEF OneOn
  <2>4. DOMAIN ledger.zero \subseteq DOMAIN v.zero
    BY <2>1, <2>2 DEF FromLedger, WorkKept, ZeroKept
  <2>5. ASSUME requests' = 0, Counted # {} PROVE v.zero = ledger.zero
    <3>1. n # 0
      BY <1>2, <2>3, <2>5
    <3>2. QED  BY <2>1, <2>3, <2>5, <3>1 DEF WorkKept, ZeroKept
  <2>6. BeforeOf(s, n) = BeforeOf(ledger, n)
    BY <2>1 DEF BeforeOf
  <2>7. TotalMade(v, n)
    BY <2>1, <2>6 DEF TotalMade, BlockCounted
  <2>8. ASSUME NEW m \in DOMAIN v.totals, m # n PROVE TotalStays(m)
    BY <2>1, <2>8 DEF WorkKept, TotalStays, Counted
  <2>9. LedgerRight(v)
    BY <2>1 DEF WorkKept
  <2>10. Counted' = DOMAIN v.totals
    BY DEF Counted
  <2> HIDE DEF v
  <2>11. QED  BY <2>2, <2>3, <2>4, <2>5, <2>7, <2>8, <2>9, <2>10 DEF v
<1>4. ASSUME NEW n \in Numbers, GivesUp(n)
      PROVE  /\ LedgerRight(ledger') /\ UNCHANGED <<content, stored>>
             /\ DOMAIN ledger.zero \subseteq DOMAIN ledger'.zero
             /\ requests' = 0 => requests = 0
             /\ requests' = 0 /\ Counted # {} => ledger'.zero = ledger.zero
             /\ \A m \in Counted' : TotalStays(m)
  <2> DEFINE v == ledger'
  <2>1. WorkKept(v, ledger, n)
    BY <1>1, <1>4, GivesUpKeeps
  <2>2. UNCHANGED <<content, stored, requests>>
    BY <1>4 DEF GivesUp
  <2>3. ASSUME requests' = 0, Counted # {} PROVE v.zero = ledger.zero
    <3>1. n = SequencerHead + 1
      BY <1>4, <2>3, GivesUpThere
    <3>2. n # 0
      BY <1>2, <2>2, <2>3, <3>1
    <3>3. QED  BY <2>1, <3>2 DEF WorkKept, ZeroKept
  <2>4. ASSUME NEW m \in Counted' PROVE TotalStays(m)
    <3>1. PICK u : BlockBegun(u, ledger, n) /\ v.totals = u.totals
      BY <1>4 DEF GivesUp, WorkCut
    <3>2. OthersCounted(u, ledger, n)
      BY <3>1 DEF BlockBegun, Begun
    <3>3. m \in DOMAIN v.totals
      BY <2>4 DEF Counted
    <3>4. QED  BY <3>1, <3>2, <3>3 DEF OthersCounted, TotalStays, Counted
  <2>5. QED  BY <2>1, <2>2, <2>3, <2>4 DEF WorkKept, ZeroKept
<1>5. ASSUME Rests \/ UpdateBalances \/ RebuildBurn
      PROVE  /\ LedgerRight(ledger') /\ UNCHANGED <<content, stored>>
             /\ ledger'.zero = ledger.zero /\ requests' = requests
             /\ \A m \in Counted' : TotalStays(m)
  <2>1. Counted' = Counted /\ UNCHANGED <<content, stored, requests>> /\ ledger'.zero = ledger.zero
    BY <1>5, NothingCounted
  <2>2. LedgerRight(ledger')
    <3>1. SequencingInv'
      BY StepInv
    <3>2. QED  BY <2>1, <3>1 DEF SequencingInv, LedgerRight, ZeroRight
  <2>3. CASE Rests \/ UpdateBalances
    <3>1. ledger'.totals = ledger.totals
      BY <2>3, UpdateIs DEF Rests, BalancesOnly, OnlyChanges, LedgerFields
    <3>2. QED  BY <2>1, <2>2, <3>1 DEF TotalStays
  <2>4. CASE RebuildBurn
    <3>1. BurnRebuilt(ledger', burning)
      BY <2>4, RebuildIs
    <3>2. \A m \in Counted' : TotalStays(m)
      BY <2>1, <3>1 DEF BurnRebuilt, TotalStays, Counted
    <3>3. QED  BY <2>1, <2>2, <3>2
  <2>5. QED  BY <1>5, <2>3, <2>4
<1>6. QED  BY <1>3, <1>4, <1>5, NextIs

\* The blocks up to n that are there, and what they count.
There(s, n) == DOMAIN DataBlock(s) \cap UpTo(n)
CountersTo(s, n, f) == [m \in There(s, n) |-> DataBlock(s)[m].counters[f]]

LEMMA BlocksAre ==
  ASSUME Filed, NEW s, ZeroRight(s)
  PROVE  /\ DOMAIN DataBlock(s) = (Numbers \ {0}) \cup DOMAIN s.zero
         /\ \A m \in DOMAIN DataBlock(s) :
              /\ m \in Numbers /\ IsRow(DataBlock(s)[m])
              /\ \A f \in Summed :
                   /\ DataBlock(s)[m].counters[f] = stored[m].blocks[m].counters[f]
                   /\ DataBlock(s)[m].counters[f] \in Nat
<1> DEFINE blocks == DataBlock(s)
<1>1. DOMAIN blocks = (Numbers \ {0}) \cup DOMAIN s.zero
  BY DEF DataBlock
<1>2. 0 \in Numbers
  BY SequencingAssumption DEF Numbers
<1>3. ASSUME NEW m \in DOMAIN blocks
      PROVE  /\ m \in Numbers /\ IsRow(blocks[m])
             /\ \A f \in Summed : blocks[m].counters[f] = stored[m].blocks[m].counters[f]
  <2>1. CASE m = 0
    <3>1. blocks[m] = s.zero[0] /\ 0 \in DOMAIN s.zero
      BY <1>1, <2>1 DEF DataBlock
    <3>2. QED  BY <1>2, <2>1, <3>1 DEF ZeroRight
  <2>2. CASE m # 0
    <3>1. m \in Numbers /\ blocks[m] = stored[m].blocks[m]
      BY <1>1, <2>2 DEF DataBlock, ZeroRight
    <3>2. IsRow(stored[m].blocks[m])
      BY <3>1, StoredBlocks
    <3>3. QED  BY <3>1, <3>2
  <2>3. QED  BY <2>1, <2>2
<1> HIDE DEF blocks
<1>4. QED  BY <1>1, <1>3 DEF IsRow, AreCounters, blocks

LEMMA ThereIs ==
  ASSUME Filed, NEW s, ZeroRight(s), NEW n \in -1 .. MaxBlock
  PROVE  /\ IsFiniteSet(There(s, n)) /\ There(s, n) \subseteq Numbers
         /\ \A m \in There(s, n) : m <= n
         /\ n = -1 => There(s, n) = {}
         /\ n \in DOMAIN DataBlock(s) =>
              There(s, n) = There(s, n - 1) \cup {n} /\ n \notin There(s, n - 1)
<1>1. MaxBlock \in Nat /\ n \in Int
  BY SequencingAssumption
<1>2. IsFiniteSet(UpTo(n))
  BY <1>1, FS_Interval DEF UpTo
<1>3. IsFiniteSet(There(s, n))
  BY <1>2, FS_Subset DEF There
<1>4. n >= 0 => UpTo(n) = UpTo(n - 1) \cup {n}
  BY <1>1 DEF UpTo
<1>5. n \in DOMAIN DataBlock(s) => n >= 0
  <2>1. n \in DOMAIN DataBlock(s) => n \in Numbers
    BY BlocksAre
  <2>2. QED  BY <1>1, <2>1 DEF Numbers
<1>6. n \notin UpTo(n - 1) /\ (\A m \in UpTo(n) : m <= n) /\ (n = -1 => UpTo(n) = {})
  BY <1>1 DEF UpTo
<1>7. QED  BY <1>3, <1>4, <1>5, <1>6, BlocksAre DEF There

LEMMA CountersToIs ==
  ASSUME Filed, NEW s, ZeroRight(s), NEW n \in -1 .. MaxBlock, NEW f \in Summed
  PROVE  /\ SumFunction(CountersTo(s, n, f)) \in Nat
         /\ n = -1 => SumFunction(CountersTo(s, n, f)) = 0
<1> DEFINE w == CountersTo(s, n, f)
<1>1. DOMAIN w = There(s, n) /\ \A m \in DOMAIN w : w[m] \in Nat
  BY BlocksAre DEF CountersTo, There
<1>2. IsFiniteSet(There(s, n)) /\ (n = -1 => There(s, n) = {})
  BY ThereIs
<1> HIDE DEF w
<1>3. SumFunction(w) \in Nat
  BY <1>1, <1>2, SumOfNaturals
<1>4. n = -1 => SumFunction(w) = 0
  BY <1>1, <1>2, SumOfNone
<1>5. QED  BY <1>3, <1>4 DEF w

LEMMA CountersToNext ==
  ASSUME Filed, NEW s, ZeroRight(s), NEW n \in Numbers, n \in DOMAIN DataBlock(s), NEW f \in Summed
  PROVE  SumFunction(CountersTo(s, n, f))
           = DataBlock(s)[n].counters[f] + SumFunction(CountersTo(s, n - 1, f))
<1> DEFINE w == CountersTo(s, n, f)
           v == CountersTo(s, n - 1, f)
<1>1. n \in -1 .. MaxBlock /\ n - 1 \in -1 .. MaxBlock
  BY SequencingAssumption DEF Numbers
<1>2. /\ There(s, n) = There(s, n - 1) \cup {n} /\ n \notin There(s, n - 1)
      /\ IsFiniteSet(There(s, n - 1))
  BY <1>1, ThereIs
<1>3. /\ DOMAIN w = There(s, n) /\ (\A m \in DOMAIN w : w[m] \in Int)
      /\ w[n] = DataBlock(s)[n].counters[f]
  <2>1. DOMAIN w = There(s, n) /\ \A m \in DOMAIN w : w[m] \in Nat
    BY BlocksAre DEF CountersTo, There
  <2>2. n \in There(s, n)
    BY <1>2
  <2>3. w[n] = DataBlock(s)[n].counters[f]
    BY <2>2 DEF CountersTo
  <2>4. QED  BY <2>1, <2>3
<1>4. OneValueMore(w, v, n)
  BY <1>2 DEF OneValueMore, CountersTo
<1> HIDE DEF w, v
<1>5. QED  BY <1>3, <1>4, SumOfOneMore DEF w, v

\* The sums only grow when block 0 gets its row.
LEMMA CountersToGrow ==
  ASSUME Filed, NEW s, ZeroRight(s), NEW v, ZeroRight(v), DOMAIN s.zero \subseteq DOMAIN v.zero,
         NEW n \in -1 .. MaxBlock, NEW f \in Summed
  PROVE  /\ SumFunction(CountersTo(s, n, f)) <= SumFunction(CountersTo(v, n, f))
         /\ DOMAIN s.zero = DOMAIN v.zero => CountersTo(s, n, f) = CountersTo(v, n, f)
<1> DEFINE a == CountersTo(s, n, f)
           b == CountersTo(v, n, f)
           count(m) == stored[m].blocks[m].counters[f]
<1>1. a = [m \in There(s, n) |-> count(m)] /\ b = [m \in There(v, n) |-> count(m)]
  BY BlocksAre DEF CountersTo, There
<1>2. DOMAIN s.zero = DOMAIN v.zero => There(s, n) = There(v, n)
  BY BlocksAre DEF There
<1>3. DOMAIN s.zero = DOMAIN v.zero => a = b
  BY <1>1, <1>2
<1>4. SumFunction(a) \in Nat /\ SumFunction(b) \in Nat
  BY CountersToIs
<1>5. ASSUME DOMAIN s.zero # DOMAIN v.zero PROVE SumFunction(a) <= SumFunction(b)
  <2>1. DOMAIN s.zero = {} /\ DOMAIN v.zero = {0}
    BY <1>5 DEF ZeroRight
  <2>2. There(s, n) = There(v, n) \/ (There(v, n) = There(s, n) \cup {0} /\ 0 \notin There(s, n))
    BY <2>1, BlocksAre DEF There
  <2>3. CASE There(s, n) = There(v, n)
    <3>1. a = b
      BY <1>1, <2>3
    <3>2. QED  BY <1>4, <3>1
  <2>4. CASE There(v, n) = There(s, n) \cup {0} /\ 0 \notin There(s, n)
    <3>1. IsFiniteSet(There(s, n))
      BY ThereIs
    <3>2. OneValueMore(b, a, 0)
      <4> HIDE DEF a, b, count
      <4>1. QED  BY <1>1, <2>4, <3>1 DEF OneValueMore
    <3>3. \A m \in DOMAIN b : b[m] \in Nat
      BY BlocksAre DEF CountersTo, There
    <3>4. 0 \in DOMAIN b
      BY <3>2 DEF OneValueMore
    <3> HIDE DEF a, b
    <3>5. SumFunction(b) = b[0] + SumFunction(a)
      BY <3>2, <3>3, SumOfOneMore
    <3>6. QED  BY <1>4, <3>3, <3>4, <3>5
  <2>5. QED  BY <2>2, <2>3, <2>4
<1>6. QED  BY <1>3, <1>4, <1>5

LEMMA MadeOver ==
  ASSUME NEW validators, NEW blocks, NEW n, NEW before, NEW burn
  PROVE  /\ \A f \in Summed :
              WithTotals(validators, blocks, n, before, burn)[f] = before[f] + blocks[n].counters[f]
         /\ WithTotals(validators, blocks, n, before, burn).accounts
              = before.accounts + blocks[n].counters.new - blocks[n].counters.reaped
         /\ WithTotals(validators, blocks, n, before, burn).blocktime
              = before.blocktime + Blocktime(blocks, n)
BY DEF WithTotals, Summed

\* The parent that a total is made over.
LEMMA ParentOf ==
  ASSUME SequencingInv, Upward, NEW m \in Numbers
  PROVE  /\ m - 1 \in -1 .. MaxBlock
         /\ m - 1 \in Counted => BeforeOf(ledger, m) = ledger.totals[m - 1]
         /\ m - 1 \notin Counted => BeforeOf(ledger, m) = NoTotal
         /\ requests = 0 /\ m = SequencerHead + 1 =>
              \/ m = 0 /\ Counted = {}
              \/ m # 0 /\ m - 1 \in Counted
<1>1. MaxBlock \in Nat /\ SequencerHead \in -1 .. MaxBlock /\ m \in 0 .. MaxBlock
  BY SequencingAssumption, HeadRange DEF Numbers, SequencingInv
<1>2. requests = 0 => Counted = 0 .. SequencerHead
  BY DEF Upward
<1> DEFINE h == SequencerHead
<1> HIDE DEF h
<1>3. requests = 0 /\ m = h + 1 => (m = 0 /\ Counted = {}) \/ (m # 0 /\ m - 1 \in Counted)
  BY <1>1, <1>2 DEF h
<1>4. m - 1 \in -1 .. MaxBlock
  BY <1>1
<1>5. QED  BY <1>3, <1>4 DEF h, BeforeOf, RowOr, Counted

SumsRight ==
  \A n \in Counted, f \in Summed :
    /\ ledger.totals[n][f] \in Int
    /\ ledger.totals[n][f] <= SumFunction(CountersTo(ledger, n, f))
    /\ requests = 0 => ledger.totals[n][f] = SumFunction(CountersTo(ledger, n, f))

LEMMA StepSums == SequencingInv /\ Upward /\ SumsRight /\ [Next]_vars => SumsRight'
<1> DEFINE v == ledger'
           sum(s, n, f) == SumFunction(CountersTo(s, n, f))
<1> SUFFICES ASSUME SequencingInv, Upward, SumsRight, [Next]_vars,
                    NEW m \in Counted', NEW f \in Summed
             PROVE  /\ v.totals[m][f] \in Int /\ v.totals[m][f] <= sum(v, m, f)
                    /\ requests' = 0 => v.totals[m][f] = sum(v, m, f)
  <2>1. ASSUME SequencingInv, Upward, [Next]_vars PROVE UNCHANGED <<content, stored>>
    BY <2>1, TotalsStay
  <2>2. ASSUME SequencingInv, Upward, [Next]_vars, NEW n, NEW g
        PROVE  SumFunction(CountersTo(ledger, n, g))' = SumFunction(CountersTo(v, n, g))
    BY <2>1, <2>2 DEF CountersTo, There, DataBlock
  <2> HIDE DEF v
  <2>3. QED  BY <2>2 DEF SumsRight, v
<1>1. /\ LedgerRight(ledger) /\ Filed /\ LedgerRight(v)
      /\ DOMAIN ledger.zero \subseteq DOMAIN v.zero
      /\ requests' = 0 => requests = 0
      /\ requests' = 0 /\ Counted # {} => v.zero = ledger.zero
  BY TotalsStay DEF SequencingInv
<1>2. \/ TotalStays(m)
      \/ m \in Numbers /\ TotalMade(v, m) /\ (requests' = 0 => m = SequencerHead + 1)
  BY TotalsStay
<1>3. ZeroRight(ledger) /\ ZeroRight(v) /\ Counted \subseteq Numbers
  BY <1>1 DEF LedgerRight, Counted
<1>4. ASSUME NEW n \in -1 .. MaxBlock
      PROVE  /\ sum(ledger, n, f) \in Nat /\ sum(v, n, f) \in Nat
             /\ sum(ledger, n, f) <= sum(v, n, f)
             /\ requests' = 0 /\ Counted # {} => sum(ledger, n, f) = sum(v, n, f)
             /\ n = -1 => sum(v, n, f) = 0
  BY <1>1, <1>3, CountersToIs, CountersToGrow
<1>5. \A n \in Numbers : n \in -1 .. MaxBlock
  BY SequencingAssumption DEF Numbers
<1>6. \A n \in Counted : /\ ledger.totals[n][f] \in Int
                         /\ ledger.totals[n][f] <= sum(ledger, n, f)
                         /\ requests = 0 => ledger.totals[n][f] = sum(ledger, n, f)
  BY DEF SumsRight
<1>7. CASE TotalStays(m)
  <2>1. m \in Counted /\ v.totals[m][f] = ledger.totals[m][f]
    BY <1>7 DEF TotalStays, TotalFields, Summed
  <2> HIDE DEF v, sum
  <2>2. QED  BY <1>1, <1>3, <1>4, <1>5, <1>6, <2>1
<1>8. CASE m \in Numbers /\ TotalMade(v, m) /\ (requests' = 0 => m = SequencerHead + 1)
  <2> DEFINE before == BeforeOf(ledger, m)
             c == DataBlock(v)[m].counters[f]
  <2>1. m \in DOMAIN DataBlock(v) /\ v.totals[m][f] = before[f] + c
    BY <1>8, MadeOver DEF TotalMade, TotalFields, Summed
  <2>2. c \in Nat
    BY <1>1, <1>3, <2>1, BlocksAre
  <2>3. sum(v, m, f) = c + sum(v, m - 1, f)
    BY <1>1, <1>3, <1>8, <2>1, CountersToNext
  <2>4. m - 1 \in -1 .. MaxBlock
    BY <1>8, ParentOf
  <2>5. m - 1 \in Counted => before = ledger.totals[m - 1]
    BY <1>8, ParentOf
  <2>6. m - 1 \notin Counted => before[f] = 0
    BY <1>8, ParentOf DEF NoTotal, Summed
  <2>7. requests' = 0 => (m = 0 /\ Counted = {}) \/ (m # 0 /\ m - 1 \in Counted)
    BY <1>1, <1>8, ParentOf
  <2> HIDE DEF before, c, sum, v
  <2>8. before[f] \in Int /\ before[f] <= sum(v, m - 1, f)
    BY <1>4, <1>6, <2>4, <2>5, <2>6
  <2>9. ASSUME requests' = 0 PROVE before[f] = sum(v, m - 1, f)
    <3>1. CASE m = 0 /\ Counted = {}
      BY <1>4, <2>4, <2>6, <3>1
    <3>2. CASE m # 0 /\ m - 1 \in Counted
      <4>1. sum(ledger, m - 1, f) = sum(v, m - 1, f)
        BY <1>4, <2>4, <2>9, <3>2
      <4>2. QED  BY <1>1, <1>6, <2>5, <2>9, <3>2, <4>1
    <3>3. QED  BY <2>7, <2>9, <3>1, <3>2
  <2>10. sum(v, m - 1, f) \in Nat
    BY <1>4, <2>4
  <2>11. QED  BY <2>1, <2>2, <2>3, <2>8, <2>9, <2>10
<1>9. QED  BY <1>2, <1>7, <1>8

\* While the sequencer alone is at work, it goes on by one block over a parent
\* that is counted, or starts with block 0.
LEMMA MadeOneOn ==
  ASSUME SequencingInv, Upward, [Next]_vars, requests' = 0, NEW m \in Counted'
  PROVE  /\ Filed /\ ZeroRight(ledger) /\ ZeroRight(ledger') /\ requests = 0
         /\ \/ TotalStays(m) /\ DataBlock(ledger') = DataBlock(ledger)
            \/ /\ m \in Numbers /\ TotalMade(ledger', m)
               /\ \/ m = 0 /\ BeforeOf(ledger, m) = NoTotal
                  \/ /\ m # 0 /\ m - 1 \in Counted
                     /\ BeforeOf(ledger, m) = ledger.totals[m - 1]
                     /\ DataBlock(ledger') = DataBlock(ledger)
<1> DEFINE v == ledger'
<1>1. /\ LedgerRight(ledger) /\ Filed /\ LedgerRight(v) /\ UNCHANGED <<content, stored>>
      /\ requests = 0
      /\ Counted # {} => v.zero = ledger.zero
  BY TotalsStay DEF SequencingInv
<1>2. TotalStays(m) \/ (m \in Numbers /\ TotalMade(v, m) /\ m = SequencerHead + 1)
  BY TotalsStay
<1>3. Counted # {} => DataBlock(v) = DataBlock(ledger)
  BY <1>1 DEF DataBlock
<1>4. CASE TotalStays(m)
  <2>1. m \in Counted
    BY <1>4 DEF TotalStays
  <2>2. QED  BY <1>1, <1>3, <1>4, <2>1 DEF LedgerRight
<1>5. CASE m \in Numbers /\ TotalMade(v, m) /\ m = SequencerHead + 1
  <2>1. /\ m - 1 \in Counted => BeforeOf(ledger, m) = ledger.totals[m - 1]
        /\ m - 1 \notin Counted => BeforeOf(ledger, m) = NoTotal
        /\ (m = 0 /\ Counted = {}) \/ (m # 0 /\ m - 1 \in Counted)
    BY <1>1, <1>5, ParentOf
  <2> HIDE DEF v
  <2>2. QED  BY <1>1, <1>3, <1>5, <2>1 DEF LedgerRight, v
<1>6. QED  BY <1>2, <1>4, <1>5

\* The accounts made in the blocks up to n, less those reaped.
AccountsTo(s, n) ==
  [m \in There(s, n) |-> DataBlock(s)[m].counters.new - DataBlock(s)[m].counters.reaped]

LEMMA AccountsToNext ==
  ASSUME Filed, NEW s, ZeroRight(s), NEW n \in Numbers, n \in DOMAIN DataBlock(s)
  PROVE  /\ SumFunction(AccountsTo(s, n - 1)) \in Int
         /\ n = 0 => SumFunction(AccountsTo(s, n - 1)) = 0
         /\ DataBlock(s)[n].counters.new \in Int /\ DataBlock(s)[n].counters.reaped \in Int
         /\ SumFunction(AccountsTo(s, n))
              = DataBlock(s)[n].counters.new - DataBlock(s)[n].counters.reaped
                  + SumFunction(AccountsTo(s, n - 1))
<1> DEFINE w == AccountsTo(s, n)
           v == AccountsTo(s, n - 1)
           blocks == DataBlock(s)
<1>1. n \in -1 .. MaxBlock /\ n - 1 \in -1 .. MaxBlock /\ (n = 0 => n - 1 = -1)
  BY SequencingAssumption DEF Numbers
<1>2. /\ There(s, n) = There(s, n - 1) \cup {n} /\ n \notin There(s, n - 1)
      /\ IsFiniteSet(There(s, n - 1)) /\ (n = 0 => There(s, n - 1) = {})
  BY <1>1, ThereIs
<1>3. \A m \in DOMAIN blocks : blocks[m].counters.new \in Nat /\ blocks[m].counters.reaped \in Nat
  BY BlocksAre DEF IsRow, AreCounters, Summed
<1>4. n \in There(s, n) /\ There(s, n) \subseteq DOMAIN blocks
  BY <1>2 DEF There
<1> HIDE DEF blocks
<1>5. /\ DOMAIN w = There(s, n) /\ (\A m \in DOMAIN w : w[m] \in Int)
      /\ w[n] = blocks[n].counters.new - blocks[n].counters.reaped
  BY <1>3, <1>4 DEF AccountsTo, blocks
<1>6. OneValueMore(w, v, n) /\ (n = 0 => DOMAIN v = {})
  BY <1>2 DEF OneValueMore, AccountsTo
<1> HIDE DEF w, v
<1>7. SumFunction(v) \in Int /\ SumFunction(w) = w[n] + SumFunction(v)
  BY <1>5, <1>6, SumOfOneMore
<1>8. n = 0 => SumFunction(v) = 0
  BY <1>6, SumOfNone
<1>9. QED  BY <1>3, <1>4, <1>5, <1>7, <1>8 DEF w, v, blocks

AccountsAddUp ==
  requests = 0 =>
    \A n \in Counted : ledger.totals[n].accounts = SumFunction(AccountsTo(ledger, n))

LEMMA StepAccounts == SequencingInv /\ Upward /\ AccountsAddUp /\ [Next]_vars => AccountsAddUp'
<1> DEFINE v == ledger'
<1> SUFFICES ASSUME SequencingInv, Upward, AccountsAddUp, [Next]_vars, requests' = 0,
                    NEW m \in Counted'
             PROVE  v.totals[m].accounts = SumFunction(AccountsTo(v, m))
  <2>1. ASSUME SequencingInv, Upward, [Next]_vars PROVE UNCHANGED <<content, stored>>
    BY <2>1, TotalsStay
  <2>2. ASSUME SequencingInv, Upward, [Next]_vars, NEW n
        PROVE  SumFunction(AccountsTo(ledger, n))' = SumFunction(AccountsTo(v, n))
    BY <2>1, <2>2 DEF AccountsTo, There, DataBlock
  <2> HIDE DEF v
  <2>3. QED  BY <2>2 DEF AccountsAddUp, v
<1>1. Filed /\ ZeroRight(ledger) /\ ZeroRight(v) /\ requests = 0
  BY MadeOneOn
<1>2. \A n \in Counted : ledger.totals[n].accounts = SumFunction(AccountsTo(ledger, n))
  BY <1>1 DEF AccountsAddUp
<1>3. DataBlock(v) = DataBlock(ledger) => \A n : AccountsTo(v, n) = AccountsTo(ledger, n)
  BY DEF AccountsTo, There
<1>4. CASE TotalStays(m) /\ DataBlock(v) = DataBlock(ledger)
  <2>1. m \in Counted /\ v.totals[m].accounts = ledger.totals[m].accounts
    BY <1>4 DEF TotalStays, TotalFields
  <2>2. QED  BY <1>2, <1>3, <1>4, <2>1
<1>5. CASE /\ m \in Numbers /\ TotalMade(v, m)
           /\ \/ m = 0 /\ BeforeOf(ledger, m) = NoTotal
              \/ /\ m # 0 /\ m - 1 \in Counted
                 /\ BeforeOf(ledger, m) = ledger.totals[m - 1]
                 /\ DataBlock(v) = DataBlock(ledger)
  <2> DEFINE before == BeforeOf(ledger, m)
             k == DataBlock(v)[m].counters
  <2>1. m \in DOMAIN DataBlock(v) /\ v.totals[m].accounts = before.accounts + k.new - k.reaped
    BY <1>5, MadeOver DEF TotalMade, TotalFields
  <2>2. /\ SumFunction(AccountsTo(v, m - 1)) \in Int
        /\ m = 0 => SumFunction(AccountsTo(v, m - 1)) = 0
        /\ k.new \in Int /\ k.reaped \in Int
        /\ SumFunction(AccountsTo(v, m)) = k.new - k.reaped + SumFunction(AccountsTo(v, m - 1))
    BY <1>1, <1>5, <2>1, AccountsToNext
  <2>3. before.accounts = SumFunction(AccountsTo(v, m - 1))
    <3>1. CASE m = 0 /\ before = NoTotal
      BY <2>2, <3>1 DEF NoTotal
    <3>2. CASE /\ m # 0 /\ m - 1 \in Counted /\ before = ledger.totals[m - 1]
               /\ DataBlock(v) = DataBlock(ledger)
      <4> HIDE DEF before, v
      <4>1. AccountsTo(v, m - 1) = AccountsTo(ledger, m - 1)
        BY <1>3, <3>2
      <4>2. QED  BY <1>2, <3>2, <4>1
    <3>3. QED  BY <1>5, <3>1, <3>2
  <2> HIDE DEF before, k, v
  <2>4. QED  BY <2>1, <2>2, <2>3
<1>6. QED  BY <1>4, <1>5, MadeOneOn

\* The blocks up to n that know their time, and the time that has passed since
\* the first of them.
TimedTo(s, n) == {m \in There(s, n) : DataBlock(s)[m].datetime # Null}

Passed(s, n, time) ==
  IF n \in TimedTo(s, n)
  THEN time = DataBlock(s)[n].datetime - DataBlock(s)[Min(TimedTo(s, n))].datetime
  ELSE TimedTo(s, n) = {} /\ time = 0

\* The first of a set, when larger numbers join it, and when one is alone.
LEMMA FirstOf ==
  ASSUME NEW S \in SUBSET Nat
  PROVE  /\ S # {} => Min(S) \in S
         /\ \A n \in Nat : S # {} /\ (\A m \in S : m <= n) => Min(S \cup {n}) = Min(S)
         /\ \A n \in Nat : Min({n}) = n
<1>1. ASSUME NEW T \in SUBSET Nat, T # {}
      PROVE  Min(T) \in T /\ \A y \in T : Min(T) <= y
  <2>1. \E x \in T : \A y \in T : x <= y
    BY <1>1, Working!Least
  <2>2. QED  BY <2>1, Zenon DEF Min
<1>2. ASSUME NEW n \in Nat, S # {}, \A m \in S : m <= n
      PROVE  Min(S \cup {n}) = Min(S)
  <2> DEFINE T == S \cup {n}
             a == Min(S)
             b == Min(T)
  <2>1. T \in SUBSET Nat /\ T # {} /\ S \subseteq T
    OBVIOUS
  <2>2. a \in S /\ \A y \in S : a <= y
    BY <1>1, <1>2
  <2>3. b \in T /\ \A y \in T : b <= y
    BY <1>1, <2>1
  <2> HIDE DEF a, b
  <2>4. \A y \in T : a <= y
    BY <1>2, <2>2
  <2>5. a \in Nat /\ b \in Nat /\ a <= b /\ b <= a
    BY <2>1, <2>2, <2>3, <2>4
  <2>6. a = b
    BY <2>5
  <2>7. QED  BY <2>6 DEF a, b
<1>3. \A n \in Nat : Min({n}) = n
  BY <1>1
<1>4. QED  BY <1>1, <1>2, <1>3

\* Over what has passed at the parent, a block is Blocktime later.
LEMMA PassedOn ==
  ASSUME Filed, NEW s, ZeroRight(s), NEW n \in Numbers, n \in DOMAIN DataBlock(s),
         ~TimeLost(DataBlock(s), n), NEW time, Passed(s, n - 1, time)
  PROVE  Passed(s, n, time + Blocktime(DataBlock(s), n))
<1> DEFINE blocks == DataBlock(s)
           S == TimedTo(s, n - 1)
           T == TimedTo(s, n)
           dated(m) == blocks[m].datetime
<1>1. n \in Nat /\ n \in -1 .. MaxBlock /\ n - 1 \in -1 .. MaxBlock
  BY SequencingAssumption DEF Numbers
<1>2. /\ There(s, n) = There(s, n - 1) \cup {n} /\ n \notin There(s, n - 1)
      /\ There(s, n - 1) \subseteq Nat /\ \A m \in There(s, n - 1) : m <= n - 1
  <2>1. There(s, n) = There(s, n - 1) \cup {n} /\ n \notin There(s, n - 1)
    BY <1>1, ThereIs
  <2>2. There(s, n - 1) \subseteq Numbers /\ \A m \in There(s, n - 1) : m <= n - 1
    BY <1>1, ThereIs
  <2>3. QED  BY <2>1, <2>2 DEF Numbers
<1>3. \A m \in DOMAIN blocks : dated(m) \in Int \cup {Null}
  BY BlocksAre DEF IsRow
<1>4. There(s, n - 1) \subseteq DOMAIN blocks
  BY DEF There
<1>5. S \subseteq Nat /\ (\A m \in S : m <= n /\ dated(m) \in Int) /\ n \notin S
  BY <1>1, <1>2, <1>3, <1>4 DEF TimedTo
<1>6. T = IF dated(n) # Null THEN S \cup {n} ELSE S
  BY <1>2 DEF TimedTo
<1>7. n - 1 \in S <=> ParentTimed(blocks, n)
  <2>1. n - 1 \in There(s, n - 1) <=> n - 1 \in DOMAIN blocks
    <3>1. n - 1 \in DOMAIN blocks => n - 1 \in Nat
      <4>1. \A m \in DOMAIN blocks : m \in Numbers
        BY BlocksAre
      <4>2. Numbers \subseteq Nat
        BY SequencingAssumption DEF Numbers
      <4> HIDE DEF blocks
      <4>3. QED  BY <4>1, <4>2
    <3>2. QED  BY <1>1, <3>1 DEF There, UpTo
  <2>2. QED  BY <2>1 DEF TimedTo, ParentTimed
<1>8. CASE n - 1 \in S
  <2>1. dated(n) # Null /\ T = S \cup {n}
    BY <1>6, <1>7, <1>8 DEF TimeLost
  <2>2. time = dated(n - 1) - dated(Min(S)) /\ Blocktime(blocks, n) = dated(n) - dated(n - 1)
    BY <1>7, <1>8 DEF Passed, Blocktime
  <2>3. Min(T) = Min(S) /\ Min(S) \in S
    <3> HIDE DEF S, T, dated, blocks
    <3>1. S # {} /\ \A m \in S : m <= n
      BY <1>5, <1>8
    <3>2. QED  BY <1>1, <1>5, <2>1, <3>1, FirstOf
  <2>4. dated(n) \in Int /\ dated(n - 1) \in Int /\ dated(Min(S)) \in Int
    BY <1>3, <1>5, <1>8, <2>1, <2>3
  <2>5. n \in T
    BY <2>1
  <2> DEFINE later == Blocktime(blocks, n)
  <2>6. time + later = dated(n) - dated(Min(T))
    <3> HIDE DEF S, T, dated, blocks, later
    <3>1. QED  BY <2>2, <2>3, <2>4 DEF later
  <2> HIDE DEF later
  <2>7. QED  BY <2>5, <2>6 DEF Passed, later
<1>9. CASE n - 1 \notin S
  <2>1. S = {} /\ time = 0 /\ Blocktime(blocks, n) = 0
    BY <1>7, <1>9 DEF Passed, Blocktime
  <2>2. CASE dated(n) = Null
    <3>1. T = {}
      BY <1>6, <2>1, <2>2
    <3>2. QED  BY <2>1, <3>1 DEF Passed
  <2>3. CASE dated(n) # Null
    <3>1. T = {n} /\ n \in T
      BY <1>6, <2>1, <2>3
    <3>2. Min(T) = n
      BY <1>1, <3>1, FirstOf
    <3>3. dated(n) \in Int
      BY <1>3, <2>3
    <3> DEFINE later == Blocktime(blocks, n)
    <3>4. time + later = dated(n) - dated(Min(T))
      BY <2>1, <3>2, <3>3
    <3> HIDE DEF later
    <3>5. QED  BY <3>1, <3>4 DEF Passed, later
  <2>4. QED  BY <2>2, <2>3
<1>10. QED  BY <1>8, <1>9

TimesRight ==
  requests = 0 => \A n \in Counted : Passed(ledger, n, ledger.totals[n].blocktime)

LEMMA StepTimes == SequencingInv /\ Upward /\ TimesRight /\ [Next]_vars => TimesRight'
<1> DEFINE v == ledger'
<1> SUFFICES ASSUME SequencingInv, Upward, TimesRight, [Next]_vars, requests' = 0,
                    NEW m \in Counted'
             PROVE  Passed(v, m, v.totals[m].blocktime)
  <2>1. ASSUME SequencingInv, Upward, [Next]_vars PROVE UNCHANGED <<content, stored>>
    BY <2>1, TotalsStay
  <2>2. ASSUME SequencingInv, Upward, [Next]_vars, NEW n
        PROVE  Passed(ledger, n, ledger.totals[n].blocktime)'
                 = Passed(v, n, v.totals[n].blocktime)
    <3>1. DataBlock(ledger)' = DataBlock(v)
      BY <2>1, <2>2 DEF DataBlock
    <3>2. TimedTo(ledger, n)' = TimedTo(v, n)
      BY <3>1 DEF TimedTo, There
    <3>3. QED  BY <3>1, <3>2, Zenon DEF Passed
  <2> HIDE DEF v
  <2>3. QED  BY <2>2 DEF TimesRight, v
<1>1. Filed /\ ZeroRight(ledger) /\ ZeroRight(v) /\ requests = 0
  BY MadeOneOn
<1>2. \A n \in Counted : Passed(ledger, n, ledger.totals[n].blocktime)
  BY <1>1 DEF TimesRight
<1>3. DataBlock(v) = DataBlock(ledger) => \A n, time : Passed(v, n, time) = Passed(ledger, n, time)
  BY DEF Passed, TimedTo, There
<1>4. CASE TotalStays(m) /\ DataBlock(v) = DataBlock(ledger)
  <2>1. m \in Counted /\ v.totals[m].blocktime = ledger.totals[m].blocktime
    BY <1>4 DEF TotalStays, TotalFields
  <2>2. QED  BY <1>2, <1>3, <1>4, <2>1
<1>5. CASE /\ m \in Numbers /\ TotalMade(v, m)
           /\ \/ m = 0 /\ BeforeOf(ledger, m) = NoTotal
              \/ /\ m # 0 /\ m - 1 \in Counted
                 /\ BeforeOf(ledger, m) = ledger.totals[m - 1]
                 /\ DataBlock(v) = DataBlock(ledger)
  <2> DEFINE before == BeforeOf(ledger, m)
             later == Blocktime(DataBlock(v), m)
  <2>1. /\ m \in DOMAIN DataBlock(v) /\ ~TimeLost(DataBlock(v), m)
        /\ v.totals[m].blocktime = before.blocktime + later
    BY <1>5, MadeOver DEF TotalMade, TotalFields
  <2>2. Passed(v, m - 1, before.blocktime)
    <3>1. CASE m = 0 /\ before = NoTotal
      <4>1. There(v, -1) = {} /\ m - 1 = -1
        BY <1>1, <3>1, ThereIs, SequencingAssumption
      <4>2. QED  BY <3>1, <4>1 DEF Passed, TimedTo, NoTotal
    <3>2. CASE /\ m # 0 /\ m - 1 \in Counted /\ before = ledger.totals[m - 1]
               /\ DataBlock(v) = DataBlock(ledger)
      BY <1>2, <1>3, <3>2
    <3>3. QED  BY <1>5, <3>1, <3>2
  <2>3. Passed(v, m, before.blocktime + later)
    BY <1>1, <1>5, <2>1, <2>2, PassedOn
  <2>4. QED  BY <2>1, <2>3
<1>6. QED  BY <1>4, <1>5, MadeOneOn

\* The sums of a total are the sums over the blocks up to it as long as only the
\* sequencer counts, and never more; so are its accounts, and its time is what
\* has passed since the first block that knows its time.
THEOREM TotalsAlwaysAddUp == Spec => []TotalsAddUp
<1>1. Init => SumsRight /\ AccountsAddUp /\ TimesRight
  <2>1. Init => Counted = {}
    BY DEF Init, NoLedger, NoRows, Counted
  <2>2. QED  BY <2>1 DEF SumsRight, AccountsAddUp, TimesRight
<1>2. SumsRight /\ AccountsAddUp /\ TimesRight => TotalsAddUp
  <2> SUFFICES ASSUME SumsRight, AccountsAddUp, TimesRight PROVE TotalsAddUp
    OBVIOUS
  <2>1. ASSUME NEW n \in Counted, NEW f \in Summed
        PROVE  /\ ledger.totals[n][f] <= SumFunction(CountersTo(ledger, n, f))
               /\ requests = 0 => ledger.totals[n][f] = SumFunction(CountersTo(ledger, n, f))
    BY <2>1 DEF SumsRight
  <2>2. ASSUME NEW n \in Counted, requests = 0
        PROVE  /\ ledger.totals[n].accounts = SumFunction(AccountsTo(ledger, n))
               /\ Passed(ledger, n, ledger.totals[n].blocktime)
    BY <2>2 DEF AccountsAddUp, TimesRight
  <2>3. QED  BY <2>1, <2>2, Zenon DEF TotalsAddUp, CountersTo, AccountsTo, Passed, TimedTo, There
<1>3. QED
  BY <1>1, <1>2, InitInv, StepInv, InitUpward, StepUpward, StepSums, StepAccounts, StepTimes, PTL
  DEF Spec
==============================================================================
