-------------------------------- MODULE Audits --------------------------------
(***************************************************************************)
(* The accumulation hooks that write down what happens to accounts,        *)
(* indices and identities, for sequencing to fold into the account tables, *)
(* and the one of contracts; as functions on the tables t.                 *)
(*                                                                         *)
(* An audit row is <<block, event index, type, account, data>>, in a table *)
(* of its own per subject; the reverts go by the block alone.              *)
(***************************************************************************)
EXTENDS Integers, Tables

Audit(n, i, type, account, data) == <<n, i, type, account, data>>

\* Mutant of NotOf: a revert takes out the row of its own event only.
NotOfFirst(rows, n) == {r \in rows : r[1] # n \/ r[2] # 1}

NotOf(rows, n) == {r \in rows : r[1] # n}

\* System.NewAccount.  An attribute type the hook does not know is passed over.
NewAccount(t, n, i, e) ==
  IF e.known THEN [t EXCEPT !.audits = @ \cup {Audit(n, i, "new", e.account, Null)},
                            !.fresh = @ \cup {e.account}]
  ELSE t

\* System.KilledAccount raises instead.
KilledAccount(t, n, i, e) ==
  IF e.known THEN [t EXCEPT !.audits = @ \cup {Audit(n, i, "reaped", e.account, Null)},
                            !.gone = @ \cup {e.account}]
  ELSE [t EXCEPT !.failed = TRUE]

\* Balances.ReapedAccount gives the indices of the account back as well.
ReapedAccount(t, n, i, e) ==
  IF e.known
  THEN [t EXCEPT !.audits = @ \cup {Audit(n, i, "reaped", e.account, Null)},
                 !.indices = @ \cup {Audit(n, i, "reaped", e.account, Null)},
                 !.gone = @ \cup {e.account}]
  ELSE [t EXCEPT !.failed = TRUE]

\* Balances.ReapedAccount has the only revert of two tables.
ReapedAccountRevert(t, n) ==
  [t EXCEPT !.audits = NotOf(@, n), !.indices = NotOf(@, n)]

AccountRevert(t, n) == [t EXCEPT !.audits = NotOf(@, n)]

\* Indices.IndexAssigned and Indices.NewAccountIndex.
IndexAssigned(t, n, i, e) ==
  [t EXCEPT !.indices = @ \cup {Audit(n, i, "new", e.account, e.index)}]

NewAccountIndex(t, n, i, e) ==
  [t EXCEPT !.indices = @ \cup {Audit(n, i, "new", e.account, e.index)}]

IndexFreed(t, n, i, e) ==
  [t EXCEPT !.indices = @ \cup {Audit(n, i, "reaped", Null, e.index)}]

IndexRevert(t, n) == [t EXCEPT !.indices = NotOf(@, n)]

\* The Identity events, whose attribute types must be known.
IdentityAudit(t, n, i, e, type, data) ==
  IF e.known THEN [t EXCEPT !.identities = @ \cup {Audit(n, i, type, e.account, data)}]
  ELSE t

IdentitySet(t, n, i, e) == IdentityAudit(t, n, i, e, "set", e.info)
IdentityCleared(t, n, i, e) == IdentityAudit(t, n, i, e, "cleared", Null)
IdentityKilled(t, n, i, e) == IdentityAudit(t, n, i, e, "killed", Null)
IdentityRevert(t, n) == [t EXCEPT !.identities = NotOf(@, n)]

JudgementGiven(t, n, i, e) ==
  IF e.known
  THEN [t EXCEPT !.judgements =
          @ \cup {Audit(n, i, "given", e.account, [registrar |-> e.registrar, value |-> e.value])}]
  ELSE t

JudgementRevert(t, n) == [t EXCEPT !.judgements = NotOf(@, n)]

------------------------------------------------------------------------------
\* Mutant of ValidatorChecks: a check that is listed is left alone.
ValidatorChecksOnce(t, e) ==
  [t EXCEPT !.checks =
     [k \in DOMAIN @ \cup DOMAIN e.checks |-> IF k \in DOMAIN @ THEN @[k] ELSE e.checks[k]]]

\* Session.NewSession asks the node for the latest checks of the oracle's
\* validators, a row each by validator and authority; there is no revert.
ValidatorChecks(t, e) ==
  [t EXCEPT !.checks =
     [k \in DOMAIN @ \cup DOMAIN e.checks |-> IF k \in DOMAIN e.checks THEN e.checks[k] ELSE @[k]]]

\* Contract.CodeStored: the key is the hash of the code.
CodeStored(t, n, i, e) ==
  [t EXCEPT !.contracts = @ \cup {<<n, e.code>>},
            !.failed = @ \/ \E c \in t.contracts : c[2] = e.code]

CodeRevert(t, n) == [t EXCEPT !.contracts = {c \in @ : c[1] # n}]
==============================================================================
