-------------------------------- MODULE Accounts --------------------------------
(***************************************************************************)
(* The sequencing hooks that fold the audits of a block into the accounts  *)
(* and their indices (app/processors/blocks/account.py, account_index.py,  *)
(* account_info.py), and those that mark accounts with a role, as          *)
(* functions on the ledger s, the tables that sequencing writes.           *)
(*                                                                         *)
(* A balance is the number of the block whose state it shows.              *)
(***************************************************************************)
EXTENDS Integers, Tables, SequencesExt

\* The index of an account: of its rows, the first.
IndexOf(s, account) ==
  LET rows == {i \in DOMAIN s.owners : s.owners[i] = account}
  IN IF rows = {} THEN Null ELSE Min(rows)

\* A new row, with what the node says of the account at block n.
NewAccountRow(s, n, account, roles) ==
  [reaped |-> FALSE, count_reaped |-> 0, is |-> roles, was |-> roles \ {"treasury"},
   index |-> IndexOf(s, account), identity |-> Null, good |-> 0, bad |-> 0,
   balance |-> n, created |-> n]

\* The roles that an audit of genesis brings along.
RolesOf(audit) == IF audit[5] = Null THEN {} ELSE audit[5]

\* Mutant of AuditApplied: an account that is new again stays reaped.
AuditAppliedReaped(s, n, audit) ==
  LET account == audit[4]
  IN IF account \notin DOMAIN s.accounts
     THEN [s EXCEPT !.accounts =
             Put(@, account, NewAccountRow(s, n, account, RolesOf(audit)))]
     ELSE IF audit[3] = "reaped"
     THEN [s EXCEPT !.accounts[account].reaped = TRUE, !.accounts[account].count_reaped = @ + 1]
     ELSE s

\* An audit of an account without a row makes one, whatever it says.
AuditApplied(s, n, audit) ==
  LET account == audit[4]
      roles == RolesOf(audit)
  IN IF account \notin DOMAIN s.accounts
     THEN [s EXCEPT !.accounts = Put(@, account, NewAccountRow(s, n, account, roles))]
     ELSE IF audit[3] = "reaped"
     THEN [s EXCEPT !.accounts[account].reaped = TRUE, !.accounts[account].count_reaped = @ + 1]
     ELSE [s EXCEPT !.accounts[account].reaped = FALSE,
                    !.accounts[account].is = @ \cup roles,
                    !.accounts[account].was = @ \cup (roles \ {"treasury"})]

\* An account that the block is about in the search index, and has no row.
IndexedAccount(s, n, account) ==
  IF account \in DOMAIN s.accounts THEN s
  ELSE [s EXCEPT !.accounts = Put(@, account, NewAccountRow(s, n, account, {}))]

\* update_account_info asks the node about an account that gets a row.
AsksOfAccount(s, account) == account \notin DOMAIN s.accounts

------------------------------------------------------------------------------
\* Mutant of Freed: an account that is reaped keeps its indices.
FreedByIndex(s, audit) == DOMAIN s.owners \cap {audit[5]}

\* The rows an index is taken from: those of the index or, when there is none -
\* or it is 0 - those of the account.
Freed(s, audit) ==
  IF audit[5] \in {Null, 0} THEN {i \in DOMAIN s.owners : s.owners[i] = audit[4]}
  ELSE DOMAIN s.owners \cap {audit[5]}

IndexAuditApplied(s, audit) ==
  LET index == audit[5]
      account == audit[4]
      owned == [s EXCEPT !.owners = Put(@, index, account)]
  IN IF audit[3] = "new"
     THEN IF account \in DOMAIN s.accounts
          THEN [owned EXCEPT !.accounts[account].index = index]
          ELSE owned
     ELSE [s EXCEPT !.owners = [i \in DOMAIN @ |-> IF i \in Freed(s, audit) THEN Null ELSE @[i]]]

\* AccountInfoBlockProcessor.sequencing_hook: the snapshots of the block.
SnapshotsApplied(s, n, accounts) ==
  [s EXCEPT !.accounts =
     [a \in DOMAIN @ |-> IF a \in accounts THEN [@[a] EXCEPT !.balance = n] ELSE @[a]]]

\* Mutant of Newest: any snapshot will do.
Oldest(snapshots) ==
  [a \in {key[2] : key \in snapshots} |-> Min({key[1] : key \in {k \in snapshots : k[2] = a}})]

\* The SELECT of update_account_balances: for each account the highest block that
\* has a snapshot of it, whatever has been sequenced.
Newest(snapshots) ==
  [a \in {key[2] : key \in snapshots} |-> Max({key[1] : key \in {k \in snapshots : k[2] = a}})]

\* Its UPDATE of the accounts that are there.
BalancesUpdated(s, newest) ==
  [s EXCEPT !.accounts =
     [a \in DOMAIN @ |-> IF a \in DOMAIN newest THEN [@[a] EXCEPT !.balance = newest[a]]
                         ELSE @[a]]]

------------------------------------------------------------------------------
\* An account takes a role, or loses it.
Marked(row, role) == [row EXCEPT !.is = @ \cup {role}, !.was = @ \cup {role}]
Unmarked(row, role) == [row EXCEPT !.is = @ \ {role}]

\* Mutant of SetRole: nobody loses a role.
SetRoleOnly(s, role, accounts) ==
  [s EXCEPT !.accounts =
     [a \in DOMAIN @ |-> IF a \in accounts THEN Marked(@[a], role) ELSE @[a]]]

\* The three updates by which a role passes to a set of accounts.
SetRole(s, role, accounts) ==
  [s EXCEPT !.accounts =
     [a \in DOMAIN @ |-> IF a \in accounts THEN Marked(@[a], role) ELSE Unmarked(@[a], role)]]

CouncilNewTerm(s, e) == SetRole(s, "council", ToSet(e.members))

\* The registrars are those of the node's head, not those of the block.
RegistrarAdded(s, registrars) == SetRole(s, "registrar", registrars)

SudoSetKey(s, x, success) == IF success THEN SetRole(s, "sudo", {x.params[1]}) ELSE s
==============================================================================
