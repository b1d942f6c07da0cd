------------------------------- MODULE Identities -------------------------------
(***************************************************************************)
(* The sequencing hooks of identities and judgements                       *)
(* (app/processors/blocks/identity.py, identity_judgement.py), as          *)
(* functions on the ledger s.  An identity is its display name.            *)
(*                                                                         *)
(* No processor writes the audits that link sub-accounts to an account, so *)
(* the branches of the hooks for them are not taken.                       *)
(***************************************************************************)
EXTENDS Integers, Tables

\* Mutant of IdentityApplied: an identity that is killed is kept.
IdentityAppliedKept(s, audit) ==
  LET account == audit[4]
  IN IF account \notin DOMAIN s.accounts THEN s
     ELSE IF audit[3] = "set" THEN [s EXCEPT !.accounts[account].identity = audit[5]]
     ELSE IF audit[3] = "cleared"
     THEN [s EXCEPT !.accounts[account].identity = Null,
                    !.accounts[account].good = 0, !.accounts[account].bad = 0]
     ELSE s

IdentityApplied(s, audit) ==
  LET account == audit[4]
  IN IF account \notin DOMAIN s.accounts THEN s
     ELSE IF audit[3] = "set" THEN [s EXCEPT !.accounts[account].identity = audit[5]]
     ELSE [s EXCEPT !.accounts[account].identity = Null,
                    !.accounts[account].good = 0, !.accounts[account].bad = 0]

GoodValue(value) == value \in {"Reasonable", "KnownGood"}
PoorValue(value) == value \in {"LowQuality", "Erroneous"}

\* Mutant of JudgementApplied: a registrar's judgement stands.
JudgementAppliedOnce(s, audit) ==
  LET key == <<audit[4], audit[5].registrar>>
  IN [s EXCEPT !.judgements = Put(@, key, RowOr(@, key, audit[5].value))]

\* The judgement of a registrar is written over; the account's counters go up
\* with every one.  One that was given in a batch of calls has no value.
JudgementApplied(s, audit) ==
  LET account == audit[4]
      value == audit[5].value
      given == [s EXCEPT !.judgements = Put(@, <<account, audit[5].registrar>>, value)]
  IN IF value = Null THEN s
     ELSE IF account \notin DOMAIN s.accounts THEN given
     ELSE [given EXCEPT !.accounts[account].good = IF GoodValue(value) THEN @ + 1 ELSE @,
                        !.accounts[account].bad = IF PoorValue(value) THEN @ + 1 ELSE @]
==============================================================================
