-------------------------------- MODULE Sessions --------------------------------
(***************************************************************************)
(* Sessions, their validators and nominators                               *)
(* (app/processors/events/session/new_session.py), as functions on the     *)
(* ledger s.                                                               *)
(*                                                                         *)
(* A session e as the node shows it at the block: its number, its          *)
(* validators in the order of their rank, and the nominators of each.  The *)
(* bonds, preferences and ledgers are data that go into the rows as they   *)
(* are.                                                                    *)
(***************************************************************************)
EXTENDS Accounts

\* What is written of a session when the node fails to show its validators: it
\* has none.
NotShown(e) == [e EXCEPT !.validators = <<>>, !.nominators = <<>>]

NominatorRows(e) ==
  UNION {{<<e.session, v - 1, k>> : k \in DOMAIN e.nominators[v]} : v \in DOMAIN e.validators}

\* The validators of a session by rank; those of higher ranks that the session
\* may have had are left.
WithValidators(s, e) ==
  [s EXCEPT !.validators =
     [k \in DOMAIN @ \cup {<<e.session, v - 1>> : v \in DOMAIN e.validators} |->
        IF k[1] = e.session /\ k[2] < Len(e.validators) THEN e.validators[k[2] + 1] ELSE @[k]]]

\* The nominators are inserted without a look at what is there.
WithNominators(s, e) ==
  [s EXCEPT !.nominators = @ \cup NominatorRows(e),
            !.failed = @ \/ NominatorRows(e) \cap s.nominators # {}]

\* Mutant of CountBlocks: the block of the event is the next session's.
CountBlocksExclusive(s, n, session) ==
  IF session - 1 \in DOMAIN s.sessions THEN n - s.sessions[session - 1].start ELSE n

\* The blocks of the session before, which ends with this block.
CountBlocks(s, n, session) ==
  IF session - 1 \in DOMAIN s.sessions THEN n - s.sessions[session - 1].start + 1 ELSE n

WithSession(s, n, e) ==
  LET new == [s EXCEPT !.sessions =
                Put(@, e.session, [start |-> n + 1, validators |-> Len(e.validators)])]
  IN [new EXCEPT !.sessionTotals =
        Put(@, e.session - 1, [end |-> n, count |-> CountBlocks(new, n, e.session)])]

Flagged(s, e) ==
  SetRole(SetRole(s, "validator", ToSet(e.validators)), "nominator",
          UNION {ToSet(e.nominators[v]) : v \in DOMAIN e.validators})

\* Mutant of AddSession: validators that are there stop it.
AddSessionTwice(s, n, e) ==
  LET added == Flagged(WithSession(WithNominators(WithValidators(s, e), e), n, e), e)
  IN [added EXCEPT !.failed = @ \/ \E k \in DOMAIN s.validators : k[1] = e.session]

\* add_session: what is there of the session goes first, but for its nominators.
AddSession(s, n, e) == Flagged(WithSession(WithNominators(WithValidators(s, e), e), n, e), e)

\* add_session_old inserts the validators as well without a look, and when the
\* session is there calls a delete that its row has not.
AddSessionOld(s, n, e) ==
  LET inserted == WithNominators(WithValidators(s, e), e)
      ranked == {k \in DOMAIN s.validators : k[1] = e.session /\ k[2] < Len(e.validators)}
  IN IF ranked # {} \/ inserted.failed THEN [s EXCEPT !.failed = TRUE]
     ELSE IF e.session \in DOMAIN s.sessions THEN [inserted EXCEPT !.raised = TRUE]
     ELSE AddSession(s, n, e)

\* get_versioned_setting: the first range of versions that the runtime is in, or
\* else the setting without ranges.
VersionedSetting(versions, default, runtime) ==
  LET ranges == {i \in DOMAIN versions : /\ versions[i].from <= runtime
                                         /\ versions[i].to = Null \/ versions[i].to >= runtime}
  IN IF ranges = {} THEN default ELSE versions[Min(ranges)].value

\* The sequencing hook of Session.NewSession: NEW_SESSION_EVENT_HANDLER says how.
NewSession(s, n, e, new) == IF new THEN AddSession(s, n, e) ELSE AddSessionOld(s, n, e)
==============================================================================
