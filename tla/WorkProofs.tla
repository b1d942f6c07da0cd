------------------------------ MODULE WorkProofs -------------------------------
(***************************************************************************)
(* What is proved of the work of Sequencing piece by piece: the sessions   *)
(* have a row at the block they start with, so that sequence_block never   *)
(* stops for good, and hold the blocks they are said to hold; and what the *)
(* accounts, the owners of indices, the identities and the judgements say  *)
(* is what the audits of the blocks add up to.                             *)
(*                                                                         *)
(* SequencingProofs says which pieces of a block a call does and in which  *)
(* order; here each piece is followed through the tables it writes, over   *)
(* calls that end half-way and are made again.                             *)
(***************************************************************************)
EXTENDS SequencingProofs
------------------------------------------------------------------------------
(* The tables of sessions, piece by piece.                                  *)

\* The piece by which a session starts.
SessionPiece(piece) ==
  IsEvent(piece, "NewSession") \/ (piece.hook = "genesis" /\ piece.row = "session")

SessionTables == {"sessions", "sessionTotals", "validators", "nominators"}

\* These fields are the same in u and s.
SameIn(u, s, fields) == \A f \in fields : u[f] = s[f]

\* What the other pieces leave of the sessions: the block total alone may raise.
NoSession(u, s, n, piece) ==
  /\ SameIn(u, s, SessionTables \cup {"failed"})
  /\ u.raised = s.raised \/ (piece.hook = "total" /\ TimeLost(DataBlock(s), n))

LEMMA ChangesElsewhere ==
  ASSUME NEW u, NEW s, NEW n, NEW piece, NEW fields, OnlyChanges(u, s, fields),
         fields \cap (SessionTables \cup {"failed", "raised"}) = {}
  PROVE  NoSession(u, s, n, piece)
BY DEF OnlyChanges, NoSession, SameIn, SessionTables, LedgerFields

LEMMA GenesisApart ==
  ASSUME NEW s, IsLedger(s), NEW n, NEW shown, NEW piece, IsPiece(n, piece),
         piece.hook = "genesis", ~SessionPiece(piece)
  PROVE  NoSession(Done(s, n, shown, piece), s, n, piece)
<1> DEFINE u == Done(s, n, shown, piece)
           part == piece.row
<1>1. u = GenesisDone(s, part, shown)
  BY DEF Done
<1>2. part \in {"added", "accounts", "sudo", "members"}
  BY DEF IsPiece, SessionPiece, GenesisParts
<1>3. OnlyChanges(u, s, {"zero", "genesis"})
  <2>1. CASE part = "added"
    <3> DEFINE g == content[0].genesis
               row == RowOr(s.zero, 0, stored[0].blocks[0])
               child == stored[1].blocks[1].datetime
               zero == Put(s.zero, 0, [row EXCEPT !.datetime = IF child = Null THEN @ ELSE child])
    <3>1. u = [s EXCEPT !.zero = zero]
      BY <1>1, <2>1 DEF GenesisDone
    <3> HIDE DEF zero, u
    <3>2. QED  BY <3>1 DEF OnlyChanges, IsLedger, HasFields, LedgerFields
  <2>2. CASE part = "accounts"
    <3> DEFINE g == content[0].genesis
               audits == s.genesis \o NewAudits(g.accounts, Null) \o NewAudits(<<Treasury>>, {"treasury"})
               zero == [s.zero EXCEPT ![0].counters.new = Len(g.accounts)]
    <3>1. u = [s EXCEPT !.genesis = audits, !.zero = zero]
      BY <1>1, <2>2 DEF GenesisDone, IsLedger, HasFields, LedgerFields
    <3> HIDE DEF zero, audits, u
    <3>2. QED  BY <3>1 DEF OnlyChanges, IsLedger, HasFields, LedgerFields
  <2>3. CASE part \in {"sudo", "members"}
    <3>1. \E audits : u = [s EXCEPT !.genesis = audits]
      BY <1>1, <2>3 DEF GenesisDone
    <3> HIDE DEF u
    <3>2. QED  BY <3>1 DEF OnlyChanges, IsLedger, HasFields, LedgerFields
  <2>4. QED  BY <1>2, <2>1, <2>2, <2>3
<1> HIDE DEF u
<1>4. NoSession(u, s, n, piece)
  <2>1. {"zero", "genesis"} \cap (SessionTables \cup {"failed", "raised"}) = {}
    BY DEF SessionTables
  <2>2. QED  BY <1>3, <2>1, ChangesElsewhere
<1>5. QED  BY <1>4 DEF u

\* An event or call that starts no session.
LEMMA EventIs ==
  ASSUME NEW s, NEW n, NEW shown, NEW piece, piece.hook \in {"event", "call"}, ~SessionPiece(piece)
  PROVE  LET u == Done(s, n, shown, piece)
         IN \/ u = s
            \/ \E role, accounts : u = SetRole(s, role, accounts)
            \/ \E burn : u = [s EXCEPT !.current.burn = burn]
<1> DEFINE u == Done(s, n, shown, piece)
           e == piece.row
<1>1. CASE piece.hook = "call"
  BY <1>1 DEF Done, CallDone, SudoSetKey
<1>2. CASE piece.hook = "event"
  <2>1. u = EventDone(s, n, shown, e)
    BY <1>2 DEF Done
  <2>2. e.kind # "NewSession"
    BY <1>2 DEF SessionPiece, IsEvent
  <2>3. CASE e.kind = "NewTerm"
    <3>1. u = SetRole(s, "council", ToSet(e.members))
      BY <2>1, <2>3 DEF EventDone, CouncilNewTerm
    <3> HIDE DEF u
    <3>2. QED  BY <3>1 DEF u
  <2>4. CASE e.kind = "RegistrarAdded"
    <3>1. u = SetRole(s, "registrar", Registrars)
      BY <2>1, <2>4 DEF EventDone, RegistrarAdded
    <3> HIDE DEF u
    <3>2. QED  BY <3>1 DEF u
  <2>5. CASE e.kind = "Burnt"
    <3>1. u = [s EXCEPT !.current.burn = BurnTotal(BeforeOf(s, n), e.value, Burns)]
      BY <2>1, <2>5 DEF EventDone
    <3> HIDE DEF u
    <3>2. QED  BY <3>1 DEF u
  <2>6. CASE e.kind \notin {"NewTerm", "RegistrarAdded", "Burnt"}
    BY <2>1, <2>2, <2>6 DEF EventDone
  <2>7. QED  BY <2>3, <2>4, <2>5, <2>6
<1>3. QED  BY <1>1, <1>2

LEMMA EventApart ==
  ASSUME NEW s, IsLedger(s), NEW n, NEW shown, NEW piece,
         piece.hook \in {"event", "call"}, ~SessionPiece(piece)
  PROVE  NoSession(Done(s, n, shown, piece), s, n, piece)
<1> DEFINE u == Done(s, n, shown, piece)
<1>1. \/ u = s
      \/ \E role, accounts : u = SetRole(s, role, accounts)
      \/ \E burn : u = [s EXCEPT !.current.burn = burn]
  BY EventIs
<1> HIDE DEF u
<1>2. ASSUME u = s PROVE NoSession(u, s, n, piece)
  BY <1>2 DEF NoSession, SameIn
<1>3. ASSUME NEW role, NEW accounts, u = SetRole(s, role, accounts)
      PROVE  NoSession(u, s, n, piece)
  <2>1. OnlyChanges(u, s, {"accounts"})
    BY <1>3, SetRoleKeeps
  <2>2. {"accounts"} \cap (SessionTables \cup {"failed", "raised"}) = {}
    BY DEF SessionTables
  <2>3. QED  BY <2>1, <2>2, ChangesElsewhere
<1>4. ASSUME NEW burn, u = [s EXCEPT !.current.burn = burn]
      PROVE  NoSession(u, s, n, piece)
  <2>1. OnlyChanges(u, s, {"current"})
    BY <1>4 DEF OnlyChanges, IsLedger, HasFields, LedgerFields
  <2>2. {"current"} \cap (SessionTables \cup {"failed", "raised"}) = {}
    BY DEF SessionTables
  <2>3. QED  BY <2>1, <2>2, ChangesElsewhere
<1>5. NoSession(u, s, n, piece)
  BY <1>1, <1>2, <1>3, <1>4
<1>6. QED  BY <1>5 DEF u

LEMMA OthersApart ==
  ASSUME NEW s, IsLedger(s), NEW n, NEW shown, NEW piece, IsPiece(n, piece), ~SessionPiece(piece)
  PROVE  NoSession(Done(s, n, shown, piece), s, n, piece)
<1> DEFINE u == Done(s, n, shown, piece)
           fields == {"accounts", "owners", "judgements", "totals", "current"}
<1>1. CASE piece.hook \in {"genesis", "event", "call"}
  BY <1>1, GenesisApart, EventApart
<1>2. CASE piece.hook = "total"
  <2> DEFINE new == WithTotals(s.validators, DataBlock(s), n, BeforeOf(s, n), s.current.burn)
  <2>1. u = IF TimeLost(DataBlock(s), n) THEN [s EXCEPT !.raised = TRUE] ELSE [s EXCEPT !.current = new]
    BY <1>2 DEF Done, TotalDone
  <2> HIDE DEF new, u
  <2>2. CASE TimeLost(DataBlock(s), n)
    <3>1. OnlyChanges(u, s, {"raised"})
      BY <2>1, <2>2 DEF OnlyChanges, IsLedger, HasFields, LedgerFields
    <3>2. QED  BY <1>2, <2>2, <3>1 DEF OnlyChanges, NoSession, SameIn, SessionTables, LedgerFields, u
  <2>3. CASE ~TimeLost(DataBlock(s), n)
    <3>1. OnlyChanges(u, s, {"current"})
      BY <2>1, <2>3 DEF OnlyChanges, IsLedger, HasFields, LedgerFields
    <3>2. QED  BY <3>1, ChangesElsewhere DEF SessionTables, u
  <2>4. QED  BY <2>2, <2>3
<1>3. CASE piece.hook \in {"old", "audit", "indexed", "index", "info", "identity", "judgement"}
  <2>1. OnlyChanges(u, s, fields)
    <3>1. CASE piece.hook = "old"
      <4> DEFINE totals == Without(s.totals, {n})
                 burn == BeforeOf(s, n).burn
      <4>1. u = [s EXCEPT !.totals = totals, !.current.burn = burn]
        BY <3>1 DEF Done, IsLedger, HasFields, LedgerFields
      <4> HIDE DEF u, totals, burn
      <4>2. QED  BY <4>1 DEF OnlyChanges, IsLedger, HasFields, LedgerFields
    <3>2. CASE piece.hook = "audit"
      <4>1. u = AuditApplied(s, n, piece.row)
        BY <3>2 DEF Done
      <4>2. QED  BY <4>1, AuditAppliedKeeps DEF OnlyChanges
    <3>3. CASE piece.hook = "indexed"
      <4>1. u = IndexedAccount(s, n, piece.row)
        BY <3>3 DEF Done
      <4>2. QED  BY <4>1, IndexedAccountKeeps DEF OnlyChanges
    <3>4. CASE piece.hook = "index"
      <4>1. u = IndexAuditApplied(s, piece.row)
        BY <3>4 DEF Done
      <4>2. QED  BY <4>1, IndexAuditKeeps DEF OnlyChanges
    <3>5. CASE piece.hook = "info"
      <4>1. u = SnapshotsApplied(s, n, {key[2] : key \in {k \in snapshots : k[1] = n}})
        BY <3>5 DEF Done
      <4>2. QED  BY <4>1, SnapshotsKeep DEF OnlyChanges
    <3>6. CASE piece.hook = "identity"
      <4>1. u = IdentityApplied(s, piece.row)
        BY <3>6 DEF Done
      <4>2. QED  BY <4>1, IdentityKeeps DEF OnlyChanges
    <3>7. CASE piece.hook = "judgement"
      <4>1. u = JudgementApplied(s, piece.row)
        BY <3>7 DEF Done
      <4>2. QED  BY <4>1, JudgementKeeps DEF OnlyChanges
    <3>8. QED  BY <1>3, <3>1, <3>2, <3>3, <3>4, <3>5, <3>6, <3>7
  <2>2. fields \cap (SessionTables \cup {"failed", "raised"}) = {}
    BY DEF SessionTables
  <2> HIDE DEF fields, u
  <2>3. NoSession(u, s, n, piece)
    BY <2>1, <2>2, ChangesElsewhere
  <2>4. QED  BY <2>3 DEF u
<1>4. QED  BY <1>1, <1>2, <1>3 DEF IsPiece

\* The rows of a session, and who is there of what there was.
RanksOf(e) == {<<e.session, v - 1>> : v \in DOMAIN e.validators}

\* What the event of a session may do to the tables: rows of that session only.
SessionOnly(u, s, e) ==
  /\ \A k \in u.nominators \ s.nominators : k[1] = e.session
  /\ s.nominators \subseteq u.nominators
  /\ DOMAIN s.validators \subseteq DOMAIN u.validators
  /\ DOMAIN u.validators \subseteq DOMAIN s.validators \cup RanksOf(e)
  /\ \A k \in DOMAIN s.validators : k[1] # e.session => u.validators[k] = s.validators[k]
  /\ DOMAIN s.sessions \subseteq DOMAIN u.sessions
  /\ DOMAIN u.sessions \subseteq DOMAIN s.sessions \cup {e.session}
  /\ \A x \in DOMAIN s.sessions : x # e.session => u.sessions[x] = s.sessions[x]
  /\ DOMAIN s.sessionTotals \subseteq DOMAIN u.sessionTotals
  /\ \A x \in DOMAIN s.sessionTotals :
       x # e.session - 1 => u.sessionTotals[x] = s.sessionTotals[x]

\* What it leaves when it does not stop.
SessionSet(u, s, n, e) ==
  /\ \A v \in DOMAIN e.validators :
       /\ <<e.session, v - 1>> \in DOMAIN u.validators
       /\ u.validators[<<e.session, v - 1>>] = e.validators[v]
  /\ e.session \in DOMAIN u.sessions /\ u.sessions[e.session].start = n + 1
  /\ e.session - 1 \in DOMAIN u.sessionTotals
  /\ e.session - 1 # e.session =>
       u.sessionTotals[e.session - 1].count =
         IF e.session - 1 \in DOMAIN s.sessions THEN n - s.sessions[e.session - 1].start + 1 ELSE n

\* When it stops: rows of the session were there.
SessionStops(u, s, e, new) ==
  /\ u.failed =>
       \/ NominatorRows(e) \cap s.nominators # {}
       \/ ~new /\ \E k \in DOMAIN s.validators : k[1] = e.session
  /\ u.raised => ~u.failed /\ ~new /\ e.session \in DOMAIN s.sessions

LEMMA ValidatorsWritten ==
  ASSUME NEW s, HasFields(s), NEW e, IsList(e.validators)
  PROVE  LET u == WithValidators(s, e)
         IN /\ OnlyChanges(u, s, {"validators"})
            /\ DOMAIN u.validators = DOMAIN s.validators \cup RanksOf(e)
            /\ \A k \in DOMAIN s.validators : k[1] # e.session => u.validators[k] = s.validators[k]
            /\ \A v \in DOMAIN e.validators : u.validators[<<e.session, v - 1>>] = e.validators[v]
<1> DEFINE u == WithValidators(s, e)
           ranks == DOMAIN s.validators \cup RanksOf(e)
           new == [k \in ranks |->
                     IF k[1] = e.session /\ k[2] < Len(e.validators) THEN e.validators[k[2] + 1]
                     ELSE s.validators[k]]
<1>1. u = [s EXCEPT !.validators = new]
  BY DEF WithValidators, HasFields, LedgerFields, RanksOf
<1>2. Len(e.validators) \in Nat /\ DOMAIN e.validators = 1 .. Len(e.validators)
  BY ListDomain
<1>3. \A v \in DOMAIN e.validators : <<e.session, v - 1>> \in ranks
  BY DEF RanksOf
<1>4. DOMAIN new = ranks /\ \A k \in DOMAIN s.validators : k[1] # e.session => new[k] = s.validators[k]
  OBVIOUS
<1>5. ASSUME NEW v \in DOMAIN e.validators PROVE new[<<e.session, v - 1>>] = e.validators[v]
  <2> DEFINE k == <<e.session, v - 1>>
  <2>1. k \in ranks /\ k[1] = e.session /\ k[2] = v - 1
    BY <1>3
  <2>2. v - 1 < Len(e.validators) /\ (v - 1) + 1 = v
    BY <1>2
  <2> HIDE DEF k, ranks
  <2>3. new[k] = e.validators[v]
    BY <2>1, <2>2
  <2>4. QED  BY <2>3 DEF k
<1> HIDE DEF new, u
<1>6. OnlyChanges(u, s, {"validators"}) /\ u.validators = new
  BY <1>1 DEF OnlyChanges, HasFields, LedgerFields
<1>7. QED  BY <1>4, <1>5, <1>6 DEF u

LEMMA SessionWritten ==
  ASSUME NEW s, HasFields(s), NEW n, NEW e
  PROVE  LET u == WithSession(s, n, e)
         IN /\ OnlyChanges(u, s, {"sessions", "sessionTotals"})
            /\ DOMAIN u.sessions = DOMAIN s.sessions \cup {e.session}
            /\ \A x \in DOMAIN s.sessions : x # e.session => u.sessions[x] = s.sessions[x]
            /\ u.sessions[e.session].start = n + 1
            /\ DOMAIN u.sessionTotals = DOMAIN s.sessionTotals \cup {e.session - 1}
            /\ \A x \in DOMAIN s.sessionTotals :
                 x # e.session - 1 => u.sessionTotals[x] = s.sessionTotals[x]
            /\ e.session - 1 # e.session =>
                 u.sessionTotals[e.session - 1].count =
                   IF e.session - 1 \in DOMAIN s.sessions
                   THEN n - s.sessions[e.session - 1].start + 1 ELSE n
<1> DEFINE sessions == Put(s.sessions, e.session, [start |-> n + 1, validators |-> Len(e.validators)])
           new == [s EXCEPT !.sessions = sessions]
           last == e.session - 1
           total == [end |-> n, count |-> CountBlocks(new, n, e.session)]
           u == WithSession(s, n, e)
<1>1. u = [new EXCEPT !.sessionTotals = Put(@, last, total)]
  BY DEF WithSession
<1>2. /\ DOMAIN sessions = DOMAIN s.sessions \cup {e.session} /\ sessions[e.session].start = n + 1
      /\ \A x \in DOMAIN s.sessions : x # e.session => sessions[x] = s.sessions[x]
  BY DEF Put
<1>3. total.count = CountBlocks(new, n, e.session)
  OBVIOUS
<1> HIDE DEF sessions
<1>4. /\ OnlyChanges(new, s, {"sessions"}) /\ new.sessions = sessions
      /\ new.sessionTotals = s.sessionTotals
  BY DEF OnlyChanges, HasFields, LedgerFields
<1>5. CountBlocks(new, n, e.session) =
        IF last \in DOMAIN sessions THEN n - sessions[last].start + 1 ELSE n
  BY <1>4 DEF CountBlocks
<1> HIDE DEF new, total, u
<1>6. OnlyChanges(u, new, {"sessionTotals"}) /\ u.sessionTotals = Put(s.sessionTotals, last, total)
  BY <1>1, <1>4 DEF OnlyChanges, HasFields, LedgerFields
<1>7. OnlyChanges(u, s, {"sessions", "sessionTotals"}) /\ u.sessions = sessions
  BY <1>4, <1>6 DEF OnlyChanges, LedgerFields
<1>8. /\ DOMAIN u.sessionTotals = DOMAIN s.sessionTotals \cup {last}
      /\ u.sessionTotals[last] = total
      /\ \A x \in DOMAIN s.sessionTotals : x # last => u.sessionTotals[x] = s.sessionTotals[x]
  BY <1>6 DEF Put
<1>9. last # e.session =>
        u.sessionTotals[last].count = IF last \in DOMAIN s.sessions THEN n - s.sessions[last].start + 1
                                      ELSE n
  <2> HIDE DEF last
  <2>1. QED  BY <1>2, <1>3, <1>5, <1>8
<1>10. QED  BY <1>2, <1>7, <1>8, <1>9 DEF u

LEMMA AddSessionTables ==
  ASSUME NEW s, IsLedger(s), ~Stopped(s), NEW n, NEW e, IsList(e.validators)
  PROVE  LET u == AddSession(s, n, e)
         IN /\ SessionOnly(u, s, e) /\ SessionSet(u, s, n, e)
            /\ u.failed => NominatorRows(e) \cap s.nominators # {}
            /\ ~u.raised
<1> DEFINE t1 == WithValidators(s, e)
           t2 == WithNominators(t1, e)
           t3 == WithSession(t2, n, e)
           u == Flagged(t3, e)
<1>0. AddSession(s, n, e) = u
  BY DEF AddSession
<1>1. /\ OnlyChanges(t1, s, {"validators"})
      /\ DOMAIN t1.validators = DOMAIN s.validators \cup RanksOf(e)
      /\ \A k \in DOMAIN s.validators : k[1] # e.session => t1.validators[k] = s.validators[k]
      /\ \A v \in DOMAIN e.validators : t1.validators[<<e.session, v - 1>>] = e.validators[v]
  BY ValidatorsWritten DEF IsLedger
<1> HIDE DEF t1
<1>2. /\ OnlyChanges(t2, t1, {"nominators", "failed"})
      /\ t2.nominators = t1.nominators \cup NominatorRows(e)
      /\ t2.failed = (t1.failed \/ NominatorRows(e) \cap t1.nominators # {})
  BY <1>1 DEF WithNominators, OnlyChanges, HasFields, LedgerFields
<1> HIDE DEF t2
<1>3. HasFields(t2)
  BY <1>2 DEF OnlyChanges
<1>4. /\ OnlyChanges(t3, t2, {"sessions", "sessionTotals"})
      /\ DOMAIN t3.sessions = DOMAIN t2.sessions \cup {e.session}
      /\ \A x \in DOMAIN t2.sessions : x # e.session => t3.sessions[x] = t2.sessions[x]
      /\ t3.sessions[e.session].start = n + 1
      /\ DOMAIN t3.sessionTotals = DOMAIN t2.sessionTotals \cup {e.session - 1}
      /\ \A x \in DOMAIN t2.sessionTotals :
           x # e.session - 1 => t3.sessionTotals[x] = t2.sessionTotals[x]
      /\ e.session - 1 # e.session =>
           t3.sessionTotals[e.session - 1].count =
             IF e.session - 1 \in DOMAIN t2.sessions
             THEN n - t2.sessions[e.session - 1].start + 1 ELSE n
  BY <1>3, SessionWritten
<1> HIDE DEF t3
<1>5. t2.validators = t1.validators /\ t2.sessions = s.sessions /\ t2.sessionTotals = s.sessionTotals
      /\ t2.raised = s.raised /\ t1.failed = s.failed /\ t1.nominators = s.nominators
  BY <1>1, <1>2 DEF OnlyChanges, LedgerFields
<1>6. t3.validators = t2.validators /\ t3.nominators = t2.nominators /\ t3.failed = t2.failed
      /\ t3.raised = t2.raised
  BY <1>4 DEF OnlyChanges, LedgerFields
<1>7. IsLedger(t3)
  <2>1. /\ OnlyChanges(t3, s, SessionFields \ {"accounts"}) /\ t3.accounts = s.accounts
        /\ {"totals", "current"} \cap (SessionFields \ {"accounts"}) = {}
    BY <1>1, <1>2, <1>4 DEF OnlyChanges, SessionFields, LedgerFields
  <2>2. AccountsKept(t3, s, n, {})
    BY <2>1, AccountsUnchanged
  <2>3. QED  BY <2>1, <2>2, StaysLedger
<1>8. OnlyChanges(u, t3, {"accounts"})
  BY <1>7, FlaggedKeeps
<1> HIDE DEF u
<1>9. /\ u.validators = t1.validators /\ u.sessions = t3.sessions
      /\ u.sessionTotals = t3.sessionTotals /\ u.nominators = t2.nominators
      /\ u.failed = t2.failed /\ u.raised = s.raised
  BY <1>5, <1>6, <1>8 DEF OnlyChanges, LedgerFields
<1>10. ~s.failed /\ ~s.raised
  BY DEF Stopped
<1>11. SessionOnly(u, s, e)
  <2>1. \A k \in NominatorRows(e) : k[1] = e.session
    BY DEF NominatorRows
  <2>2. /\ \A k \in u.nominators \ s.nominators : k[1] = e.session
        /\ s.nominators \subseteq u.nominators
    BY <1>2, <1>5, <1>9, <2>1
  <2>3. QED  BY <1>1, <1>4, <1>5, <1>9, <2>2 DEF SessionOnly
<1>12. SessionSet(u, s, n, e)
  <2>1. \A v \in DOMAIN e.validators : <<e.session, v - 1>> \in DOMAIN u.validators
    BY <1>1, <1>9 DEF RanksOf
  <2>2. QED  BY <1>1, <1>4, <1>5, <1>9, <2>1 DEF SessionSet
<1>13. (u.failed => NominatorRows(e) \cap s.nominators # {}) /\ ~u.raised
  BY <1>2, <1>5, <1>9, <1>10
<1>14. QED  BY <1>0, <1>11, <1>12, <1>13

LEMMA NewSessionTables ==
  ASSUME NEW s, IsLedger(s), ~Stopped(s), NEW n, NEW e, IsList(e.validators), NEW new
  PROVE  LET u == NewSession(s, n, e, new)
         IN /\ SessionOnly(u, s, e) /\ SessionStops(u, s, e, new)
            /\ ~Stopped(u) => SessionSet(u, s, n, e)
<1> DEFINE t1 == WithValidators(s, e)
           t2 == WithNominators(t1, e)
           u == NewSession(s, n, e, new)
           ranked == {k \in DOMAIN s.validators : k[1] = e.session /\ k[2] < Len(e.validators)}
<1>0. ~s.failed /\ ~s.raised
  BY DEF Stopped
<1>1. CASE u = AddSession(s, n, e)
  <2> HIDE DEF u
  <2>1. QED  BY <1>1, AddSessionTables DEF SessionStops, u
<1>2. /\ OnlyChanges(t1, s, {"validators"})
      /\ DOMAIN t1.validators = DOMAIN s.validators \cup RanksOf(e)
      /\ \A k \in DOMAIN s.validators : k[1] # e.session => t1.validators[k] = s.validators[k]
  BY ValidatorsWritten DEF IsLedger
<1> HIDE DEF t1
<1>3. /\ OnlyChanges(t2, t1, {"nominators", "failed"})
      /\ t2.nominators = t1.nominators \cup NominatorRows(e)
      /\ t2.failed = (t1.failed \/ NominatorRows(e) \cap t1.nominators # {})
  BY <1>2 DEF WithNominators, OnlyChanges, HasFields, LedgerFields
<1> HIDE DEF t2
<1>4. CASE ~new /\ u = [s EXCEPT !.failed = TRUE] /\ (ranked # {} \/ t2.failed)
  <2>1. OnlyChanges(u, s, {"failed"}) /\ u.failed
    BY <1>4 DEF OnlyChanges, IsLedger, HasFields, LedgerFields
  <2> HIDE DEF u
  <2>2. SameIn(u, s, SessionTables) /\ u.raised = s.raised
    BY <2>1 DEF OnlyChanges, SameIn, SessionTables, LedgerFields
  <2>3. SessionOnly(u, s, e)
    BY <2>2 DEF SameIn, SessionTables, SessionOnly
  <2>4. t1.failed = s.failed /\ t1.nominators = s.nominators
    BY <1>2 DEF OnlyChanges, LedgerFields
  <2>5. SessionStops(u, s, e, new)
    BY <1>0, <1>3, <1>4, <2>1, <2>2, <2>4 DEF SessionStops
  <2>6. QED  BY <2>1, <2>3, <2>5 DEF Stopped, u
<1>5. CASE ~new /\ u = [t2 EXCEPT !.raised = TRUE] /\ ~t2.failed /\ e.session \in DOMAIN s.sessions
  <2>1. OnlyChanges(u, t2, {"raised"}) /\ u.raised
    BY <1>3, <1>5 DEF OnlyChanges, HasFields, LedgerFields
  <2> HIDE DEF u
  <2>2. /\ u.failed = t2.failed /\ u.nominators = t2.nominators /\ u.validators = t1.validators
        /\ t1.nominators = s.nominators
        /\ u.sessions = s.sessions /\ u.sessionTotals = s.sessionTotals
    BY <1>2, <1>3, <2>1 DEF OnlyChanges, LedgerFields
  <2>3. \A k \in NominatorRows(e) : k[1] = e.session
    BY DEF NominatorRows
  <2>4. /\ \A k \in u.nominators \ s.nominators : k[1] = e.session
        /\ s.nominators \subseteq u.nominators
    BY <1>3, <2>2, <2>3
  <2>5. SessionOnly(u, s, e)
    BY <1>2, <2>2, <2>4 DEF SessionOnly
  <2>6. SessionStops(u, s, e, new)
    BY <1>5, <2>1, <2>2 DEF SessionStops
  <2>7. QED  BY <2>1, <2>5, <2>6 DEF Stopped, u
<1>6. \/ u = AddSession(s, n, e)
      \/ ~new /\ u = [s EXCEPT !.failed = TRUE] /\ (ranked # {} \/ t2.failed)
      \/ ~new /\ u = [t2 EXCEPT !.raised = TRUE] /\ ~t2.failed /\ e.session \in DOMAIN s.sessions
  BY DEF NewSession, AddSessionOld, t1, t2
<1>7. QED  BY <1>1, <1>4, <1>5, <1>6

------------------------------------------------------------------------------
(* A call of sequence_block, as far as it goes.                             *)

\* One session starts at most.
OneSession(pieces) ==
  \A i, j \in DOMAIN pieces : SessionPiece(pieces[i]) /\ SessionPiece(pieces[j]) => i = j

\* The call w does the pieces of block w.n from w.s on, as far as the piece w.end.
IsCall(w) ==
  /\ w.n \in Numbers /\ LedgerRight(w.s)
  /\ (\E first, last \in Nat : PieceList(w.pieces, w.n, first, last)) /\ OneSession(w.pieces)
  /\ w.end \in 0 .. Len(w.pieces)
  /\ w.run[0] = w.s
  /\ \A k \in 1 .. w.end :
       ~Stopped(w.run[k - 1]) /\ w.run[k] = Done(w.run[k - 1], w.n, w.shown, w.pieces[k])

CallOf(n, s, shown, pieces, run, end) ==
  [n |-> n, s |-> s, shown |-> shown, pieces |-> pieces, run |-> run, end |-> end]

\* The work on the first pieces is a call that goes as far as it goes.
LEMMA AfterIsCall ==
  ASSUME NEW n \in Numbers, NEW s, LedgerRight(s), NEW shown, NEW pieces,
         NEW first \in Nat, NEW last \in Nat, PieceList(pieces, n, first, last), OneSession(pieces),
         NEW some, IsList(some), Len(some) <= Len(pieces),
         \A k \in DOMAIN some : some[k] = pieces[k]
  PROVE  \E run, end : LET w == CallOf(n, s, shown, pieces, run, end)
                       IN /\ IsCall(w) /\ end \in 0 .. Len(some)
                          /\ After(s, n, shown, some) = run[end]
                          /\ ~Stopped(run[end]) => end = Len(some)
<1> DEFINE len == Len(some)
<1>1. len \in Nat /\ DOMAIN some = 1 .. len /\ Len(pieces) \in Nat
  BY ListDomain DEF PieceList, ArePieces
<1>2. PICK run : IsRun(run, s, n, shown, some) /\ After(s, n, shown, some) = run[len]
  BY AfterIsRun
<1> DEFINE H == {k \in 0 .. len : Stopped(run[k])}
<1>3. ASSUME NEW k \in 1 .. len, ~Stopped(run[k - 1])
      PROVE  run[k] = Done(run[k - 1], n, shown, pieces[k])
  <2>1. run[k] = IF Stopped(run[k - 1]) THEN run[k - 1] ELSE Done(run[k - 1], n, shown, some[k])
    BY <1>2 DEF IsRun
  <2>2. QED  BY <1>1, <1>3, <2>1
<1>4. ASSUME NEW end \in 0 .. len, \A k \in 0 .. end - 1 : ~Stopped(run[k])
      PROVE  IsCall(CallOf(n, s, shown, pieces, run, end))
  <2>1. ASSUME NEW k \in 1 .. end PROVE ~Stopped(run[k - 1]) /\ k \in 1 .. len
    <3>1. k - 1 \in 0 .. end - 1
      OBVIOUS
    <3>2. QED  BY <1>1, <1>4, <3>1
  <2>2. \A k \in 1 .. end :
          ~Stopped(run[k - 1]) /\ run[k] = Done(run[k - 1], n, shown, pieces[k])
    BY <1>3, <2>1
  <2>3. end \in 0 .. Len(pieces)
    BY <1>1
  <2>4. run[0] = s
    BY <1>2 DEF IsRun
  <2>5. QED  BY <2>2, <2>3, <2>4 DEF IsCall, CallOf
<1>5. CASE H = {}
  <2>1. \A k \in 0 .. len - 1 : ~Stopped(run[k])
    BY <1>1, <1>5
  <2>2. QED  BY <1>1, <1>2, <1>4, <2>1
<1>6. CASE H # {}
  <2>1. PICK end \in H : \A k \in H : end <= k
    <3>1. H \in SUBSET Nat
      OBVIOUS
    <3> HIDE DEF H
    <3>2. QED  BY <1>6, <3>1, Working!Least
  <2>2. end \in 0 .. len /\ Stopped(run[end])
    BY <2>1
  <2>3. ASSUME NEW k \in 0 .. end - 1 PROVE ~Stopped(run[k])
    <3>1. k \in 0 .. len /\ ~(end <= k)
      BY <1>1, <2>2
    <3>2. k \notin H
      BY <2>1, <3>1
    <3>3. QED  BY <3>1, <3>2
  <2>4. IsCall(CallOf(n, s, shown, pieces, run, end))
    BY <1>4, <2>2, <2>3
  <2> DEFINE G == {k \in 1 .. len + 1 : run[k - 1] = run[end]}
  <2>5. end + 1 \in G /\ end + 1 \in 1 .. len + 1
    BY <1>1, <2>2
  <2>6. ASSUME NEW k \in end + 1 .. (len + 1) - 1, k \in G PROVE k + 1 \in G
    <3>1. k \in 1 .. len /\ k + 1 \in 1 .. len + 1 /\ (k + 1) - 1 = k
      BY <1>1, <2>2
    <3>2. run[k] = IF Stopped(run[k - 1]) THEN run[k - 1] ELSE Done(run[k - 1], n, shown, some[k])
      BY <1>2, <3>1 DEF IsRun
    <3>3. run[k - 1] = run[end]
      BY <2>6
    <3>4. QED  BY <2>2, <3>1, <3>2, <3>3
  <2>7. len + 1 \in G
    <3>1. len + 1 \in Nat
      BY <1>1
    <3> HIDE DEF G, H, len
    <3>2. QED  BY <2>5, <2>6, <3>1, FromPieceOn
  <2>8. run[len] = run[end]
    BY <1>1, <2>7
  <2>9. QED  BY <1>2, <2>2, <2>4, <2>8
<1>7. QED  BY <1>5, <1>6

\* A piece of a call.
StepsTo(w, k) ==
  /\ LedgerRight(w.run[k - 1]) /\ LedgerRight(w.run[k])
  /\ ~Stopped(w.run[k - 1]) /\ w.run[k] = Done(w.run[k - 1], w.n, w.shown, w.pieces[k])
  /\ k \in DOMAIN w.pieces /\ IsPiece(w.n, w.pieces[k])
  /\ PieceDone(w.run[k], w.run[k - 1], w.n, w.shown, w.pieces[k])

CallKeeps(w, k) ==
  /\ LedgerRight(w.run[k]) /\ OthersCounted(w.run[k], w.s, w.n) /\ ZeroKept(w.run[k], w.s, w.n)
  /\ \E roles : AccountsKept(w.run[k], w.s, w.n, roles)

LEMMA CallGoes ==
  ASSUME Filed, NEW w, IsCall(w)
  PROVE  /\ \A k \in 0 .. w.end : CallKeeps(w, k)
         /\ \A k \in 1 .. w.end : StepsTo(w, k)
<1> DEFINE n == w.n
           pieces == w.pieces
           run == w.run
           roles == UNION {PieceRoles(pieces[k]) : k \in DOMAIN pieces}
           G == {k \in 0 .. w.end : Begun(run[k], w.s, n, roles)}
<1>1. n \in Numbers /\ LedgerRight(w.s) /\ ArePieces(n, pieces) /\ run[0] = w.s
  BY DEF IsCall, PieceList
<1>2. /\ Len(pieces) \in Nat /\ DOMAIN pieces = 1 .. Len(pieces) /\ w.end \in Nat
      /\ 1 .. w.end \subseteq DOMAIN pieces
  <2>1. Len(pieces) \in Nat /\ DOMAIN pieces = 1 .. Len(pieces)
    BY <1>1, ListDomain DEF ArePieces
  <2>2. w.end \in 0 .. Len(pieces)
    BY DEF IsCall
  <2>3. QED  BY <2>1, <2>2
<1>3. ASSUME NEW k \in 1 .. w.end
      PROVE  /\ ~Stopped(run[k - 1]) /\ run[k] = Done(run[k - 1], n, w.shown, pieces[k])
             /\ k \in DOMAIN pieces /\ IsPiece(n, pieces[k]) /\ PieceRoles(pieces[k]) \subseteq roles
  BY <1>1, <1>2 DEF IsCall, ArePieces
<1> HIDE DEF roles, n, run, pieces
<1>4. 0 \in G
  BY <1>1, <1>2, NothingBegun
<1>5. ASSUME NEW k \in 0 .. w.end - 1, k \in G PROVE k + 1 \in G
  <2> DEFINE j == k + 1
             v == run[k]
  <2>1. j \in 1 .. w.end /\ j \in 0 .. w.end /\ j - 1 = k
    BY <1>2
  <2>2. Begun(v, w.s, n, roles) /\ LedgerRight(v)
    BY <1>5 DEF Begun
  <2>3. /\ run[j] = Done(v, n, w.shown, pieces[j])
        /\ IsPiece(n, pieces[j]) /\ PieceRoles(pieces[j]) \subseteq roles
    BY <1>3, <2>1
  <2> HIDE DEF j, v
  <2>4. Begun(run[j], v, n, PieceRoles(pieces[j]))
    BY <1>1, <2>2, <2>3, PieceBegun
  <2>5. Begun(run[j], w.s, n, roles)
    BY <2>2, <2>3, <2>4, BegunOn
  <2>6. QED  BY <2>1, <2>5 DEF j
<1>6. \A k \in 0 .. w.end : k \in G
  <2> HIDE DEF G
  <2>1. QED  BY <1>2, <1>4, <1>5, Working!CountUp
<1>7. ASSUME NEW k \in 0 .. w.end PROVE CallKeeps(w, k)
  BY <1>6, <1>7 DEF CallKeeps, Begun, n, run
<1>8. ASSUME NEW k \in 1 .. w.end PROVE StepsTo(w, k)
  <2>1. k - 1 \in 0 .. w.end /\ k \in 0 .. w.end
    BY <1>2
  <2>2. LedgerRight(run[k - 1]) /\ LedgerRight(run[k])
    BY <1>6, <2>1 DEF Begun
  <2>3. PieceDone(Done(run[k - 1], n, w.shown, pieces[k]), run[k - 1], n, w.shown, pieces[k])
    BY <1>3, <2>2, PieceKeeps DEF LedgerRight
  <2>4. QED  BY <1>3, <2>2, <2>3 DEF StepsTo, n, run, pieces
<1>9. QED  BY <1>7, <1>8
------------------------------------------------------------------------------
(* Which sessions the pieces start.                                         *)

\* The only event of a kind that a block has once at most.
LEMMA OnlyEvent ==
  ASSUME Filed, NEW n \in Numbers, NEW i \in Positions(content[n].events, {"NewSession"})
  PROVE  /\ n # 0 /\ Positions(content[n].events, {"NewSession"}) = {i}
         /\ Min(Positions(content[n].events, {"NewSession"})) = i
         /\ SessionAt(n) = content[n].events[i]
<1> DEFINE S == Positions(content[n].events, {"NewSession"})
<1>1. content \in Chains
  BY DEF Filed
<1>2. \A j, k \in S : j = k
  BY <1>1, ChainsAssumption
<1>3. i \in Nat
  <2>1. IsList(content[n].events)
    BY StoredBlocks DEF IsBlock
  <2>2. QED  BY <2>1, ListDomain DEF Positions
<1>4. n # 0
  <2>1. n = 0 => content[n].events = <<>>
    BY <1>1, ChainsAssumption
  <2>2. QED  BY <2>1 DEF Positions
<1> HIDE DEF S
<1>5. i \in S
  BY DEF S
<1>6. S = {i}
  BY <1>2, <1>5
<1>7. Min(S) = i
  <2>1. \E x \in S : \A y \in S : x <= y
    BY <1>3, <1>6
  <2>2. Min(S) \in S
    BY <2>1, Zenon DEF Min
  <2>3. QED  BY <1>6, <2>2
<1>8. SessionAt(n) = content[n].events[i]
  BY <1>4, <1>7 DEF SessionAt, S
<1>9. QED  BY <1>4, <1>6, <1>7, <1>8 DEF S

LEMMA SessionIs ==
  ASSUME Filed, NEW n \in Numbers, HasSession(n)
  PROVE  /\ IsSession(SessionAt(n)) /\ IsList(SessionAt(n).validators)
         /\ \A m \in Numbers : HasSession(m) /\ SessionAt(m).session = SessionAt(n).session => m = n
<1>1. content \in Chains
  BY DEF Filed
<1>2. ASSUME NEW m \in Numbers, HasSession(m) PROVE SessionAt(m) \in SessionsOf(content, m)
  <2>1. CASE m = 0
    BY <2>1 DEF SessionAt, SessionsOf
  <2>2. CASE m # 0
    <3>1. PICK i : i \in Positions(content[m].events, {"NewSession"})
      BY <1>2, <2>2 DEF HasSession
    <3>2. SessionAt(m) = content[m].events[i]
      BY <3>1, OnlyEvent
    <3>3. QED  BY <2>2, <3>1, <3>2 DEF SessionsOf
  <2>3. QED  BY <2>1, <2>2
<1>3. \A e \in SessionsOf(content, n) :
        /\ IsSession(e)
        /\ \A m \in Numbers : \A f \in SessionsOf(content, m) : e.session = f.session => m = n
  BY <1>1, ChainsAssumption
<1>4. IsSession(SessionAt(n))
  BY <1>2, <1>3
<1>5. \A m \in Numbers : HasSession(m) /\ SessionAt(m).session = SessionAt(n).session => m = n
  <2> HIDE DEF HasSession, SessionAt, SessionsOf
  <2>1. QED  BY <1>2, <1>3
<1>6. QED  BY <1>4, <1>5 DEF IsSession

LEMMA ShownIs ==
  ASSUME NEW e, IsSession(e), NEW shown
  PROVE  LET v == SessionShown(e, shown)
         IN /\ v.session = e.session /\ IsList(v.validators)
            /\ RanksOf(v) \subseteq RanksOf(e) /\ (shown => v = e)
<1>1. CASE shown
  BY <1>1 DEF SessionShown, IsSession
<1>2. CASE ~shown
  <2> DEFINE v == SessionShown(e, shown)
  <2>1. v = [e EXCEPT !.validators = <<>>, !.nominators = <<>>]
    BY <1>2 DEF SessionShown, NotShown
  <2>2. v.session = e.session /\ v.validators = <<>>
    BY <2>1 DEF IsSession
  <2> HIDE DEF v
  <2>3. IsList(v.validators) /\ RanksOf(v) = {}
    BY <2>2 DEF IsList, RanksOf
  <2>4. QED  BY <1>2, <2>2, <2>3 DEF v
<1>3. QED  BY <1>1, <1>2

\* What the piece is by which a session starts.
LEMMA SessionPieceIs ==
  ASSUME Filed, NEW n \in Numbers, NEW pieces, NEW first, NEW last,
         PieceList(pieces, n, first, last), NEW k \in DOMAIN pieces, SessionPiece(pieces[k])
  PROVE  /\ HasSession(n)
         /\ \A s, shown : Done(s, n, shown, pieces[k])
                            = NewSession(s, n, SessionShown(SessionAt(n), shown), NewHandler(n))
         /\ pieces[k].hook = "event" =>
              n # 0 /\ k - last \in Positions(content[n].events, {"NewSession"})
<1>1. CASE pieces[k].hook = "genesis"
  <2>1. n = 0 /\ pieces[k].row = "session"
    BY <1>1 DEF SessionPiece, IsEvent, PieceList, ArePieces, IsPiece
  <2>2. SessionAt(n) = content[0].genesis.session /\ HasSession(n)
    BY <2>1 DEF SessionAt, HasSession
  <2>3. ASSUME NEW s, NEW shown
        PROVE  Done(s, n, shown, pieces[k])
                 = NewSession(s, n, SessionShown(SessionAt(n), shown), NewHandler(n))
    <3>1. Done(s, n, shown, pieces[k]) = GenesisDone(s, "session", shown)
      BY <1>1, <2>1 DEF Done
    <3>2. GenesisDone(s, "session", shown)
            = NewSession(s, 0, SessionShown(content[0].genesis.session, shown), NewHandler(0))
      BY DEF GenesisDone
    <3>3. QED  BY <2>1, <2>2, <3>1, <3>2
  <2>4. QED  BY <1>1, <2>2, <2>3
<1>2. CASE pieces[k].hook # "genesis"
  <2> DEFINE i == k - last
  <2>1. IsEvent(pieces[k], "NewSession")
    BY <1>2 DEF SessionPiece
  <2>2. k > last /\ IsList(content[n].events) /\ IsList(pieces)
    BY <2>1, StoredBlocks DEF IsEvent, PieceList, ArePieces, IsBlock
  <2>3. /\ Len(content[n].events) \in Nat /\ DOMAIN content[n].events = 1 .. Len(content[n].events)
        /\ Len(pieces) \in Nat /\ DOMAIN pieces = 1 .. Len(pieces)
    BY <2>2, ListDomain
  <2>4. last \in Nat /\ Len(pieces) = last + Len(content[n].events)
    BY DEF PieceList
  <2>5. i \in DOMAIN content[n].events /\ last + i = k
    BY <2>2, <2>3, <2>4
  <2>6. pieces[k] = [hook |-> "event", row |-> content[n].events[i]]
    BY <2>5 DEF PieceList
  <2>7. i \in Positions(content[n].events, {"NewSession"})
    BY <2>1, <2>5, <2>6 DEF Positions, IsEvent
  <2>8. n # 0 /\ SessionAt(n) = content[n].events[i] /\ HasSession(n)
    BY <2>7, OnlyEvent DEF HasSession
  <2>9. ASSUME NEW s, NEW shown
        PROVE  Done(s, n, shown, pieces[k])
                 = NewSession(s, n, SessionShown(SessionAt(n), shown), NewHandler(n))
    <3> DEFINE e == content[n].events[i]
    <3>1. e.kind = "NewSession" /\ pieces[k].row = e /\ pieces[k].hook = "event"
      BY <2>6, <2>7 DEF Positions
    <3> HIDE DEF e
    <3>2. Done(s, n, shown, pieces[k]) = EventDone(s, n, shown, e)
      BY <3>1 DEF Done
    <3>3. EventDone(s, n, shown, e) = NewSession(s, n, SessionShown(e, shown), NewHandler(n))
      BY <3>1 DEF EventDone
    <3>4. QED  BY <2>8, <3>2, <3>3 DEF e
  <2>10. QED  BY <2>7, <2>8, <2>9
<1>3. QED  BY <1>1, <1>2

\* The pieces of a block alone start a session with their event only.
LEMMA BlockPiecesOnce ==
  ASSUME Filed, NEW n \in Numbers, NEW pieces, NEW last \in Nat, PieceList(pieces, n, 1, last)
  PROVE  /\ OneSession(pieces)
         /\ n # 0 /\ HasSession(n) => \E k \in DOMAIN pieces : SessionPiece(pieces[k])
         /\ n = 0 => \A k \in DOMAIN pieces : ~SessionPiece(pieces[k])
<1>1. DOMAIN pieces \subseteq Nat \ {0}
  BY ListDomain DEF PieceList, ArePieces
<1>2. ASSUME NEW k \in DOMAIN pieces, SessionPiece(pieces[k])
      PROVE  n # 0 /\ k - last \in Positions(content[n].events, {"NewSession"})
  <2>1. pieces[k].hook # "genesis"
    BY <1>1 DEF PieceList
  <2>2. pieces[k].hook = "event"
    BY <1>2, <2>1 DEF SessionPiece, IsEvent
  <2>3. QED  BY <1>2, <2>2, SessionPieceIs
<1>3. ASSUME NEW i \in DOMAIN pieces, NEW j \in DOMAIN pieces,
             SessionPiece(pieces[i]), SessionPiece(pieces[j])
      PROVE  i = j
  <2>1. i - last = j - last
    BY <1>2, <1>3, OnlyEvent
  <2>2. i \in Nat /\ j \in Nat
    BY <1>1
  <2>3. QED  BY <2>1, <2>2
<1>4. ASSUME n # 0, HasSession(n) PROVE \E k \in DOMAIN pieces : SessionPiece(pieces[k])
  <2>1. PICK i : i \in Positions(content[n].events, {"NewSession"})
    BY <1>4 DEF HasSession
  <2>2. /\ i \in DOMAIN content[n].events /\ IsList(content[n].events)
        /\ content[n].events[i].kind = "NewSession"
    BY <2>1, StoredBlocks DEF Positions, IsBlock
  <2>3. pieces[last + i] = [hook |-> "event", row |-> content[n].events[i]]
    BY <2>2 DEF PieceList
  <2>4. last + i \in DOMAIN pieces
    <3>1. i \in 1 .. Len(content[n].events) /\ Len(content[n].events) \in Nat
      BY <2>2, ListDomain
    <3>2. DOMAIN pieces = 1 .. Len(pieces) /\ Len(pieces) = last + Len(content[n].events)
      BY ListDomain DEF PieceList, ArePieces
    <3>3. QED  BY <3>1, <3>2
  <2>5. QED  BY <2>2, <2>3, <2>4 DEF SessionPiece, IsEvent
<1>5. QED  BY <1>2, <1>3, <1>4 DEF OneSession

\* What a whole run of sequence_block has to do starts the session of its block.
LEMMA PiecesStartSession ==
  ASSUME Filed, NEW n \in Numbers, NEW b, NEW last \in Nat, PieceList(b, n, 1, last)
  PROVE  LET all == GenesisPieces(n) \o b
         IN /\ OneSession(all)
            /\ HasSession(n) => \E k \in DOMAIN all : SessionPiece(all[k])
<1> DEFINE g == GenesisPieces(n)
           all == g \o b
           parts == <<"added", "accounts", "sudo", "session", "members">>
<1>1. IsList(g) /\ IsList(b) /\ (n # 0 => Len(g) = 0)
  BY GenesisPiecesAre DEF ArePieces, PieceList
<1>2. IsJoined(all, g, b)
  BY <1>1, JoinsLists
<1>3. /\ Len(g) \in Nat /\ DOMAIN g = 1 .. Len(g) /\ Len(b) \in Nat /\ DOMAIN b = 1 .. Len(b)
      /\ Len(all) = Len(g) + Len(b) /\ DOMAIN all = 1 .. Len(all)
  BY <1>1, <1>2, ListDomain DEF IsJoined
<1>4. /\ OneSession(b) /\ (n # 0 /\ HasSession(n) => \E k \in DOMAIN b : SessionPiece(b[k]))
      /\ n = 0 => \A k \in DOMAIN b : ~SessionPiece(b[k])
  BY BlockPiecesOnce
<1>5. CASE n # 0
  <2>1. DOMAIN all = DOMAIN b /\ \A k \in DOMAIN b : all[k] = b[k]
    <3>1. Len(g) = 0
      BY <1>1, <1>5
    <3> HIDE DEF g, all
    <3>2. \A k \in 1 .. Len(b) : all[0 + k] = b[k]
      BY <1>2, <3>1 DEF IsJoined
    <3>3. QED  BY <1>3, <3>1, <3>2
  <2> HIDE DEF g, all
  <2>2. QED  BY <1>4, <1>5, <2>1 DEF OneSession, all, g
<1>6. CASE n = 0
  <2>1. IsList(parts) /\ Len(parts) = 5
    BY DEF IsList
  <2>2. g = Pieces("genesis", parts)
    BY <1>6 DEF GenesisPieces
  <2>3. /\ parts[1] = "added" /\ parts[2] = "accounts" /\ parts[3] = "sudo" /\ parts[4] = "session"
        /\ parts[5] = "members"
    OBVIOUS
  <2> HIDE DEF g, parts, all
  <2>4. ArePiecesOf(g, "genesis", parts)
    BY <2>1, <2>2, PiecesAre
  <2>5. Len(g) = 5 /\ \A k \in 1 .. 5 : g[k] = [hook |-> "genesis", row |-> parts[k]]
    BY <1>3, <2>1, <2>4 DEF ArePiecesOf
  <2>6. ASSUME NEW k \in 1 .. 5 PROVE SessionPiece(all[k]) <=> k = 4
    <3>1. all[k] = [hook |-> "genesis", row |-> parts[k]]
      BY <1>2, <2>5 DEF IsJoined
    <3>2. parts[k] = "session" <=> k = 4
      BY <2>3
    <3>3. QED  BY <3>1, <3>2 DEF SessionPiece, IsEvent
  <2>7. ASSUME NEW k \in DOMAIN all, ~(k \in 1 .. 5) PROVE ~SessionPiece(all[k])
    <3>1. k - 5 \in 1 .. Len(b) /\ Len(g) + (k - 5) = k
      BY <1>3, <2>5, <2>7
    <3>2. all[k] = b[k - 5]
      BY <1>2, <3>1 DEF IsJoined
    <3>3. QED  BY <1>3, <1>4, <1>6, <3>1, <3>2
  <2>8. 4 \in DOMAIN all /\ 4 \in 1 .. 5
    BY <1>3, <2>5
  <2>9. OneSession(all) /\ \E k \in DOMAIN all : SessionPiece(all[k])
    BY <2>6, <2>7, <2>8 DEF OneSession
  <2>10. QED  BY <2>9 DEF all, g
<1>7. QED  BY <1>5, <1>6

LEMMA AllPiecesHold ==
  ASSUME Filed, LedgerRight(ledger), NEW n \in Numbers, NEW shown, NEW order \in Orders
  PROVE  LET pieces == AllPieces(n, order, shown)
         IN /\ \E first, last \in Nat : PieceList(pieces, n, first, last)
            /\ OneSession(pieces)
            /\ HasSession(n) => \E k \in DOMAIN pieces : SessionPiece(pieces[k])
<1> DEFINE g == GenesisPieces(n)
           u == After(ledger, n, shown, g)
           roles == UNION {PieceRoles(g[k]) : k \in DOMAIN g}
           b == BlockPieces(u, n, order)
           pieces == AllPieces(n, order, shown)
<1>1. pieces = g \o b
  BY DEF AllPieces
<1>2. \E first, last \in Nat : PieceList(pieces, n, first, last)
  BY <1>1, AllPiecesAre
<1>3. ArePieces(n, g) /\ RolesWithin(g, roles)
  BY GenesisPiecesAre DEF RolesWithin
<1> HIDE DEF roles, g
<1>4. GenesisListed(u)
  BY <1>3, AfterBegun DEF Begun, LedgerRight
<1>5. BlockStored(n)
  BY StoredBlocks
<1> HIDE DEF u
<1>6. PICK last \in Nat : PieceList(b, n, 1, last)
  BY <1>4, <1>5, BlockPiecesAre
<1> HIDE DEF b, pieces
<1>7. OneSession(pieces) /\ (HasSession(n) => \E k \in DOMAIN pieces : SessionPiece(pieces[k]))
  BY <1>1, <1>6, PiecesStartSession DEF g
<1>8. QED  BY <1>2, <1>7 DEF pieces

\* The call does what the running sequencer has to do for its block.
Whole(w) == w.s = ledger /\ \E order \in Orders : w.pieces = AllPieces(w.n, order, w.shown)

\* The step is the call w, which comes to its end or is cut.
Finishes(w) ==
  /\ w.end = Len(w.pieces) /\ ~Stopped(w.run[w.end])
  /\ ledger'.totals = Put(w.run[w.end].totals, w.n, w.run[w.end].current)
  /\ Counts(w.n, w.s, w.shown)

Works(w) ==
  /\ IsCall(w) /\ FromLedger(w.s) /\ w.shown \in BOOLEAN
  /\ ~w.run[w.end].failed /\ ~ledger'.raised /\ Committed(ledger', w.run[w.end])
  /\ Worked(w.n) /\ Shown(w.n, w.shown) /\ UNCHANGED <<content, stored>>
  /\ requests' = 0 => requests = 0 /\ Whole(w)
  /\ \/ Finishes(w)
     \/ w.shown /\ ledger'.totals = w.run[w.end].totals /\ GivesUp(w.n)

\* The call w does some of them, the first ones.
DoesSome(w, n, shown, order, some) ==
  /\ IsCall(w) /\ w.n = n /\ w.shown = shown /\ w.s = ledger
  /\ w.pieces = AllPieces(n, order, shown) /\ w.end \in 0 .. Len(some)
  /\ After(ledger, n, shown, some) = w.run[w.end]
  /\ ~Stopped(w.run[w.end]) => w.end = Len(some)

LEMMA AllPiecesCall ==
  ASSUME Filed, LedgerRight(ledger), NEW n \in Numbers, NEW shown, NEW order \in Orders,
         NEW some, IsList(some), Len(some) <= Len(AllPieces(n, order, shown)),
         \A k \in DOMAIN some : some[k] = AllPieces(n, order, shown)[k]
  PROVE  \E w : DoesSome(w, n, shown, order, some)
<1> DEFINE pieces == AllPieces(n, order, shown)
<1>1. PICK first \in Nat, last \in Nat : PieceList(pieces, n, first, last)
  BY AllPiecesHold
<1>2. OneSession(pieces)
  BY AllPiecesHold
<1>0. Len(some) <= Len(pieces) /\ \A k \in DOMAIN some : some[k] = pieces[k]
  OBVIOUS
<1> HIDE DEF pieces
<1>3. PICK run, end : LET w == CallOf(n, ledger, shown, pieces, run, end)
                      IN /\ IsCall(w) /\ end \in 0 .. Len(some)
                         /\ After(ledger, n, shown, some) = run[end]
                         /\ ~Stopped(run[end]) => end = Len(some)
  BY <1>0, <1>1, <1>2, AfterIsCall
<1> DEFINE w == CallOf(n, ledger, shown, pieces, run, end)
<1>4. /\ w.n = n /\ w.shown = shown /\ w.s = ledger /\ w.pieces = pieces /\ w.run = run
      /\ w.end = end
  BY DEF CallOf
<1> HIDE DEF w
<1>5. IsCall(w)
  BY <1>3 DEF w
<1>6. DoesSome(w, n, shown, order, some)
  BY <1>3, <1>4, <1>5 DEF DoesSome, pieces
<1>7. QED  BY <1>6

\* No piece both takes a key and raises.
LEMMA StopsOneWay ==
  ASSUME Filed, NEW w, IsCall(w), ~Stopped(w.s)
  PROVE  w.run[w.end].raised => ~w.run[w.end].failed
<1>1. w.end \in Nat
  BY ListDomain DEF IsCall, PieceList, ArePieces
<1>2. CASE w.end = 0
  BY <1>2 DEF IsCall, Stopped
<1>3. CASE w.end # 0
  <2> DEFINE k == w.end
             s == w.run[k - 1]
             u == w.run[k]
             n == w.n
  <2>1. k \in 1 .. w.end
    BY <1>1, <1>3
  <2>2. StepsTo(w, k)
    BY <2>1, CallGoes
  <2>3. /\ LedgerRight(s) /\ IsLedger(s) /\ ~s.failed /\ u = Done(s, n, w.shown, w.pieces[k])
        /\ k \in DOMAIN w.pieces /\ IsPiece(n, w.pieces[k]) /\ ~Stopped(s)
    BY <2>2 DEF StepsTo, LedgerRight, Stopped
  <2> HIDE DEF s, u, k
  <2>4. CASE ~SessionPiece(w.pieces[k])
    <3>1. NoSession(u, s, n, w.pieces[k])
      BY <2>3, <2>4, OthersApart
    <3>2. u.failed = s.failed
      BY <3>1 DEF NoSession, SameIn
    <3>3. QED  BY <2>3, <3>2 DEF u, k
  <2>5. CASE SessionPiece(w.pieces[k])
    <3> DEFINE e == SessionShown(SessionAt(n), w.shown)
               new == NewHandler(n)
    <3>1. n \in Numbers /\ \E first, last \in Nat : PieceList(w.pieces, n, first, last)
      BY DEF IsCall
    <3>2. u = NewSession(s, n, e, new) /\ HasSession(n)
      <4>1. PICK first \in Nat, last \in Nat : PieceList(w.pieces, n, first, last)
        BY <3>1
      <4> HIDE DEF n
      <4>2. QED  BY <2>3, <2>5, <3>1, <4>1, SessionPieceIs
    <3>3. IsList(e.validators)
      BY <3>1, <3>2, SessionIs, ShownIs
    <3> HIDE DEF e, n, new
    <3>4. SessionStops(u, s, e, new)
      BY <2>3, <3>2, <3>3, NewSessionTables
    <3>5. QED  BY <3>4 DEF SessionStops, u, k
  <2>6. QED  BY <2>4, <2>5
<1>4. QED  BY <1>2, <1>3

\* What is committed of the tables that sessions are in.
LEMMA CommitsStops ==
  ASSUME NEW u, IsLedger(u), NEW n
  PROVE  /\ WithTotal(u, n).raised = u.raised
         /\ Cut(u).raised = FALSE
BY DEF WithTotal, Cut, IsLedger, HasFields, LedgerFields

LEMMA StepWorksOn ==
  ASSUME SequencingInv, NEW order \in Orders, NEW shown \in BOOLEAN, Step(order, shown)
  PROVE  \E w : Works(w)
<1> DEFINE n == at + 1
           pieces == AllPieces(n, order, shown)
           u == After(ledger, n, shown, pieces)
<1>1. Filed /\ LedgerRight(ledger)
  BY DEF SequencingInv
<1>2. /\ at # Null /\ at < MaxBlock /\ at' = n /\ Shown(n, shown) /\ Worked(n)
      /\ UNCHANGED <<content, stored, harvested, snapshots, burning, updating, selected, late,
                     requests>>
      /\ ~Stopped(u) /\ ledger' = WithTotal(u, n) /\ Reached(n)
  BY DEF Step, Taken
<1>3. n \in Numbers /\ n \in harvested
  <2>1. n \in Numbers
    BY <1>2, SequencingAssumption DEF SequencingInv, Numbers
  <2>2. n \in UpTo(n)
    BY <2>1 DEF UpTo, Numbers
  <2>3. QED  BY <1>2, <2>1, <2>2 DEF Reached
<1>4. Counts(n, ledger, shown)
  <2>1. WorkDone(ledger', ledger, n, shown)
    <3> HIDE DEF n
    <3>1. QED  BY <1>1, <1>2, <1>3, StepWorks
  <2>2. FromLedger(ledger)
    BY <1>1 DEF FromLedger, OnlyChanges, LedgerRight, IsLedger
  <2>3. requests' = requests /\ LedgerRight(ledger)
    BY <1>1, <1>2
  <2> HIDE DEF u
  <2>4. QED  BY <1>2, <1>3, <2>1, <2>2, <2>3 DEF Counts
<1>5. IsList(pieces)
  <2> HIDE DEF n
  <2>1. QED  BY <1>1, <1>3, AllPiecesHold DEF PieceList, ArePieces
<1> HIDE DEF n
<1>6. PICK w : /\ IsCall(w) /\ w.n = n /\ w.shown = shown /\ w.s = ledger
               /\ w.pieces = pieces /\ u = w.run[w.end]
               /\ ~Stopped(w.run[w.end]) => w.end = Len(pieces)
  <2>1. Len(pieces) <= Len(pieces)
    BY <1>5, ListDomain
  <2>2. PICK w : DoesSome(w, n, shown, order, pieces)
    BY <1>1, <1>3, <1>5, <2>1, AllPiecesCall
  <2>3. QED  BY <2>2 DEF DoesSome
<1>7. LedgerRight(u)
  <2>1. w.end \in 0 .. w.end
    BY <1>6, ListDomain DEF IsCall, PieceList, ArePieces
  <2>2. QED  BY <1>1, <1>6, <2>1, CallGoes DEF CallKeeps
<1> HIDE DEF u, pieces
<1>8. /\ Committed(ledger', u) /\ ledger'.totals = Put(u.totals, n, u.current)
      /\ ledger'.raised = u.raised /\ ~u.raised /\ ~u.failed
  BY <1>2, <1>7, WithTotalIs, CommitsStops DEF LedgerRight, Stopped
<1>9. Whole(w)
  BY <1>6 DEF Whole, pieces
<1>10. FromLedger(w.s)
  BY <1>4, <1>6 DEF Counts
<1>11. Finishes(w)
  BY <1>2, <1>4, <1>6, <1>8 DEF Finishes
<1>12. Works(w)
  BY <1>2, <1>6, <1>8, <1>9, <1>10, <1>11 DEF Works
<1>13. QED  BY <1>12

\* The work is cut in or after some of the pieces.
LEMMA CutWorksOn ==
  ASSUME SequencingInv, ~Stopped(ledger), NEW n, n = at + 1, Taken(n, TRUE), Worked(n), at' = Null,
         NEW order \in Orders, NEW some, IsList(some), Len(some) <= Len(AllPieces(n, order, TRUE)),
         \A k \in DOMAIN some : some[k] = AllPieces(n, order, TRUE)[k],
         ledger' = Cut(After(ledger, n, TRUE, some)),
         \/ After(ledger, n, TRUE, some).raised
         \/ ~Stopped(After(ledger, n, TRUE, some))
  PROVE  \E w : Works(w)
<1> DEFINE pieces == AllPieces(n, order, TRUE)
           u == After(ledger, n, TRUE, some)
<1>1. Filed /\ LedgerRight(ledger)
  BY DEF SequencingInv
<1>2. /\ at # Null /\ at < MaxBlock /\ Shown(n, TRUE)
      /\ UNCHANGED <<content, stored, harvested, snapshots, burning, updating, selected, late,
                     requests>>
  BY DEF Taken
<1>3. n \in Numbers
  BY <1>2, SequencingAssumption DEF SequencingInv, Numbers
<1>4. PICK w : /\ IsCall(w) /\ w.n = n /\ w.shown = TRUE /\ w.s = ledger
               /\ w.pieces = pieces /\ u = w.run[w.end]
  <2>1. /\ IsList(some) /\ Len(some) <= Len(AllPieces(n, order, TRUE))
        /\ \A k \in DOMAIN some : some[k] = AllPieces(n, order, TRUE)[k]
    OBVIOUS
  <2>2. PICK w : DoesSome(w, n, TRUE, order, some)
    BY <1>1, <1>3, <2>1, AllPiecesCall
  <2>3. QED  BY <2>2 DEF DoesSome
<1>5. PICK first \in Nat, last \in Nat : PieceList(pieces, n, first, last)
  BY <1>1, <1>3, AllPiecesHold
<1>6. /\ ArePieces(n, some)
      /\ \A roles : RolesWithin(pieces, roles) => RolesWithin(some, roles)
  <2>1. IsList(pieces) /\ ArePieces(n, pieces)
    BY <1>5 DEF PieceList, ArePieces
  <2>2. \A k \in DOMAIN some : k \in DOMAIN pieces /\ some[k] = pieces[k]
    <3> HIDE DEF pieces
    <3>1. /\ DOMAIN some = 1 .. Len(some) /\ Len(some) \in Nat
          /\ DOMAIN pieces = 1 .. Len(pieces) /\ Len(pieces) \in Nat
      BY <2>1, ListDomain
    <3>2. Len(some) <= Len(pieces) /\ \A k \in DOMAIN some : some[k] = pieces[k]
      BY DEF pieces
    <3>3. QED  BY <3>1, <3>2
  <2> HIDE DEF pieces
  <2>3. QED  BY <2>1, <2>2 DEF ArePieces, RolesWithin
<1>7. WorkCut(ledger', ledger, n)
  <2> HIDE DEF pieces
  <2>1. QED  BY <1>1, <1>3, <1>5, <1>6, CutWorks
<1>8. GivesUp(n)
  BY <1>2, <1>7 DEF GivesUp
<1>9. LedgerRight(u)
  <2>1. w.end \in 0 .. w.end
    BY <1>4, ListDomain DEF IsCall, PieceList, ArePieces
  <2>2. QED  BY <1>1, <1>4, <2>1, CallGoes DEF CallKeeps
<1>10. ~u.failed
  <2>1. u.raised => ~u.failed
    <3> HIDE DEF u
    <3>1. QED  BY <1>1, <1>4, StopsOneWay
  <2>2. u.raised \/ ~Stopped(u)
    OBVIOUS
  <2> HIDE DEF u
  <2>3. QED  BY <2>1, <2>2 DEF Stopped
<1>11. Committed(ledger', u) /\ ledger'.totals = u.totals /\ ledger'.raised = FALSE
  <2>1. ledger' = Cut(u)
    OBVIOUS
  <2> HIDE DEF u
  <2>2. QED  BY <1>9, <2>1, CutIs, CommitsStops DEF LedgerRight
<1>12. Whole(w)
  BY <1>4 DEF Whole
<1>13. FromLedger(w.s)
  BY <1>1, <1>4 DEF FromLedger, OnlyChanges, LedgerRight, IsLedger
<1> HIDE DEF u, pieces
<1>14. Works(w)
  BY <1>2, <1>4, <1>8, <1>10, <1>11, <1>12, <1>13 DEF Works
<1>15. QED  BY <1>14

LEMMA RequestWorksOn ==
  ASSUME SequencingInv, NEW n \in Numbers, NEW order \in Orders, Request(n, order)
  PROVE  \E w : Works(w)
<1>1. Filed /\ LedgerRight(ledger) /\ requests \in Nat
  BY DEF SequencingInv
<1>2. PICK s : /\ LedgerRight(s) /\ FromLedger(s) /\ WorkDone(ledger', s, n, TRUE)
               /\ Requested(s, n, order)
  BY <1>1, RequestWorks
<1> DEFINE pieces == BlockPieces(s, n, order)
           u == After(s, n, TRUE, pieces)
<1>3. /\ Worked(n) /\ Shown(n, TRUE) /\ requests' = requests + 1
      /\ UNCHANGED <<content, stored, harvested, snapshots, at, burning, updating, selected, late>>
      /\ ~Stopped(u) /\ ledger' = WithTotal(u, n) /\ n \in harvested
  <2>1. n \in UpTo(n) /\ Reached(n)
    BY DEF Request, UpTo, Numbers
  <2>2. n \in harvested
    BY <2>1 DEF Reached
  <2>3. /\ Worked(n) /\ Shown(n, TRUE) /\ requests' = requests + 1
        /\ UNCHANGED <<content, stored, harvested, snapshots, at, burning, updating, selected, late>>
    BY DEF Request
  <2>4. ~Stopped(u) /\ ledger' = WithTotal(u, n)
    BY <1>2 DEF Requested
  <2> HIDE DEF u
  <2>5. QED  BY <2>2, <2>3, <2>4
<1>4. Counts(n, s, TRUE)
  BY <1>2, <1>3 DEF Counts
<1>5. PICK last \in Nat : PieceList(pieces, n, 1, last)
  BY <1>1, <1>2, StoredBlocks, BlockPiecesAre DEF LedgerRight
<1> HIDE DEF pieces
<1>6. OneSession(pieces) /\ IsList(pieces)
  BY <1>1, <1>5, BlockPiecesOnce DEF PieceList, ArePieces
<1>7. PICK run, end : LET w == CallOf(n, s, TRUE, pieces, run, end)
                      IN /\ IsCall(w) /\ end \in 0 .. Len(pieces)
                         /\ After(s, n, TRUE, pieces) = run[end]
                         /\ ~Stopped(run[end]) => end = Len(pieces)
  <2>1. Len(pieces) <= Len(pieces)
    BY <1>6, ListDomain
  <2>2. QED  BY <1>2, <1>5, <1>6, <2>1, AfterIsCall
<1> DEFINE w == CallOf(n, s, TRUE, pieces, run, end)
<1>8. /\ w.n = n /\ w.shown = TRUE /\ w.s = s /\ w.pieces = pieces /\ w.run = run
      /\ w.end = end
  BY DEF CallOf
<1> HIDE DEF w
<1>9. IsCall(w)
  BY <1>7 DEF w
<1>10. LedgerRight(u)
  <2>1. w.end \in 0 .. w.end
    BY <1>9, ListDomain DEF IsCall, PieceList, ArePieces
  <2>2. QED  BY <1>1, <1>7, <1>8, <1>9, <2>1, CallGoes DEF CallKeeps
<1>11. u = w.run[w.end] /\ (~Stopped(w.run[w.end]) => w.end = Len(pieces))
  BY <1>7, <1>8
<1> HIDE DEF u
<1>12. /\ Committed(ledger', u) /\ ledger'.totals = Put(u.totals, n, u.current)
       /\ ledger'.raised = u.raised /\ ~u.raised /\ ~u.failed
  BY <1>3, <1>10, WithTotalIs, CommitsStops DEF LedgerRight, Stopped
<1>13. Finishes(w)
  BY <1>3, <1>4, <1>8, <1>11, <1>12 DEF Finishes
<1>14. requests' # 0
  BY <1>1, <1>3
<1>15. Works(w)
  BY <1>2, <1>3, <1>8, <1>9, <1>11, <1>12, <1>13, <1>14 DEF Works
<1>16. QED  BY <1>15

\* The steps: a call of sequence_block, or one that leaves the tables of sessions,
\* indices and judgements alone.
LEMMA NextWorks ==
  ASSUME SequencingInv, ~Stopped(ledger), [Next]_vars
  PROVE  (\E w : Works(w)) \/ Rests \/ UpdateBalances \/ RebuildBurn
<1> DEFINE n == at + 1
<1>0. Filed /\ LedgerRight(ledger)
  BY DEF SequencingInv
<1>1. CASE \E order \in Orders, shown \in BOOLEAN : Step(order, shown)
  BY <1>1, StepWorksOn
<1>2. CASE \E m \in Numbers, order \in Orders : Request(m, order)
  BY <1>2, RequestWorksOn
<1>3. ASSUME NEW order \in Orders, at # Null, at < MaxBlock
      PROVE  /\ IsList(AllPieces(n, order, TRUE)) /\ Len(AllPieces(n, order, TRUE)) \in Nat
             /\ DOMAIN AllPieces(n, order, TRUE) = 1 .. Len(AllPieces(n, order, TRUE))
  <2>1. n \in Numbers
    BY <1>3, SequencingAssumption DEF SequencingInv, Numbers
  <2> HIDE DEF n
  <2>2. IsList(AllPieces(n, order, TRUE))
    BY <1>0, <2>1, AllPiecesHold DEF PieceList, ArePieces
  <2>3. QED  BY <2>2, ListDomain
<1>4. ASSUME NEW order \in Orders, Raise(order) PROVE \E w : Works(w)
  <2> DEFINE pieces == AllPieces(n, order, TRUE)
  <2>1. /\ Taken(n, TRUE) /\ Worked(n) /\ at' = Null /\ at # Null /\ at < MaxBlock
        /\ ledger' = Cut(After(ledger, n, TRUE, pieces))
        /\ After(ledger, n, TRUE, pieces).raised
    BY <1>4 DEF Raise, Taken
  <2>2. n = at + 1 /\ IsList(pieces) /\ Len(pieces) <= Len(pieces)
    <3>1. IsList(pieces) /\ Len(pieces) \in Nat
      BY <1>3, <2>1
    <3> HIDE DEF pieces
    <3>2. QED  BY <3>1
  <2> HIDE DEF n
  <2>3. QED  BY <2>1, <2>2, CutWorksOn
<1>5. ASSUME NEW order \in Orders, NEW k \in 1 .. MaxPieces, Fail(order, k) PROVE \E w : Works(w)
  <2> DEFINE pieces == AllPieces(n, order, TRUE)
             some == SubSeq(pieces, 1, k - 1)
  <2>1. /\ Taken(n, TRUE) /\ Worked(n) /\ at' = Null /\ at # Null /\ at < MaxBlock
        /\ ledger' = Cut(After(ledger, n, TRUE, some))
        /\ ~Stopped(After(ledger, n, TRUE, some)) /\ k <= Len(pieces)
    BY <1>5 DEF Fail, Taken
  <2>2. /\ IsList(pieces) /\ Len(pieces) \in Nat /\ k \in Nat /\ 1 <= k
        /\ DOMAIN pieces = 1 .. Len(pieces)
    <3>1. IsList(pieces) /\ Len(pieces) \in Nat /\ DOMAIN pieces = 1 .. Len(pieces)
      BY <1>3, <2>1
    <3> HIDE DEF pieces
    <3>2. QED  BY <3>1, SequencingAssumption
  <2>3. n = at + 1
    OBVIOUS
  <2> HIDE DEF n, pieces
  <2>4. IsList(some) /\ Len(some) = k - 1 /\ \A i \in DOMAIN some : some[i] = pieces[i]
    <3>1. some = [i \in 1 .. k - 1 |-> pieces[i]]
      <4>1. some = [i \in 1 .. (k - 1) - 1 + 1 |-> pieces[1 + i - 1]]
        BY <2>1, <2>2
      <4>2. (k - 1) - 1 + 1 = k - 1 /\ \A i \in 1 .. k - 1 : 1 + i - 1 = i
        BY <2>2
      <4>3. QED  BY <4>1, <4>2
    <3>2. k - 1 \in Nat
      BY <2>2
    <3> HIDE DEF some
    <3>3. some = [i \in 1 .. k - 1 |-> some[i]]
      BY <3>1
    <3>4. QED  BY <3>1, <3>2, <3>3, FunctionIsList
  <2>5. Len(some) <= Len(pieces)
    BY <2>1, <2>2, <2>4
  <2> HIDE DEF some
  <2>6. QED  BY <2>1, <2>3, <2>4, <2>5, CutWorksOn DEF pieces
<1>6. CASE (\E a \in DOMAIN selected : UpdateBalance(a)) \/ RebuildBurn
  BY <1>6 DEF UpdateBalances
<1>7. CASE \/ Start \/ Leave \/ StartBurns \/ UNCHANGED vars
           \/ \E order \in Orders : Clash(order)
           \/ \E m \in Numbers : HarvestBlock(m)
           \/ \E m \in Numbers : FullSnapshot(m)
           \/ SelectBalances
  <2>1. ASSUME NEW order \in Orders, Clash(order) PROVE Rests
    <3>1. Taken(n, TRUE) /\ UNCHANGED <<ledger, begun, again>> /\ at' = Null
      BY <2>1 DEF Clash
    <3>2. hidden' = hidden \ {n} /\ at # Null /\ n \in Numbers
      BY <3>1, SequencingAssumption DEF Taken, Shown, SequencingInv, Numbers
    <3>3. QED  BY <3>1, <3>2 DEF Rests, Taken, BalanceRows
  <2>2. QED  BY <1>7, <2>1, SnapshotsOnly, RestsOnly
<1> HIDE DEF n
<1>8. QED  BY <1>1, <1>2, <1>4, <1>5, <1>6, <1>7 DEF Next
------------------------------------------------------------------------------
(* A block can be counted.                                                  *)

\* While no session starts, nothing happens to the tables of sessions.
LEMMA CallSame ==
  ASSUME Filed, NEW w, IsCall(w), NEW i \in 0 .. w.end, NEW j \in i .. w.end,
         \A k \in i + 1 .. j : ~SessionPiece(w.pieces[k])
  PROVE  SameIn(w.run[j], w.run[i], SessionTables)
<1> DEFINE G == {m \in 1 .. j + 1 : m > i => SameIn(w.run[m - 1], w.run[i], SessionTables)}
<1>1. w.end \in Nat
  BY ListDomain DEF IsCall, PieceList, ArePieces
<1>2. i + 1 \in G /\ i + 1 \in 1 .. j + 1
  BY <1>1 DEF SameIn
<1>3. ASSUME NEW m \in i + 1 .. (j + 1) - 1, m \in G PROVE m + 1 \in G
  <2>1. m \in 1 .. w.end /\ m \in i + 1 .. j /\ m + 1 \in 1 .. j + 1 /\ (m + 1) - 1 = m
    BY <1>1
  <2>2. SameIn(w.run[m - 1], w.run[i], SessionTables)
    BY <1>1, <1>3
  <2>3. StepsTo(w, m) /\ ~SessionPiece(w.pieces[m])
    BY <2>1, CallGoes
  <2>4. NoSession(w.run[m], w.run[m - 1], w.n, w.pieces[m])
    BY <2>3, OthersApart DEF StepsTo, LedgerRight
  <2>5. SameIn(w.run[m], w.run[i], SessionTables)
    BY <2>2, <2>4 DEF NoSession, SameIn
  <2>6. QED  BY <2>1, <2>5
<1>4. j + 1 \in G
  <2>1. j + 1 \in Nat
    BY <1>1
  <2> HIDE DEF G
  <2>2. QED  BY <1>2, <1>3, <2>1, FromPieceOn
<1>5. j + 1 > i /\ (j + 1) - 1 = j
  BY <1>1
<1>6. QED  BY <1>4, <1>5

\* What the piece does by which the session starts.
LEMMA SessionStarts ==
  ASSUME Filed, NEW w, IsCall(w), NEW k \in 1 .. w.end, SessionPiece(w.pieces[k])
  PROVE  LET e == SessionShown(SessionAt(w.n), w.shown)
         IN /\ HasSession(w.n)
            /\ SessionOnly(w.run[k], w.run[k - 1], e)
            /\ SessionStops(w.run[k], w.run[k - 1], e, NewHandler(w.n))
            /\ ~Stopped(w.run[k]) => SessionSet(w.run[k], w.run[k - 1], w.n, e)
            /\ e.session = SessionAt(w.n).session /\ RanksOf(e) \subseteq RanksOf(SessionAt(w.n))
            /\ w.shown => e = SessionAt(w.n)
<1> DEFINE n == w.n
           e == SessionShown(SessionAt(n), w.shown)
           s == w.run[k - 1]
           u == w.run[k]
           new == NewHandler(n)
<1>1. /\ IsLedger(s) /\ ~Stopped(s) /\ u = Done(s, n, w.shown, w.pieces[k]) /\ k \in DOMAIN w.pieces
  BY CallGoes DEF StepsTo, LedgerRight
<1>2. n \in Numbers /\ \E first, last \in Nat : PieceList(w.pieces, n, first, last)
  BY DEF IsCall
<1>3. u = NewSession(s, n, e, new) /\ HasSession(n)
  <2>1. PICK first \in Nat, last \in Nat : PieceList(w.pieces, n, first, last)
    BY <1>2
  <2> HIDE DEF n, u, s
  <2>2. QED  BY <1>1, <1>2, <2>1, SessionPieceIs
<1>4. IsSession(SessionAt(n))
  BY <1>2, <1>3, SessionIs
<1>5. /\ IsList(e.validators) /\ e.session = SessionAt(n).session
      /\ RanksOf(e) \subseteq RanksOf(SessionAt(n)) /\ (w.shown => e = SessionAt(n))
  BY <1>4, ShownIs
<1> HIDE DEF e, new, s, u, n
<1>6. /\ SessionOnly(u, s, e) /\ SessionStops(u, s, e, new)
      /\ ~Stopped(u) => SessionSet(u, s, n, e)
  BY <1>1, <1>3, <1>5, NewSessionTables
<1>7. QED  BY <1>3, <1>5, <1>6 DEF e, new, s, u, n

\* The numbers of the sessions that started with some of the blocks.
SessionsIn(blocks) ==
  {SessionAt(m).session : m \in {i \in blocks : i \in Numbers /\ HasSession(i)}}

\* There are rows of these sessions only.
RowsWithin(s, sessions) ==
  /\ \A k \in s.nominators \cup DOMAIN s.validators : k[1] \in sessions
  /\ DOMAIN s.sessions \subseteq sessions

\* There are rows of sessions only whose block sequencing has begun with, and
\* an error leaves nothing behind.
SessionsBegun == ~Stopped(ledger) /\ RowsWithin(ledger, SessionsIn(begun))

LEMMA RowsStayWithin ==
  ASSUME Filed, NEW w, IsCall(w), NEW sessions, RowsWithin(w.s, sessions),
         HasSession(w.n) => SessionAt(w.n).session \in sessions
  PROVE  \A k \in 0 .. w.end : RowsWithin(w.run[k], sessions)
<1> DEFINE G == {k \in 0 .. w.end : RowsWithin(w.run[k], sessions)}
<1>1. w.end \in Nat
  BY ListDomain DEF IsCall, PieceList, ArePieces
<1>2. 0 \in G
  BY <1>1 DEF IsCall
<1>3. ASSUME NEW k \in 0 .. w.end - 1, k \in G PROVE k + 1 \in G
  <2> DEFINE j == k + 1
             s == w.run[k]
             u == w.run[j]
  <2>1. j \in 1 .. w.end /\ j \in 0 .. w.end /\ j - 1 = k
    BY <1>1
  <2>2. RowsWithin(s, sessions)
    BY <1>3
  <2>3. StepsTo(w, j)
    BY <2>1, CallGoes
  <2>4. CASE ~SessionPiece(w.pieces[j])
    <3>1. NoSession(w.run[j], w.run[j - 1], w.n, w.pieces[j])
      BY <2>3, <2>4, OthersApart DEF StepsTo, LedgerRight
    <3>2. SameIn(u, s, SessionTables)
      BY <2>1, <3>1 DEF NoSession, SameIn
    <3>3. QED  BY <2>1, <2>2, <3>2 DEF SameIn, SessionTables, RowsWithin
  <2>5. CASE SessionPiece(w.pieces[j])
    <3> DEFINE e == SessionShown(SessionAt(w.n), w.shown)
    <3>1. /\ SessionOnly(w.run[j], w.run[j - 1], e) /\ e.session = SessionAt(w.n).session
          /\ HasSession(w.n)
      BY <2>1, <2>5, SessionStarts
    <3>2. SessionOnly(u, s, e) /\ e.session \in sessions
      BY <2>1, <3>1
    <3> HIDE DEF e, u, s
    <3>3. \A x \in RanksOf(e) : x[1] \in sessions
      BY <3>2 DEF RanksOf
    <3>4. \A x \in DOMAIN u.validators : x[1] \in sessions
      BY <2>2, <3>2, <3>3 DEF SessionOnly, RowsWithin
    <3>5. \A x \in u.nominators : x[1] \in sessions
      BY <2>2, <3>2 DEF SessionOnly, RowsWithin
    <3>6. RowsWithin(u, sessions)
      BY <2>2, <3>2, <3>4, <3>5 DEF SessionOnly, RowsWithin
    <3>7. QED  BY <2>1, <3>6 DEF u
  <2>6. QED  BY <2>4, <2>5
<1>4. \A k \in 0 .. w.end : k \in G
  <2> HIDE DEF G
  <2>1. QED  BY <1>1, <1>2, <1>3, Working!CountUp
<1>5. ASSUME NEW k \in 0 .. w.end PROVE RowsWithin(w.run[k], sessions)
  BY <1>4, <1>5
<1>6. QED  BY <1>5

LEMMA InitSessions == Init => SessionsBegun
<1>1. SUFFICES ASSUME Init PROVE SessionsBegun
  OBVIOUS
<1>2. ledger = NoLedger
  BY <1>1 DEF Init
<1>3. QED  BY <1>2 DEF SessionsBegun, Stopped, RowsWithin, NoLedger, NoRows

\* The steps between calls leave the tables of sessions as they are.
LEMMA RestsSame ==
  ASSUME SequencingInv, Rests \/ UpdateBalances \/ RebuildBurn
  PROVE  /\ \A f \in LedgerFields \ {"accounts", "totals"} : ledger'[f] = ledger[f]
         /\ UNCHANGED <<content, stored, begun, requests>>
<1>1. UNCHANGED <<content, stored, begun, requests>>
  BY NothingCounted
<1>2. ASSUME Rests PROVE ledger' = ledger
  BY <1>2 DEF Rests
<1>3. ASSUME UpdateBalances PROVE OnlyChanges(ledger', ledger, {"accounts"})
  BY <1>3, UpdateIs DEF BalancesOnly
<1>4. ASSUME RebuildBurn PROVE OnlyChanges(ledger', ledger, {"totals"})
  BY <1>4, RebuildIs DEF BurnRebuilt
<1>5. QED  BY <1>1, <1>2, <1>3, <1>4 DEF OnlyChanges

LEMMA StepSessions == SequencingInv /\ SessionsBegun /\ [Next]_vars => SessionsBegun'
<1> DEFINE v == ledger'
<1>1. SUFFICES ASSUME SequencingInv, SessionsBegun, [Next]_vars
               PROVE  SessionsBegun'
  OBVIOUS
<1>2. Filed /\ LedgerRight(ledger) /\ ~Stopped(ledger) /\ RowsWithin(ledger, SessionsIn(begun))
  BY <1>1 DEF SequencingInv, SessionsBegun
<1>3. SUFFICES ASSUME TRUE
               PROVE  /\ content' = content /\ ~v.failed /\ ~v.raised
                      /\ RowsWithin(v, SessionsIn(begun'))
  <2>1. ASSUME content' = content PROVE SessionsIn(begun') = SessionsIn(begun)'
    BY <2>1 DEF SessionsIn, SessionAt, HasSession
  <2> HIDE DEF v
  <2>2. QED  BY <1>3, <2>1 DEF SessionsBegun, Stopped, RowsWithin, v
<1>4. ASSUME NEW w, Works(w)
      PROVE  content' = content /\ ~v.failed /\ ~v.raised /\ RowsWithin(v, SessionsIn(begun'))
  <2> DEFINE u == w.run[w.end]
  <2>1. /\ IsCall(w) /\ FromLedger(w.s) /\ ~u.failed /\ ~v.raised /\ Committed(v, u)
        /\ begun' = begun \cup {w.n} /\ content' = content
    BY <1>4 DEF Works, Worked
  <2> HIDE DEF v
  <2>2. RowsWithin(w.s, SessionsIn(begun'))
    <3>1. SameIn(w.s, ledger, SessionTables)
      BY <2>1 DEF FromLedger, OnlyChanges, LedgerFields, SameIn, SessionTables
    <3>2. SessionsIn(begun) \subseteq SessionsIn(begun')
      BY <2>1 DEF SessionsIn
    <3>3. QED  BY <1>2, <3>1, <3>2 DEF SameIn, SessionTables, RowsWithin
  <2>3. HasSession(w.n) => SessionAt(w.n).session \in SessionsIn(begun')
    BY <2>1 DEF IsCall, SessionsIn
  <2>4. w.end \in 0 .. w.end
    BY <2>1, ListDomain DEF IsCall, PieceList, ArePieces
  <2>5. RowsWithin(u, SessionsIn(begun'))
    BY <1>2, <2>1, <2>2, <2>3, <2>4, RowsStayWithin
  <2> HIDE DEF u
  <2>6. SameIn(v, u, SessionTables \cup {"failed"})
    BY <2>1 DEF Committed, OnlyChanges, LedgerFields, SameIn, SessionTables
  <2>7. QED  BY <2>1, <2>5, <2>6 DEF SameIn, SessionTables, RowsWithin
<1>5. ASSUME Rests \/ UpdateBalances \/ RebuildBurn
      PROVE  content' = content /\ ~v.failed /\ ~v.raised /\ RowsWithin(v, SessionsIn(begun'))
  <2>1. /\ \A f \in LedgerFields \ {"accounts", "totals"} : v[f] = ledger[f]
        /\ content' = content /\ begun' = begun
    BY <1>1, <1>5, RestsSame
  <2> HIDE DEF v
  <2>2. SameIn(v, ledger, SessionTables \cup {"failed", "raised"})
    BY <2>1 DEF SameIn, SessionTables, LedgerFields
  <2>3. QED  BY <1>2, <2>1, <2>2 DEF SameIn, SessionTables, RowsWithin, Stopped
<1> HIDE DEF v
<1>6. QED  BY <1>1, <1>2, <1>4, <1>5, NextWorks

\* The rows of a session that are there come from work on its own block.
LEMMA SessionsTell ==
  ASSUME Filed, NEW n \in Numbers, HasSession(n), NEW blocks,
         SessionAt(n).session \in SessionsIn(blocks)
  PROVE  n \in blocks
<1>1. PICK m \in blocks : /\ m \in Numbers /\ HasSession(m)
                          /\ SessionAt(m).session = SessionAt(n).session
  BY DEF SessionsIn
<1>2. m = n
  BY <1>1, SessionIs
<1>3. QED  BY <1>1, <1>2

LEMMA SessionsLetGoOn == SequencingInv /\ SessionsBegun => CanGoOn
<1>1. SUFFICES ASSUME SequencingInv, SessionsBegun, SequencerHead < MaxBlock, NEW order \in Orders,
                      NEW n, n = SequencerHead + 1,
                      NEW s, s = After(ledger, n, TRUE, AllPieces(n, order, TRUE)), Stopped(s)
               PROVE  \/ n > 0 /\ TimeLost(DataBlock(ledger), n)
                      \/ /\ n \in begun /\ HasSession(n)
                         /\ \/ NominatorRows(SessionAt(n)) \cap ledger.nominators # {}
                            \/ ~NewHandler(n)
  BY DEF CanGoOn
<1>2. Filed /\ LedgerRight(ledger) /\ ~Stopped(ledger) /\ RowsWithin(ledger, SessionsIn(begun))
  BY <1>1 DEF SequencingInv, SessionsBegun
<1>3. n \in Numbers
  BY <1>1, HeadRange, SequencingAssumption DEF Numbers
<1> DEFINE pieces == AllPieces(n, order, TRUE)
<1>4. PICK w : DoesSome(w, n, TRUE, order, pieces)
  <2>1. IsList(pieces)
    BY <1>2, <1>3, AllPiecesHold DEF PieceList, ArePieces
  <2> HIDE DEF pieces
  <2>2. Len(pieces) <= Len(pieces)
    BY <2>1, ListDomain
  <2>3. /\ IsList(pieces) /\ Len(pieces) <= Len(AllPieces(n, order, TRUE))
        /\ \A k \in DOMAIN pieces : pieces[k] = AllPieces(n, order, TRUE)[k]
    BY <2>1, <2>2 DEF pieces
  <2>4. QED  BY <1>2, <1>3, <2>3, AllPiecesCall
<1>5. /\ IsCall(w) /\ w.n = n /\ w.shown = TRUE /\ w.s = ledger /\ s = w.run[w.end]
  BY <1>1, <1>4 DEF DoesSome
<1> DEFINE k == w.end
           u == w.run[k - 1]
<1>6. k \in 1 .. w.end
  <2>1. w.end \in Nat
    BY <1>5, ListDomain DEF IsCall, PieceList, ArePieces
  <2>2. w.run[0] = ledger
    BY <1>5 DEF IsCall
  <2>3. w.end # 0
    BY <1>1, <1>2, <1>5, <2>2
  <2>4. QED  BY <2>1, <2>3
<1>7. /\ LedgerRight(u) /\ ~Stopped(u) /\ s = Done(u, n, TRUE, w.pieces[k]) /\ k \in DOMAIN w.pieces
      /\ IsPiece(n, w.pieces[k])
  <2>1. StepsTo(w, k)
    BY <1>2, <1>5, <1>6, CallGoes
  <2>2. QED  BY <1>5, <2>1 DEF StepsTo
<1>8. k - 1 \in 0 .. w.end
  BY <1>6
<1> HIDE DEF pieces, k, u
<1>9. CASE ~SessionPiece(w.pieces[k])
  <2>1. NoSession(s, u, n, w.pieces[k])
    BY <1>7, <1>9, OthersApart DEF LedgerRight
  <2>2. TimeLost(DataBlock(u), n)
    BY <1>1, <1>7, <2>1 DEF NoSession, SameIn, Stopped
  <2>3. n - 1 \in DOMAIN DataBlock(u)
    BY <2>2 DEF TimeLost, ParentTimed
  <2>4. DOMAIN DataBlock(u) \subseteq Numbers
    BY <1>2, <1>7, BlocksAre DEF LedgerRight
  <2>5. n > 0
    BY <1>3, <2>3, <2>4, SequencingAssumption DEF Numbers
  <2>6. ZeroKept(u, ledger, n)
    BY <1>2, <1>5, <1>8, CallGoes DEF CallKeeps, u
  <2>7. DataBlock(u) = DataBlock(ledger)
    BY <2>5, <2>6 DEF ZeroKept, DataBlock
  <2>8. QED  BY <2>2, <2>5, <2>7
<1>10. CASE SessionPiece(w.pieces[k])
  <2> DEFINE e == SessionAt(n)
  <2>1. HasSession(n) /\ SessionStops(s, u, e, NewHandler(n))
    BY <1>2, <1>5, <1>6, <1>10, SessionStarts DEF k, u
  <2>2. SameIn(u, ledger, SessionTables)
    <3>1. /\ 0 \in 0 .. w.end /\ k - 1 \in 0 .. w.end /\ k \in Nat
          /\ \A i \in 0 + 1 .. k - 1 : i # k
      <4>1. w.end \in Nat /\ k \in Nat
        BY <1>5, ListDomain DEF IsCall, PieceList, ArePieces, k
      <4>2. QED  BY <1>6, <1>8, <4>1
    <3>2. 0 + 1 .. k - 1 \subseteq DOMAIN w.pieces
      <4>1. IsList(w.pieces)
        BY <1>5 DEF IsCall, PieceList, ArePieces
      <4>2. DOMAIN w.pieces = 1 .. Len(w.pieces) /\ Len(w.pieces) \in Nat
        BY <4>1, ListDomain
      <4>3. QED  BY <1>7, <4>2
    <3>3. \A i \in 0 + 1 .. k - 1 : ~SessionPiece(w.pieces[i])
      BY <1>5, <1>7, <1>10, <3>1, <3>2 DEF IsCall, OneSession
    <3>4. SameIn(w.run[k - 1], w.run[0], SessionTables)
      BY <1>2, <1>5, <3>1, <3>3, CallSame
    <3>5. QED  BY <1>5, <3>4 DEF IsCall, u
  <2>3. RowsWithin(u, SessionsIn(begun)) /\ u.nominators = ledger.nominators
    BY <1>2, <2>2 DEF SameIn, SessionTables, RowsWithin
  <2>4. \A x \in NominatorRows(e) : x[1] = e.session
    BY DEF NominatorRows
  <2> HIDE DEF e
  <2>5. \/ NominatorRows(e) \cap u.nominators # {}
        \/ ~NewHandler(n) /\ \E x \in DOMAIN u.validators : x[1] = e.session
        \/ ~NewHandler(n) /\ e.session \in DOMAIN u.sessions
    BY <1>1, <2>1 DEF SessionStops, Stopped
  <2>6. e.session \in SessionsIn(begun)
    BY <2>3, <2>4, <2>5 DEF RowsWithin
  <2>7. n \in begun
    BY <1>2, <1>3, <2>1, <2>6, SessionsTell DEF e
  <2>8. QED  BY <2>1, <2>3, <2>5, <2>7 DEF e
<1>11. QED  BY <1>9, <1>10

\* Whatever was done before, and with requests in between, the next block can be
\* counted: nothing that sequencing left behind stands in the way but a time
\* that is lost and the nominators of the block's own session.
THEOREM AlwaysCanGoOn == Spec => []CanGoOn
<1>1. Init => SequencingInv /\ SessionsBegun
  BY InitInv, InitSessions
<1>2. SequencingInv /\ SessionsBegun /\ [Next]_vars => (SequencingInv /\ SessionsBegun)'
  BY StepInv, StepSessions
<1>3. SequencingInv /\ SessionsBegun => CanGoOn
  BY SessionsLetGoOn
<1>4. QED  BY <1>1, <1>2, <1>3, PTL DEF Spec
------------------------------------------------------------------------------
(* What a call leaves of the other sessions, and what of its own.           *)

\* The sessions that block n starts.
OwnSession(n) == {x \in {SessionAt(n).session} : HasSession(n)}

\* Work on block n leaves the rows of other sessions as they are, and of
\* validators only writes those there are.
SessionsApart(u, s, n) ==
  /\ \A k \in DOMAIN u.validators \cup DOMAIN s.validators :
       k[1] \notin OwnSession(n) =>
         /\ k \in DOMAIN u.validators /\ k \in DOMAIN s.validators
         /\ u.validators[k] = s.validators[k]
  /\ \A k \in DOMAIN u.validators \ DOMAIN s.validators : HasSession(n) /\ k \in RanksOf(SessionAt(n))
  /\ \A x \in DOMAIN s.sessions \ OwnSession(n) :
       x \in DOMAIN u.sessions /\ u.sessions[x] = s.sessions[x]
  /\ \A x \in DOMAIN s.sessionTotals :
       (\A y \in OwnSession(n) : x # y - 1) =>
         x \in DOMAIN u.sessionTotals /\ u.sessionTotals[x] = s.sessionTotals[x]

LEMMA ApartOn ==
  ASSUME NEW u, NEW v, NEW s, NEW n, SessionsApart(v, s, n), SessionsApart(u, v, n)
  PROVE  SessionsApart(u, s, n)
<1>1. ASSUME NEW k \in DOMAIN u.validators \cup DOMAIN s.validators, k[1] \notin OwnSession(n)
      PROVE  /\ k \in DOMAIN u.validators /\ k \in DOMAIN s.validators
             /\ u.validators[k] = s.validators[k]
  BY <1>1 DEF SessionsApart
<1>2. ASSUME NEW k \in DOMAIN u.validators \ DOMAIN s.validators
      PROVE  HasSession(n) /\ k \in RanksOf(SessionAt(n))
  BY <1>2 DEF SessionsApart
<1>3. ASSUME NEW x \in DOMAIN s.sessions \ OwnSession(n)
      PROVE  x \in DOMAIN u.sessions /\ u.sessions[x] = s.sessions[x]
  BY <1>3 DEF SessionsApart
<1>4. ASSUME NEW x \in DOMAIN s.sessionTotals, \A y \in OwnSession(n) : x # y - 1
      PROVE  x \in DOMAIN u.sessionTotals /\ u.sessionTotals[x] = s.sessionTotals[x]
  BY <1>4 DEF SessionsApart
<1>5. QED  BY <1>1, <1>2, <1>3, <1>4 DEF SessionsApart

LEMMA SameIsApart ==
  ASSUME NEW u, NEW s, SameIn(u, s, SessionTables), NEW n
  PROVE  SessionsApart(u, s, n)
BY DEF SameIn, SessionTables, SessionsApart

LEMMA CallApart ==
  ASSUME Filed, NEW w, IsCall(w)
  PROVE  \A k \in 0 .. w.end : SessionsApart(w.run[k], w.s, w.n)
<1> DEFINE G == {k \in 0 .. w.end : SessionsApart(w.run[k], w.s, w.n)}
<1>1. w.end \in Nat
  BY ListDomain DEF IsCall, PieceList, ArePieces
<1>2. 0 \in G
  BY <1>1, SameIsApart DEF IsCall, SameIn
<1>3. ASSUME NEW k \in 0 .. w.end - 1, k \in G PROVE k + 1 \in G
  <2> DEFINE j == k + 1
             s == w.run[k]
             u == w.run[j]
  <2>1. j \in 1 .. w.end /\ j \in 0 .. w.end /\ j - 1 = k
    BY <1>1
  <2>2. SessionsApart(s, w.s, w.n)
    BY <1>3
  <2>3. StepsTo(w, j)
    BY <2>1, CallGoes
  <2>4. CASE ~SessionPiece(w.pieces[j])
    <3>1. NoSession(w.run[j], w.run[j - 1], w.n, w.pieces[j])
      BY <2>3, <2>4, OthersApart DEF StepsTo, LedgerRight
    <3>2. SameIn(u, s, SessionTables)
      BY <2>1, <3>1 DEF NoSession, SameIn
    <3> HIDE DEF u, s
    <3>3. SessionsApart(u, w.s, w.n)
      BY <2>2, <3>2, SameIsApart, ApartOn
    <3>4. QED  BY <2>1, <3>3 DEF u
  <2>5. CASE SessionPiece(w.pieces[j])
    <3> DEFINE e == SessionShown(SessionAt(w.n), w.shown)
    <3>1. /\ SessionOnly(w.run[j], w.run[j - 1], e) /\ e.session = SessionAt(w.n).session
          /\ HasSession(w.n) /\ RanksOf(e) \subseteq RanksOf(SessionAt(w.n))
      BY <2>1, <2>5, SessionStarts
    <3>2. SessionOnly(u, s, e) /\ OwnSession(w.n) = {e.session}
      BY <2>1, <3>1 DEF OwnSession
    <3> HIDE DEF e, u, s
    <3>3. \A x \in RanksOf(e) : x[1] = e.session
      BY DEF RanksOf
    <3>4. /\ DOMAIN s.validators \subseteq DOMAIN u.validators
          /\ DOMAIN u.validators \subseteq DOMAIN s.validators \cup RanksOf(e)
          /\ \A x \in DOMAIN s.validators : x[1] # e.session => u.validators[x] = s.validators[x]
      BY <3>2 DEF SessionOnly
    <3>5. /\ DOMAIN s.sessions \subseteq DOMAIN u.sessions
          /\ \A x \in DOMAIN s.sessions : x # e.session => u.sessions[x] = s.sessions[x]
          /\ DOMAIN s.sessionTotals \subseteq DOMAIN u.sessionTotals
          /\ \A x \in DOMAIN s.sessionTotals :
               x # e.session - 1 => u.sessionTotals[x] = s.sessionTotals[x]
      BY <3>2 DEF SessionOnly
    <3>6. SessionsApart(u, s, w.n)
      BY <3>1, <3>2, <3>3, <3>4, <3>5 DEF SessionsApart
    <3>7. SessionsApart(u, w.s, w.n)
      BY <2>2, <3>6, ApartOn
    <3>8. QED  BY <2>1, <3>7 DEF u
  <2>6. QED  BY <2>4, <2>5
<1>4. \A k \in 0 .. w.end : k \in G
  <2> HIDE DEF G
  <2>1. QED  BY <1>1, <1>2, <1>3, Working!CountUp
<1>5. QED  BY <1>4

\* The same from commit to commit.
LEMMA WorksApart ==
  ASSUME Filed, NEW w, Works(w)
  PROVE  SessionsApart(ledger', ledger, w.n)
<1> DEFINE v == ledger'
           u == w.run[w.end]
<1>1. IsCall(w) /\ FromLedger(w.s) /\ Committed(v, u)
  BY DEF Works
<1>2. w.end \in 0 .. w.end
  BY <1>1, ListDomain DEF IsCall, PieceList, ArePieces
<1>3. SessionsApart(u, w.s, w.n)
  BY <1>1, <1>2, CallApart
<1> HIDE DEF v, u
<1>4. SameIn(w.s, ledger, SessionTables)
  BY <1>1 DEF FromLedger, OnlyChanges, LedgerFields, SameIn, SessionTables
<1>5. SameIn(v, u, SessionTables)
  BY <1>1 DEF Committed, OnlyChanges, LedgerFields, SameIn, SessionTables
<1>6. SessionsApart(v, ledger, w.n)
  BY <1>3, <1>4, <1>5, SameIsApart, ApartOn
<1>7. QED  BY <1>6 DEF v

\* The end of a whole call has set its session.
LEMMA FinishesSets ==
  ASSUME SequencingInv, NEW w, Works(w), Finishes(w), requests' = 0, HasSession(w.n)
  PROVE  SessionSet(ledger', ledger, w.n, SessionShown(SessionAt(w.n), w.shown))
<1> DEFINE v == ledger'
           e == SessionShown(SessionAt(w.n), w.shown)
           n == w.n
           end == w.end
<1>1. /\ Filed /\ LedgerRight(ledger) /\ IsCall(w) /\ Committed(v, w.run[end])
      /\ end = Len(w.pieces) /\ ~Stopped(w.run[end]) /\ Whole(w) /\ w.s = ledger
      /\ n \in Numbers
  BY DEF SequencingInv, Works, Finishes, Whole, IsCall
<1>2. PICK k \in DOMAIN w.pieces : SessionPiece(w.pieces[k])
  <2>1. PICK order \in Orders : w.pieces = AllPieces(w.n, order, w.shown)
    BY <1>1 DEF Whole
  <2>2. HasSession(w.n) => \E k \in DOMAIN AllPieces(w.n, order, w.shown) :
                              SessionPiece(AllPieces(w.n, order, w.shown)[k])
    BY <1>1, AllPiecesHold
  <2>3. QED  BY <2>1, <2>2
<1>3. end \in Nat /\ DOMAIN w.pieces = 1 .. end
  BY <1>1, ListDomain DEF IsCall, PieceList, ArePieces
<1>4. /\ k \in 1 .. end /\ k \in 0 .. end /\ k - 1 \in 0 .. end /\ 0 \in 0 .. end
      /\ end \in k .. end /\ k - 1 \in 0 .. end
  BY <1>2, <1>3
<1>5. /\ \A i \in k + 1 .. end : ~SessionPiece(w.pieces[i])
      /\ \A i \in 0 + 1 .. k - 1 : ~SessionPiece(w.pieces[i])
  <2>1. \A i \in DOMAIN w.pieces : i # k => ~SessionPiece(w.pieces[i])
    BY <1>1, <1>2 DEF IsCall, OneSession
  <2>2. \A i \in k + 1 .. end : i \in DOMAIN w.pieces /\ i # k
    BY <1>3, <1>4
  <2>3. \A i \in 0 + 1 .. k - 1 : i \in DOMAIN w.pieces /\ i # k
    BY <1>3, <1>4
  <2>4. QED  BY <2>1, <2>2, <2>3
<1>6. SameIn(w.run[end], w.run[k], SessionTables)
  BY <1>1, <1>4, <1>5, CallSame
<1>7. SameIn(w.run[k - 1], w.run[0], SessionTables)
  BY <1>1, <1>4, <1>5, CallSame
<1>8. ~Stopped(w.run[k])
  <2>1. CASE k = end
    BY <1>1, <2>1
  <2>2. CASE k # end
    <3>1. k + 1 \in 1 .. end /\ (k + 1) - 1 = k
      BY <1>3, <1>4, <2>2
    <3>2. StepsTo(w, k + 1)
      BY <1>1, <3>1, CallGoes
    <3>3. QED  BY <3>1, <3>2 DEF StepsTo
  <2>3. QED  BY <2>1, <2>2
<1>9. SessionSet(w.run[k], w.run[k - 1], n, e)
  BY <1>1, <1>2, <1>4, <1>8, SessionStarts
<1> DEFINE a == w.run[k - 1]
           b == w.run[k]
<1>10. SameIn(v, b, SessionTables)
  BY <1>1, <1>6 DEF Committed, OnlyChanges, LedgerFields, SameIn, SessionTables
<1>11. SameIn(a, ledger, SessionTables)
  BY <1>1, <1>7 DEF IsCall
<1>12. SessionSet(b, a, n, e)
  BY <1>9
<1> HIDE DEF v, e, a, b, n
<1>13. SessionSet(v, ledger, n, e)
  BY <1>10, <1>11, <1>12 DEF SameIn, SessionTables, SessionSet
<1>14. QED  BY <1>13 DEF v, e, n

\* The session of the total, and the author that the validators before it give.
TotalFrom(t, s, n) ==
  /\ t.session = SessionOf(DataBlock(s), n, BeforeOf(s, n))
  /\ t.author = Author(s.validators, t.session, DataBlock(s)[n].made)

LEMMA CallTotals ==
  ASSUME Filed, NEW w, IsCall(w), w.end = Len(w.pieces), ~Stopped(w.run[w.end])
  PROVE  \E k \in 0 .. w.end : TotalFrom(w.run[w.end].current, w.run[k], w.n)
<1> DEFINE n == w.n
           Set(k) == \E j \in 0 .. w.end : TotalFrom(w.run[k].current, w.run[j], n)
           G == {k \in 1 .. w.end : Set(k)}
<1>1. w.end \in Nat /\ DOMAIN w.pieces = 1 .. w.end
  BY ListDomain DEF IsCall, PieceList, ArePieces
<1>2. PICK i \in DOMAIN w.pieces : w.pieces[i].hook = "total"
  BY DEF IsCall, PieceList, Occurs
<1>3. ASSUME NEW k \in 1 .. w.end
      PROVE  /\ StepsTo(w, k) /\ ~Stopped(w.run[k]) /\ k - 1 \in 0 .. w.end
  <2>1. StepsTo(w, k)
    BY CallGoes
  <2>2. CASE k = w.end
    BY <1>1, <2>1, <2>2
  <2>3. CASE k # w.end
    <3>1. k + 1 \in 1 .. w.end /\ (k + 1) - 1 = k
      BY <1>1, <2>3
    <3>2. StepsTo(w, k + 1)
      BY <3>1, CallGoes
    <3>3. QED  BY <1>1, <2>1, <3>1, <3>2 DEF StepsTo
  <2>4. QED  BY <2>2, <2>3
<1>4. ASSUME NEW k \in 1 .. w.end, w.pieces[k].hook = "total" PROVE Set(k)
  <2> DEFINE s == w.run[k - 1]
             u == w.run[k]
             session == SessionOf(DataBlock(s), n, BeforeOf(s, n))
             total == WithTotals(s.validators, DataBlock(s), n, BeforeOf(s, n), s.current.burn)
  <2>1. u = Done(s, n, w.shown, w.pieces[k]) /\ IsLedger(s) /\ ~Stopped(u)
    BY <1>3 DEF StepsTo, LedgerRight
  <2>2. u = TotalDone(s, n)
    BY <1>4, <2>1 DEF Done
  <2>3. u = IF TimeLost(DataBlock(s), n) THEN [s EXCEPT !.raised = TRUE] ELSE [s EXCEPT !.current = total]
    BY <2>2 DEF TotalDone
  <2>4. total.session = session /\ total.author = Author(s.validators, session, DataBlock(s)[n].made)
    BY DEF WithTotals
  <2>5. k - 1 \in 0 .. w.end
    BY <1>3
  <2> HIDE DEF total, u, s, session
  <2>6. ~TimeLost(DataBlock(s), n)
    BY <2>1, <2>3 DEF Stopped, IsLedger, HasFields, LedgerFields
  <2>7. u.current = total
    BY <2>1, <2>3, <2>6 DEF IsLedger, HasFields, LedgerFields
  <2>8. TotalFrom(u.current, s, n)
    BY <2>4, <2>7 DEF TotalFrom, session
  <2>9. QED  BY <2>5, <2>8 DEF u, s
<1>5. ASSUME NEW k \in i .. w.end - 1, k \in G PROVE k + 1 \in G
  <2>1. k + 1 \in 1 .. w.end /\ (k + 1) - 1 = k
    BY <1>1, <1>2
  <2>2. CASE w.pieces[k + 1].hook = "total"
    BY <1>4, <2>1, <2>2
  <2>3. CASE w.pieces[k + 1].hook # "total"
    <3>1. PieceDone(w.run[k + 1], w.run[k], n, w.shown, w.pieces[k + 1])
      BY <1>3, <2>1 DEF StepsTo
    <3>2. /\ w.run[k + 1].current.session = w.run[k].current.session
          /\ w.run[k + 1].current.author = w.run[k].current.author
      BY <2>3, <3>1 DEF PieceDone, ToTotals, TotalFields
    <3>3. Set(k)
      BY <1>5
    <3>4. QED  BY <2>1, <3>2, <3>3 DEF TotalFrom
  <2>4. QED  BY <2>2, <2>3
<1>6. i \in G /\ i \in 1 .. w.end
  BY <1>1, <1>2, <1>4
<1> HIDE DEF Set
<1>7. w.end \in G
  <2> HIDE DEF G
  <2>1. QED  BY <1>1, <1>5, <1>6, FromPieceOn
<1>8. QED  BY <1>7 DEF Set

\* The total of the block: over the parent's, with the validators as the other
\* sessions have left them.
LEMMA FinishesTotals ==
  ASSUME SequencingInv, NEW w, Works(w), Finishes(w), requests' = 0, w.n # 0
  PROVE  /\ ledger'.totals[w.n].session = SessionOf(DataBlock(ledger), w.n, BeforeOf(ledger, w.n))
         /\ \E s : /\ SessionsApart(s, ledger, w.n)
                   /\ ledger'.totals[w.n].author
                        = Author(s.validators, ledger'.totals[w.n].session,
                                 stored[w.n].blocks[w.n].made)
<1> DEFINE n == w.n
           t == ledger'.totals[n]
<1>1. /\ Filed /\ LedgerRight(ledger) /\ IsCall(w) /\ w.s = ledger /\ n \in Numbers
      /\ w.end = Len(w.pieces) /\ ~Stopped(w.run[w.end])
      /\ ledger'.totals = Put(w.run[w.end].totals, n, w.run[w.end].current)
  BY DEF SequencingInv, Works, Finishes, Whole, IsCall
<1>2. t = w.run[w.end].current
  BY <1>1 DEF Put
<1>3. PICK k \in 0 .. w.end : TotalFrom(w.run[w.end].current, w.run[k], n)
  BY <1>1, CallTotals
<1> DEFINE s == w.run[k]
<1>4. CallKeeps(w, k) /\ SessionsApart(s, ledger, n)
  BY <1>1, CallGoes, CallApart
<1>5. OthersCounted(s, ledger, n) /\ ZeroKept(s, ledger, n)
  BY <1>1, <1>4 DEF CallKeeps
<1>6. TotalFrom(t, s, n)
  BY <1>2, <1>3
<1> HIDE DEF t, s, n
<1>7. BeforeOf(s, n) = BeforeOf(ledger, n)
  BY <1>1, <1>5, BeforeStays
<1>8. n # 0
  BY DEF n
<1>9. DataBlock(s) = DataBlock(ledger)
  BY <1>5, <1>8 DEF ZeroKept, DataBlock
<1>10. DataBlock(s)[n].made = stored[n].blocks[n].made
  BY <1>1, <1>8 DEF DataBlock
<1>11. t.session = SessionOf(DataBlock(ledger), n, BeforeOf(ledger, n))
  BY <1>6, <1>7, <1>9 DEF TotalFrom
<1>12. t.author = Author(s.validators, t.session, stored[n].blocks[n].made)
  BY <1>6, <1>10 DEF TotalFrom
<1>13. QED  BY <1>4, <1>11, <1>12 DEF n, t

------------------------------------------------------------------------------
(* How many sessions there are.                                             *)

Starts(n) == {m \in 1 .. n : HasSession(m)}

LEMMA SessionsByIs ==
  ASSUME NEW n \in Nat
  PROVE  /\ IsFiniteSet(Starts(n)) /\ SessionsBy(n) \in Nat
         /\ SessionsBy(n) = Cardinality(Starts(n))
<1>1. IsFiniteSet(1 .. n)
  BY FS_Interval
<1>2. IsFiniteSet(Starts(n))
  BY <1>1, FS_Subset DEF Starts
<1>3. SessionsBy(n) = Cardinality(Starts(n))
  BY DEF SessionsBy, Starts
<1>4. QED  BY <1>2, <1>3, FS_CardinalityType

LEMMA NoneBefore == SessionsBy(0) = 0 /\ SessionsBy(-1) = 0
<1>1. {m \in 1 .. 0 : HasSession(m)} = {} /\ {m \in 1 .. -1 : HasSession(m)} = {}
  OBVIOUS
<1>2. QED  BY <1>1, FS_EmptySet DEF SessionsBy

LEMMA OneMoreSession ==
  ASSUME NEW n \in Nat \ {0}
  PROVE  SessionsBy(n) = SessionsBy(n - 1) + (IF HasSession(n) THEN 1 ELSE 0)
<1>1. n - 1 \in Nat
  OBVIOUS
<1>2. IsFiniteSet(Starts(n - 1)) /\ SessionsBy(n - 1) = Cardinality(Starts(n - 1))
  BY <1>1, SessionsByIs
<1>3. SessionsBy(n) = Cardinality(Starts(n))
  BY SessionsByIs
<1>4. n \notin Starts(n - 1)
  BY DEF Starts
<1>5. Starts(n) = IF HasSession(n) THEN Starts(n - 1) \cup {n} ELSE Starts(n - 1)
  BY <1>1 DEF Starts
<1>6. CASE HasSession(n)
  BY <1>2, <1>3, <1>4, <1>5, <1>6, FS_AddElement
<1>7. CASE ~HasSession(n)
  BY <1>1, <1>2, <1>3, <1>5, <1>7, SessionsByIs
<1>8. QED  BY <1>6, <1>7

LEMMA MoreSessions ==
  ASSUME NEW m \in Nat, NEW n \in Nat, m <= n
  PROVE  SessionsBy(m) <= SessionsBy(n)
<1>1. Starts(m) \subseteq Starts(n)
  BY DEF Starts
<1>2. QED  BY <1>1, SessionsByIs, FS_Subset

\* The session that has started last.
LEMMA LastStart ==
  ASSUME NEW n \in Nat
  PROVE  LET p == Max(SessionBlocks(n))
         IN /\ p \in 0 .. n /\ HasSession(p)
            /\ \A m \in p + 1 .. n : ~HasSession(m)
            /\ \A m \in p .. n : SessionsBy(m) = SessionsBy(p)
<1> DEFINE S == SessionBlocks(n)
           p == Max(S)
<1>1. /\ 0 \in S /\ S \subseteq 0 .. n
      /\ \A m \in S : HasSession(m)
      /\ \A m \in 0 .. n : HasSession(m) => m \in S
  BY DEF SessionBlocks, UpTo, HasSession
<1> HIDE DEF S
<1>2. S \in SUBSET (0 .. n) /\ S # {}
  BY <1>1
<1>3. \E x \in S : \A y \in S : y <= x
  BY <1>2, Working!Greatest
<1>4. p \in S /\ \A y \in S : y <= p
  BY <1>3, Zenon DEF Max
<1>5. p \in 0 .. n /\ HasSession(p)
  BY <1>1, <1>4
<1> HIDE DEF p
<1>6. \A m \in p + 1 .. n : ~HasSession(m)
  <2>1. ASSUME NEW m \in p + 1 .. n, HasSession(m) PROVE FALSE
    <3>1. m \in 0 .. n /\ ~(m <= p)
      BY <1>5
    <3>2. QED  BY <1>1, <1>4, <2>1, <3>1
  <2>2. QED  BY <2>1
<1>7. ASSUME NEW m \in p .. n PROVE SessionsBy(m) = SessionsBy(p)
  <2>1. \A i \in 1 .. m : HasSession(i) => i \in 1 .. p
    BY <1>5, <1>6
  <2>2. \A i \in 1 .. p : i \in 1 .. m
    BY <1>5
  <2>3. {i \in 1 .. m : HasSession(i)} = {i \in 1 .. p : HasSession(i)}
    BY <2>1, <2>2
  <2>4. QED  BY <2>3 DEF SessionsBy
<1>8. QED  BY <1>5, <1>6, <1>7 DEF p, S

\* The blocks up to n that belong to the session that ends with it.
LEMMA BlocksOfSession ==
  ASSUME NEW n \in Nat \ {0}, HasSession(n), NEW S,
         S = {m \in 1 .. n : SessionsBy(m - 1) = SessionsBy(n) - 1}
  PROVE  Cardinality(S) = n - Max(SessionBlocks(n - 1))
<1> DEFINE p == Max(SessionBlocks(n - 1))
<1>1. n - 1 \in Nat
  OBVIOUS
<1>2. /\ p \in 0 .. n - 1 /\ HasSession(p)
      /\ \A m \in p .. n - 1 : SessionsBy(m) = SessionsBy(p)
  BY <1>1, LastStart
<1> HIDE DEF p
<1>3. SessionsBy(n) = SessionsBy(n - 1) + 1 /\ SessionsBy(n - 1) = SessionsBy(p)
  BY <1>1, <1>2, OneMoreSession
<1>4. SessionsBy(p) \in Nat
  BY <1>2, SessionsByIs
<1>5. ASSUME NEW m \in p + 1 .. n PROVE m \in S
  <2>1. m \in 1 .. n /\ m - 1 \in p .. n - 1
    BY <1>2
  <2>2. SessionsBy(m - 1) = SessionsBy(n) - 1
    BY <1>2, <1>3, <1>4, <2>1
  <2>3. QED  BY <2>1, <2>2
<1>6. ASSUME NEW m \in S PROVE m \in p + 1 .. n
  <2>1. m \in 1 .. n /\ SessionsBy(m - 1) = SessionsBy(p)
    BY <1>3, <1>4
  <2>2. CASE m <= p
    <3>1. p \in Nat \ {0} /\ p - 1 \in Nat /\ m - 1 \in Nat /\ m - 1 <= p - 1
      BY <1>2, <2>1, <2>2
    <3>2. SessionsBy(m - 1) <= SessionsBy(p - 1) /\ SessionsBy(p) = SessionsBy(p - 1) + 1
      BY <1>2, <3>1, MoreSessions, OneMoreSession
    <3>3. SessionsBy(p - 1) \in Nat
      BY <3>1, SessionsByIs
    <3>4. QED  BY <2>1, <3>2, <3>3
  <2>3. CASE ~(m <= p)
    BY <1>2, <2>1, <2>3
  <2>4. QED  BY <2>2, <2>3
<1>7. S = p + 1 .. n
  BY <1>5, <1>6
<1>8. Cardinality(p + 1 .. n) = n - p
  <2>1. p + 1 \in Int /\ n \in Int /\ ~(p + 1 > n)
    BY <1>2
  <2>2. QED  BY <1>2, <2>1, FS_Interval
<1>9. QED  BY <1>7, <1>8 DEF p

\* The validators of a session are as many as there are ranks.
LEMMA RanksCount ==
  ASSUME NEW e, IsList(e.validators)
  PROVE  Cardinality(RanksOf(e)) = Len(e.validators)
<1> DEFINE len == Len(e.validators)
           f == [v \in 1 .. len |-> <<e.session, v - 1>>]
<1>1. len \in Nat /\ DOMAIN e.validators = 1 .. len
  BY ListDomain
<1>2. f \in Bijection(1 .. len, RanksOf(e))
  <2>1. f \in [1 .. len -> RanksOf(e)]
    BY <1>1 DEF RanksOf
  <2>2. \A a, b \in 1 .. len : f[a] = f[b] => a = b
    OBVIOUS
  <2>3. \A t \in RanksOf(e) : \E a \in 1 .. len : f[a] = t
    BY <1>1 DEF RanksOf
  <2>4. QED  BY <2>1, <2>2, <2>3 DEF Bijection, Injection, Surjection, IsInjective
<1> HIDE DEF f, len
<1>3. ExistsBijection(1 .. len, RanksOf(e))
  BY <1>2 DEF ExistsBijection
<1>4. QED  BY <1>1, <1>3, FS_CountingElements DEF len

\* The rows of the session are these.
RanksHeld(validators, e) ==
  /\ {k \in DOMAIN validators : k[1] = e.session} = RanksOf(e)
  /\ \A v \in DOMAIN e.validators : validators[<<e.session, v - 1>>] = e.validators[v]

Turn(made, e) == IF made.authority # Null THEN made.authority ELSE made.slot % Len(e.validators)

\* Whose turn it was is the author.
LEMMA TurnIsAuthor ==
  ASSUME NEW validators, NEW e, IsList(e.validators), e.validators # <<>>, NEW made,
         RanksHeld(validators, e), made.slot # Null,
         NEW turn, turn = Turn(made, e), turn \in 0 .. Len(e.validators) - 1
  PROVE  Author(validators, e.session, made) = e.validators[turn + 1]
<1> DEFINE len == Len(e.validators)
           count == Cardinality({k \in DOMAIN validators : k[1] = e.session})
           rank == IF made.authority # Null THEN made.authority
                   ELSE IF count > 0 THEN made.slot % count ELSE Null
<1>1. len \in Nat /\ DOMAIN e.validators = 1 .. len
  BY ListDomain
<1>2. count = len
  BY RanksCount DEF RanksHeld
<1>3. len > 0
  BY <1>1
<1> HIDE DEF count
<1>4. rank = turn
  BY <1>2, <1>3 DEF Turn
<1>5. Author(validators, e.session, made) = RowOr(validators, <<e.session, rank>>, Null)
  BY DEF Author, count
<1> HIDE DEF rank
<1>6. turn + 1 \in DOMAIN e.validators /\ (turn + 1) - 1 = turn
  BY <1>1
<1>7. <<e.session, turn>> \in RanksOf(e)
  BY <1>6 DEF RanksOf
<1>8. <<e.session, turn>> \in DOMAIN validators
  BY <1>7 DEF RanksHeld
<1>9. validators[<<e.session, turn>>] = e.validators[turn + 1]
  BY <1>6 DEF RanksHeld
<1>10. QED  BY <1>4, <1>5, <1>8, <1>9 DEF RowOr

\* A block counts the events of sessions.
LEMMA SessionCounted ==
  ASSUME Filed, NEW s, ZeroRight(s), NEW n \in DOMAIN DataBlock(s)
  PROVE  DataBlock(s)[n].counters.sessions > 0 <=> n # 0 /\ HasSession(n)
<1> DEFINE c == content[n]
           u == Gathered(NoTables, n, c)
           v == WithBlock(NoTables, n, c)
           S == Positions(c.events, {"NewSession"})
<1>1. /\ n \in Numbers
      /\ DataBlock(s)[n].counters.sessions = stored[n].blocks[n].counters.sessions
  BY BlocksAre DEF Summed
<1>2. IsList(c.events) /\ IsList(c.extrinsics)
  BY <1>1, StoredBlocks DEF IsBlock
<1>3. stored[n] = v /\ v = SaveBlock(SaveSnapshots(u, n, c), n, c)
  BY <1>1 DEF Filed, WithBlock, Gathered
<1>4. FewRows(u)
  BY <1>2, GatheredFew
<1> HIDE DEF u, v
<1>5. v.blocks = Put(u.blocks, n, BlockRow(u, n, c))
  BY <1>3, <1>4, LastSteps DEF FewRows
<1>6. v.blocks[n].counters.sessions = Cardinality(S)
  BY <1>5 DEF Put, BlockRow, Counters
<1>7. IsFiniteSet(S) /\ Cardinality(S) \in Nat
  BY <1>2, PositionsAreFinite
<1>8. Cardinality(S) = 0 <=> S = {}
  BY <1>7, FS_EmptySet
<1>9. n = 0 => S = {}
  <2>1. n = 0 => c.events = <<>>
    BY ChainsAssumption DEF Filed
  <2>2. QED  BY <2>1 DEF Positions
<1>10. n # 0 => (HasSession(n) <=> S # {})
  BY DEF HasSession
<1> HIDE DEF S
<1>11. QED  BY <1>1, <1>3, <1>6, <1>7, <1>8, <1>9, <1>10
------------------------------------------------------------------------------
(* While the sequencer alone is at work, it goes on by one block or not.    *)

GoesOn(w) == Works(w) /\ Finishes(w) /\ OneOn(w.n, ledger, w.shown)

StopsAt(w) ==
  /\ Works(w) /\ w.shown /\ w.n = SequencerHead + 1
  /\ Counted' = Counted /\ SequencerHead' = SequencerHead

StaysThere ==
  /\ Rests \/ UpdateBalances \/ RebuildBurn
  /\ \A f \in LedgerFields \ {"accounts", "totals"} : ledger'[f] = ledger[f]
  /\ Counted' = Counted /\ SequencerHead' = SequencerHead /\ begun' = begun

\* Of the blocks that are counted, those stay hidden that are.
HiddenStays == \A m \in Counted : m \in hidden' <=> m \in hidden

LEMMA StepsAre ==
  ASSUME SequencingInv, Upward, ~Stopped(ledger), [Next]_vars, requests' = 0
  PROVE  /\ requests = 0 /\ Filed /\ LedgerRight(ledger) /\ UNCHANGED <<content, stored>>
         /\ HiddenStays
         /\ \/ \E w : GoesOn(w)
            \/ \E w : StopsAt(w)
            \/ StaysThere
<1>1. requests = 0 /\ Filed /\ LedgerRight(ledger) /\ UNCHANGED <<content, stored>>
  BY TotalsStay DEF SequencingInv
<1>2. Counted = 0 .. SequencerHead /\ (at = Null \/ at = SequencerHead)
  BY <1>1 DEF Upward
<1>3. SequencerHead \in -1 .. MaxBlock /\ MaxBlock \in Nat
  BY HeadRange, SequencingAssumption
<1>4. ASSUME NEW n, n = SequencerHead + 1, hidden' \ {n} = hidden \ {n} PROVE HiddenStays
  <2>1. n \notin Counted
    BY <1>2, <1>3, <1>4
  <2>2. QED  BY <1>4, <2>1 DEF HiddenStays
<1>5. ASSUME NEW w, Works(w)
      PROVE  /\ HiddenStays
             /\ GoesOn(w) \/ StopsAt(w)
  <2>1. IsCall(w) /\ Whole(w) /\ w.s = ledger /\ w.n \in Numbers /\ Shown(w.n, w.shown)
    BY <1>5 DEF Works, Whole, IsCall
  <2>2. hidden' \ {w.n} = hidden \ {w.n}
    BY <2>1 DEF Shown
  <2>3. CASE Finishes(w)
    <3>1. OneOn(w.n, ledger, w.shown)
      BY <2>1, <2>3, CountsOneOn DEF Finishes
    <3>2. GoesOn(w) /\ w.n = SequencerHead + 1
      BY <1>5, <2>3, <3>1 DEF GoesOn, OneOn
    <3>3. QED  BY <1>4, <2>2, <3>2
  <2>4. CASE w.shown /\ GivesUp(w.n)
    <3>1. w.n = SequencerHead + 1 /\ Counted' = Counted /\ SequencerHead' = SequencerHead
      BY <2>1, <2>4, GivesUpThere
    <3>2. StopsAt(w)
      BY <1>5, <2>4, <3>1 DEF StopsAt
    <3>3. QED  BY <1>4, <2>2, <3>1, <3>2
  <2>5. QED  BY <1>5, <2>3, <2>4 DEF Works
<1>6. ASSUME Rests \/ UpdateBalances \/ RebuildBurn PROVE HiddenStays /\ StaysThere
  <2>1. Counted' = Counted /\ SequencerHead' = SequencerHead /\ begun' = begun
    BY <1>6, NothingCounted
  <2>2. \A f \in LedgerFields \ {"accounts", "totals"} : ledger'[f] = ledger[f]
    BY <1>6, RestsSame
  <2>3. StaysThere
    BY <1>6, <2>1, <2>2 DEF StaysThere
  <2>4. HiddenStays
    <3>1. CASE Rests
      <4>1. hidden' = hidden \/ (at # Null /\ hidden' \ {at + 1} = hidden \ {at + 1})
        BY <3>1 DEF Rests
      <4>2. QED  BY <1>2, <1>4, <4>1 DEF HiddenStays
    <3>2. CASE UpdateBalances
      BY <3>2, UpdateIs DEF ghosts, HiddenStays
    <3>3. CASE RebuildBurn
      BY <3>3 DEF RebuildBurn, ghosts, HiddenStays
    <3>4. QED  BY <1>6, <3>1, <3>2, <3>3
  <2>5. QED  BY <2>3, <2>4
<1>7. QED  BY <1>1, <1>5, <1>6, NextWorks

------------------------------------------------------------------------------
(* The rows of sessions.                                                    *)

\* Of validators of block m's session there are only rows with its ranks.
WithinRanks(s, m) ==
  \A k \in DOMAIN s.validators : k[1] = SessionAt(m).session => k \in RanksOf(SessionAt(m))

\* What there is of the session of block m when the block is counted.
SessionThere(s, m, hid) ==
  LET e == SessionAt(m)
  IN /\ e.session \in DOMAIN s.sessions /\ s.sessions[e.session].start = m + 1
     /\ m \notin hid =>
          \A v \in DOMAIN e.validators :
            /\ <<e.session, v - 1>> \in DOMAIN s.validators
            /\ s.validators[<<e.session, v - 1>>] = e.validators[v]

SessionRows ==
  requests = 0 =>
    /\ \A m \in Numbers : HasSession(m) => WithinRanks(ledger, m)
    /\ \A m \in Counted : HasSession(m) => SessionThere(ledger, m, hidden)

LEMMA InitSessionRows == Init => SessionRows
<1>1. SUFFICES ASSUME Init PROVE SessionRows
  OBVIOUS
<1>2. ledger.validators = NoRows /\ Counted = {}
  BY <1>1 DEF Init, NoLedger, Counted, NoRows
<1>3. QED  BY <1>2 DEF SessionRows, WithinRanks, NoRows

\* Another session is not that of block n.
LEMMA OtherSession ==
  ASSUME Filed, NEW n \in Numbers, NEW m \in Numbers, HasSession(m), m # n
  PROVE  SessionAt(m).session \notin OwnSession(n)
BY SessionIs DEF OwnSession

LEMMA RanksStay ==
  ASSUME Filed, NEW n \in Numbers, NEW v, NEW s, SessionsApart(v, s, n),
         NEW m \in Numbers, HasSession(m), WithinRanks(s, m)
  PROVE  WithinRanks(v, m)
<1>1. ASSUME NEW k \in DOMAIN v.validators, k[1] = SessionAt(m).session
      PROVE  k \in RanksOf(SessionAt(m))
  <2>1. CASE k \in DOMAIN s.validators
    BY <1>1, <2>1 DEF WithinRanks
  <2>2. CASE k \notin DOMAIN s.validators
    <3>1. HasSession(n) /\ k \in RanksOf(SessionAt(n))
      BY <2>2 DEF SessionsApart
    <3>2. k[1] = SessionAt(n).session
      BY <3>1 DEF RanksOf
    <3>3. m = n
      BY <1>1, <3>1, <3>2, SessionIs
    <3>4. QED  BY <3>1, <3>3
  <2>3. QED  BY <2>1, <2>2
<1>2. QED  BY <1>1 DEF WithinRanks

LEMMA ThereStays ==
  ASSUME Filed, NEW n \in Numbers, NEW v, NEW s, SessionsApart(v, s, n),
         NEW m \in Numbers, HasSession(m), m # n, NEW hid, NEW now, m \in now <=> m \in hid,
         SessionThere(s, m, hid)
  PROVE  SessionThere(v, m, now)
<1> DEFINE e == SessionAt(m)
<1>1. e.session \notin OwnSession(n)
  BY OtherSession
<1>2. e.session \in DOMAIN s.sessions /\ s.sessions[e.session].start = m + 1
  BY DEF SessionThere
<1>3. m \notin now =>
        \A r \in DOMAIN e.validators :
          /\ <<e.session, r - 1>> \in DOMAIN s.validators
          /\ s.validators[<<e.session, r - 1>>] = e.validators[r]
  BY DEF SessionThere
<1> HIDE DEF e
<1>4. e.session \in DOMAIN v.sessions /\ v.sessions[e.session].start = m + 1
  BY <1>1, <1>2 DEF SessionsApart
<1>5. ASSUME NEW r \in DOMAIN e.validators, m \notin now
      PROVE  /\ <<e.session, r - 1>> \in DOMAIN v.validators
             /\ v.validators[<<e.session, r - 1>>] = e.validators[r]
  <2> DEFINE k == <<e.session, r - 1>>
  <2>1. k \in DOMAIN s.validators /\ s.validators[k] = e.validators[r] /\ k[1] = e.session
    BY <1>3, <1>5
  <2> HIDE DEF k
  <2>2. k \in DOMAIN v.validators /\ v.validators[k] = s.validators[k]
    BY <1>1, <2>1 DEF SessionsApart
  <2>3. QED  BY <2>1, <2>2 DEF k
<1>6. QED  BY <1>4, <1>5 DEF SessionThere, e

LEMMA StepSessionRows ==
  SequencingInv /\ Upward /\ SessionsBegun /\ SessionRows /\ [Next]_vars => SessionRows'
<1> DEFINE v == ledger'
<1>1. SUFFICES ASSUME SequencingInv, Upward, SessionsBegun, SessionRows, [Next]_vars, requests' = 0
               PROVE  /\ \A m \in Numbers : HasSession(m) => WithinRanks(v, m)
                      /\ \A m \in Counted' : HasSession(m) => SessionThere(v, m, hidden')
  <2>1. ASSUME SequencingInv, Upward, [Next]_vars PROVE content' = content
    BY <2>1, TotalsStay
  <2>2. ASSUME content' = content
        PROVE  \A m : /\ HasSession(m)' = HasSession(m)
                      /\ WithinRanks(ledger, m)' = WithinRanks(v, m)
                      /\ SessionThere(ledger, m, hidden)' = SessionThere(v, m, hidden')
    <3>1. \A m : HasSession(m)' = HasSession(m) /\ SessionAt(m)' = SessionAt(m)
      BY <2>2 DEF HasSession, SessionAt
    <3>2. QED  BY <3>1 DEF WithinRanks, SessionThere
  <2> HIDE DEF v
  <2>3. QED  BY <1>1, <2>1, <2>2 DEF SessionRows
<1>2. /\ requests = 0 /\ Filed /\ LedgerRight(ledger) /\ HiddenStays
      /\ (\E w : GoesOn(w)) \/ (\E w : StopsAt(w)) \/ StaysThere
  BY <1>1, StepsAre DEF SessionsBegun
<1>3. /\ \A m \in Numbers : HasSession(m) => WithinRanks(ledger, m)
      /\ \A m \in Counted : HasSession(m) => SessionThere(ledger, m, hidden)
  BY <1>1, <1>2 DEF SessionRows
<1>4. Counted \subseteq Numbers
  BY <1>2 DEF LedgerRight, Counted
<1>5. Counted = 0 .. SequencerHead /\ SequencerHead \in -1 .. MaxBlock /\ MaxBlock \in Nat
  BY <1>1, <1>2, HeadRange, SequencingAssumption DEF Upward
<1>6. ASSUME NEW w, Works(w), w.n = SequencerHead + 1
      PROVE  /\ \A m \in Numbers : HasSession(m) => WithinRanks(v, m)
             /\ \A m \in Counted : HasSession(m) => SessionThere(v, m, hidden')
  <2>1. w.n \in Numbers /\ SessionsApart(v, ledger, w.n)
    BY <1>2, <1>6, WorksApart DEF Works, IsCall
  <2> HIDE DEF v
  <2>2. \A m \in Numbers : HasSession(m) => WithinRanks(v, m)
    BY <1>2, <1>3, <2>1, RanksStay
  <2>3. ASSUME NEW m \in Counted, HasSession(m) PROVE SessionThere(v, m, hidden')
    <3>1. m # w.n
      BY <1>5, <1>6
    <3>2. SessionThere(ledger, m, hidden) /\ (m \in hidden' <=> m \in hidden) /\ m \in Numbers
      BY <1>2, <1>3, <1>4, <2>3 DEF HiddenStays
    <3>3. QED  BY <1>2, <2>1, <2>3, <3>1, <3>2, ThereStays
  <2>4. QED  BY <2>2, <2>3
<1>7. CASE \E w : GoesOn(w)
  <2>1. PICK w : GoesOn(w)
    BY <1>7
  <2>2. /\ Works(w) /\ Finishes(w) /\ w.n = SequencerHead + 1 /\ Counted' = 0 .. w.n
        /\ w.n \in Numbers /\ Shown(w.n, w.shown) /\ w.shown \in BOOLEAN
    BY <2>1 DEF GoesOn, OneOn, Works, IsCall
  <2>3. ASSUME HasSession(w.n) PROVE SessionThere(v, w.n, hidden')
    <3> DEFINE n == w.n
               e == SessionShown(SessionAt(n), w.shown)
    <3>1. SessionSet(v, ledger, n, e)
      BY <1>1, <2>2, <2>3, FinishesSets
    <3>2. e.session = SessionAt(n).session /\ (w.shown => e = SessionAt(n))
      BY <1>2, <2>2, <2>3, SessionIs, ShownIs
    <3>3. n \notin hidden' => w.shown
      BY <2>2 DEF Shown
    <3> HIDE DEF v, e, n
    <3>4. SessionThere(v, n, hidden')
      BY <3>1, <3>2, <3>3 DEF SessionSet, SessionThere
    <3>5. QED  BY <3>4 DEF n
  <2>4. \A m \in Counted' : m \in Counted \/ m = w.n
    BY <1>5, <2>2
  <2>5. QED  BY <1>6, <2>2, <2>3, <2>4
<1>8. CASE \E w : StopsAt(w)
  <2>1. PICK w : StopsAt(w)
    BY <1>8
  <2>2. Works(w) /\ w.n = SequencerHead + 1 /\ Counted' = Counted
    BY <2>1 DEF StopsAt
  <2>3. QED  BY <1>6, <2>2
<1>9. CASE StaysThere
  <2>1. v.validators = ledger.validators /\ v.sessions = ledger.sessions /\ Counted' = Counted
    BY <1>9 DEF StaysThere, LedgerFields
  <2> HIDE DEF v
  <2>2. \A m : WithinRanks(ledger, m) => WithinRanks(v, m)
    BY <2>1 DEF WithinRanks
  <2>3. ASSUME NEW m \in Counted, SessionThere(ledger, m, hidden) PROVE SessionThere(v, m, hidden')
    <3>1. m \in hidden' <=> m \in hidden
      BY <1>2 DEF HiddenStays
    <3>2. QED  BY <2>1, <2>3, <3>1 DEF SessionThere
  <2>4. QED  BY <1>3, <2>1, <2>2, <2>3
<1>10. QED  BY <1>2, <1>7, <1>8, <1>9

\* Who must be the author of block m, and the blocks of the session that ends
\* with it.
AuthorRight(t, m, hid) ==
  LET start == Max(SessionBlocks(m - 1))
      e == SessionAt(start)
      made == stored[m].blocks[m].made
      turn == IF made.authority # Null THEN made.authority ELSE made.slot % Len(e.validators)
  IN start \notin hid /\ made.slot # Null /\ e.validators # <<>> =>
       (turn \in 0 .. Len(e.validators) - 1 => t.author = e.validators[turn + 1])

EndCounted(s, m) ==
  LET ended == SessionAt(m).session - 1
  IN /\ ended \in DOMAIN s.sessionTotals
     /\ s.sessionTotals[ended].count = m - Max(SessionBlocks(m - 1))

SessionTotalsRight ==
  requests = 0 /\ SessionsNumbered =>
    /\ \A m \in Counted : ledger.totals[m].session = SessionsBy(m - 1)
    /\ \A m \in Counted \ {0} : AuthorRight(ledger.totals[m], m, hidden)
    /\ \A m \in Counted \ {0} : HasSession(m) => EndCounted(ledger, m)

LEMMA InitSessionTotals == Init => SessionTotalsRight
<1>1. SUFFICES ASSUME Init PROVE SessionTotalsRight
  OBVIOUS
<1>2. Counted = {}
  BY <1>1 DEF Init, NoLedger, Counted, NoRows
<1>3. QED  BY <1>2 DEF SessionTotalsRight

\* The session goes on with the block after the one that starts one.
LEMMA SessionGoesOn ==
  ASSUME SequencingInv, Upward, requests = 0, NEW n \in Numbers, n = SequencerHead + 1, n # 0,
         ledger.totals[n - 1].session = SessionsBy(n - 2)
  PROVE  SessionOf(DataBlock(ledger), n, BeforeOf(ledger, n)) = SessionsBy(n - 1)
<1> DEFINE blocks == DataBlock(ledger)
<1>1. /\ Filed /\ LedgerRight(ledger) /\ ZeroRight(ledger) /\ 0 \in DOMAIN ledger.zero
      /\ n - 1 \in Counted /\ n - 1 \in Numbers /\ n - 1 \in Nat
  <2>1. SequencerHead \in -1 .. MaxBlock /\ MaxBlock \in Nat /\ n \in Nat
    BY HeadRange, SequencingAssumption DEF Numbers
  <2>2. Counted = 0 .. SequencerHead /\ (SequencerHead >= 0 => 0 \in DOMAIN ledger.zero)
    BY DEF Upward
  <2>3. n - 1 \in Counted /\ n - 1 \in Numbers /\ n - 1 \in Nat /\ SequencerHead >= 0
    BY <2>1, <2>2 DEF Numbers
  <2>4. QED  BY <2>2, <2>3 DEF SequencingInv, LedgerRight
<1>2. BeforeOf(ledger, n) = ledger.totals[n - 1]
  BY <1>1, ParentOf
<1>3. n - 1 \in DOMAIN blocks
  BY <1>1, BlocksAre
<1>4. blocks[n - 1].counters.sessions > 0 <=> n - 1 # 0 /\ HasSession(n - 1)
  BY <1>1, <1>3, SessionCounted
<1> HIDE DEF blocks
<1>5. SessionOf(blocks, n, BeforeOf(ledger, n))
        = SessionsBy(n - 2) + (IF n - 1 # 0 /\ HasSession(n - 1) THEN 1 ELSE 0)
  BY <1>2, <1>3, <1>4 DEF SessionOf
<1>6. CASE n - 1 = 0
  <2>1. n - 2 = -1
    BY <1>1, <1>6
  <2>2. QED  BY <1>5, <1>6, <2>1, NoneBefore DEF blocks
<1>7. CASE n - 1 # 0
  <2>0. n \in Int
    BY SequencingAssumption DEF Numbers
  <2>1. n - 1 \in Nat \ {0} /\ (n - 1) - 1 = n - 2
    BY <1>1, <1>7, <2>0
  <2>2. SessionsBy(n - 1) = SessionsBy(n - 2) + (IF HasSession(n - 1) THEN 1 ELSE 0)
    BY <2>1, OneMoreSession
  <2>3. QED  BY <1>5, <1>7, <2>2 DEF blocks
<1>8. QED  BY <1>6, <1>7

\* The session to which block n belongs.
LEMMA SessionBefore ==
  ASSUME Filed, SessionsNumbered, NEW n \in Numbers \ {0}
  PROVE  LET p == Max(SessionBlocks(n - 1))
         IN /\ p \in 0 .. n - 1 /\ p \in Numbers /\ HasSession(p)
            /\ SessionAt(p).session = SessionsBy(n - 1) /\ SessionsBy(n - 1) \in Nat
            /\ IsList(SessionAt(p).validators)
<1> DEFINE p == Max(SessionBlocks(n - 1))
<1>1. n - 1 \in Nat /\ n \in 0 .. MaxBlock
  BY SequencingAssumption DEF Numbers
<1>2. /\ p \in 0 .. n - 1 /\ HasSession(p)
      /\ \A m \in p .. n - 1 : SessionsBy(m) = SessionsBy(p)
  BY <1>1, LastStart
<1> HIDE DEF p
<1>3. p \in Numbers /\ n - 1 \in p .. n - 1
  BY <1>1, <1>2, SequencingAssumption DEF Numbers
<1>4. SessionAt(p).session = SessionsBy(n - 1)
  BY <1>2, <1>3 DEF SessionsNumbered
<1>5. SessionsBy(n - 1) \in Nat /\ IsList(SessionAt(p).validators)
  BY <1>1, <1>2, <1>3, SessionsByIs, SessionIs
<1>6. QED  BY <1>2, <1>3, <1>4, <1>5 DEF p

LEMMA AuthorSet ==
  ASSUME Filed, SessionsNumbered, NEW n \in Numbers \ {0}, NEW s, NEW t, NEW old, NEW hid, NEW now,
         SessionsApart(s, old, n), t.session = SessionsBy(n - 1),
         t.author = Author(s.validators, t.session, stored[n].blocks[n].made),
         LET p == Max(SessionBlocks(n - 1))
         IN WithinRanks(old, p) /\ SessionThere(old, p, hid) /\ (p \in now <=> p \in hid)
  PROVE  AuthorRight(t, n, now)
<1> DEFINE p == Max(SessionBlocks(n - 1))
           e == SessionAt(p)
           made == stored[n].blocks[n].made
           turn == Turn(made, e)
<1>1. /\ p \in 0 .. n - 1 /\ p \in Numbers /\ HasSession(p)
      /\ e.session = SessionsBy(n - 1) /\ IsList(e.validators)
  BY SessionBefore
<1>2. WithinRanks(old, p) /\ SessionThere(old, p, hid) /\ (p \in now <=> p \in hid)
  OBVIOUS
<1> HIDE DEF p
<1>3. SUFFICES ASSUME p \notin now, made.slot # Null, e.validators # <<>>,
                      turn \in 0 .. Len(e.validators) - 1
               PROVE  t.author = e.validators[turn + 1]
  BY DEF AuthorRight, p, Turn
<1>4. n \in Numbers /\ p # n
  BY <1>1, SequencingAssumption DEF Numbers
<1>5. e.session \notin OwnSession(n)
  BY <1>1, <1>4, OtherSession
<1>6. /\ \A k \in DOMAIN old.validators : k[1] = e.session => k \in RanksOf(e)
      /\ \A v \in DOMAIN e.validators :
           /\ <<e.session, v - 1>> \in DOMAIN old.validators
           /\ old.validators[<<e.session, v - 1>>] = e.validators[v]
  BY <1>2, <1>3 DEF WithinRanks, SessionThere
<1>7. \A k \in DOMAIN s.validators \cup DOMAIN old.validators :
        k[1] = e.session =>
          k \in DOMAIN s.validators /\ k \in DOMAIN old.validators /\ s.validators[k] = old.validators[k]
  BY <1>5 DEF SessionsApart
<1>8. t.author = Author(s.validators, e.session, made)
  BY <1>1
<1>9. made.slot # Null /\ e.validators # <<>> /\ turn \in 0 .. Len(e.validators) - 1
      /\ turn = Turn(made, e)
  BY <1>3
<1> HIDE DEF e, made, turn
<1>10. \A k \in RanksOf(e) : k[1] = e.session /\ k \in DOMAIN old.validators
  BY <1>6 DEF RanksOf
<1>11. {k \in DOMAIN s.validators : k[1] = e.session} = RanksOf(e)
  BY <1>6, <1>7, <1>10
<1>12. \A v \in DOMAIN e.validators : s.validators[<<e.session, v - 1>>] = e.validators[v]
  <2>1. ASSUME NEW v \in DOMAIN e.validators
        PROVE  s.validators[<<e.session, v - 1>>] = e.validators[v]
    <3> DEFINE k == <<e.session, v - 1>>
    <3>1. k \in DOMAIN old.validators /\ old.validators[k] = e.validators[v] /\ k[1] = e.session
      BY <1>6
    <3> HIDE DEF k
    <3>2. s.validators[k] = old.validators[k]
      BY <1>7, <3>1
    <3>3. QED  BY <3>1, <3>2 DEF k
  <2>2. QED  BY <2>1
<1>13. RanksHeld(s.validators, e)
  BY <1>11, <1>12 DEF RanksHeld
<1>14. Author(s.validators, e.session, made) = e.validators[turn + 1]
  BY <1>1, <1>9, <1>13, TurnIsAuthor
<1>15. QED  BY <1>8, <1>14

\* The end of a session, when the last block of it is counted.
LEMMA EndSet ==
  ASSUME Filed, SessionsNumbered, NEW n \in Numbers \ {0}, HasSession(n), NEW v, NEW s, NEW e,
         e.session = SessionAt(n).session, SessionSet(v, s, n, e), NEW hid,
         LET p == Max(SessionBlocks(n - 1)) IN SessionThere(s, p, hid)
  PROVE  EndCounted(v, n)
<1> DEFINE p == Max(SessionBlocks(n - 1))
           ended == SessionAt(n).session - 1
<1>1. /\ p \in 0 .. n - 1 /\ p \in Numbers /\ SessionAt(p).session = SessionsBy(n - 1)
      /\ SessionsBy(n - 1) \in Nat
  BY SessionBefore
<1>2. n \in Nat \ {0} /\ n \in Numbers
  BY SequencingAssumption DEF Numbers
<1>3. SessionAt(n).session = SessionsBy(n) /\ SessionsBy(n) = SessionsBy(n - 1) + 1
  BY <1>2, OneMoreSession DEF SessionsNumbered
<1>4. SessionThere(s, p, hid)
  OBVIOUS
<1> HIDE DEF p
<1>5. ended = SessionAt(p).session /\ ended # e.session /\ ended = e.session - 1
  BY <1>1, <1>3
<1>6. ended \in DOMAIN s.sessions /\ s.sessions[ended].start = p + 1
  BY <1>4, <1>5 DEF SessionThere
<1> HIDE DEF ended
<1>7. ended \in DOMAIN v.sessionTotals /\ v.sessionTotals[ended].count = n - (p + 1) + 1
  BY <1>5, <1>6 DEF SessionSet
<1>8. n - (p + 1) + 1 = n - p
  BY <1>1, <1>2
<1>9. QED  BY <1>7, <1>8 DEF EndCounted, ended, p

\* It stays when another block is worked on.
LEMMA EndStays ==
  ASSUME Filed, SessionsNumbered, NEW n \in Numbers, NEW m \in Numbers \ {0}, m # n, HasSession(m),
         NEW v, NEW s, SessionsApart(v, s, n), EndCounted(s, m)
  PROVE  EndCounted(v, m)
<1> DEFINE ended == SessionAt(m).session - 1
<1>1. ended \in DOMAIN s.sessionTotals /\ s.sessionTotals[ended].count = m - Max(SessionBlocks(m - 1))
  BY DEF EndCounted
<1>2. \A y \in OwnSession(n) : ended # y - 1
  <2>1. ASSUME NEW y \in OwnSession(n) PROVE ended # y - 1
    <3>1. HasSession(n) /\ y = SessionAt(n).session
      BY DEF OwnSession
    <3>2. SessionAt(m).session # SessionAt(n).session
      BY <3>1, SessionIs
    <3>3. SessionAt(m).session = SessionsBy(m) /\ SessionAt(n).session = SessionsBy(n)
      BY <3>1 DEF SessionsNumbered
    <3>4. SessionsBy(m) \in Nat /\ SessionsBy(n) \in Nat
      BY SessionsByIs, SequencingAssumption DEF Numbers
    <3>5. QED  BY <3>1, <3>2, <3>3, <3>4
  <2>2. QED  BY <2>1
<1> HIDE DEF ended
<1>3. ended \in DOMAIN v.sessionTotals /\ v.sessionTotals[ended] = s.sessionTotals[ended]
  BY <1>1, <1>2 DEF SessionsApart
<1>4. QED  BY <1>1, <1>3 DEF EndCounted, ended

\* A total that stays keeps its author right.
LEMMA AuthorStays ==
  ASSUME NEW h \in -1 .. MaxBlock, NEW m \in 1 .. h, NEW t, NEW old, t.author = old.author,
         NEW hid, NEW now, \A p \in 0 .. h : p \in now <=> p \in hid, AuthorRight(old, m, hid)
  PROVE  AuthorRight(t, m, now)
<1> DEFINE p == Max(SessionBlocks(m - 1))
<1>1. h \in Int /\ m - 1 \in Nat
  BY SequencingAssumption
<1>2. p \in 0 .. m - 1
  BY <1>1, LastStart
<1>3. p \in 0 .. h
  BY <1>1, <1>2
<1>4. p \in now <=> p \in hid
  BY <1>3
<1>5. QED  BY <1>4 DEF AuthorRight

LEMMA TotalsOfSessions ==
  ASSUME SequencingInv, Upward, SessionsBegun, SessionRows, SessionTotalsRight, [Next]_vars,
         requests' = 0, SessionsNumbered, NEW m \in Counted'
  PROVE  /\ ledger'.totals[m].session = SessionsBy(m - 1)
         /\ m # 0 => AuthorRight(ledger'.totals[m], m, hidden')
         /\ m # 0 /\ HasSession(m) => EndCounted(ledger', m)
<1> DEFINE v == ledger'
           h == SequencerHead
<1>1. /\ requests = 0 /\ Filed /\ LedgerRight(ledger) /\ HiddenStays
      /\ (\E w : GoesOn(w)) \/ (\E w : StopsAt(w)) \/ StaysThere
  BY StepsAre DEF SessionsBegun
<1>2. /\ \A q \in Counted : ledger.totals[q].session = SessionsBy(q - 1)
      /\ \A q \in Counted \ {0} : AuthorRight(ledger.totals[q], q, hidden)
      /\ \A q \in Counted \ {0} : HasSession(q) => EndCounted(ledger, q)
      /\ \A q \in Numbers : HasSession(q) => WithinRanks(ledger, q)
      /\ \A q \in Counted : HasSession(q) => SessionThere(ledger, q, hidden)
  BY <1>1 DEF SessionTotalsRight, SessionRows
<1>3. Counted = 0 .. h /\ h \in -1 .. MaxBlock /\ MaxBlock \in Nat
  BY <1>1, HeadRange, SequencingAssumption DEF Upward
<1>4. m \in Numbers /\ (TotalStays(m) \/ (TotalMade(v, m) /\ m = h + 1))
  BY TotalsStay DEF LedgerRight, Counted
<1> HIDE DEF v, h
<1>5. ASSUME m \in Counted
      PROVE  /\ v.totals[m].session = SessionsBy(m - 1)
             /\ m # 0 => AuthorRight(v.totals[m], m, hidden')
  <2>1. m # h + 1
    BY <1>3, <1>5
  <2>2. v.totals[m].session = ledger.totals[m].session /\ v.totals[m].author = ledger.totals[m].author
    BY <1>4, <2>1 DEF TotalStays, TotalFields, v
  <2>3. ASSUME m # 0 PROVE AuthorRight(v.totals[m], m, hidden')
    <3>1. m \in 1 .. h
      BY <1>3, <1>5, <2>3
    <3>2. \A p \in 0 .. h : p \in hidden' <=> p \in hidden
      BY <1>1, <1>3 DEF HiddenStays
    <3>3. AuthorRight(ledger.totals[m], m, hidden)
      BY <1>2, <1>5, <2>3
    <3>4. QED  BY <1>3, <2>2, <3>1, <3>2, <3>3, AuthorStays
  <2>4. QED  BY <1>2, <1>5, <2>2, <2>3
<1>6. ASSUME NEW w, Works(w), w.n = h + 1, m \in Counted, m # 0, HasSession(m)
      PROVE  EndCounted(v, m)
  <2>1. w.n \in Numbers /\ SessionsApart(v, ledger, w.n)
    BY <1>1, <1>6, WorksApart DEF Works, IsCall, v
  <2>2. m # w.n
    BY <1>3, <1>6
  <2>3. QED  BY <1>1, <1>2, <1>4, <1>6, <2>1, <2>2, EndStays
<1>7. CASE \E w : GoesOn(w)
  <2>1. PICK w : GoesOn(w)
    BY <1>7
  <2>2. /\ Works(w) /\ Finishes(w) /\ w.n = h + 1 /\ Counted' = 0 .. w.n /\ w.n \in Numbers
    BY <2>1 DEF GoesOn, OneOn, Works, IsCall, h
  <2>3. CASE m \in Counted
    BY <1>5, <1>6, <2>2, <2>3 DEF v
  <2>4. CASE m \notin Counted
    <3>1. m = w.n
      BY <1>3, <2>2, <2>4
    <3>2. CASE m = 0
      <4>1. v.totals[m].session = 0
        <5>1. TotalMade(v, m) /\ BeforeOf(ledger, m) = NoTotal
          BY <2>4, <3>2, MadeOneOn DEF TotalStays, v
        <5>2. v.totals[m].session = SessionOf(DataBlock(v), m, NoTotal)
          BY <5>1 DEF TotalMade, TotalFields, WithTotals
        <5>3. m - 1 \notin DOMAIN DataBlock(v)
          <6>1. ZeroRight(v)
            BY MadeOneOn DEF v
          <6>2. DOMAIN DataBlock(v) \subseteq Numbers
            BY <1>1, <6>1, BlocksAre
          <6>3. QED  BY <3>2, <6>2 DEF Numbers
        <5>4. QED  BY <5>2, <5>3 DEF SessionOf, NoTotal
      <4>2. QED  BY <3>2, <4>1, NoneBefore DEF v
    <3>3. CASE m # 0
      <4> DEFINE p == Max(SessionBlocks(m - 1))
      <4>1. m - 1 \in Counted /\ (m - 1) - 1 = m - 2 /\ 0 .. m - 1 \subseteq Counted
        BY <1>3, <1>4, <2>2, <3>1, <3>3 DEF Numbers
      <4>2. ledger.totals[m - 1].session = SessionsBy(m - 2)
        BY <1>2, <4>1
      <4>3. SessionOf(DataBlock(ledger), m, BeforeOf(ledger, m)) = SessionsBy(m - 1)
        BY <1>1, <1>4, <2>2, <3>1, <3>3, <4>2, SessionGoesOn DEF h
      <4>4. PICK s : /\ SessionsApart(s, ledger, m)
                     /\ v.totals[m].author
                          = Author(s.validators, v.totals[m].session, stored[m].blocks[m].made)
        BY <2>2, <3>1, <3>3, FinishesTotals DEF v
      <4>5. v.totals[m].session = SessionsBy(m - 1)
        BY <2>2, <3>1, <3>3, <4>3, FinishesTotals DEF v
      <4>6. p \in 0 .. m - 1 /\ p \in Numbers /\ HasSession(p)
        BY <1>1, <1>4, <3>3, SessionBefore
      <4>7. p \in Counted
        BY <4>1, <4>6
      <4>8. WithinRanks(ledger, p) /\ SessionThere(ledger, p, hidden) /\ (p \in hidden' <=> p \in hidden)
        BY <1>1, <1>2, <4>6, <4>7 DEF HiddenStays
      <4>9. AuthorRight(v.totals[m], m, hidden')
        BY <1>1, <1>4, <3>3, <4>4, <4>5, <4>8, AuthorSet
      <4>10. ASSUME HasSession(m) PROVE EndCounted(v, m)
        <5> DEFINE e == SessionShown(SessionAt(m), w.shown)
        <5>1. SessionSet(v, ledger, m, e)
          BY <2>2, <3>1, <4>10, FinishesSets DEF v
        <5>2. e.session = SessionAt(m).session
          BY <1>1, <1>4, <4>10, SessionIs, ShownIs
        <5> HIDE DEF e
        <5>3. QED  BY <1>1, <1>4, <3>3, <4>8, <4>10, <5>1, <5>2, EndSet
      <4>11. QED  BY <4>5, <4>9, <4>10 DEF v
    <3>4. QED  BY <3>2, <3>3
  <2>5. QED  BY <2>3, <2>4
<1>8. CASE \E w : StopsAt(w)
  <2>1. PICK w : StopsAt(w)
    BY <1>8
  <2>2. Works(w) /\ w.n = h + 1 /\ m \in Counted
    BY <2>1 DEF StopsAt, h
  <2>3. QED  BY <1>5, <1>6, <2>2 DEF v
<1>9. CASE StaysThere
  <2>1. v.sessionTotals = ledger.sessionTotals /\ m \in Counted
    BY <1>9 DEF StaysThere, LedgerFields, v
  <2>2. ASSUME m # 0, HasSession(m) PROVE EndCounted(v, m)
    <3>1. EndCounted(ledger, m)
      BY <1>2, <2>1, <2>2
    <3>2. QED  BY <2>1, <3>1 DEF EndCounted
  <2>3. QED  BY <1>5, <2>1, <2>2 DEF v
<1>10. QED  BY <1>1, <1>7, <1>8, <1>9

LEMMA StepSessionTotals ==
  SequencingInv /\ Upward /\ SessionsBegun /\ SessionRows /\ SessionTotalsRight /\ [Next]_vars
    => SessionTotalsRight'
<1>1. SUFFICES ASSUME SequencingInv, Upward, SessionsBegun, SessionRows, SessionTotalsRight,
                      [Next]_vars
               PROVE  SessionTotalsRight'
  OBVIOUS
<1>2. content' = content /\ stored' = stored
  BY <1>1, TotalsStay
<1>3. \A q : HasSession(q)' = HasSession(q) /\ SessionAt(q)' = SessionAt(q)
  BY <1>2 DEF HasSession, SessionAt
<1>4. \A q : SessionsBy(q)' = SessionsBy(q) /\ SessionBlocks(q)' = SessionBlocks(q)
  BY <1>3 DEF SessionsBy, SessionBlocks
<1>5. SessionsNumbered' = SessionsNumbered
  BY <1>3, <1>4 DEF SessionsNumbered
<1>6. \A q : /\ AuthorRight(ledger.totals[q], q, hidden)' = AuthorRight(ledger'.totals[q], q, hidden')
             /\ EndCounted(ledger, q)' = EndCounted(ledger', q)
  BY <1>2, <1>3, <1>4 DEF AuthorRight, EndCounted
<1>7. QED  BY <1>1, <1>3, <1>4, <1>5, <1>6, TotalsOfSessions DEF SessionTotalsRight

LEMMA SessionsHeld ==
  SequencingInv /\ Upward /\ SessionTotalsRight => SessionsHoldBlocks
<1>1. SUFFICES ASSUME SequencingInv, Upward, SessionTotalsRight, requests = 0, SessionsNumbered,
                      NEW n \in Counted \ {0}
               PROVE  /\ LET start == Max(SessionBlocks(n - 1))
                         IN /\ ledger.totals[n].session = SessionAt(start).session
                            /\ AuthorRight(ledger.totals[n], n, hidden)
                      /\ HasSession(n) =>
                           LET ended == SessionAt(n).session - 1
                           IN /\ ended \in DOMAIN ledger.sessionTotals
                              /\ ledger.sessionTotals[ended].count =
                                   Cardinality({m \in 1 .. n : ledger.totals[m].session = ended})
  BY DEF SessionsHoldBlocks, AuthorRight
<1>2. /\ \A q \in Counted : ledger.totals[q].session = SessionsBy(q - 1)
      /\ AuthorRight(ledger.totals[n], n, hidden)
      /\ HasSession(n) => EndCounted(ledger, n)
  BY <1>1 DEF SessionTotalsRight
<1>3. Counted = 0 .. SequencerHead /\ SequencerHead \in -1 .. MaxBlock /\ MaxBlock \in Nat
  BY <1>1, HeadRange, SequencingAssumption DEF Upward
<1>4. Filed /\ n \in Numbers \ {0} /\ n \in Nat \ {0} /\ 1 .. n \subseteq Counted
  BY <1>1, <1>3 DEF SequencingInv, Numbers
<1>5. SessionAt(Max(SessionBlocks(n - 1))).session = SessionsBy(n - 1)
  BY <1>1, <1>4, SessionBefore
<1>6. ASSUME HasSession(n)
      PROVE  LET ended == SessionAt(n).session - 1
             IN Cardinality({m \in 1 .. n : ledger.totals[m].session = ended})
                  = n - Max(SessionBlocks(n - 1))
  <2> DEFINE ended == SessionAt(n).session - 1
             S == {m \in 1 .. n : ledger.totals[m].session = ended}
  <2>1. ended = SessionsBy(n) - 1
    BY <1>1, <1>4, <1>6 DEF SessionsNumbered
  <2>2. S = {m \in 1 .. n : SessionsBy(m - 1) = SessionsBy(n) - 1}
    <3>1. \A m \in 1 .. n : ledger.totals[m].session = SessionsBy(m - 1)
      BY <1>2, <1>4
    <3>2. QED  BY <2>1, <3>1
  <2> HIDE DEF S, ended
  <2>3. Cardinality(S) = n - Max(SessionBlocks(n - 1))
    BY <1>4, <1>6, <2>2, BlocksOfSession
  <2>4. QED  BY <2>3 DEF S, ended
<1>7. QED  BY <1>2, <1>5, <1>6 DEF EndCounted

\* While the sequencer alone counts, and the chain numbers its sessions as the
\* node does, a block belongs to the session that started last before it, its
\* author is the validator of that session whose turn it was, and a session
\* that has ended has as many blocks as belong to it: whatever the node hides,
\* wherever the sequencer stops, and however often a block is done over.
THEOREM SessionsAlwaysHoldBlocks == Spec => []SessionsHoldBlocks
<1> DEFINE I == SequencingInv /\ Upward /\ SessionsBegun /\ SessionRows /\ SessionTotalsRight
<1>1. Init => I
  BY InitInv, InitUpward, InitSessions, InitSessionRows, InitSessionTotals
<1>2. I /\ [Next]_vars => I'
  BY StepInv, StepUpward, StepSessions, StepSessionRows, StepSessionTotals
<1>3. I => SessionsHoldBlocks
  BY SessionsHeld
<1> HIDE DEF I
<1>4. QED  BY <1>1, <1>2, <1>3, PTL DEF Spec
------------------------------------------------------------------------------
(* The audits of a block, in the order of its events.                       *)

\* The tables of audits that sequencing goes through.
RowTables == {"audits", "indices", "identities", "judgements"}

\* An index is given, or it is taken from an account, or it is freed.
IndexRow(r) == r[3] = "new" \/ (r[3] = "reaped" /\ (r[4] = Null \/ r[5] = Null))

\* The row r of table f is that of event i of block n.
RowAt(r, n, i, f) == r[1] = n /\ r[2] = i /\ (f = "indices" => IndexRow(r))

LEMMA HookRowsAt ==
  ASSUME NEW n, NEW i, NEW e, NEW f \in RowTables, NEW r \in AccumulationHook(NoTables, n, i, e)[f]
  PROVE  RowAt(r, n, i, f)
<1> DEFINE t == NoTables
           u == AccumulationHook(t, n, i, e)
<1>1. f \in RevertedTables /\ e.kind \in RevertKinds[f]
  BY HookRowsAreOwn DEF OwnRows, RevertedTables, RowTables
<1>2. HasTables(t) /\ t.audits = {} /\ t.indices = {} /\ t.identities = {} /\ t.judgements = {}
  BY NoTablesAreTables DEF NoTables
<1>3. f = "audits" => e.kind \in {"NewAccount", "KilledAccount", "ReapedAccount"}
  BY <1>1 DEF RevertKinds
<1>4. f = "indices" => e.kind \in {"ReapedAccount", "IndexAssigned", "NewAccountIndex", "IndexFreed"}
  BY <1>1 DEF RevertKinds
<1>5. f = "identities" => e.kind \in {"IdentitySet", "IdentityCleared", "IdentityKilled"}
  BY <1>1 DEF RevertKinds
<1>6. f = "judgements" => e.kind = "JudgementGiven"
  BY <1>1 DEF RevertKinds
<1> HIDE DEF t
<1>7. r \in u[f]
  BY DEF t
<1>8. CASE f = "audits"
  <2>1. CASE e.kind = "NewAccount"
    <3>1. u = NewAccount(t, n, i, e)
      BY <2>1 DEF AccumulationHook
    <3> HIDE DEF u
    <3>2. QED  BY <1>2, <1>7, <1>8, <3>1 DEF NewAccount, Audit, RowAt, HasTables, TableNames
  <2>2. CASE e.kind = "KilledAccount"
    <3>1. u = KilledAccount(t, n, i, e)
      BY <2>2 DEF AccumulationHook
    <3> HIDE DEF u
    <3>2. QED  BY <1>2, <1>7, <1>8, <3>1 DEF KilledAccount, Audit, RowAt, HasTables, TableNames
  <2>3. CASE e.kind = "ReapedAccount"
    <3>1. u = ReapedAccount(t, n, i, e)
      BY <2>3 DEF AccumulationHook
    <3> HIDE DEF u
    <3>2. QED  BY <1>2, <1>7, <1>8, <3>1 DEF ReapedAccount, Audit, RowAt, HasTables, TableNames
  <2>4. QED  BY <1>3, <1>8, <2>1, <2>2, <2>3
<1>9. CASE f = "indices"
  <2>1. CASE e.kind = "ReapedAccount"
    <3>1. u = ReapedAccount(t, n, i, e)
      BY <2>1 DEF AccumulationHook
    <3> HIDE DEF u
    <3>2. QED  BY <1>2, <1>7, <1>9, <3>1 DEF ReapedAccount, Audit, RowAt, IndexRow, HasTables, TableNames
  <2>2. CASE e.kind = "IndexAssigned"
    <3>1. u = IndexAssigned(t, n, i, e)
      BY <2>2 DEF AccumulationHook
    <3> HIDE DEF u
    <3>2. QED  BY <1>2, <1>7, <1>9, <3>1 DEF IndexAssigned, Audit, RowAt, IndexRow, HasTables, TableNames
  <2>3. CASE e.kind = "NewAccountIndex"
    <3>1. u = NewAccountIndex(t, n, i, e)
      BY <2>3 DEF AccumulationHook
    <3> HIDE DEF u
    <3>2. QED  BY <1>2, <1>7, <1>9, <3>1 DEF NewAccountIndex, Audit, RowAt, IndexRow, HasTables, TableNames
  <2>4. CASE e.kind = "IndexFreed"
    <3>1. u = IndexFreed(t, n, i, e)
      BY <2>4 DEF AccumulationHook
    <3> HIDE DEF u
    <3>2. QED  BY <1>2, <1>7, <1>9, <3>1 DEF IndexFreed, Audit, RowAt, IndexRow, HasTables, TableNames
  <2>5. QED  BY <1>4, <1>9, <2>1, <2>2, <2>3, <2>4
<1>10. CASE f = "identities"
  <2>1. CASE e.kind = "IdentitySet"
    <3>1. u = IdentitySet(t, n, i, e)
      BY <2>1 DEF AccumulationHook
    <3> HIDE DEF u
    <3>2. QED  BY <1>2, <1>7, <1>10, <3>1
               DEF IdentitySet, IdentityAudit, Audit, RowAt, HasTables, TableNames
  <2>2. CASE e.kind = "IdentityCleared"
    <3>1. u = IdentityCleared(t, n, i, e)
      BY <2>2 DEF AccumulationHook
    <3> HIDE DEF u
    <3>2. QED  BY <1>2, <1>7, <1>10, <3>1
               DEF IdentityCleared, IdentityAudit, Audit, RowAt, HasTables, TableNames
  <2>3. CASE e.kind = "IdentityKilled"
    <3>1. u = IdentityKilled(t, n, i, e)
      BY <2>3 DEF AccumulationHook
    <3> HIDE DEF u
    <3>2. QED  BY <1>2, <1>7, <1>10, <3>1
               DEF IdentityKilled, IdentityAudit, Audit, RowAt, HasTables, TableNames
  <2>4. QED  BY <1>5, <1>10, <2>1, <2>2, <2>3
<1>11. CASE f = "judgements"
  <2>1. u = JudgementGiven(t, n, i, e)
    BY <1>6, <1>11 DEF AccumulationHook
  <2> HIDE DEF u
  <2>2. QED  BY <1>2, <1>7, <1>11, <2>1 DEF JudgementGiven, Audit, RowAt, HasTables, TableNames
<1>12. QED  BY <1>8, <1>9, <1>10, <1>11 DEF RowTables

\* The rows are of events of block n at these places, one in a table for each.
RowsFrom(rows, n, places, f) ==
  /\ \A r \in rows : r[2] \in places /\ RowAt(r, n, r[2], f)
  /\ \A r, q \in rows : r[2] = q[2] => r = q

WrittenBy(v, n, places) == HasTables(v) /\ \A f \in RowTables : RowsFrom(v[f], n, places, f)

LEMMA HookStepWrites ==
  ASSUME NEW v, NEW n, NEW places, WrittenBy(v, n, places), NEW c, NEW i, i \notin places
  PROVE  WrittenBy(HookStep(OfBlock(n, c), i, v), n, places \cup {i})
<1> DEFINE e == c.events[i]
           u == AccumulationHook(v, n, i, e)
           new == AccumulationHook(NoTables, n, i, e)
           w == HookStep(OfBlock(n, c), i, v)
<1>1. HasTables(v)
  BY DEF WrittenBy
<1>2. HookDone(u, v, new)
  BY <1>1, HookAdds
<1>3. AddsFew(new)
  BY HookAddsFew
<1>4. \A f \in RowTables : \A r \in new[f] : RowAt(r, n, i, f)
  BY HookRowsAt
<1>5. HasTables(u)
  BY <1>2 DEF HookDone
<1>6. SameButIndex(w, u)
  BY <1>5, AddIndexOnly DEF HookStep, OfBlock
<1> HIDE DEF u, w, new
<1>7. ASSUME NEW f \in RowTables PROVE RowsFrom(w[f], n, places \cup {i}, f)
  <2>1. w[f] = v[f] \cup new[f]
    BY <1>2, <1>6 DEF HookDone, HookTables, RowTables, SameButIndex, TableNames
  <2>2. OneRow(new[f])
    BY <1>3 DEF AddsFew, RowTables, AuditTables
  <2>3. \A r \in v[f] : r[2] \in places /\ RowAt(r, n, r[2], f)
    BY DEF WrittenBy, RowsFrom
  <2>4. \A r, q \in v[f] : r[2] = q[2] => r = q
    BY DEF WrittenBy, RowsFrom
  <2>5. \A r \in new[f] : r[2] = i /\ RowAt(r, n, r[2], f)
    BY <1>4 DEF RowAt
  <2>6. \A r, q \in new[f] : r = q
    BY <2>2 DEF OneRow
  <2>7. QED  BY <2>1, <2>3, <2>4, <2>5, <2>6 DEF RowsFrom
<1>8. HasTables(w)
  BY <1>6 DEF SameButIndex
<1>9. QED  BY <1>7, <1>8 DEF WrittenBy, w

LEMMA HooksWrite ==
  ASSUME NEW v, NEW n, WrittenBy(v, n, {}), NEW c, IsList(c.events)
  PROVE  WrittenBy(RunEventHooks(v, n, c), n, DOMAIN c.events)
<1> DEFINE S == DOMAIN c.events
           a == OfBlock(n, c)
<1>1. PICK iter : Hooking!Iterates(iter, a, v, S) /\ RunEventHooks(v, n, c) = iter[S]
  BY HooksIterate
<1>2. Hooking!Sized(S) /\ \A s \in SUBSET S : s # {} => Max(s) \in s
  BY LastIsMember DEF Hooking!Sized, Indexing!Sized
<1> DEFINE G == {s \in SUBSET S : WrittenBy(iter[s], n, s)}
<1>3. {} \in G
  BY <1>1 DEF Hooking!Iterates
<1>4. ASSUME NEW s \in SUBSET S, s # {}, s \ {Max(s)} \in G PROVE s \in G
  <2> DEFINE u == iter[s \ {Max(s)}]
  <2>1. iter[s] = HookStep(a, Max(s), u)
    BY <1>1, <1>4 DEF Hooking!Iterates
  <2>2. WrittenBy(u, n, s \ {Max(s)}) /\ Max(s) \in s
    BY <1>2, <1>4
  <2>3. (s \ {Max(s)}) \cup {Max(s)} = s /\ Max(s) \notin s \ {Max(s)}
    BY <2>2
  <2> HIDE DEF u
  <2>4. WrittenBy(HookStep(a, Max(s), u), n, (s \ {Max(s)}) \cup {Max(s)})
    BY <2>2, <2>3, HookStepWrites
  <2>5. WrittenBy(iter[s], n, s)
    BY <2>1, <2>3, <2>4
  <2>6. QED  BY <2>5
<1>5. S \in G
  <2> HIDE DEF G, S, a
  <2>1. QED  BY <1>2, <1>3, <1>4, Hooking!IterationKeeps
<1>6. QED  BY <1>1, <1>5 DEF S

\* What add_block stores of a block.
LEMMA StoredRows ==
  ASSUME Filed, NEW n \in Numbers
  PROVE  \A f \in RowTables :
           /\ RowsFrom(stored[n][f], n, DOMAIN content[n].events, f)
           /\ IsFiniteSet(stored[n][f])
<1> DEFINE c == content[n]
           t1 == SaveEvents(NoTables, n, c)
           t2 == SaveExtrinsics(t1, n, c)
           t3 == RunEventHooks(t2, n, c)
           t4 == SaveLogs(t3, n, c)
           v == WithBlock(NoTables, n, c)
<1>0. IsList(c.events) /\ IsList(c.extrinsics) /\ FewRows(stored[n]) /\ stored[n] = v
  BY StoredBlocks DEF IsBlock, BlockStored, Filed
<1>1. HasTables(t1) /\ \A f \in RowTables : t1[f] = {}
  BY NoTablesAreTables DEF SaveEvents, HasTables, TableNames, NoTables, RowTables
<1>2. v = SaveBlock(SaveSnapshots(t4, n, c), n, c)
  BY DEF WithBlock
<1> HIDE DEF t1, v
<1>3. Called(t2, t1, n, c, DOMAIN c.extrinsics)
  BY <1>0, <1>1, CallsAreRows
<1> HIDE DEF t2
<1>4. WrittenBy(t2, n, {})
  <2>1. \A f \in RowTables : t2[f] = {}
    BY <1>1, <1>3 DEF Called, RowTables, TableNames
  <2>2. HasTables(t2)
    BY <1>3 DEF Called
  <2>3. QED  BY <2>1, <2>2 DEF WrittenBy, RowsFrom
<1>5. WrittenBy(t3, n, DOMAIN c.events)
  BY <1>0, <1>4, HooksWrite
<1> HIDE DEF t3
<1>6. HasTables(t4) /\ \A f \in TableNames \ {"logs"} : t4[f] = t3[f]
  BY <1>5 DEF SaveLogs, WrittenBy, HasTables, TableNames
<1> HIDE DEF t4
<1>7. \A f \in TableNames \ {"blocks", "snapshots", "fresh", "gone"} : v[f] = t4[f]
  BY <1>2, <1>6, LastSteps
<1>8. \A f \in RowTables : stored[n][f] = t3[f]
  BY <1>0, <1>6, <1>7 DEF RowTables, TableNames
<1>9. QED  BY <1>0, <1>5, <1>8 DEF WrittenBy, FewRows, RowTables, AuditTables
------------------------------------------------------------------------------
(* Where the pieces of a hook are among all pieces.                         *)

\* The list has no pieces for these hooks, or part of it has all there are.
Lacks(pieces, hooks) == IsList(pieces) /\ \A k \in DOMAIN pieces : pieces[k].hook \notin hooks

Segment(all, part, from, hooks) ==
  /\ IsList(all) /\ IsList(part) /\ from \in Nat /\ from + Len(part) <= Len(all)
  /\ \A i \in DOMAIN part : all[from + i] = part[i]
  /\ \A k \in DOMAIN all : k <= from \/ k > from + Len(part) => all[k].hook \notin hooks

HasSegment(all, part, hooks) == \E from : Segment(all, part, from, hooks)

LEMMA LacksOn ==
  ASSUME NEW hooks, NEW a, Lacks(a, hooks), NEW b, Lacks(b, hooks)
  PROVE  Lacks(a \o b, hooks)
<1> DEFINE c == a \o b
<1>1. IsJoined(c, a, b)
  BY JoinsLists DEF Lacks
<1> HIDE DEF c
<1>2. /\ Len(a) \in Nat /\ DOMAIN a = 1 .. Len(a)
      /\ Len(b) \in Nat /\ DOMAIN b = 1 .. Len(b) /\ DOMAIN c = 1 .. Len(a) + Len(b)
  BY <1>1, ListDomain DEF Lacks, IsJoined
<1>3. ASSUME NEW k \in DOMAIN c PROVE c[k].hook \notin hooks
  <2>1. CASE k <= Len(a)
    BY <1>1, <1>2, <2>1 DEF IsJoined, Lacks
  <2>2. CASE k > Len(a)
    <3>1. k - Len(a) \in DOMAIN b /\ Len(a) + (k - Len(a)) = k
      BY <1>2, <2>2
    <3>2. c[k] = b[k - Len(a)]
      BY <1>1, <1>2, <3>1 DEF IsJoined
    <3>3. QED  BY <3>1, <3>2 DEF Lacks
  <2>3. QED  BY <1>2, <2>1, <2>2
<1>4. QED  BY <1>1, <1>3 DEF Lacks, IsJoined, c

LEMMA SegmentBefore ==
  ASSUME NEW hooks, NEW part, NEW a, HasSegment(a, part, hooks), NEW b, Lacks(b, hooks)
  PROVE  HasSegment(a \o b, part, hooks)
<1> DEFINE c == a \o b
<1>0. PICK from : Segment(a, part, from, hooks)
  BY DEF HasSegment
<1>1. IsJoined(c, a, b)
  BY <1>0, JoinsLists DEF Lacks, Segment
<1> HIDE DEF c
<1>2. /\ Len(a) \in Nat /\ DOMAIN a = 1 .. Len(a)
      /\ Len(part) \in Nat /\ DOMAIN part = 1 .. Len(part)
      /\ Len(b) \in Nat /\ DOMAIN b = 1 .. Len(b) /\ DOMAIN c = 1 .. Len(a) + Len(b)
      /\ Len(c) = Len(a) + Len(b)
  BY <1>0, <1>1, ListDomain DEF Lacks, IsJoined, Segment
<1>3. from \in Nat /\ from + Len(part) <= Len(a)
  BY <1>0 DEF Segment
<1>4. ASSUME NEW i \in DOMAIN part PROVE c[from + i] = part[i]
  <2>1. from + i \in 1 .. Len(a)
    BY <1>2, <1>3
  <2>2. QED  BY <1>0, <1>1, <2>1 DEF Segment, IsJoined
<1>5. ASSUME NEW k \in DOMAIN c, k <= from \/ k > from + Len(part) PROVE c[k].hook \notin hooks
  <2>1. CASE k <= Len(a)
    <3>1. k \in DOMAIN a /\ c[k] = a[k]
      BY <1>1, <1>2, <2>1 DEF IsJoined
    <3>2. QED  BY <1>0, <1>5, <3>1 DEF Segment
  <2>2. CASE k > Len(a)
    <3>1. k - Len(a) \in DOMAIN b /\ Len(a) + (k - Len(a)) = k
      BY <1>2, <2>2
    <3>2. c[k] = b[k - Len(a)]
      BY <1>1, <1>2, <3>1 DEF IsJoined
    <3>3. QED  BY <3>1, <3>2 DEF Lacks
  <2>3. QED  BY <1>2, <2>1, <2>2
<1>6. from + Len(part) <= Len(c)
  BY <1>2, <1>3
<1>7. Segment(c, part, from, hooks)
  BY <1>0, <1>1, <1>3, <1>4, <1>5, <1>6 DEF Segment, IsJoined
<1>8. QED  BY <1>7 DEF HasSegment, c

LEMMA SegmentAfter ==
  ASSUME NEW hooks, NEW part, NEW a, Lacks(a, hooks), NEW b, HasSegment(b, part, hooks)
  PROVE  HasSegment(a \o b, part, hooks)
<1> DEFINE c == a \o b
<1>0. PICK from : Segment(b, part, from, hooks)
  BY DEF HasSegment
<1>1. IsJoined(c, a, b)
  BY <1>0, JoinsLists DEF Lacks, Segment
<1> HIDE DEF c
<1>2. /\ Len(a) \in Nat /\ DOMAIN a = 1 .. Len(a)
      /\ Len(part) \in Nat /\ DOMAIN part = 1 .. Len(part)
      /\ Len(b) \in Nat /\ DOMAIN b = 1 .. Len(b) /\ DOMAIN c = 1 .. Len(a) + Len(b)
      /\ Len(c) = Len(a) + Len(b)
  BY <1>0, <1>1, ListDomain DEF Lacks, IsJoined, Segment
<1>3. from \in Nat /\ from + Len(part) <= Len(b)
  BY <1>0 DEF Segment
<1> DEFINE start == Len(a) + from
<1>4. ASSUME NEW i \in DOMAIN part PROVE c[start + i] = part[i]
  <2>1. from + i \in 1 .. Len(b) /\ start + i = Len(a) + (from + i)
    BY <1>2, <1>3
  <2>2. QED  BY <1>0, <1>1, <2>1 DEF Segment, IsJoined
<1>5. ASSUME NEW k \in DOMAIN c, k <= start \/ k > start + Len(part) PROVE c[k].hook \notin hooks
  <2>1. CASE k <= Len(a)
    <3>1. k \in DOMAIN a /\ c[k] = a[k]
      BY <1>1, <1>2, <2>1 DEF IsJoined
    <3>2. QED  BY <3>1 DEF Lacks
  <2>2. CASE k > Len(a)
    <3>1. k - Len(a) \in DOMAIN b /\ Len(a) + (k - Len(a)) = k
      BY <1>2, <2>2
    <3>2. c[k] = b[k - Len(a)]
      BY <1>1, <1>2, <3>1 DEF IsJoined
    <3>3. k - Len(a) <= from \/ k - Len(a) > from + Len(part)
      BY <1>2, <1>3, <1>5
    <3>4. QED  BY <1>0, <3>1, <3>2, <3>3 DEF Segment
  <2>3. QED  BY <1>2, <2>1, <2>2
<1>6. start \in Nat /\ start + Len(part) <= Len(c)
  BY <1>2, <1>3
<1> HIDE DEF start
<1>7. Segment(c, part, start, hooks)
  BY <1>0, <1>1, <1>4, <1>5, <1>6 DEF Segment, IsJoined
<1>8. QED  BY <1>7 DEF HasSegment, c

LEMMA WholeSegment ==
  ASSUME NEW part, IsList(part), NEW hooks
  PROVE  HasSegment(part, part, hooks)
<1>1. Len(part) \in Nat /\ DOMAIN part = 1 .. Len(part)
  BY ListDomain
<1>2. 0 \in Nat /\ 0 + Len(part) <= Len(part) /\ \A i \in DOMAIN part : 0 + i = i
  BY <1>1
<1>3. \A k \in DOMAIN part : ~(k <= 0 \/ k > 0 + Len(part))
  BY <1>1
<1>4. Segment(part, part, 0, hooks)
  BY <1>2, <1>3 DEF Segment
<1>5. QED  BY <1>4 DEF HasSegment

\* Pieces for a hook alone are not for others.
LEMMA PiecesLack ==
  ASSUME NEW rows, IsList(rows), NEW hook, NEW hooks, hook \notin hooks
  PROVE  Lacks(Pieces(hook, rows), hooks)
<1>1. ArePiecesOf(Pieces(hook, rows), hook, rows)
  BY PiecesAre
<1>2. QED  BY <1>1 DEF ArePiecesOf, Lacks

\* The hooks that a block hook has pieces for.
HooksOf(hook) == IF hook = "account" THEN {"audit", "indexed"} ELSE {hook}

\* The rows of an audit hook: a list.
LEMMA HookRowsListed ==
  ASSUME NEW s, IsList(s.genesis), NEW n, BlockStored(n)
  PROVE  /\ IsList(AuditsOf(s, n)) /\ IsList(SetToSeq(IndexedAt(stored[n], n)))
         /\ \A f \in RowTables : IsList(InOrder(n, stored[n][f]))
<1>1. \A f \in RowTables : IsFiniteSet(stored[n][f])
  BY DEF BlockStored, FewRows, RowTables, AuditTables
<1>2. IsList(content[n].events)
  BY DEF BlockStored, IsBlock
<1>3. \A f \in RowTables : IsList(InOrder(n, stored[n][f]))
  BY <1>1, <1>2, OrderIsList DEF ListFrom
<1>4. IsList(SetToSeq(IndexedAt(stored[n], n)))
  BY ListsSet DEF BlockStored
<1>5. IsList(AuditsOf(s, n))
  BY <1>3 DEF AuditsOf, RowTables
<1>6. QED  BY <1>3, <1>4, <1>5

LEMMA HookPiecesLack ==
  ASSUME NEW s, IsList(s.genesis), NEW n, BlockStored(n), NEW hook \in BlockHooks,
         NEW hooks, hooks \cap HooksOf(hook) = {}
  PROVE  Lacks(HookPieces(s, n, hook), hooks)
<1>1. /\ IsList(AuditsOf(s, n)) /\ IsList(SetToSeq(IndexedAt(stored[n], n)))
      /\ \A f \in RowTables : IsList(InOrder(n, stored[n][f]))
  BY HookRowsListed
<1>2. CASE hook = "account"
  <2>1. HookPieces(s, n, hook) = Pieces("audit", AuditsOf(s, n))
                                   \o Pieces("indexed", SetToSeq(IndexedAt(stored[n], n)))
    BY <1>2 DEF HookPieces
  <2>2. "audit" \notin hooks /\ "indexed" \notin hooks
    BY <1>2 DEF HooksOf
  <2>3. QED  BY <1>1, <2>1, <2>2, PiecesLack, LacksOn
<1>3. CASE hook # "account"
  <2>1. hook \notin hooks
    BY <1>3 DEF HooksOf
  <2>2. \E rows : IsList(rows) /\ HookPieces(s, n, hook) = Pieces(hook, rows)
    <3>1. CASE hook = "index"
      BY <1>1, <3>1 DEF HookPieces, RowTables
    <3>2. CASE hook = "identity"
      BY <1>1, <3>2 DEF HookPieces, RowTables
    <3>3. CASE hook = "judgement"
      BY <1>1, <3>3 DEF HookPieces, RowTables
    <3>4. CASE hook \in {"info", "total"}
      <4>1. HookPieces(s, n, hook) = Pieces(hook, <<n>>)
        BY <3>4 DEF HookPieces
      <4>2. QED  BY <4>1, AreLists
    <3>5. QED  BY <1>3, <3>1, <3>2, <3>3, <3>4 DEF BlockHooks
  <2>3. QED  BY <2>1, <2>2, PiecesLack
<1>4. QED  BY <1>2, <1>3

\* The hook has its pieces in one place, among the orders of hooks.
LEMMA HooksSegment ==
  ASSUME NEW s, IsList(s.genesis), NEW n, BlockStored(n), NEW order \in Orders,
         NEW own \in BlockHooks, IsList(HookPieces(s, n, own))
  PROVE  HasSegment(AllHooks(s, n, order), HookPieces(s, n, own), HooksOf(own))
<1> DEFINE S == DOMAIN order
           a == [s |-> s, n |-> n, order |-> order]
           part == HookPieces(s, n, own)
           hooks == HooksOf(own)
<1>0. /\ IsList(order) /\ \A hook \in BlockHooks : \E i \in S : order[i] = hook
      /\ \A i, j \in S : order[i] = order[j] => i = j
  BY SequencingAssumption DEF ToSet
<1>1. \A i \in S : order[i] \in BlockHooks
  BY SequencingAssumption DEF ToSet
<1>2. PICK iter : Gathering!Iterates(iter, a, <<>>, S) /\ AllHooks(s, n, order) = iter[S]
  BY <1>0, GatherIterates
<1>3. Gathering!Sized(S) /\ \A x \in SUBSET S : x # {} => Max(x) \in x
  BY <1>0, LastIsMember DEF Gathering!Sized, Indexing!Sized
<1> DEFINE Good(x) ==
             /\ (\E i \in x : order[i] = own) => HasSegment(iter[x], part, hooks)
             /\ (\A i \in x : order[i] # own) => Lacks(iter[x], hooks)
           G == {x \in SUBSET S : Good(x)}
<1>4. {} \in G
  <2>1. iter[{}] = <<>>
    BY <1>2 DEF Gathering!Iterates
  <2>2. Lacks(<<>>, hooks)
    BY AreLists DEF Lacks
  <2>3. QED  BY <2>1, <2>2
<1>5. ASSUME NEW x \in SUBSET S, x # {}, x \ {Max(x)} \in G PROVE x \in G
  <2> DEFINE u == iter[x \ {Max(x)}]
             hook == order[Max(x)]
             new == HookPieces(s, n, hook)
  <2>1. iter[x] = u \o new
    BY <1>2, <1>5 DEF Gathering!Iterates, GatherStep
  <2>2. /\ (\E i \in x \ {Max(x)} : order[i] = own) => HasSegment(u, part, hooks)
        /\ (\A i \in x \ {Max(x)} : order[i] # own) => Lacks(u, hooks)
    BY <1>5
  <2>3. Max(x) \in x /\ Max(x) \in S /\ hook \in BlockHooks
    BY <1>1, <1>3, <1>5
  <2>4. CASE hook = own
    <3>1. \A i \in x \ {Max(x)} : order[i] # own
      BY <1>0, <2>3, <2>4
    <3>2. HasSegment(new, part, hooks)
      BY <2>4, WholeSegment
    <3>3. Lacks(u, hooks)
      BY <2>2, <3>1
    <3> HIDE DEF u, new, part, hooks
    <3>4. HasSegment(iter[x], part, hooks)
      BY <2>1, <3>2, <3>3, SegmentAfter
    <3>5. \E i \in x : order[i] = own
      BY <2>3, <2>4
    <3>6. QED  BY <3>4, <3>5
  <2>5. CASE hook # own
    <3>1. hooks \cap HooksOf(hook) = {}
      BY <2>3, <2>5 DEF HooksOf, BlockHooks
    <3>2. Lacks(new, hooks)
      <4> HIDE DEF hooks
      <4>1. QED  BY <2>3, <3>1, HookPiecesLack
    <3> HIDE DEF u, new, part, hooks
    <3>3. CASE \E i \in x : order[i] = own
      <4>1. \E i \in x \ {Max(x)} : order[i] = own
        BY <2>5, <3>3
      <4>2. HasSegment(iter[x], part, hooks)
        BY <2>1, <2>2, <3>2, <4>1, SegmentBefore
      <4>3. QED  BY <3>3, <4>2
    <3>4. CASE \A i \in x : order[i] # own
      <4>1. Lacks(iter[x], hooks)
        BY <2>1, <2>2, <3>2, <3>4, LacksOn
      <4>2. QED  BY <3>4, <4>1
    <3>5. QED  BY <3>3, <3>4
  <2>6. QED  BY <2>4, <2>5
<1>6. S \in G
  <2> HIDE DEF G, S, a
  <2>1. QED  BY <1>3, <1>4, <1>5, Gathering!IterationKeeps
<1>7. QED  BY <1>0, <1>2, <1>6
LEMMA HookPiecesListed ==
  ASSUME NEW s, IsList(s.genesis), NEW n, BlockStored(n), NEW hook \in BlockHooks
  PROVE  IsList(HookPieces(s, n, hook))
<1>1. Lacks(HookPieces(s, n, hook), {})
  BY HookPiecesLack
<1>2. QED  BY <1>1 DEF Lacks

\* What there is for an audit hook is in one place of the pieces of the block.
LEMMA PiecesSegment ==
  ASSUME Filed, LedgerRight(ledger), NEW n \in Numbers, NEW shown, NEW order \in Orders,
         NEW own \in {"account", "index", "identity", "judgement"}
  PROVE  LET s == After(ledger, n, shown, GenesisPieces(n))
         IN /\ GenesisListed(s)
            /\ HasSegment(AllPieces(n, order, shown), HookPieces(s, n, own), HooksOf(own))
<1> DEFINE g == GenesisPieces(n)
           s == After(ledger, n, shown, g)
           roles == UNION {PieceRoles(g[k]) : k \in DOMAIN g}
           o == Pieces("old", <<n>>)
           m == AllHooks(s, n, order)
           places == [i \in DOMAIN content[n].extrinsics |-> i]
           c == Pieces("call", places)
           e == Pieces("event", content[n].events)
           part == HookPieces(s, n, own)
           hooks == HooksOf(own)
<1>1. AllPieces(n, order, shown) = g \o (o \o m \o c \o e)
  BY DEF AllPieces, BlockPieces, AllHooks
<1>2. ArePieces(n, g) /\ RolesWithin(g, roles) /\ \A k \in DOMAIN g : g[k].hook = "genesis"
  BY GenesisPiecesAre DEF RolesWithin
<1>3. BlockStored(n) /\ IsList(content[n].events) /\ IsList(content[n].extrinsics)
  BY StoredBlocks DEF IsBlock
<1>4. GenesisListed(s)
  <2> HIDE DEF roles, g
  <2>1. QED  BY <1>2, AfterBegun DEF Begun, LedgerRight
<1>5. own \in BlockHooks /\ hooks \cap {"genesis", "old", "call", "event"} = {}
  BY DEF BlockHooks, HooksOf
<1>6. Lacks(g, hooks)
  BY <1>2, <1>5 DEF Lacks, ArePieces
<1> HIDE DEF s, g, hooks
<1>7. IsList(part) /\ HasSegment(m, part, hooks)
  BY <1>3, <1>4, <1>5, HookPiecesListed, HooksSegment DEF hooks, GenesisListed
<1>8. Lacks(o, hooks) /\ Lacks(e, hooks)
  BY <1>3, <1>5, AreLists, PiecesLack
<1>9. Lacks(c, hooks)
  <2>1. IsList(places)
    <3>1. Len(content[n].extrinsics) \in Nat
          /\ DOMAIN content[n].extrinsics = 1 .. Len(content[n].extrinsics)
      BY <1>3, ListDomain
    <3>2. places = [i \in 1 .. Len(content[n].extrinsics) |-> places[i]]
      BY <3>1
    <3> HIDE DEF places
    <3>3. QED  BY <3>1, <3>2, FunctionIsList
  <2> HIDE DEF places
  <2>2. QED  BY <1>5, <2>1, PiecesLack
<1> HIDE DEF o, m, c, e, part
<1>10. HasSegment(o \o m \o c \o e, part, hooks)
  BY <1>7, <1>8, <1>9, SegmentAfter, SegmentBefore
<1>11. HasSegment(AllPieces(n, order, shown), part, hooks)
  BY <1>1, <1>6, <1>10, SegmentAfter
<1>12. QED  BY <1>4, <1>11 DEF s, g, part, hooks

\* The list has the rows, in the order of their events.
InTurn(list, rows) ==
  /\ IsList(list)
  /\ \A k \in DOMAIN list : list[k] \in rows
  /\ \A r \in rows : \E k \in DOMAIN list : list[k] = r
  /\ \A j, k \in DOMAIN list : j < k => list[j][2] < list[k][2]

LEMMA OneListed ==
  ASSUME NEW S, S = {} \/ \E x : S = {x}
  PROVE  LET f == SetToSeq(S)
         IN /\ IsList(f) /\ \A k \in DOMAIN f : f[k] \in S
            /\ \A r \in S : \E k \in DOMAIN f : f[k] = r
            /\ \A j, k \in DOMAIN f : j = k
<1> DEFINE m == Cardinality(S)
           f == SetToSeq(S)
<1>1. IsFiniteSet(S) /\ m \in {0, 1} /\ (S # {} => m = 1)
  BY FS_EmptySet, FS_Singleton
<1>2. ExistsBijection(1 .. m, S)
  BY <1>1, FS_CardinalityType
<1>3. \E g \in [1 .. m -> S] : IsInjective(g)
  BY <1>2 DEF ExistsBijection, Bijection, Injection
<1>4. f \in [1 .. m -> S]
  BY <1>3 DEF SetToSeq
<1>5. IsList(f) /\ \A k \in DOMAIN f : f[k] \in S
  BY <1>1, ListsSet
<1> HIDE DEF f, m
<1>6. \A j, k \in 1 .. m : j = k
  BY <1>1
<1>7. \A r \in S : \E k \in DOMAIN f : f[k] = r
  <2>1. ASSUME NEW r \in S PROVE \E k \in DOMAIN f : f[k] = r
    <3>1. 1 \in DOMAIN f /\ S = {r}
      BY <1>1, <1>4
    <3>2. QED  BY <1>5, <3>1
  <2>2. QED  BY <2>1
<1>8. \A j, k \in DOMAIN f : j = k
  BY <1>4, <1>6
<1>9. QED  BY <1>5, <1>7, <1>8 DEF f

\* Rows of later events come after.
LEMMA InTurnOn ==
  ASSUME NEW a, NEW R, InTurn(a, R), NEW b, NEW Q, InTurn(b, Q),
         \A r \in R, q \in Q : r[2] < q[2]
  PROVE  InTurn(a \o b, R \cup Q)
<1> DEFINE c == a \o b
<1>0. IsList(a) /\ IsList(b)
  BY DEF InTurn
<1>1. IsJoined(c, a, b)
  BY <1>0, JoinsLists
<1> HIDE DEF c
<1>2. /\ Len(a) \in Nat /\ DOMAIN a = 1 .. Len(a)
      /\ Len(b) \in Nat /\ DOMAIN b = 1 .. Len(b) /\ DOMAIN c = 1 .. Len(a) + Len(b)
  BY <1>0, <1>1, ListDomain DEF IsJoined
<1>3. \A k \in DOMAIN c : k <= Len(a) => k \in DOMAIN a /\ c[k] = a[k]
  BY <1>1, <1>2 DEF IsJoined
<1>4. ASSUME NEW k \in DOMAIN c, k > Len(a) PROVE k - Len(a) \in DOMAIN b /\ c[k] = b[k - Len(a)]
  <2>1. k - Len(a) \in 1 .. Len(b) /\ Len(a) + (k - Len(a)) = k
    BY <1>2, <1>4
  <2>2. QED  BY <1>1, <1>2, <2>1 DEF IsJoined
<1>5. \A k \in DOMAIN c : c[k] \in R \cup Q
  BY <1>2, <1>3, <1>4 DEF InTurn
<1>6. ASSUME NEW r \in R \cup Q PROVE \E k \in DOMAIN c : c[k] = r
  <2>1. CASE r \in R
    <3>1. PICK k \in DOMAIN a : a[k] = r
      BY <2>1 DEF InTurn
    <3>2. k \in DOMAIN c /\ c[k] = a[k]
      BY <1>1, <1>2 DEF IsJoined
    <3>3. QED  BY <3>1, <3>2
  <2>2. CASE r \in Q
    <3>1. PICK k \in DOMAIN b : b[k] = r
      BY <2>2 DEF InTurn
    <3>2. Len(a) + k \in DOMAIN c /\ c[Len(a) + k] = b[k]
      BY <1>1, <1>2 DEF IsJoined
    <3>3. QED  BY <3>1, <3>2
  <2>3. QED  BY <2>1, <2>2
<1>7. ASSUME NEW j \in DOMAIN c, NEW k \in DOMAIN c, j < k PROVE c[j][2] < c[k][2]
  <2>1. CASE k <= Len(a)
    <3>1. j <= Len(a)
      BY <1>2, <1>7, <2>1
    <3>2. QED  BY <1>3, <1>7, <2>1, <3>1 DEF InTurn
  <2>2. CASE j > Len(a)
    <3>1. k > Len(a)
      BY <1>2, <1>7, <2>2
    <3>2. j - Len(a) < k - Len(a)
      BY <1>2, <1>7
    <3>3. QED  BY <1>4, <2>2, <3>1, <3>2 DEF InTurn
  <2>3. CASE j <= Len(a) /\ k > Len(a)
    <3>1. c[j] \in R
      BY <1>3, <2>3 DEF InTurn
    <3>2. c[k] \in Q
      BY <1>4, <2>3 DEF InTurn
    <3>3. QED  BY <3>1, <3>2
  <2>4. QED  BY <1>2, <2>1, <2>2, <2>3
<1>8. IsList(c)
  BY <1>1 DEF IsJoined
<1>9. InTurn(c, R \cup Q)
  BY <1>5, <1>6, <1>7, <1>8 DEF InTurn
<1>10. QED  BY <1>9 DEF c

\* The rows of the events up to place k.
RowsTo(rows, k) == {r \in rows : r[2] <= k}

LEMMA OrderInTurn ==
  ASSUME NEW n, NEW m, NEW f, IsList(content[n].events), NEW audits,
         RowsFrom(audits, m, DOMAIN content[n].events, f)
  PROVE  InTurn(InOrder(n, audits), audits)
<1> DEFINE len == Len(content[n].events)
<1>1. len \in Nat /\ DOMAIN content[n].events = 1 .. len
  BY ListDomain
<1>2. PICK iter : /\ Ordering!Iterates(iter, audits, <<>>, 1 .. len)
                  /\ InOrder(n, audits) = iter[1 .. len]
  BY <1>1, OrderIterates
<1>3. \A k \in 1 .. len : Max(1 .. k) = k
  BY <1>1, MaxUpTo
<1>4. \A r \in audits : r[2] \in 1 .. len
  BY <1>1 DEF RowsFrom
<1>5. \A r, q \in audits : r[2] = q[2] => r = q
  BY DEF RowsFrom
<1> HIDE DEF len
<1>6. PICK run : /\ run[0] = <<>> /\ run[len] = iter[1 .. len]
                 /\ \A k \in 1 .. len : run[k] = OrderStep(audits, k, run[k - 1])
  BY <1>1, <1>2, <1>3, Ordering!RunExists
<1> DEFINE G == {k \in 0 .. len : InTurn(run[k], RowsTo(audits, k))}
<1>7. 0 \in G
  <2>1. RowsTo(audits, 0) = {}
    BY <1>1, <1>4 DEF RowsTo
  <2>2. InTurn(<<>>, {})
    BY AreLists DEF InTurn
  <2>3. InTurn(run[0], RowsTo(audits, 0))
    BY <1>6, <2>1, <2>2
  <2>4. QED  BY <1>1, <2>3
<1>8. ASSUME NEW k \in 0 .. len - 1, k \in G PROVE k + 1 \in G
  <2> DEFINE part == {r \in audits : r[2] = k + 1}
  <2>1. part = {} \/ \E x : part = {x}
    BY <1>5
  <2>2. InTurn(SetToSeq(part), part)
    <3> DEFINE f0 == SetToSeq(part)
    <3> HIDE DEF part
    <3>1. /\ IsList(f0) /\ \A j \in DOMAIN f0 : f0[j] \in part
          /\ \A r \in part : \E j \in DOMAIN f0 : f0[j] = r
          /\ \A i, j \in DOMAIN f0 : i = j
      BY <2>1, OneListed
    <3> HIDE DEF f0
    <3>2. DOMAIN f0 = 1 .. Len(f0) /\ Len(f0) \in Nat
      BY <3>1, ListDomain
    <3>3. \A i, j \in DOMAIN f0 : ~(i < j)
      BY <3>1, <3>2
    <3>4. InTurn(f0, part)
      BY <3>1, <3>3 DEF InTurn
    <3>5. QED  BY <3>4 DEF f0
  <2>3. k \in Nat /\ k + 1 \in 1 .. len /\ (k + 1) - 1 = k
    BY <1>1
  <2>4. run[k + 1] = run[k] \o SetToSeq(part)
    BY <1>6, <2>3 DEF OrderStep
  <2>5. \A r \in RowsTo(audits, k), q \in part : r[2] < q[2]
    BY <1>1, <1>4, <2>3 DEF RowsTo
  <2>6. InTurn(run[k], RowsTo(audits, k))
    BY <1>8
  <2>7. RowsTo(audits, k + 1) = RowsTo(audits, k) \cup part
    BY <1>1, <1>4, <2>3 DEF RowsTo
  <2> HIDE DEF part
  <2>8. InTurn(run[k + 1], RowsTo(audits, k + 1))
    BY <2>2, <2>4, <2>5, <2>6, <2>7, InTurnOn
  <2>9. k + 1 \in 0 .. len
    BY <1>1, <2>3
  <2>10. QED  BY <2>8, <2>9
<1>9. len \in G
  <2> HIDE DEF G
  <2>1. \A k \in 0 .. len - 1 : k \in G => k + 1 \in G
    BY <1>8
  <2>2. \A k \in 0 .. len : k \in G
    BY <1>1, <1>7, <2>1, Working!CountUp
  <2>3. QED  BY <1>1, <2>2
<1>10. RowsTo(audits, len) = audits
  BY <1>1, <1>4 DEF RowsTo
<1>11. InTurn(run[len], RowsTo(audits, len))
  BY <1>9
<1>12. QED  BY <1>2, <1>6, <1>10, <1>11
------------------------------------------------------------------------------
(* The audits of a block among its pieces.                                  *)

\* The pieces for a hook are the rows, in the order of their events.
RowPieces(pieces, hook, rows) ==
  /\ \A k \in DOMAIN pieces : pieces[k].hook = hook => pieces[k].row \in rows
  /\ \A r \in rows : \E k \in DOMAIN pieces : pieces[k].hook = hook /\ pieces[k].row = r
  /\ \A j, k \in DOMAIN pieces :
       pieces[j].hook = hook /\ pieces[k].hook = hook /\ j < k
         => pieces[j].row[2] < pieces[k].row[2]

LEMMA PiecesInTurn ==
  ASSUME NEW list, NEW rows, InTurn(list, rows), NEW hook
  PROVE  RowPieces(Pieces(hook, list), hook, rows)
<1> DEFINE p == Pieces(hook, list)
<1>1. IsList(list) /\ ArePiecesOf(p, hook, list)
  BY PiecesAre DEF InTurn
<1> HIDE DEF p
<1>2. DOMAIN p = DOMAIN list
  BY <1>1, ListDomain DEF ArePiecesOf
<1>3. \A k \in DOMAIN p : p[k].hook = hook /\ p[k].row = list[k]
  BY <1>1 DEF ArePiecesOf
<1>4. RowPieces(p, hook, rows)
  BY <1>2, <1>3 DEF RowPieces, InTurn
<1>5. QED  BY <1>4 DEF p

\* The rows of a part that has all pieces of the hook.
LEMMA SegmentRows ==
  ASSUME NEW all, NEW part, NEW hooks, HasSegment(all, part, hooks), NEW hook \in hooks, NEW rows,
         RowPieces(part, hook, rows)
  PROVE  RowPieces(all, hook, rows)
<1>1. PICK from : Segment(all, part, from, hooks)
  BY DEF HasSegment
<1>2. /\ from \in Nat /\ Len(all) \in Nat /\ DOMAIN all = 1 .. Len(all)
      /\ Len(part) \in Nat /\ DOMAIN part = 1 .. Len(part) /\ from + Len(part) <= Len(all)
  BY <1>1, ListDomain DEF Segment
<1>3. ASSUME NEW k \in DOMAIN all, all[k].hook = hook
      PROVE  k - from \in DOMAIN part /\ all[k] = part[k - from]
  <2>1. ~(k <= from \/ k > from + Len(part))
    BY <1>1, <1>3 DEF Segment
  <2>2. k - from \in DOMAIN part /\ from + (k - from) = k
    BY <1>2, <2>1
  <2>3. QED  BY <1>1, <2>2 DEF Segment
<1>4. \A k \in DOMAIN all : all[k].hook = hook => all[k].row \in rows
  BY <1>3 DEF RowPieces
<1>5. ASSUME NEW r \in rows PROVE \E k \in DOMAIN all : all[k].hook = hook /\ all[k].row = r
  <2>1. PICK i \in DOMAIN part : part[i].hook = hook /\ part[i].row = r
    BY DEF RowPieces
  <2>2. from + i \in DOMAIN all /\ all[from + i] = part[i]
    BY <1>1, <1>2 DEF Segment
  <2>3. QED  BY <2>1, <2>2
<1>6. ASSUME NEW j \in DOMAIN all, NEW k \in DOMAIN all, all[j].hook = hook, all[k].hook = hook, j < k
      PROVE  all[j].row[2] < all[k].row[2]
  <2>1. /\ j - from \in DOMAIN part /\ all[j] = part[j - from]
        /\ k - from \in DOMAIN part /\ all[k] = part[k - from]
    BY <1>3, <1>6
  <2>2. j - from < k - from
    BY <1>2, <1>6
  <2>3. QED  BY <1>6, <2>1, <2>2 DEF RowPieces
<1>7. QED  BY <1>4, <1>5, <1>6 DEF RowPieces

\* The audits of accounts come before what the search index tells of accounts.
AuditsFirst(pieces) ==
  \A j, k \in DOMAIN pieces : pieces[j].hook = "audit" /\ pieces[k].hook = "indexed" => j < k

LEMMA SegmentFirst ==
  ASSUME NEW all, NEW a, IsList(a), NEW b, IsList(b),
         HasSegment(all, Pieces("audit", a) \o Pieces("indexed", b), {"audit", "indexed"})
  PROVE  /\ AuditsFirst(all)
         /\ \A k \in DOMAIN all :
              all[k].hook = "audit" => \E i \in DOMAIN a : all[k].row = a[i]
<1> DEFINE p == Pieces("audit", a)
           q == Pieces("indexed", b)
           part == p \o q
<1>1. ArePiecesOf(p, "audit", a) /\ ArePiecesOf(q, "indexed", b)
  BY PiecesAre
<1> HIDE DEF p, q
<1>2. IsJoined(part, p, q)
  BY <1>1, JoinsLists DEF ArePiecesOf
<1> HIDE DEF part
<1>3. PICK from : Segment(all, part, from, {"audit", "indexed"})
  BY DEF HasSegment, part, p, q
<1>4. /\ from \in Nat /\ Len(all) \in Nat /\ DOMAIN all = 1 .. Len(all)
      /\ Len(p) \in Nat /\ DOMAIN p = 1 .. Len(p) /\ Len(q) \in Nat /\ DOMAIN q = 1 .. Len(q)
      /\ DOMAIN part = 1 .. Len(p) + Len(q) /\ Len(part) = Len(p) + Len(q)
  BY <1>1, <1>2, <1>3, ListDomain DEF Segment, ArePiecesOf, IsJoined
<1>5. \A k \in 1 .. Len(p) : part[k].hook = "audit" /\ \E i \in DOMAIN a : part[k].row = a[i]
  BY <1>1, <1>2, <1>4 DEF ArePiecesOf, IsJoined
<1>6. ASSUME NEW k \in 1 .. Len(p) + Len(q), k > Len(p) PROVE part[k].hook = "indexed"
  <2>1. k - Len(p) \in DOMAIN q /\ Len(p) + (k - Len(p)) = k
    BY <1>4, <1>6
  <2>2. part[k] = q[k - Len(p)]
    BY <1>2, <1>4, <2>1 DEF IsJoined
  <2>3. QED  BY <1>1, <2>1, <2>2 DEF ArePiecesOf
<1>7. ASSUME NEW k \in DOMAIN all, all[k].hook \in {"audit", "indexed"}
      PROVE  k - from \in 1 .. Len(p) + Len(q) /\ all[k] = part[k - from]
  <2>1. ~(k <= from \/ k > from + Len(part))
    BY <1>3, <1>7 DEF Segment
  <2>2. k - from \in DOMAIN part /\ from + (k - from) = k
    BY <1>4, <2>1
  <2>3. QED  BY <1>3, <1>4, <2>2 DEF Segment
<1>8. ASSUME NEW k \in DOMAIN all, all[k].hook = "audit"
      PROVE  k - from <= Len(p) /\ \E i \in DOMAIN a : all[k].row = a[i]
  <2>1. k - from \in 1 .. Len(p) + Len(q) /\ all[k] = part[k - from]
    BY <1>7, <1>8
  <2>2. ~(k - from > Len(p))
    BY <1>6, <1>8, <2>1
  <2>3. k - from \in 1 .. Len(p)
    BY <1>4, <2>1, <2>2
  <2>4. QED  BY <1>5, <2>1, <2>3
<1>9. ASSUME NEW k \in DOMAIN all, all[k].hook = "indexed" PROVE k - from > Len(p)
  <2>1. k - from \in 1 .. Len(p) + Len(q) /\ all[k] = part[k - from]
    BY <1>7, <1>9
  <2>2. ~(k - from \in 1 .. Len(p))
    BY <1>5, <1>9, <2>1
  <2>3. QED  BY <1>4, <2>1, <2>2
<1>10. \A j, k \in DOMAIN all : all[j].hook = "audit" /\ all[k].hook = "indexed" => j < k
  BY <1>4, <1>8, <1>9
<1>11. QED  BY <1>8, <1>10 DEF AuditsFirst

\* What a whole call goes through of the audits of its block.
WholeRows(w) ==
  LET t == stored[w.n]
  IN /\ RowPieces(w.pieces, "index", t.indices) /\ RowPieces(w.pieces, "identity", t.identities)
     /\ RowPieces(w.pieces, "judgement", t.judgements)
     /\ w.n # 0 => RowPieces(w.pieces, "audit", t.audits)
     /\ w.n = 0 => \A k \in DOMAIN w.pieces : w.pieces[k].hook = "audit" => w.pieces[k].row[3] = "new"
     /\ AuditsFirst(w.pieces)

LEMMA WholeHasRows ==
  ASSUME Filed, LedgerRight(ledger), NEW w, w.n \in Numbers, Whole(w)
  PROVE  WholeRows(w)
<1>1. PICK order \in Orders : w.pieces = AllPieces(w.n, order, w.shown)
  BY DEF Whole
<1> DEFINE n == w.n
           all == w.pieces
           s == After(ledger, n, w.shown, GenesisPieces(n))
<1>2. \A own \in {"account", "index", "identity", "judgement"} :
        GenesisListed(s) /\ HasSegment(all, HookPieces(s, n, own), HooksOf(own))
  BY <1>1, PiecesSegment
<1> HIDE DEF s, all
<1>3. BlockStored(n) /\ IsList(content[n].events)
  BY StoredBlocks DEF IsBlock
<1>4. \A f \in RowTables : RowsFrom(stored[n][f], n, DOMAIN content[n].events, f)
  BY StoredRows
<1>5. \A f \in RowTables : InTurn(InOrder(n, stored[n][f]), stored[n][f])
  BY <1>3, <1>4, OrderInTurn
<1>6. RowPieces(all, "index", stored[n].indices)
  <2>1. HasSegment(all, Pieces("index", InOrder(n, stored[n].indices)), {"index"})
    BY <1>2 DEF HookPieces, HooksOf
  <2>2. RowPieces(Pieces("index", InOrder(n, stored[n].indices)), "index", stored[n].indices)
    BY <1>5, PiecesInTurn DEF RowTables
  <2>3. QED  BY <2>1, <2>2, SegmentRows
<1>7. RowPieces(all, "identity", stored[n].identities)
  <2>1. HasSegment(all, Pieces("identity", InOrder(n, stored[n].identities)), {"identity"})
    BY <1>2 DEF HookPieces, HooksOf
  <2>2. RowPieces(Pieces("identity", InOrder(n, stored[n].identities)), "identity",
                  stored[n].identities)
    BY <1>5, PiecesInTurn DEF RowTables
  <2>3. QED  BY <2>1, <2>2, SegmentRows
<1>8. RowPieces(all, "judgement", stored[n].judgements)
  <2>1. HasSegment(all, Pieces("judgement", InOrder(n, stored[n].judgements)), {"judgement"})
    BY <1>2 DEF HookPieces, HooksOf
  <2>2. RowPieces(Pieces("judgement", InOrder(n, stored[n].judgements)), "judgement",
                  stored[n].judgements)
    BY <1>5, PiecesInTurn DEF RowTables
  <2>3. QED  BY <2>1, <2>2, SegmentRows
<1> DEFINE a == AuditsOf(s, n)
           b == SetToSeq(IndexedAt(stored[n], n))
           part == Pieces("audit", a) \o Pieces("indexed", b)
<1>9. HasSegment(all, part, {"audit", "indexed"})
  BY <1>2 DEF HookPieces, HooksOf
<1>10. IsList(a) /\ IsList(b)
  BY <1>2, <1>3, HookRowsListed DEF GenesisListed
<1>11. n # 0 => RowPieces(all, "audit", stored[n].audits)
  <2>1. SUFFICES ASSUME n # 0 PROVE RowPieces(all, "audit", stored[n].audits)
    OBVIOUS
  <2>2. InTurn(a, stored[n].audits)
    BY <1>5, <2>1 DEF AuditsOf, RowTables
  <2> HIDE DEF a, b
  <2>3. RowPieces(Pieces("audit", a), "audit", stored[n].audits)
    BY <2>2, PiecesInTurn
  <2>4. Lacks(Pieces("indexed", b), {"audit"})
    BY <1>10, PiecesLack
  <2>5. IsList(Pieces("audit", a))
    BY <1>10, PiecesAre DEF ArePiecesOf
  <2>6. HasSegment(part, Pieces("audit", a), {"audit"})
    BY <2>4, <2>5, WholeSegment, SegmentBefore
  <2> HIDE DEF part
  <2>7. RowPieces(part, "audit", stored[n].audits)
    BY <2>3, <2>6, SegmentRows
  <2>8. QED  BY <1>9, <2>7, SegmentRows
<1>12. n = 0 => \A i \in DOMAIN a : a[i][3] = "new"
  BY <1>2 DEF AuditsOf, GenesisListed, OfGenesis
<1> HIDE DEF a, b
<1>13. /\ AuditsFirst(all)
       /\ \A k \in DOMAIN all : all[k].hook = "audit" => \E i \in DOMAIN a : all[k].row = a[i]
  BY <1>9, <1>10, SegmentFirst
<1>14. n = 0 => \A k \in DOMAIN all : all[k].hook = "audit" => all[k].row[3] = "new"
  BY <1>12, <1>13
<1>15. QED  BY <1>6, <1>7, <1>8, <1>11, <1>13, <1>14 DEF WholeRows, all
------------------------------------------------------------------------------
(* What the pieces fold up of accounts, indices and judgements.             *)

\* The fields that audits fold up, and nothing else.
FoldFields == {"reaped", "count_reaped", "identity"}

FieldsKept(u, s) ==
  /\ DOMAIN u.accounts = DOMAIN s.accounts
  /\ \A a \in DOMAIN s.accounts, f \in FoldFields : u.accounts[a][f] = s.accounts[a][f]

\* Who has been reaped, and how often.
ReapedFold(u, s, piece) ==
  /\ \A a \in DOMAIN s.accounts :
       LET row == u.accounts[a]
           old == s.accounts[a]
           reaped == piece.row[3] = "reaped"
       IN IF piece.hook = "audit" /\ piece.row[4] = a
          THEN /\ row.reaped = reaped
               /\ row.count_reaped = IF reaped THEN old.count_reaped + 1 ELSE old.count_reaped
          ELSE row.reaped = old.reaped /\ row.count_reaped = old.count_reaped
  /\ \A a \in DOMAIN u.accounts \ DOMAIN s.accounts :
       /\ (piece.hook = "audit" /\ piece.row[4] = a) \/ (piece.hook = "indexed" /\ piece.row = a)
       /\ u.accounts[a].reaped = FALSE /\ u.accounts[a].count_reaped = 0
  /\ piece.hook = "audit" => piece.row[4] \in DOMAIN u.accounts

IdentityFold(u, s, piece) ==
  \A a \in DOMAIN s.accounts :
    u.accounts[a].identity =
      IF piece.hook = "identity" /\ piece.row[4] = a
      THEN IF piece.row[3] = "set" THEN piece.row[5] ELSE Null
      ELSE s.accounts[a].identity

OwnersFold(u, s, piece) ==
  u.owners =
    IF piece.hook # "index" THEN s.owners
    ELSE IF piece.row[3] = "new" THEN Put(s.owners, piece.row[5], piece.row[4])
    ELSE [i \in DOMAIN s.owners |-> IF i \in Freed(s, piece.row) THEN Null ELSE s.owners[i]]

JudgementsFold(u, s, piece) ==
  u.judgements =
    IF piece.hook = "judgement" /\ piece.row[5].value # Null
    THEN Put(s.judgements, <<piece.row[4], piece.row[5].registrar>>, piece.row[5].value)
    ELSE s.judgements

Folds(u, s, piece) ==
  /\ DOMAIN s.accounts \subseteq DOMAIN u.accounts
  /\ ReapedFold(u, s, piece) /\ IdentityFold(u, s, piece)
  /\ OwnersFold(u, s, piece) /\ JudgementsFold(u, s, piece)

LEMMA FieldsSame ==
  ASSUME NEW u, NEW s, u.accounts = s.accounts
  PROVE  FieldsKept(u, s)
BY DEF FieldsKept

LEMMA FieldsKeptOn ==
  ASSUME NEW u, NEW v, NEW s, FieldsKept(v, s), FieldsKept(u, v)
  PROVE  FieldsKept(u, s)
BY DEF FieldsKept

\* A piece that touches none of it.
LEMMA NothingFolded ==
  ASSUME NEW u, NEW s, NEW piece, FieldsKept(u, s), u.owners = s.owners, u.judgements = s.judgements,
         piece.hook \notin {"audit", "index", "identity", "judgement"}
  PROVE  Folds(u, s, piece)
<1>1. \A a \in DOMAIN s.accounts :
        /\ u.accounts[a].reaped = s.accounts[a].reaped
        /\ u.accounts[a].count_reaped = s.accounts[a].count_reaped
        /\ u.accounts[a].identity = s.accounts[a].identity
  BY DEF FieldsKept, FoldFields
<1>2. ReapedFold(u, s, piece)
  BY <1>1 DEF ReapedFold, FieldsKept
<1>3. IdentityFold(u, s, piece)
  BY <1>1 DEF IdentityFold
<1>4. OwnersFold(u, s, piece) /\ JudgementsFold(u, s, piece)
  BY DEF OwnersFold, JudgementsFold
<1>5. QED  BY <1>2, <1>3, <1>4 DEF Folds, FieldsKept

LEMMA RoleFields ==
  ASSUME NEW s, IsLedger(s), NEW role, NEW accounts
  PROVE  LET u == SetRole(s, role, accounts)
         IN FieldsKept(u, s) /\ u.owners = s.owners /\ u.judgements = s.judgements
<1> DEFINE u == SetRole(s, role, accounts)
           take(row) == Marked(row, role)
           lose(row) == Unmarked(row, role)
<1>1. /\ OnlyChanges(u, s, {"accounts"})
      /\ u.accounts = [a \in DOMAIN s.accounts |->
                         IF a \in accounts THEN take(s.accounts[a]) ELSE lose(s.accounts[a])]
  BY DEF SetRole, OnlyChanges, IsLedger, HasFields, LedgerFields
<1>2. \A row : IsAccount(row) => \A f \in FoldFields : take(row)[f] = row[f] /\ lose(row)[f] = row[f]
  BY DEF IsAccount, AccountFields, FoldFields, Marked, Unmarked
<1>3. \A a \in DOMAIN s.accounts : IsAccount(s.accounts[a])
  BY DEF IsLedger
<1> HIDE DEF u, take, lose
<1>4. FieldsKept(u, s)
  BY <1>1, <1>2, <1>3 DEF FieldsKept
<1>5. QED  BY <1>1, <1>4 DEF OnlyChanges, LedgerFields, u

\* A session gives roles.
LEMMA SessionFields1 ==
  ASSUME NEW s, IsLedger(s), NEW n, NEW e, NEW new
  PROVE  LET u == NewSession(s, n, e, new)
         IN FieldsKept(u, s) /\ u.owners = s.owners /\ u.judgements = s.judgements
<1> DEFINE u == NewSession(s, n, e, new)
           t1 == WithValidators(s, e)
           t2 == WithNominators(t1, e)
           t3 == WithSession(t2, n, e)
           t4 == SetRole(t3, "validator", ToSet(e.validators))
           them == UNION {ToSet(e.nominators[v]) : v \in DOMAIN e.validators}
           t5 == SetRole(t4, "nominator", them)
<1>0. \/ u = t5
      \/ u = [s EXCEPT !.failed = TRUE]
      \/ u = [t2 EXCEPT !.raised = TRUE]
  BY DEF NewSession, AddSessionOld, AddSession, Flagged
<1>1. SessionAdded(u, s, n, e)
  BY NewSessionKeeps
<1>2. u.owners = s.owners /\ u.judgements = s.judgements
  BY <1>1 DEF SessionAdded, OnlyChanges, LedgerFields, SessionFields
<1>3. OnlyChanges(t1, s, {"validators"})
  BY DEF WithValidators, OnlyChanges, IsLedger, HasFields, LedgerFields
<1> HIDE DEF t1, u
<1>4. OnlyChanges(t2, t1, {"nominators", "failed"})
  BY <1>3 DEF WithNominators, OnlyChanges, HasFields, LedgerFields
<1> HIDE DEF t2
<1>5. OnlyChanges(t3, t2, {"sessions", "sessionTotals"})
  BY <1>4 DEF WithSession, OnlyChanges, HasFields, LedgerFields
<1> HIDE DEF t3
<1>6. OnlyChanges(t3, s, SessionFields \ {"accounts"}) /\ t3.accounts = s.accounts
      /\ t2.accounts = s.accounts
  BY <1>3, <1>4, <1>5 DEF OnlyChanges, SessionFields, LedgerFields
<1>7. IsLedger(t3)
  <2>1. AccountsKept(t3, s, n, {})
    BY <1>6, AccountsUnchanged
  <2>2. {"totals", "current"} \cap (SessionFields \ {"accounts"}) = {}
    BY DEF SessionFields
  <2>3. QED  BY <1>6, <2>1, <2>2, StaysLedger
<1>8. FieldsKept(t4, t3) /\ IsLedger(t4)
  <2>1. OnlyChanges(t4, t3, {"accounts"}) /\ AccountsKept(t4, t3, n, {"validator"})
    BY <1>7, SetRoleKeeps
  <2>2. QED  BY <1>7, <2>1, RoleFields, StaysLedger
<1> HIDE DEF t4, them
<1>9. FieldsKept(t5, t4)
  BY <1>8, RoleFields
<1> HIDE DEF t5
<1>10. FieldsKept(t5, s)
  BY <1>6, <1>8, <1>9, FieldsSame, FieldsKeptOn
<1>11. CASE u = t5
  BY <1>2, <1>10, <1>11 DEF u
<1>12. CASE u = [s EXCEPT !.failed = TRUE]
  <2>1. u.accounts = s.accounts
    BY <1>12 DEF IsLedger, HasFields, LedgerFields
  <2>2. QED  BY <1>2, <2>1, FieldsSame DEF u
<1>13. CASE u = [t2 EXCEPT !.raised = TRUE]
  <2>1. u.accounts = s.accounts
    BY <1>4, <1>6, <1>13 DEF OnlyChanges, HasFields, LedgerFields
  <2>2. QED  BY <1>2, <2>1, FieldsSame DEF u
<1>14. QED  BY <1>0, <1>11, <1>12, <1>13

\* The pieces that are no audits.
LEMMA OtherFolds ==
  ASSUME NEW s, IsLedger(s), NEW n, NEW shown, NEW piece, IsPiece(n, piece),
         piece.hook \in {"genesis", "old", "info", "total", "call", "event"}
  PROVE  Folds(Done(s, n, shown, piece), s, piece)
<1> DEFINE u == Done(s, n, shown, piece)
<1>0. FieldsKept(u, s) /\ u.owners = s.owners /\ u.judgements = s.judgements => Folds(u, s, piece)
  BY NothingFolded
<1>1. CASE SessionPiece(piece)
  <2>1. \E e, m, new : u = NewSession(s, m, e, new)
    <3>1. CASE piece.hook = "genesis"
      <4>1. u = GenesisDone(s, "session", shown)
        BY <1>1, <3>1 DEF Done, SessionPiece, IsEvent
      <4> HIDE DEF u
      <4>2. QED  BY <4>1 DEF GenesisDone
    <3>2. CASE piece.hook # "genesis"
      <4>1. u = EventDone(s, n, shown, piece.row) /\ piece.row.kind = "NewSession"
        BY <1>1, <3>2 DEF Done, SessionPiece, IsEvent
      <4> HIDE DEF u
      <4>2. u = NewSession(s, n, SessionShown(piece.row, shown), NewHandler(n))
        BY <4>1 DEF EventDone
      <4>3. QED  BY <4>2
    <3>3. QED  BY <3>1, <3>2
  <2> HIDE DEF u
  <2>2. FieldsKept(u, s) /\ u.owners = s.owners /\ u.judgements = s.judgements
    BY <2>1, SessionFields1
  <2>3. QED  BY <1>0, <2>2 DEF u
<1>2. CASE piece.hook \in {"genesis", "old", "total"} /\ ~SessionPiece(piece)
  <2>1. u.accounts = s.accounts /\ u.owners = s.owners /\ u.judgements = s.judgements
    <3>1. CASE piece.hook = "genesis"
      <4>1. u = GenesisDone(s, piece.row, shown) /\ piece.row \in GenesisParts \ {"session"}
        BY <1>2, <3>1 DEF Done, IsPiece, SessionPiece
      <4>2. CASE piece.row = "added"
        BY <4>1, <4>2 DEF GenesisDone, IsLedger, HasFields, LedgerFields
      <4>3. CASE piece.row = "accounts"
        BY <4>1, <4>3 DEF GenesisDone, IsLedger, HasFields, LedgerFields
      <4>4. CASE piece.row = "sudo"
        BY <4>1, <4>4 DEF GenesisDone, IsLedger, HasFields, LedgerFields
      <4>5. CASE piece.row = "members"
        BY <4>1, <4>5 DEF GenesisDone, IsLedger, HasFields, LedgerFields
      <4>6. QED  BY <4>1, <4>2, <4>3, <4>4, <4>5 DEF GenesisParts
    <3>2. CASE piece.hook = "old"
      BY <3>2 DEF Done, IsLedger, HasFields, LedgerFields
    <3>3. CASE piece.hook = "total"
      <4>1. u = TotalDone(s, n)
        BY <3>3 DEF Done
      <4> HIDE DEF u
      <4>2. QED  BY <4>1 DEF TotalDone, IsLedger, HasFields, LedgerFields
    <3>4. QED  BY <1>2, <3>1, <3>2, <3>3
  <2> HIDE DEF u
  <2>2. QED  BY <1>0, <2>1, FieldsSame DEF u
<1>3. CASE piece.hook = "info"
  <2> DEFINE accounts == {key[2] : key \in {k \in snapshots : k[1] = n}}
             put(row) == [row EXCEPT !.balance = n]
  <2>1. u = SnapshotsApplied(s, n, accounts)
    BY <1>3 DEF Done
  <2> HIDE DEF u, accounts
  <2>2. /\ u.owners = s.owners /\ u.judgements = s.judgements
        /\ u.accounts = [a \in DOMAIN s.accounts |->
                           IF a \in accounts THEN put(s.accounts[a]) ELSE s.accounts[a]]
    BY <2>1 DEF SnapshotsApplied, IsLedger, HasFields, LedgerFields
  <2>3. \A row : IsAccount(row) => \A f \in FoldFields : put(row)[f] = row[f]
    BY DEF IsAccount, AccountFields, FoldFields
  <2>4. \A a \in DOMAIN s.accounts : IsAccount(s.accounts[a])
    BY DEF IsLedger
  <2> HIDE DEF put
  <2>5. FieldsKept(u, s)
    BY <2>2, <2>3, <2>4 DEF FieldsKept
  <2>6. QED  BY <1>0, <2>2, <2>5 DEF u
<1>4. CASE piece.hook \in {"call", "event"} /\ ~SessionPiece(piece)
  <2>1. \/ u = s
        \/ \E role, accounts : u = SetRole(s, role, accounts)
        \/ \E burn : u = [s EXCEPT !.current.burn = burn]
    BY <1>4, EventIs
  <2> HIDE DEF u
  <2>2. ASSUME NEW burn, u = [s EXCEPT !.current.burn = burn]
        PROVE  u.accounts = s.accounts /\ u.owners = s.owners /\ u.judgements = s.judgements
    BY <2>2 DEF IsLedger, HasFields, LedgerFields
  <2>3. FieldsKept(u, s) /\ u.owners = s.owners /\ u.judgements = s.judgements
    BY <2>1, <2>2, FieldsSame, RoleFields
  <2>4. QED  BY <1>0, <2>3 DEF u
<1>5. QED  BY <1>1, <1>2, <1>3, <1>4

LEMMA AuditFolds ==
  ASSUME NEW s, IsLedger(s), NEW n, NEW piece, piece.hook = "audit"
  PROVE  Folds(AuditApplied(s, n, piece.row), s, piece)
<1> DEFINE r == piece.row
           account == r[4]
           u == AuditApplied(s, n, r)
           old == s.accounts[account]
<1>1. OnlyChanges(u, s, {"accounts"})
  BY AuditAppliedKeeps
<1>2. OwnersFold(u, s, piece) /\ JudgementsFold(u, s, piece)
  BY <1>1 DEF OnlyChanges, LedgerFields, OwnersFold, JudgementsFold
<1>3. CASE account \notin DOMAIN s.accounts
  <2> DEFINE new == NewAccountRow(s, n, account, RolesOf(r))
  <2>1. u.accounts = Put(s.accounts, account, new)
    BY <1>3 DEF AuditApplied, IsLedger, HasFields, LedgerFields
  <2>2. new.reaped = FALSE /\ new.count_reaped = 0
    BY DEF NewAccountRow
  <2> HIDE DEF u, new
  <2>3. /\ DOMAIN u.accounts = DOMAIN s.accounts \cup {account} /\ u.accounts[account] = new
        /\ \A a \in DOMAIN s.accounts : u.accounts[a] = s.accounts[a]
    BY <1>3, <2>1 DEF Put
  <2>4. ReapedFold(u, s, piece)
    BY <1>3, <2>2, <2>3 DEF ReapedFold
  <2>5. IdentityFold(u, s, piece)
    BY <2>3 DEF IdentityFold
  <2>6. QED  BY <1>2, <2>3, <2>4, <2>5 DEF Folds, u
<1>4. CASE account \in DOMAIN s.accounts
  <2> DEFINE new == IF r[3] = "reaped"
                    THEN [old EXCEPT !.reaped = TRUE, !.count_reaped = @ + 1]
                    ELSE [old EXCEPT !.reaped = FALSE, !.is = @ \cup RolesOf(r),
                                     !.was = @ \cup (RolesOf(r) \ {"treasury"})]
  <2>1. u.accounts = [s.accounts EXCEPT ![account] = new]
    <3>1. CASE r[3] = "reaped"
      BY <1>4, <3>1 DEF AuditApplied, IsLedger, HasFields, LedgerFields
    <3>2. CASE r[3] # "reaped"
      BY <1>4, <3>2 DEF AuditApplied, IsLedger, HasFields, LedgerFields
    <3>3. QED  BY <3>1, <3>2
  <2>2. DOMAIN old = AccountFields
    BY <1>4 DEF IsLedger, IsAccount
  <2> HIDE DEF old
  <2>3. /\ new.reaped = (r[3] = "reaped") /\ new.identity = old.identity
        /\ new.count_reaped = IF r[3] = "reaped" THEN old.count_reaped + 1 ELSE old.count_reaped
    <3>1. CASE r[3] = "reaped"
      BY <2>2, <3>1 DEF AccountFields
    <3>2. CASE r[3] # "reaped"
      BY <2>2, <3>2 DEF AccountFields
    <3>3. QED  BY <3>1, <3>2
  <2> HIDE DEF u, new
  <2>4. /\ DOMAIN u.accounts = DOMAIN s.accounts /\ u.accounts[account] = new
        /\ \A a \in DOMAIN s.accounts : a # account => u.accounts[a] = s.accounts[a]
    BY <1>4, <2>1
  <2>5. ReapedFold(u, s, piece)
    BY <1>4, <2>3, <2>4 DEF ReapedFold, old
  <2>6. IdentityFold(u, s, piece)
    BY <1>4, <2>3, <2>4 DEF IdentityFold, old
  <2>7. QED  BY <1>2, <2>4, <2>5, <2>6 DEF Folds, u
<1>5. QED  BY <1>3, <1>4

LEMMA IndexedFolds ==
  ASSUME NEW s, IsLedger(s), NEW n, NEW piece, piece.hook = "indexed"
  PROVE  Folds(IndexedAccount(s, n, piece.row), s, piece)
<1> DEFINE account == piece.row
           u == IndexedAccount(s, n, account)
<1>1. CASE account \in DOMAIN s.accounts
  <2>1. u = s
    BY <1>1 DEF IndexedAccount
  <2> HIDE DEF u
  <2>2. QED  BY <2>1, FieldsSame, NothingFolded DEF u
<1>2. CASE account \notin DOMAIN s.accounts
  <2> DEFINE new == NewAccountRow(s, n, account, {})
  <2>1. OnlyChanges(u, s, {"accounts"}) /\ u.accounts = Put(s.accounts, account, new)
    BY <1>2 DEF IndexedAccount, OnlyChanges, IsLedger, HasFields, LedgerFields
  <2>2. new.reaped = FALSE /\ new.count_reaped = 0
    BY DEF NewAccountRow
  <2> HIDE DEF u, new
  <2>3. /\ DOMAIN u.accounts = DOMAIN s.accounts \cup {account} /\ u.accounts[account] = new
        /\ \A a \in DOMAIN s.accounts : u.accounts[a] = s.accounts[a]
    BY <1>2, <2>1 DEF Put
  <2>4. ReapedFold(u, s, piece)
    BY <1>2, <2>2, <2>3 DEF ReapedFold
  <2>5. IdentityFold(u, s, piece)
    BY <2>3 DEF IdentityFold
  <2>6. OwnersFold(u, s, piece) /\ JudgementsFold(u, s, piece)
    BY <2>1 DEF OnlyChanges, LedgerFields, OwnersFold, JudgementsFold
  <2>7. QED  BY <2>3, <2>4, <2>5, <2>6 DEF Folds, u
<1>3. QED  BY <1>1, <1>2

\* A piece of which the accounts keep who is reaped.
LEMMA NotReaped ==
  ASSUME NEW u, NEW s, NEW piece, piece.hook \notin {"audit", "indexed"},
         DOMAIN u.accounts = DOMAIN s.accounts,
         \A a \in DOMAIN s.accounts : /\ u.accounts[a].reaped = s.accounts[a].reaped
                                      /\ u.accounts[a].count_reaped = s.accounts[a].count_reaped
  PROVE  ReapedFold(u, s, piece)
BY DEF ReapedFold

LEMMA IndexFolds ==
  ASSUME NEW s, IsLedger(s), NEW piece, piece.hook = "index"
  PROVE  Folds(IndexAuditApplied(s, piece.row), s, piece)
<1> DEFINE r == piece.row
           account == r[4]
           u == IndexAuditApplied(s, r)
           put(row) == [row EXCEPT !.index = r[5]]
<1>1. OnlyChanges(u, s, {"accounts", "owners"})
  BY IndexAuditKeeps
<1>2. JudgementsFold(u, s, piece)
  BY <1>1 DEF OnlyChanges, LedgerFields, JudgementsFold
<1>3. OwnersFold(u, s, piece)
  <2>1. CASE r[3] = "new"
    BY <2>1 DEF IndexAuditApplied, IsLedger, HasFields, LedgerFields, OwnersFold
  <2>2. CASE r[3] # "new"
    BY <2>2 DEF IndexAuditApplied, IsLedger, HasFields, LedgerFields, OwnersFold
  <2>3. QED  BY <2>1, <2>2
<1>4. \/ u.accounts = s.accounts
      \/ account \in DOMAIN s.accounts
         /\ u.accounts = [s.accounts EXCEPT ![account] = put(s.accounts[account])]
  <2>1. CASE r[3] = "new" /\ account \in DOMAIN s.accounts
    BY <2>1 DEF IndexAuditApplied, IsLedger, HasFields, LedgerFields
  <2>2. CASE r[3] = "new" /\ account \notin DOMAIN s.accounts
    BY <2>2 DEF IndexAuditApplied, IsLedger, HasFields, LedgerFields
  <2>3. CASE r[3] # "new"
    BY <2>3 DEF IndexAuditApplied, IsLedger, HasFields, LedgerFields
  <2>4. QED  BY <2>1, <2>2, <2>3
<1>5. \A row : IsAccount(row) => \A f \in FoldFields : put(row)[f] = row[f]
  BY DEF IsAccount, AccountFields, FoldFields
<1>6. \A a \in DOMAIN s.accounts : IsAccount(s.accounts[a])
  BY DEF IsLedger
<1> HIDE DEF u, put
<1>7. FieldsKept(u, s)
  <2>1. CASE u.accounts = s.accounts
    BY <2>1, FieldsSame
  <2>2. CASE account \in DOMAIN s.accounts
             /\ u.accounts = [s.accounts EXCEPT ![account] = put(s.accounts[account])]
    BY <1>5, <1>6, <2>2 DEF FieldsKept
  <2>3. QED  BY <1>4, <2>1, <2>2
<1>8. \A a \in DOMAIN s.accounts :
        /\ u.accounts[a].reaped = s.accounts[a].reaped
        /\ u.accounts[a].count_reaped = s.accounts[a].count_reaped
        /\ u.accounts[a].identity = s.accounts[a].identity
  BY <1>7 DEF FieldsKept, FoldFields
<1>9. ReapedFold(u, s, piece) /\ IdentityFold(u, s, piece)
  BY <1>7, <1>8, NotReaped DEF FieldsKept, IdentityFold
<1>10. QED  BY <1>2, <1>3, <1>7, <1>9 DEF Folds, FieldsKept, u

LEMMA IdentityFolds ==
  ASSUME NEW s, IsLedger(s), NEW piece, piece.hook = "identity"
  PROVE  Folds(IdentityApplied(s, piece.row), s, piece)
<1> DEFINE r == piece.row
           account == r[4]
           u == IdentityApplied(s, r)
           old == s.accounts[account]
           new == IF r[3] = "set" THEN [old EXCEPT !.identity = r[5]]
                  ELSE [old EXCEPT !.identity = Null, !.good = 0, !.bad = 0]
<1>1. OnlyChanges(u, s, {"accounts"})
  BY IdentityKeeps
<1>2. OwnersFold(u, s, piece) /\ JudgementsFold(u, s, piece)
  BY <1>1 DEF OnlyChanges, LedgerFields, OwnersFold, JudgementsFold
<1>3. CASE account \notin DOMAIN s.accounts
  <2>1. u = s
    BY <1>3 DEF IdentityApplied
  <2> HIDE DEF u
  <2>2. ReapedFold(u, s, piece)
    BY <2>1, NotReaped
  <2>3. IdentityFold(u, s, piece)
    BY <1>3, <2>1 DEF IdentityFold
  <2>4. QED  BY <1>2, <2>1, <2>2, <2>3 DEF Folds, u
<1>4. CASE account \in DOMAIN s.accounts
  <2>1. u.accounts = [s.accounts EXCEPT ![account] = new]
    <3>1. CASE r[3] = "set"
      BY <1>4, <3>1 DEF IdentityApplied, IsLedger, HasFields, LedgerFields
    <3>2. CASE r[3] # "set"
      BY <1>4, <3>2 DEF IdentityApplied, IsLedger, HasFields, LedgerFields
    <3>3. QED  BY <3>1, <3>2
  <2>2. DOMAIN old = AccountFields
    BY <1>4 DEF IsLedger, IsAccount
  <2> HIDE DEF old
  <2>3. /\ new.reaped = old.reaped /\ new.count_reaped = old.count_reaped
        /\ new.identity = IF r[3] = "set" THEN r[5] ELSE Null
    <3>1. CASE r[3] = "set"
      BY <2>2, <3>1 DEF AccountFields
    <3>2. CASE r[3] # "set"
      BY <2>2, <3>2 DEF AccountFields
    <3>3. QED  BY <3>1, <3>2
  <2> HIDE DEF u, new
  <2>4. /\ DOMAIN u.accounts = DOMAIN s.accounts /\ u.accounts[account] = new
        /\ \A a \in DOMAIN s.accounts : a # account => u.accounts[a] = s.accounts[a]
    BY <1>4, <2>1
  <2>5. \A a \in DOMAIN s.accounts : /\ u.accounts[a].reaped = s.accounts[a].reaped
                                     /\ u.accounts[a].count_reaped = s.accounts[a].count_reaped
    BY <2>3, <2>4 DEF old
  <2>6. ReapedFold(u, s, piece)
    BY <2>4, <2>5, NotReaped
  <2>7. IdentityFold(u, s, piece)
    BY <2>3, <2>4 DEF IdentityFold, old
  <2>8. QED  BY <1>2, <2>4, <2>6, <2>7 DEF Folds, u
<1>5. QED  BY <1>3, <1>4

LEMMA JudgementFolds ==
  ASSUME NEW s, IsLedger(s), NEW piece, piece.hook = "judgement"
  PROVE  Folds(JudgementApplied(s, piece.row), s, piece)
<1> DEFINE r == piece.row
           account == r[4]
           value == r[5].value
           u == JudgementApplied(s, r)
           judged == Put(s.judgements, <<account, r[5].registrar>>, value)
           put(row) == [row EXCEPT !.good = IF GoodValue(value) THEN @ + 1 ELSE @,
                                   !.bad = IF PoorValue(value) THEN @ + 1 ELSE @]
<1>1. OnlyChanges(u, s, {"accounts", "judgements"})
  BY JudgementKeeps
<1>2. OwnersFold(u, s, piece)
  BY <1>1 DEF OnlyChanges, LedgerFields, OwnersFold
<1>3. JudgementsFold(u, s, piece)
  <2>1. CASE value = Null
    BY <2>1 DEF JudgementApplied, JudgementsFold
  <2>2. CASE value # Null /\ account \notin DOMAIN s.accounts
    BY <2>2 DEF JudgementApplied, JudgementsFold, IsLedger, HasFields, LedgerFields
  <2>3. CASE value # Null /\ account \in DOMAIN s.accounts
    BY <2>3 DEF JudgementApplied, JudgementsFold, IsLedger, HasFields, LedgerFields
  <2>4. QED  BY <2>1, <2>2, <2>3
<1>4. \/ u.accounts = s.accounts
      \/ account \in DOMAIN s.accounts
         /\ u.accounts = [s.accounts EXCEPT ![account] = put(s.accounts[account])]
  <2>1. CASE value = Null
    BY <2>1 DEF JudgementApplied
  <2>2. CASE value # Null /\ account \notin DOMAIN s.accounts
    BY <2>2 DEF JudgementApplied, IsLedger, HasFields, LedgerFields
  <2>3. CASE value # Null /\ account \in DOMAIN s.accounts
    <3> DEFINE given == [s EXCEPT !.judgements = judged]
    <3>1. given.accounts = s.accounts /\ "accounts" \in DOMAIN given
      BY DEF IsLedger, HasFields, LedgerFields
    <3>2. u = [given EXCEPT !.accounts[account].good = IF GoodValue(value) THEN @ + 1 ELSE @,
                            !.accounts[account].bad = IF PoorValue(value) THEN @ + 1 ELSE @]
      BY <2>3 DEF JudgementApplied
    <3> HIDE DEF given, value, u
    <3>3. u.accounts = [s.accounts EXCEPT ![account] = put(s.accounts[account])]
      BY <2>3, <3>1, <3>2
    <3>4. QED  BY <2>3, <3>3
  <2>4. QED  BY <2>1, <2>2, <2>3
<1>5. \A row : IsAccount(row) => \A f \in FoldFields : put(row)[f] = row[f]
  BY DEF IsAccount, AccountFields, FoldFields
<1>6. \A a \in DOMAIN s.accounts : IsAccount(s.accounts[a])
  BY DEF IsLedger
<1> HIDE DEF u, put
<1>7. FieldsKept(u, s)
  <2>1. CASE u.accounts = s.accounts
    BY <2>1, FieldsSame
  <2>2. CASE account \in DOMAIN s.accounts
             /\ u.accounts = [s.accounts EXCEPT ![account] = put(s.accounts[account])]
    BY <1>5, <1>6, <2>2 DEF FieldsKept
  <2>3. QED  BY <1>4, <2>1, <2>2
<1>8. \A a \in DOMAIN s.accounts :
        /\ u.accounts[a].reaped = s.accounts[a].reaped
        /\ u.accounts[a].count_reaped = s.accounts[a].count_reaped
        /\ u.accounts[a].identity = s.accounts[a].identity
  BY <1>7 DEF FieldsKept, FoldFields
<1>9. ReapedFold(u, s, piece) /\ IdentityFold(u, s, piece)
  BY <1>7, <1>8, NotReaped DEF FieldsKept, IdentityFold
<1>10. QED  BY <1>2, <1>3, <1>7, <1>9 DEF Folds, FieldsKept, u

LEMMA PieceFolds ==
  ASSUME NEW s, IsLedger(s), NEW n, NEW shown, NEW piece, IsPiece(n, piece)
  PROVE  Folds(Done(s, n, shown, piece), s, piece)
<1> DEFINE u == Done(s, n, shown, piece)
<1>1. CASE piece.hook \in {"genesis", "old", "info", "total", "call", "event"}
  BY <1>1, OtherFolds
<1>2. CASE piece.hook = "audit"
  <2>1. u = AuditApplied(s, n, piece.row)
    BY <1>2 DEF Done
  <2>2. QED  BY <1>2, <2>1, AuditFolds
<1>3. CASE piece.hook = "indexed"
  <2>1. u = IndexedAccount(s, n, piece.row)
    BY <1>3 DEF Done
  <2>2. QED  BY <1>3, <2>1, IndexedFolds
<1>4. CASE piece.hook = "index"
  <2>1. u = IndexAuditApplied(s, piece.row)
    BY <1>4 DEF Done
  <2>2. QED  BY <1>4, <2>1, IndexFolds
<1>5. CASE piece.hook = "identity"
  <2>1. u = IdentityApplied(s, piece.row)
    BY <1>5 DEF Done
  <2>2. QED  BY <1>5, <2>1, IdentityFolds
<1>6. CASE piece.hook = "judgement"
  <2>1. u = JudgementApplied(s, piece.row)
    BY <1>6 DEF Done
  <2>2. QED  BY <1>6, <2>1, JudgementFolds
<1>7. QED  BY <1>1, <1>2, <1>3, <1>4, <1>5, <1>6 DEF IsPiece

\* A piece of a call, and a stretch of pieces that leaves identities and
\* judgements alone.
LEMMA CallFolds ==
  ASSUME Filed, NEW w, IsCall(w), NEW k \in 1 .. w.end
  PROVE  Folds(w.run[k], w.run[k - 1], w.pieces[k])
<1>1. StepsTo(w, k)
  BY CallGoes
<1>2. QED  BY <1>1, PieceFolds DEF StepsTo, LedgerRight
------------------------------------------------------------------------------
(* The audits of several blocks.                                            *)

\* What holds at piece i and goes on holds at piece j.
LEMMA Stretch ==
  ASSUME NEW i \in Nat, NEW j \in Nat, i <= j, NEW G, i \in G,
         \A k \in i + 1 .. j : k - 1 \in G => k \in G
  PROVE  j \in G
<1> DEFINE H == {m \in 0 .. j - i : i + m \in G}
<1>1. j - i \in Nat /\ 0 \in H
  OBVIOUS
<1>2. ASSUME NEW m \in 0 .. (j - i) - 1, m \in H PROVE m + 1 \in H
  <2>1. i + (m + 1) \in i + 1 .. j /\ (i + (m + 1)) - 1 = i + m /\ m + 1 \in 0 .. j - i
    OBVIOUS
  <2>2. i + m \in G
    BY <1>2
  <2>3. i + (m + 1) \in G
    BY <2>1, <2>2
  <2>4. QED  BY <2>1, <2>3
<1>3. \A m \in 0 .. j - i : m \in H
  <2> HIDE DEF H
  <2>1. \A m \in 0 .. (j - i) - 1 : m \in H => m + 1 \in H
    BY <1>2
  <2>2. QED  BY <1>1, <2>1, Working!CountUp
<1>4. j - i \in H /\ i + (j - i) = j
  BY <1>1, <1>3
<1>5. QED  BY <1>4

\* The audits of a table in the blocks from 1 to h.
AuditsTo(table, h) == UNION {stored[m][table] : m \in 1 .. h}

LEMMA AuditsToAre ==
  ASSUME Filed, NEW f \in RowTables
  PROVE  /\ \A n \in Numbers : \A r \in stored[n][f] : r[1] = n /\ r[2] \in Nat /\ n # 0
         /\ \A h \in -1 .. MaxBlock : \A r \in AuditsTo(f, h) :
              r[1] \in 1 .. h /\ r[2] \in Nat /\ r \in stored[r[1]][f]
         /\ \A n \in Numbers : AuditsTo(f, n) = AuditsTo(f, n - 1) \cup stored[n][f]
         /\ AuditsTo(f, 0) = {} /\ AuditsTo(f, -1) = {}
<1>0. MaxBlock \in Nat /\ Numbers = 0 .. MaxBlock
  BY SequencingAssumption DEF Numbers
<1>1. ASSUME NEW n \in Numbers, NEW r \in stored[n][f] PROVE r[1] = n /\ r[2] \in Nat /\ n # 0
  <2>1. RowsFrom(stored[n][f], n, DOMAIN content[n].events, f)
    BY StoredRows
  <2>2. IsList(content[n].events)
    BY StoredBlocks DEF IsBlock
  <2>3. r[2] \in 1 .. Len(content[n].events) /\ Len(content[n].events) \in Nat /\ r[1] = n
    BY <2>1, <2>2, ListDomain DEF RowsFrom, RowAt
  <2>4. n # 0
    <3>1. SUFFICES ASSUME n = 0 PROVE FALSE
      OBVIOUS
    <3>2. content[0].events = <<>>
      BY ChainsAssumption DEF Filed
    <3>3. Len(content[n].events) = 0
      BY <3>1, <3>2
    <3>4. QED  BY <2>3, <3>3
  <2>5. QED  BY <2>3, <2>4
<1>2. ASSUME NEW h \in -1 .. MaxBlock, NEW r \in AuditsTo(f, h)
      PROVE  r[1] \in 1 .. h /\ r[2] \in Nat /\ r \in stored[r[1]][f]
  <2>1. PICK m \in 1 .. h : r \in stored[m][f]
    BY DEF AuditsTo
  <2>2. m \in Numbers
    BY <1>0
  <2>3. QED  BY <1>1, <2>1, <2>2
<1>3. ASSUME NEW n \in Numbers \ {0} PROVE AuditsTo(f, n) = AuditsTo(f, n - 1) \cup stored[n][f]
  <2>1. 1 .. n = (1 .. n - 1) \cup {n}
    BY <1>0
  <2>2. QED  BY <2>1 DEF AuditsTo
<1>4. AuditsTo(f, 0) = {} /\ AuditsTo(f, -1) = {}
  <2>1. 1 .. 0 = {} /\ 1 .. -1 = {}
    OBVIOUS
  <2>2. QED  BY <2>1 DEF AuditsTo
<1>5. AuditsTo(f, 0) = AuditsTo(f, 0 - 1) \cup stored[0][f]
  <2>1. stored[0][f] = {}
    BY <1>0, <1>1
  <2>2. AuditsTo(f, 0 - 1) = {}
    BY DEF AuditsTo
  <2>3. QED  BY <1>4, <2>1, <2>2
<1>6. QED  BY <1>1, <1>2, <1>3, <1>4, <1>5

\* Audits of block n come after those of blocks below it.
LEMMA LastOn ==
  ASSUME Filed, NEW f \in RowTables, NEW n \in Numbers, NEW old \in SUBSET AuditsTo(f, n - 1),
         NEW new \in SUBSET stored[n][f]
  PROVE  /\ \A r \in new, q \in old : Later(r, q) /\ ~Later(q, r)
         /\ \A r : IsLast(r, old \cup new) /\ new # {} => IsLast(r, new)
         /\ \A r : IsLast(r, new) => IsLast(r, old \cup new)
<1>0. n - 1 \in -1 .. MaxBlock /\ n \in Int
  BY SequencingAssumption DEF Numbers
<1>1. \A r \in new : r[1] = n /\ r[2] \in Nat
  BY AuditsToAre
<1>2. \A q \in old : q[1] \in 1 .. n - 1 /\ q[2] \in Nat
  BY <1>0, AuditsToAre
<1>3. \A r \in new, q \in old : Later(r, q) /\ ~Later(q, r)
  BY <1>0, <1>1, <1>2 DEF Later
<1>4. ASSUME NEW r, IsLast(r, old \cup new), new # {} PROVE IsLast(r, new)
  BY <1>3, <1>4 DEF IsLast
<1>5. ASSUME NEW r, IsLast(r, new) PROVE IsLast(r, old \cup new)
  BY <1>3, <1>5 DEF IsLast
<1>6. QED  BY <1>3, <1>4, <1>5

\* Piece p is that of the last of some rows, and of the last of the pieces for them.
IsLastPiece(pieces, p, hook, some) ==
  /\ p \in DOMAIN pieces /\ pieces[p].hook = hook /\ pieces[p].row \in some
  /\ \A r : IsLast(r, some) <=> r = pieces[p].row
  /\ \A k \in DOMAIN pieces : k > p /\ pieces[k].hook = hook => pieces[k].row \notin some

LEMMA LastPiece ==
  ASSUME Filed, NEW n \in Numbers, NEW f \in RowTables, NEW pieces, IsList(pieces), NEW hook,
         RowPieces(pieces, hook, stored[n][f]), NEW some \in SUBSET stored[n][f], some # {}
  PROVE  \E p : IsLastPiece(pieces, p, hook, some)
<1> DEFINE P == {k \in DOMAIN pieces : pieces[k].hook = hook /\ pieces[k].row \in some}
<1>1. Len(pieces) \in Nat /\ DOMAIN pieces = 1 .. Len(pieces)
  BY ListDomain
<1>2. P # {} /\ P \in SUBSET (0 .. Len(pieces))
  <2>1. PICK r \in some : TRUE
    OBVIOUS
  <2>2. \E k \in DOMAIN pieces : pieces[k].hook = hook /\ pieces[k].row = r
    BY DEF RowPieces
  <2>3. QED  BY <1>1, <2>1, <2>2
<1>3. PICK p \in P : \A k \in P : k <= p
  <2> HIDE DEF P
  <2>1. QED  BY <1>1, <1>2, Working!Greatest
<1>4. p \in DOMAIN pieces /\ pieces[p].hook = hook /\ pieces[p].row \in some /\ p \in Int
  BY <1>1
<1>5. \A r \in some : r[1] = n /\ r[2] \in Nat
  BY AuditsToAre
<1>6. n \in Int
  BY SequencingAssumption DEF Numbers
<1>7. ASSUME NEW r \in some PROVE r = pieces[p].row \/ r[2] < pieces[p].row[2]
  <2>1. PICK k \in DOMAIN pieces : pieces[k].hook = hook /\ pieces[k].row = r
    BY DEF RowPieces
  <2>2. k <= p
    BY <1>3, <2>1
  <2>3. CASE k = p
    BY <2>1, <2>3
  <2>4. CASE k < p
    BY <1>4, <2>1, <2>4 DEF RowPieces
  <2>5. QED  BY <1>1, <2>2, <2>3, <2>4
<1>8. \A r : IsLast(r, some) <=> r = pieces[p].row
  <2>1. ASSUME NEW r, r = pieces[p].row PROVE IsLast(r, some)
    BY <1>4, <1>5, <1>6, <1>7, <2>1 DEF IsLast, Later
  <2>2. ASSUME NEW r, IsLast(r, some) PROVE r = pieces[p].row
    <3>1. r \in some /\ ~Later(pieces[p].row, r)
      BY <1>4, <2>2 DEF IsLast
    <3>2. ~(r[2] < pieces[p].row[2])
      BY <1>4, <1>5, <1>6, <3>1 DEF Later
    <3>3. QED  BY <1>7, <3>1, <3>2
  <2>3. QED  BY <2>1, <2>2
<1>9. ASSUME NEW k \in DOMAIN pieces, k > p, pieces[k].hook = hook PROVE pieces[k].row \notin some
  <2>1. k \notin P
    BY <1>1, <1>3, <1>4, <1>9
  <2>2. QED  BY <1>9, <2>1
<1>10. QED  BY <1>4, <1>8, <1>9 DEF IsLastPiece

------------------------------------------------------------------------------
(* The steps, as far as audits are folded up.                               *)

\* What the audits have folded up is the same in v and u.
SameFolds(v, u) ==
  /\ FieldsKept(v, u) /\ \A a \in DOMAIN u.accounts : v.accounts[a].created = u.accounts[a].created
  /\ v.owners = u.owners /\ v.judgements = u.judgements

\* Block 1 above the highest is begun.
Half == SequencerHead + 1 \in begun

\* The call goes through the audits of the next block from the ledger on.
FoldWork(w) == IsCall(w) /\ w.s = ledger /\ w.n = SequencerHead + 1 /\ WholeRows(w)

LEMMA CommittedFolds ==
  ASSUME NEW v, NEW u, Committed(v, u)
  PROVE  SameFolds(v, u)
<1>1. v.accounts = u.accounts /\ v.owners = u.owners /\ v.judgements = u.judgements
  BY DEF Committed, OnlyChanges, LedgerFields
<1>2. QED  BY <1>1, FieldsSame DEF SameFolds

LEMMA BalancesFolds ==
  ASSUME NEW s, IsLedger(s), NEW newest
  PROVE  SameFolds(BalancesUpdated(s, newest), s)
<1> DEFINE u == BalancesUpdated(s, newest)
           put(row, a) == [row EXCEPT !.balance = newest[a]]
<1>1. /\ u.owners = s.owners /\ u.judgements = s.judgements
      /\ u.accounts = [a \in DOMAIN s.accounts |->
                         IF a \in DOMAIN newest THEN put(s.accounts[a], a) ELSE s.accounts[a]]
  BY DEF BalancesUpdated, IsLedger, HasFields, LedgerFields
<1>2. \A row, a : IsAccount(row) => \A f \in FoldFields \cup {"created"} : put(row, a)[f] = row[f]
  BY DEF IsAccount, AccountFields, FoldFields
<1>3. \A a \in DOMAIN s.accounts : IsAccount(s.accounts[a])
  BY DEF IsLedger
<1> HIDE DEF u, put
<1>4. FieldsKept(u, s) /\ \A a \in DOMAIN s.accounts : u.accounts[a].created = s.accounts[a].created
  BY <1>1, <1>2, <1>3 DEF FieldsKept
<1>5. QED  BY <1>1, <1>4 DEF SameFolds, u

LEMMA StepFolds ==
  ASSUME SequencingInv, Upward, SessionsBegun, [Next]_vars, requests' = 0
  PROVE  /\ requests = 0 /\ Filed /\ LedgerRight(ledger) /\ UNCHANGED <<content, stored>>
         /\ \/ \E w : /\ FoldWork(w) /\ SameFolds(ledger', w.run[w.end])
                      /\ again' = {} => again = {} /\ ~Half
                      /\ \/ w.end = Len(w.pieces) /\ SequencerHead' = w.n /\ ~Half'
                         \/ SequencerHead' = SequencerHead /\ Half'
            \/ /\ SameFolds(ledger', ledger) /\ SequencerHead' = SequencerHead
               /\ (Half' <=> Half) /\ again' = again
<1> DEFINE v == ledger'
           head == SequencerHead'
           half == head + 1 \in begun'
<1>0. half <=> Half'
  BY DEF Half
<1>1. /\ requests = 0 /\ Filed /\ LedgerRight(ledger) /\ UNCHANGED <<content, stored>>
      /\ (\E w : GoesOn(w)) \/ (\E w : StopsAt(w)) \/ StaysThere
  BY StepsAre DEF SessionsBegun
<1>2. begun \subseteq 0 .. SequencerHead + 1 /\ SequencerHead \in Int
  BY <1>1, HeadRange DEF Upward
<1> HIDE DEF v, head
<1>3. ASSUME NEW w, Works(w), w.n = SequencerHead + 1
      PROVE  /\ FoldWork(w) /\ SameFolds(v, w.run[w.end]) /\ begun' = begun \cup {w.n}
             /\ again' = {} => again = {} /\ ~Half
  <2>1. IsCall(w) /\ Whole(w) /\ Committed(v, w.run[w.end]) /\ Worked(w.n)
    BY <1>3 DEF Works, v
  <2>2. WholeRows(w)
    BY <1>1, <2>1, WholeHasRows DEF IsCall
  <2>3. FoldWork(w)
    BY <1>3, <2>1, <2>2 DEF FoldWork, Whole
  <2>4. begun' = begun \cup {w.n} /\ again' = again \cup ({w.n} \cap begun)
    BY <2>1 DEF Worked
  <2>5. QED  BY <1>3, <2>1, <2>3, <2>4, CommittedFolds DEF Half
<1>4. CASE \E w : GoesOn(w)
  <2>1. PICK w : GoesOn(w)
    BY <1>4
  <2>2. /\ Works(w) /\ w.end = Len(w.pieces) /\ w.n = SequencerHead + 1 /\ head = w.n
    BY <2>1 DEF GoesOn, Finishes, OneOn, head
  <2>3. /\ FoldWork(w) /\ SameFolds(v, w.run[w.end]) /\ begun' = begun \cup {w.n}
        /\ again' = {} => again = {} /\ ~Half
    BY <1>3, <2>2
  <2>4. ~half
    BY <1>2, <2>2, <2>3
  <2>5. QED  BY <1>0, <1>1, <2>2, <2>3, <2>4 DEF v, head
<1>5. CASE \E w : StopsAt(w)
  <2>1. PICK w : StopsAt(w)
    BY <1>5
  <2>2. Works(w) /\ w.n = SequencerHead + 1 /\ head = SequencerHead
    BY <2>1 DEF StopsAt, head
  <2>3. /\ FoldWork(w) /\ SameFolds(v, w.run[w.end]) /\ begun' = begun \cup {w.n}
        /\ again' = {} => again = {} /\ ~Half
    BY <1>3, <2>2
  <2>4. half
    BY <2>2, <2>3
  <2>5. QED  BY <1>0, <1>1, <2>2, <2>3, <2>4 DEF v, head
<1>6. CASE StaysThere
  <2>1. head = SequencerHead /\ begun' = begun
    BY <1>6 DEF StaysThere, head
  <2>2. again' = again
    BY <1>6, UpdateIs DEF StaysThere, Rests, RebuildBurn, ghosts
  <2>3. SameFolds(v, ledger)
    <3>1. CASE Rests
      <4>1. v = ledger
        BY <3>1 DEF Rests, v
      <4>2. QED  BY <4>1, FieldsSame DEF SameFolds
    <3>2. CASE UpdateBalances
      <4>1. PICK newest : v = BalancesUpdated(ledger, newest)
        BY <3>2 DEF UpdateBalances, UpdateBalance, v
      <4>2. QED  BY <1>1, <4>1, BalancesFolds DEF LedgerRight
    <3>3. CASE RebuildBurn
      <4>1. BurnRebuilt(v, burning)
        BY <3>3, RebuildIs DEF v
      <4>2. v.accounts = ledger.accounts /\ v.owners = ledger.owners
            /\ v.judgements = ledger.judgements
        BY <4>1 DEF BurnRebuilt, OnlyChanges, LedgerFields
      <4>3. QED  BY <4>2, FieldsSame DEF SameFolds
    <3>4. QED  BY <1>6, <3>1, <3>2, <3>3 DEF StaysThere
  <2>4. half <=> Half
    BY <2>1 DEF Half
  <2>5. QED  BY <1>0, <1>1, <2>1, <2>2, <2>3, <2>4 DEF v, head
<1>7. QED  BY <1>1, <1>4, <1>5, <1>6
------------------------------------------------------------------------------
(* Identities and judgements.                                               *)

LEMMA CallRange ==
  ASSUME NEW w, IsCall(w)
  PROVE  /\ w.n \in Numbers /\ w.n \in Nat /\ w.n \in -1 .. MaxBlock
         /\ w.end \in Nat /\ w.end <= Len(w.pieces)
         /\ IsList(w.pieces) /\ Len(w.pieces) \in Nat /\ DOMAIN w.pieces = 1 .. Len(w.pieces)
<1>1. w.n \in Numbers /\ IsList(w.pieces) /\ w.end \in 0 .. Len(w.pieces)
  BY DEF IsCall, PieceList, ArePieces
<1>2. Len(w.pieces) \in Nat /\ DOMAIN w.pieces = 1 .. Len(w.pieces)
  BY <1>1, ListDomain
<1>3. w.n \in Nat /\ w.n \in -1 .. MaxBlock
  BY <1>1, SequencingAssumption DEF Numbers
<1>4. QED  BY <1>1, <1>2, <1>3

\* The accounts of a call: none goes, and one that is made is made at its block.
LEMMA CallAccounts ==
  ASSUME Filed, NEW w, IsCall(w)
  PROVE  /\ \A i \in 0 .. w.end : \A j \in i .. w.end :
              DOMAIN w.run[i].accounts \subseteq DOMAIN w.run[j].accounts
         /\ \A k \in 0 .. w.end : \A a \in DOMAIN w.run[k].accounts :
              w.run[k].accounts[a].created
                = IF a \in DOMAIN w.s.accounts THEN w.s.accounts[a].created ELSE w.n
<1>1. w.end \in Nat
  BY CallRange
<1>2. ASSUME NEW i \in 0 .. w.end, NEW j \in i .. w.end
      PROVE  DOMAIN w.run[i].accounts \subseteq DOMAIN w.run[j].accounts
  <2> DEFINE G == {k \in i .. j : DOMAIN w.run[i].accounts \subseteq DOMAIN w.run[k].accounts}
  <2>1. i \in Nat /\ j \in Nat /\ i <= j /\ i \in G
    BY <1>1
  <2>2. ASSUME NEW k \in i + 1 .. j, k - 1 \in G PROVE k \in G
    <3>1. k \in 1 .. w.end /\ k \in i .. j
      BY <1>1, <2>1
    <3>2. DOMAIN w.run[k - 1].accounts \subseteq DOMAIN w.run[k].accounts
      BY <3>1, CallFolds DEF Folds
    <3>3. QED  BY <2>2, <3>1, <3>2
  <2>3. j \in G
    <3> HIDE DEF G
    <3>1. QED  BY <2>1, <2>2, Stretch
  <2>4. QED  BY <2>3
<1>3. ASSUME NEW k \in 0 .. w.end, NEW a \in DOMAIN w.run[k].accounts
      PROVE  w.run[k].accounts[a].created
               = IF a \in DOMAIN w.s.accounts THEN w.s.accounts[a].created ELSE w.n
  <2>1. PICK roles : AccountsKept(w.run[k], w.s, w.n, roles)
    BY CallGoes DEF CallKeeps
  <2>2. QED  BY <2>1 DEF AccountsKept, AccountKept, AccountMade
<1>4. QED  BY <1>2, <1>3

\* The audits that are about an account.
About(rows, a) == {r \in rows : r[4] = a}

\* Account a has the identity that the last of the audits gives it, unless there
\* are more about it that may have come in between.
IdentityAs(s, a, rows, more) ==
  About(more, a) = {} =>
    \A r \in About(rows, a) :
      IsLast(r, About(rows, a)) /\ s.accounts[a].created < r[1] =>
        s.accounts[a].identity = IF r[3] = "set" THEN r[5] ELSE Null

LEMMA IdentityStays ==
  ASSUME Filed, NEW w, IsCall(w), NEW i \in 0 .. w.end, NEW j \in i .. w.end,
         NEW a \in DOMAIN w.run[i].accounts,
         \A k \in i + 1 .. j : w.pieces[k].hook = "identity" => w.pieces[k].row[4] # a
  PROVE  w.run[j].accounts[a].identity = w.run[i].accounts[a].identity
<1> DEFINE G == {k \in i .. j : w.run[k].accounts[a].identity = w.run[i].accounts[a].identity}
<1>1. w.end \in Nat
  BY CallRange
<1>2. i \in Nat /\ j \in Nat /\ i <= j /\ i \in G
  BY <1>1
<1>3. ASSUME NEW k \in i + 1 .. j, k - 1 \in G PROVE k \in G
  <2>1. k \in 1 .. w.end /\ k \in i .. j /\ k - 1 \in i .. w.end
    BY <1>1, <1>2
  <2>2. a \in DOMAIN w.run[k - 1].accounts
    BY <2>1, CallAccounts
  <2>3. IdentityFold(w.run[k], w.run[k - 1], w.pieces[k])
    BY <2>1, CallFolds DEF Folds
  <2>4. w.run[k].accounts[a].identity = w.run[k - 1].accounts[a].identity
    BY <2>2, <2>3 DEF IdentityFold
  <2>5. QED  BY <1>3, <2>1, <2>4
<1>4. j \in G
  <2> HIDE DEF G
  <2>1. QED  BY <1>2, <1>3, Stretch
<1>5. QED  BY <1>4

LEMMA CallIdentities ==
  ASSUME Filed, NEW w, FoldWork(w), NEW more \in SUBSET stored[w.n].identities,
         \A a \in DOMAIN ledger.accounts :
           IdentityAs(ledger, a, AuditsTo("identities", w.n - 1), more),
         NEW a \in DOMAIN w.run[w.end].accounts
  PROVE  /\ IdentityAs(w.run[w.end], a, AuditsTo("identities", w.n - 1), stored[w.n].identities)
         /\ w.end = Len(w.pieces) =>
              IdentityAs(w.run[w.end], a, AuditsTo("identities", w.n), {})
<1> DEFINE n == w.n
           s == w.run[w.end]
           before == AuditsTo("identities", n - 1)
           own == stored[n].identities
           old == About(before, a)
           new == About(own, a)
<1>1. /\ IsCall(w) /\ w.s = ledger /\ w.run[0] = ledger /\ RowPieces(w.pieces, "identity", own)
  BY DEF FoldWork, WholeRows, IsCall
<1>2. /\ n \in Numbers /\ n \in Nat /\ n \in -1 .. MaxBlock /\ w.end \in Nat
      /\ w.end <= Len(w.pieces)
      /\ IsList(w.pieces) /\ Len(w.pieces) \in Nat /\ DOMAIN w.pieces = 1 .. Len(w.pieces)
  BY <1>1, CallRange
<1>3. "identities" \in RowTables /\ own = stored[n]["identities"]
  BY DEF RowTables
<1>4. AuditsTo("identities", n) = before \cup own
  BY <1>2, <1>3, AuditsToAre
<1>5. \A r \in before \cup own : r[1] <= n /\ r[1] \in Int
  <2>1. \A r \in AuditsTo("identities", n) : r[1] \in 1 .. n
    BY <1>2, <1>3, AuditsToAre
  <2>2. QED  BY <1>2, <1>4, <2>1
<1> HIDE DEF before, own
<1>6. s.accounts[a].created = IF a \in DOMAIN ledger.accounts THEN ledger.accounts[a].created ELSE n
  BY <1>1, <1>2, CallAccounts
<1>7. ASSUME NEW r \in old \cup new, s.accounts[a].created < r[1] PROVE a \in DOMAIN ledger.accounts
  <2>1. r[1] <= n /\ r[1] \in Int
    BY <1>5 DEF About
  <2>2. QED  BY <1>2, <1>6, <1>7, <2>1
<1>8. \A k \in DOMAIN w.pieces : w.pieces[k].hook = "identity" => w.pieces[k].row \in own
  BY <1>1 DEF RowPieces
<1>9. ASSUME new = {}, NEW r \in old, IsLast(r, old), s.accounts[a].created < r[1]
      PROVE  s.accounts[a].identity = IF r[3] = "set" THEN r[5] ELSE Null
  <2>1. a \in DOMAIN ledger.accounts
    BY <1>7, <1>9
  <2>2. \A k \in 0 + 1 .. w.end : w.pieces[k].hook = "identity" => w.pieces[k].row[4] # a
    <3>1. \A k \in 0 + 1 .. w.end : k \in DOMAIN w.pieces
      BY <1>2
    <3>2. QED  BY <1>8, <1>9, <3>1 DEF About
  <2>3. s.accounts[a].identity = ledger.accounts[a].identity
    <3>1. 0 \in 0 .. w.end /\ w.end \in 0 .. w.end /\ a \in DOMAIN w.run[0].accounts
      BY <1>1, <1>2, <2>1
    <3> HIDE DEF s
    <3>2. w.run[w.end].accounts[a].identity = w.run[0].accounts[a].identity
      BY <1>1, <2>2, <3>1, IdentityStays
    <3>3. QED  BY <1>1, <3>2 DEF s
  <2>4. About(more, a) = {}
    BY <1>9 DEF About, own
  <2>5. IdentityAs(ledger, a, before, more)
    BY <2>1 DEF before
  <2>6. QED  BY <1>6, <1>9, <2>1, <2>3, <2>4, <2>5 DEF IdentityAs
<1>10. IdentityAs(s, a, before, own)
  BY <1>9 DEF IdentityAs
<1>11. ASSUME w.end = Len(w.pieces), new # {}, NEW r \in old \cup new, IsLast(r, old \cup new),
              s.accounts[a].created < r[1]
       PROVE  s.accounts[a].identity = IF r[3] = "set" THEN r[5] ELSE Null
  <2>1. a \in DOMAIN ledger.accounts
    BY <1>7, <1>11
  <2>2. old \in SUBSET AuditsTo("identities", n - 1) /\ new \in SUBSET stored[n]["identities"]
    BY <1>3 DEF About, before, own
  <2> HIDE DEF old, new
  <2>3. IsLast(r, new)
    BY <1>2, <1>3, <1>11, <2>2, LastOn
  <2>4. RowPieces(w.pieces, "identity", stored[n]["identities"])
    BY <1>1, <1>3 DEF own
  <2>5. PICK p : IsLastPiece(w.pieces, p, "identity", new)
    BY <1>2, <1>3, <1>11, <2>2, <2>4, LastPiece
  <2>6. /\ p \in DOMAIN w.pieces /\ w.pieces[p].hook = "identity" /\ w.pieces[p].row \in new
        /\ \A k \in DOMAIN w.pieces :
             k > p /\ w.pieces[k].hook = "identity" => w.pieces[k].row \notin new
    BY <2>5 DEF IsLastPiece
  <2>7. r = w.pieces[p].row
    BY <2>3, <2>5 DEF IsLastPiece
  <2>8. p \in 1 .. w.end /\ p - 1 \in 0 .. w.end /\ 0 \in 0 .. w.end /\ p \in 0 .. w.end
        /\ p - 1 \in 0 .. w.end
    BY <1>2, <1>11, <2>6
  <2>9. a \in DOMAIN w.run[p - 1].accounts /\ a \in DOMAIN w.run[p].accounts
    BY <1>1, <2>1, <2>8, CallAccounts
  <2>10. IdentityFold(w.run[p], w.run[p - 1], w.pieces[p])
    BY <1>1, <2>8, CallFolds DEF Folds
  <2>11. r[4] = a
    BY <2>6, <2>7 DEF new, About
  <2>12. w.run[p].accounts[a].identity = IF r[3] = "set" THEN r[5] ELSE Null
    BY <2>6, <2>7, <2>9, <2>10, <2>11 DEF IdentityFold
  <2>13. \A k \in p + 1 .. w.end : w.pieces[k].hook = "identity" => w.pieces[k].row[4] # a
    <3>1. \A k \in p + 1 .. w.end : k \in DOMAIN w.pieces /\ k > p
      BY <1>2, <2>8
    <3>2. QED  BY <1>8, <2>6, <3>1 DEF new, About
  <2>14. w.end \in p .. w.end
    BY <1>2, <2>8
  <2>15. w.run[w.end].accounts[a].identity = w.run[p].accounts[a].identity
    BY <1>1, <2>8, <2>9, <2>13, <2>14, IdentityStays
  <2>16. QED  BY <2>12, <2>15
<1>12. ASSUME w.end = Len(w.pieces) PROVE IdentityAs(s, a, before \cup own, {})
  <2>1. About(before \cup own, a) = old \cup new
    BY DEF About
  <2> HIDE DEF s
  <2>2. CASE new = {}
    <3>1. old \cup new = old
      BY <2>2
    <3> HIDE DEF old, new
    <3>2. QED  BY <1>9, <2>1, <2>2, <3>1 DEF IdentityAs
  <2>3. CASE new # {}
    <3> HIDE DEF old, new
    <3>1. QED  BY <1>11, <1>12, <2>1, <2>3 DEF IdentityAs
  <2>4. QED  BY <2>2, <2>3
<1>13. QED  BY <1>4, <1>10, <1>12 DEF s, n, before, own

\* The judgements of a registrar on an account that have a value.
JudgedAs(rows, key) == {r \in rows : <<r[4], r[5].registrar>> = key /\ r[5].value # Null}

\* The judgement is the last that was given, unless there are more.
JudgementAs(s, key, rows, more) ==
  JudgedAs(more, key) = {} =>
    \E r \in JudgedAs(rows, key) :
      IsLast(r, JudgedAs(rows, key)) /\ s.judgements[key] = r[5].value

\* The key is judged in v as it is in u, or in neither.
SameJudgement(v, u, key) ==
  /\ key \in DOMAIN v.judgements <=> key \in DOMAIN u.judgements
  /\ key \in DOMAIN u.judgements => v.judgements[key] = u.judgements[key]

LEMMA JudgementStays ==
  ASSUME Filed, NEW w, IsCall(w), NEW i \in 0 .. w.end, NEW j \in i .. w.end, NEW key,
         \A k \in i + 1 .. j :
           w.pieces[k].hook = "judgement" => w.pieces[k].row \notin JudgedAs({w.pieces[k].row}, key)
  PROVE  SameJudgement(w.run[j], w.run[i], key)
<1> DEFINE G == {k \in i .. j : SameJudgement(w.run[k], w.run[i], key)}
<1>1. w.end \in Nat
  BY CallRange
<1>2. i \in Nat /\ j \in Nat /\ i <= j /\ i \in G
  BY <1>1 DEF SameJudgement
<1>3. ASSUME NEW k \in i + 1 .. j, k - 1 \in G PROVE k \in G
  <2> DEFINE r == w.pieces[k].row
  <2>1. k \in 1 .. w.end /\ k \in i .. j
    BY <1>1, <1>2
  <2>2. JudgementsFold(w.run[k], w.run[k - 1], w.pieces[k])
    BY <2>1, CallFolds DEF Folds
  <2>3. w.pieces[k].hook = "judgement" => ~(<<r[4], r[5].registrar>> = key /\ r[5].value # Null)
    BY <1>3 DEF JudgedAs
  <2>4. SameJudgement(w.run[k], w.run[k - 1], key)
    <3> HIDE DEF r
    <3>1. CASE w.pieces[k].hook = "judgement" /\ r[5].value # Null
      <4>1. w.run[k].judgements = Put(w.run[k - 1].judgements, <<r[4], r[5].registrar>>, r[5].value)
        BY <2>2, <3>1 DEF JudgementsFold, r
      <4>2. <<r[4], r[5].registrar>> # key
        BY <2>3, <3>1
      <4>3. QED  BY <4>1, <4>2 DEF Put, SameJudgement
    <3>2. CASE ~(w.pieces[k].hook = "judgement" /\ r[5].value # Null)
      <4>1. w.run[k].judgements = w.run[k - 1].judgements
        BY <2>2, <3>2 DEF JudgementsFold, r
      <4>2. QED  BY <4>1 DEF SameJudgement
    <3>3. QED  BY <3>1, <3>2
  <2>5. SameJudgement(w.run[k - 1], w.run[i], key)
    BY <1>3
  <2>6. SameJudgement(w.run[k], w.run[i], key)
    BY <2>4, <2>5 DEF SameJudgement
  <2>7. QED  BY <2>1, <2>6
<1>4. j \in G
  <2> HIDE DEF G
  <2>1. QED  BY <1>2, <1>3, Stretch
<1>5. QED  BY <1>4

LEMMA CallJudgements ==
  ASSUME Filed, NEW w, FoldWork(w), NEW more \in SUBSET stored[w.n].judgements,
         \A key \in DOMAIN ledger.judgements :
           JudgementAs(ledger, key, AuditsTo("judgements", w.n - 1), more),
         NEW key \in DOMAIN w.run[w.end].judgements
  PROVE  /\ JudgementAs(w.run[w.end], key, AuditsTo("judgements", w.n - 1), stored[w.n].judgements)
         /\ w.end = Len(w.pieces) =>
              JudgementAs(w.run[w.end], key, AuditsTo("judgements", w.n), {})
<1> DEFINE n == w.n
           s == w.run[w.end]
           before == AuditsTo("judgements", n - 1)
           own == stored[n].judgements
           old == JudgedAs(before, key)
           new == JudgedAs(own, key)
<1>1. /\ IsCall(w) /\ w.s = ledger /\ w.run[0] = ledger /\ RowPieces(w.pieces, "judgement", own)
  BY DEF FoldWork, WholeRows, IsCall
<1>2. /\ n \in Numbers /\ n \in Nat /\ w.end \in Nat /\ w.end <= Len(w.pieces)
      /\ IsList(w.pieces) /\ Len(w.pieces) \in Nat /\ DOMAIN w.pieces = 1 .. Len(w.pieces)
  BY <1>1, CallRange
<1>3. "judgements" \in RowTables /\ own = stored[n]["judgements"]
  BY DEF RowTables
<1>4. AuditsTo("judgements", n) = before \cup own
  BY <1>2, <1>3, AuditsToAre
<1>5. \A k \in DOMAIN w.pieces : w.pieces[k].hook = "judgement" => w.pieces[k].row \in own
  BY <1>1 DEF RowPieces
<1> HIDE DEF before, own
<1>6. ASSUME new = {} PROVE \E r \in old : IsLast(r, old) /\ s.judgements[key] = r[5].value
  <2>1. \A k \in 0 + 1 .. w.end :
          w.pieces[k].hook = "judgement" => w.pieces[k].row \notin JudgedAs({w.pieces[k].row}, key)
    <3>1. \A k \in 0 + 1 .. w.end : k \in DOMAIN w.pieces
      BY <1>2
    <3>2. QED  BY <1>5, <1>6, <3>1 DEF JudgedAs
  <2>2. SameJudgement(s, ledger, key)
    <3>1. 0 \in 0 .. w.end /\ w.end \in 0 .. w.end
      BY <1>2
    <3> HIDE DEF s
    <3>2. SameJudgement(w.run[w.end], w.run[0], key)
      BY <1>1, <2>1, <3>1, JudgementStays
    <3>3. QED  BY <1>1, <3>2 DEF s
  <2>3. key \in DOMAIN ledger.judgements /\ s.judgements[key] = ledger.judgements[key]
    BY <2>2 DEF SameJudgement
  <2>4. JudgedAs(more, key) = {}
    BY <1>6 DEF JudgedAs, own
  <2>5. JudgementAs(ledger, key, before, more)
    BY <2>3 DEF before
  <2> HIDE DEF s
  <2>6. QED  BY <2>3, <2>4, <2>5 DEF JudgementAs
<1>7. JudgementAs(s, key, before, own)
  BY <1>6 DEF JudgementAs
<1>8. ASSUME w.end = Len(w.pieces), new # {}
      PROVE  \E r \in old \cup new : IsLast(r, old \cup new) /\ s.judgements[key] = r[5].value
  <2>1. old \in SUBSET AuditsTo("judgements", n - 1) /\ new \in SUBSET stored[n]["judgements"]
    BY <1>3 DEF JudgedAs, before, own
  <2> HIDE DEF old, new
  <2>2. RowPieces(w.pieces, "judgement", stored[n]["judgements"])
    BY <1>1, <1>3 DEF own
  <2>3. PICK p : IsLastPiece(w.pieces, p, "judgement", new)
    BY <1>2, <1>3, <1>8, <2>1, <2>2, LastPiece
  <2>4. /\ p \in DOMAIN w.pieces /\ w.pieces[p].hook = "judgement" /\ w.pieces[p].row \in new
        /\ IsLast(w.pieces[p].row, new)
        /\ \A k \in DOMAIN w.pieces :
             k > p /\ w.pieces[k].hook = "judgement" => w.pieces[k].row \notin new
    BY <2>3 DEF IsLastPiece
  <2> DEFINE r == w.pieces[p].row
  <2>5. IsLast(r, old \cup new) /\ r \in new
    <3>1. IsLast(r, new)
      BY <2>4
    <3>2. r \in new
      BY <2>4
    <3> HIDE DEF n, r
    <3>3. QED  BY <1>2, <1>3, <2>1, <3>1, <3>2, LastOn
  <2>6. p \in 1 .. w.end /\ p \in 0 .. w.end /\ w.end \in p .. w.end
    BY <1>2, <1>8, <2>4
  <2>7. JudgementsFold(w.run[p], w.run[p - 1], w.pieces[p])
    BY <1>1, <2>6, CallFolds DEF Folds
  <2>8. <<r[4], r[5].registrar>> = key /\ r[5].value # Null
    BY <2>5 DEF new, JudgedAs
  <2>9. w.run[p].judgements[key] = r[5].value
    <3>1. w.run[p].judgements = Put(w.run[p - 1].judgements, key, r[5].value)
      BY <2>4, <2>7, <2>8 DEF JudgementsFold
    <3> HIDE DEF r
    <3>2. QED  BY <3>1 DEF Put
  <2>10. key \in DOMAIN w.run[p].judgements
    <3>1. w.run[p].judgements = Put(w.run[p - 1].judgements, key, r[5].value)
      BY <2>4, <2>7, <2>8 DEF JudgementsFold
    <3> HIDE DEF r
    <3>2. QED  BY <3>1 DEF Put
  <2>11. \A k \in p + 1 .. w.end :
          w.pieces[k].hook = "judgement" => w.pieces[k].row \notin JudgedAs({w.pieces[k].row}, key)
    <3>1. \A k \in p + 1 .. w.end : k \in DOMAIN w.pieces /\ k > p
      BY <1>2, <2>6
    <3>2. QED  BY <1>5, <2>4, <3>1 DEF new, JudgedAs
  <2>12. SameJudgement(w.run[w.end], w.run[p], key)
    BY <1>1, <2>6, <2>11, JudgementStays
  <2>13. w.run[w.end].judgements[key] = r[5].value
    BY <2>9, <2>10, <2>12 DEF SameJudgement
  <2>14. QED  BY <2>5, <2>13
<1>9. ASSUME w.end = Len(w.pieces) PROVE JudgementAs(s, key, before \cup own, {})
  <2>1. JudgedAs(before \cup own, key) = old \cup new
    BY DEF JudgedAs
  <2> HIDE DEF s
  <2>2. CASE new = {}
    <3>1. old \cup new = old
      BY <2>2
    <3> HIDE DEF old, new
    <3>2. QED  BY <1>6, <2>1, <2>2, <3>1 DEF JudgementAs
  <2>3. CASE new # {}
    <3> HIDE DEF old, new
    <3>1. QED  BY <1>8, <1>9, <2>1, <2>3 DEF JudgementAs
  <2>4. QED  BY <2>2, <2>3
<1>10. QED  BY <1>4, <1>7, <1>9 DEF s, n, before, own

\* The audits of the next block, when it is begun: some may have been applied.
More(f) == IF Half THEN stored[SequencerHead + 1][f] ELSE {}

LEMMA StepMore ==
  ASSUME SequencingInv, Upward, SessionsBegun, [Next]_vars, requests' = 0
  PROVE  /\ requests = 0 /\ Filed /\ stored' = stored /\ LedgerRight(ledger)
         /\ \/ \E w : /\ FoldWork(w) /\ w.n - 1 = SequencerHead /\ SameFolds(ledger', w.run[w.end])
                      /\ \A f : More(f) \in SUBSET stored[w.n][f]
                      /\ again' = {} => again = {} /\ ~Half
                      /\ \/ /\ w.end = Len(w.pieces) /\ SequencerHead' = w.n /\ ~Half'
                            /\ \A f : More(f)' = {}
                         \/ /\ SequencerHead' = w.n - 1 /\ Half'
                            /\ \A f : More(f)' = stored[w.n][f]
            \/ /\ SameFolds(ledger', ledger) /\ SequencerHead' = SequencerHead
               /\ (Half' <=> Half) /\ again' = again /\ \A f : More(f)' = More(f)
<1>1. /\ requests = 0 /\ Filed /\ LedgerRight(ledger) /\ UNCHANGED <<content, stored>>
      /\ \/ \E w : /\ FoldWork(w) /\ SameFolds(ledger', w.run[w.end])
                   /\ again' = {} => again = {} /\ ~Half
                   /\ \/ w.end = Len(w.pieces) /\ SequencerHead' = w.n /\ ~Half'
                      \/ SequencerHead' = SequencerHead /\ Half'
         \/ /\ SameFolds(ledger', ledger) /\ SequencerHead' = SequencerHead
            /\ (Half' <=> Half) /\ again' = again
  BY StepFolds
<1>2. SequencerHead \in Int
  BY HeadRange
<1>3. \A f : More(f)' = IF Half' THEN stored[SequencerHead' + 1][f] ELSE {}
  BY <1>1 DEF More
<1>4. CASE \E w : /\ FoldWork(w) /\ SameFolds(ledger', w.run[w.end])
                  /\ again' = {} => again = {} /\ ~Half
                  /\ \/ w.end = Len(w.pieces) /\ SequencerHead' = w.n /\ ~Half'
                     \/ SequencerHead' = SequencerHead /\ Half'
  <2>1. PICK w : /\ FoldWork(w) /\ SameFolds(ledger', w.run[w.end])
                 /\ again' = {} => again = {} /\ ~Half
                 /\ \/ w.end = Len(w.pieces) /\ SequencerHead' = w.n /\ ~Half'
                    \/ SequencerHead' = SequencerHead /\ Half'
    BY <1>4
  <2>2. w.n = SequencerHead + 1 /\ w.n - 1 = SequencerHead
    BY <1>2, <2>1 DEF FoldWork
  <2>3. \A f : More(f) \in SUBSET stored[w.n][f]
    BY <2>2 DEF More
  <2>4. \/ /\ w.end = Len(w.pieces) /\ SequencerHead' = w.n /\ ~Half'
           /\ \A f : More(f)' = {}
        \/ /\ SequencerHead' = w.n - 1 /\ Half'
           /\ \A f : More(f)' = stored[w.n][f]
    BY <1>3, <2>1, <2>2
  <2>5. QED  BY <1>1, <2>1, <2>2, <2>3, <2>4
<1>5. CASE /\ SameFolds(ledger', ledger) /\ SequencerHead' = SequencerHead
           /\ (Half' <=> Half) /\ again' = again
  <2>1. \A f : More(f)' = More(f)
    BY <1>3, <1>5 DEF More
  <2>2. QED  BY <1>1, <1>5, <2>1
<1>6. QED  BY <1>1, <1>4, <1>5

\* While the sequencer is in step, the audits that are folded up are those of
\* the blocks that are counted.
LEMMA InStepMore ==
  ASSUME SequencingInv, Upward, InStep
  PROVE  /\ requests = 0 /\ ~Half /\ SequencerHead \in -1 .. MaxBlock
         /\ \A f : More(f) = {} /\ AuditsSoFar(f) = AuditsTo(f, SequencerHead)
<1>1. requests = 0 /\ begun \subseteq Counted /\ Counted = 0 .. SequencerHead
  BY DEF InStep, Upward
<1>2. SequencerHead \in -1 .. MaxBlock /\ SequencerHead \in Int
  BY HeadRange
<1>3. SequencerHead + 1 \notin 0 .. SequencerHead
  BY <1>2
<1>4. ~Half
  BY <1>1, <1>3 DEF Half
<1>5. QED  BY <1>1, <1>2, <1>4 DEF More, AuditsSoFar, AuditsTo

\* The identities and judgements are those of the audits of the blocks that are
\* counted, up to what the next block may have changed already.
IdentitiesOf(s, h, moreIdentities, moreJudgements) ==
  /\ \A a \in DOMAIN s.accounts :
       IdentityAs(s, a, AuditsTo("identities", h), moreIdentities)
  /\ \A key \in DOMAIN s.judgements :
       JudgementAs(s, key, AuditsTo("judgements", h), moreJudgements)

IdentitiesRight ==
  requests = 0 =>
    IdentitiesOf(ledger, SequencerHead, More("identities"), More("judgements"))

LEMMA SameIdentities ==
  ASSUME NEW v, NEW u, SameFolds(v, u), NEW h, NEW mi, NEW mj, IdentitiesOf(u, h, mi, mj)
  PROVE  IdentitiesOf(v, h, mi, mj)
<1>1. /\ DOMAIN v.accounts = DOMAIN u.accounts /\ v.judgements = u.judgements
      /\ \A a \in DOMAIN u.accounts : /\ v.accounts[a].identity = u.accounts[a].identity
                                      /\ v.accounts[a].created = u.accounts[a].created
  BY DEF SameFolds, FieldsKept, FoldFields
<1>2. ASSUME NEW a \in DOMAIN v.accounts PROVE IdentityAs(v, a, AuditsTo("identities", h), mi)
  <2>1. IdentityAs(u, a, AuditsTo("identities", h), mi)
    BY <1>1 DEF IdentitiesOf
  <2>2. QED  BY <1>1, <2>1 DEF IdentityAs
<1>3. ASSUME NEW key \in DOMAIN v.judgements
      PROVE  JudgementAs(v, key, AuditsTo("judgements", h), mj)
  <2>1. JudgementAs(u, key, AuditsTo("judgements", h), mj)
    BY <1>1 DEF IdentitiesOf
  <2>2. QED  BY <1>1, <2>1 DEF JudgementAs
<1>4. QED  BY <1>2, <1>3 DEF IdentitiesOf

LEMMA InitIdentities == Init => IdentitiesRight
<1>1. SUFFICES ASSUME Init PROVE IdentitiesOf(ledger, SequencerHead, More("identities"), More("judgements"))
  BY DEF IdentitiesRight
<1>2. ledger.accounts = NoRows /\ ledger.judgements = NoRows
  BY <1>1 DEF Init, NoLedger
<1>3. DOMAIN ledger.accounts = {} /\ DOMAIN ledger.judgements = {}
  BY <1>2 DEF NoRows
<1>4. QED  BY <1>3 DEF IdentitiesOf

LEMMA StepIdentities ==
  SequencingInv /\ Upward /\ SessionsBegun /\ IdentitiesRight /\ [Next]_vars => IdentitiesRight'
<1> DEFINE v == ledger'
           head == SequencerHead'
           mi == More("identities")'
           mj == More("judgements")'
<1>1. SUFFICES ASSUME SequencingInv, Upward, SessionsBegun, IdentitiesRight, [Next]_vars,
                      requests' = 0
               PROVE  IdentitiesOf(v, head, mi, mj)
  <2>1. ASSUME SequencingInv, Upward, SessionsBegun, [Next]_vars, requests' = 0 PROVE stored' = stored
    BY <2>1, StepMore
  <2>2. ASSUME stored' = stored, IdentitiesOf(v, head, mi, mj)
        PROVE  IdentitiesOf(ledger, SequencerHead, More("identities"), More("judgements"))'
    <3> HIDE DEF v, head, mi, mj
    <3>1. QED  BY <2>2 DEF IdentitiesOf, AuditsTo, IdentityAs, JudgementAs, v, head, mi, mj
  <2> HIDE DEF v, head, mi, mj
  <2>3. QED  BY <1>1, <2>1, <2>2 DEF IdentitiesRight
<1>2. /\ requests = 0 /\ Filed
      /\ \/ \E w : /\ FoldWork(w) /\ w.n - 1 = SequencerHead /\ SameFolds(v, w.run[w.end])
                   /\ \A f : More(f) \in SUBSET stored[w.n][f]
                   /\ \/ /\ w.end = Len(w.pieces) /\ head = w.n /\ mi = {} /\ mj = {}
                      \/ /\ head = w.n - 1 /\ mi = stored[w.n]["identities"]
                         /\ mj = stored[w.n]["judgements"]
         \/ SameFolds(v, ledger) /\ head = SequencerHead
            /\ mi = More("identities") /\ mj = More("judgements")
  BY <1>1, StepMore
<1>3. IdentitiesOf(ledger, SequencerHead, More("identities"), More("judgements"))
  BY <1>1, <1>2 DEF IdentitiesRight
<1> HIDE DEF v, head, mi, mj
<1>4. ASSUME NEW w, FoldWork(w), w.n - 1 = SequencerHead, SameFolds(v, w.run[w.end]),
             \A f : More(f) \in SUBSET stored[w.n][f]
      PROVE  /\ IdentitiesOf(v, w.n - 1, stored[w.n].identities, stored[w.n].judgements)
             /\ w.end = Len(w.pieces) => IdentitiesOf(v, w.n, {}, {})
  <2> DEFINE s == w.run[w.end]
  <2>1. /\ \A a \in DOMAIN s.accounts :
             /\ IdentityAs(s, a, AuditsTo("identities", w.n - 1), stored[w.n].identities)
             /\ w.end = Len(w.pieces) => IdentityAs(s, a, AuditsTo("identities", w.n), {})
    <3>1. More("identities") \in SUBSET stored[w.n].identities
      BY <1>4
    <3>2. \A a \in DOMAIN ledger.accounts :
            IdentityAs(ledger, a, AuditsTo("identities", w.n - 1), More("identities"))
      BY <1>3, <1>4 DEF IdentitiesOf
    <3>3. QED  BY <1>2, <1>4, <3>1, <3>2, CallIdentities
  <2>2. /\ \A key \in DOMAIN s.judgements :
             /\ JudgementAs(s, key, AuditsTo("judgements", w.n - 1), stored[w.n].judgements)
             /\ w.end = Len(w.pieces) => JudgementAs(s, key, AuditsTo("judgements", w.n), {})
    <3>1. More("judgements") \in SUBSET stored[w.n].judgements
      BY <1>4
    <3>2. \A key \in DOMAIN ledger.judgements :
            JudgementAs(ledger, key, AuditsTo("judgements", w.n - 1), More("judgements"))
      BY <1>3, <1>4 DEF IdentitiesOf
    <3>3. QED  BY <1>2, <1>4, <3>1, <3>2, CallJudgements
  <2>3. SameFolds(v, s)
    BY <1>4
  <2> HIDE DEF s
  <2>4. IdentitiesOf(s, w.n - 1, stored[w.n].identities, stored[w.n].judgements)
    BY <2>1, <2>2 DEF IdentitiesOf
  <2>5. w.end = Len(w.pieces) => IdentitiesOf(s, w.n, {}, {})
    BY <2>1, <2>2 DEF IdentitiesOf
  <2>6. QED  BY <2>3, <2>4, <2>5, SameIdentities
<1>5. CASE SameFolds(v, ledger) /\ head = SequencerHead
           /\ mi = More("identities") /\ mj = More("judgements")
  BY <1>3, <1>5, SameIdentities
<1>6. CASE \E w : /\ FoldWork(w) /\ w.n - 1 = SequencerHead /\ SameFolds(v, w.run[w.end])
                  /\ \A f : More(f) \in SUBSET stored[w.n][f]
                  /\ \/ /\ w.end = Len(w.pieces) /\ head = w.n /\ mi = {} /\ mj = {}
                     \/ /\ head = w.n - 1 /\ mi = stored[w.n]["identities"]
                        /\ mj = stored[w.n]["judgements"]
  <2>1. PICK w : /\ FoldWork(w) /\ w.n - 1 = SequencerHead /\ SameFolds(v, w.run[w.end])
                 /\ \A f : More(f) \in SUBSET stored[w.n][f]
                 /\ \/ /\ w.end = Len(w.pieces) /\ head = w.n /\ mi = {} /\ mj = {}
                    \/ /\ head = w.n - 1 /\ mi = stored[w.n]["identities"]
                       /\ mj = stored[w.n]["judgements"]
    BY <1>6
  <2>2. /\ IdentitiesOf(v, w.n - 1, stored[w.n].identities, stored[w.n].judgements)
        /\ w.end = Len(w.pieces) => IdentitiesOf(v, w.n, {}, {})
    BY <1>4, <2>1
  <2>3. QED  BY <2>1, <2>2
<1>7. QED  BY <1>2, <1>5, <1>6

LEMMA IdentitiesShow == SequencingInv /\ Upward /\ IdentitiesRight => IdentityFollowsAudits
<1>1. SUFFICES ASSUME SequencingInv, Upward, IdentitiesRight, InStep PROVE IdentityFollowsAudits
  BY DEF IdentityFollowsAudits
<1>2. /\ IdentitiesOf(ledger, SequencerHead, {}, {})
      /\ AuditsSoFar("identities") = AuditsTo("identities", SequencerHead)
      /\ AuditsSoFar("judgements") = AuditsTo("judgements", SequencerHead)
  BY <1>1, InStepMore DEF IdentitiesRight
<1>3. \A a : About({}, a) = {} /\ JudgedAs({}, a) = {}
  BY DEF About, JudgedAs
<1>4. ASSUME NEW a \in DOMAIN ledger.accounts,
             NEW r \in About(AuditsSoFar("identities"), a),
             IsLast(r, About(AuditsSoFar("identities"), a)), ledger.accounts[a].created < r[1]
      PROVE  ledger.accounts[a].identity = IF r[3] = "set" THEN r[5] ELSE Null
  BY <1>2, <1>3, <1>4 DEF IdentitiesOf, IdentityAs
<1>5. ASSUME NEW key \in DOMAIN ledger.judgements
      PROVE  \E r \in JudgedAs(AuditsSoFar("judgements"), key) :
               IsLast(r, JudgedAs(AuditsSoFar("judgements"), key)) /\ ledger.judgements[key] = r[5].value
  BY <1>2, <1>3 DEF IdentitiesOf, JudgementAs
<1>6. QED  BY <1>4, <1>5 DEF IdentityFollowsAudits, About, JudgedAs

\* While the sequencer is in step, an account has the identity that was set last,
\* or none when it was cleared since, and a registrar's judgement is the last it
\* gave: also when blocks were given up half-way and done over.
THEOREM IdentitiesAlwaysFollow == Spec => []IdentityFollowsAudits
<1> DEFINE I == SequencingInv /\ Upward /\ SessionsBegun /\ IdentitiesRight
<1>1. Init => I
  BY InitInv, InitUpward, InitSessions, InitIdentities
<1>2. I /\ [Next]_vars => I'
  BY StepInv, StepUpward, StepSessions, StepIdentities
<1>3. I => IdentityFollowsAudits
  BY IdentitiesShow
<1> HIDE DEF I
<1>4. QED  BY <1>1, <1>2, <1>3, PTL DEF Spec
------------------------------------------------------------------------------
(* The owners of indices.                                                   *)

\* The audits that give an index.
GivenIn(rows, x) == {r \in rows : r[3] = "new" /\ r[5] = x}

\* The index that g gave is its account's, or has been freed.
OwnerIs(s, g) == g[5] \in DOMAIN s.owners /\ s.owners[g[5]] \in {g[4], Null}

\* A piece that does not give the index.
OtherIndex(piece, x) == piece.hook = "index" => ~(piece.row[3] = "new" /\ piece.row[5] = x)
FreesIt(piece, g) == piece.hook = "index" /\ Frees(piece.row, g)

LEMMA OwnerStep ==
  ASSUME NEW u, NEW s, NEW piece, OwnersFold(u, s, piece), piece.hook = "index" => IndexRow(piece.row),
         NEW g, g[5] \notin {Null, 0}, OwnerIs(s, g), OtherIndex(piece, g[5])
  PROVE  /\ OwnerIs(u, g)
         /\ FreesIt(piece, g) => u.owners[g[5]] = Null
         /\ ~FreesIt(piece, g) => u.owners[g[5]] = s.owners[g[5]]
<1> DEFINE x == g[5]
           r == piece.row
           freed == Freed(s, r)
<1>1. CASE piece.hook # "index"
  <2>1. u.owners = s.owners
    BY <1>1 DEF OwnersFold
  <2>2. QED  BY <1>1, <2>1 DEF OwnerIs, FreesIt
<1>2. CASE piece.hook = "index" /\ r[3] = "new"
  <2>1. u.owners = Put(s.owners, r[5], r[4]) /\ r[5] # x
    BY <1>2 DEF OwnersFold, OtherIndex
  <2>2. x \in DOMAIN u.owners /\ u.owners[x] = s.owners[x]
    BY <2>1 DEF Put, OwnerIs
  <2>3. ~FreesIt(piece, g)
    BY <1>2 DEF FreesIt, Frees
  <2>4. QED  BY <2>2, <2>3 DEF OwnerIs
<1>3. CASE piece.hook = "index" /\ r[3] # "new"
  <2>1. u.owners = [i \in DOMAIN s.owners |-> IF i \in freed THEN Null ELSE s.owners[i]]
    BY <1>3 DEF OwnersFold
  <2>2. r[3] = "reaped" /\ (r[4] = Null \/ r[5] = Null)
    BY <1>3 DEF IndexRow
  <2>3. freed = IF r[5] \in {Null, 0} THEN {i \in DOMAIN s.owners : s.owners[i] = r[4]}
                ELSE DOMAIN s.owners \cap {r[5]}
    BY DEF Freed
  <2> HIDE DEF freed
  <2>4. /\ x \in DOMAIN u.owners /\ u.owners[x] = IF x \in freed THEN Null ELSE s.owners[x]
        /\ x \in DOMAIN s.owners /\ s.owners[x] \in {g[4], Null}
    BY <2>1 DEF OwnerIs
  <2>5. FreesIt(piece, g) <=> (r[5] = x \/ (r[4] = g[4] /\ r[5] = Null))
    BY <1>3, <2>2 DEF FreesIt, Frees
  <2> HIDE DEF r, x
  <2>6. x \notin {Null, 0}
    BY DEF x
  <2>7. (r[5] = x \/ (r[4] = g[4] /\ r[5] = Null)) => u.owners[x] = Null
    BY <2>3, <2>4, <2>6
  <2>8. ~(r[5] = x \/ (r[4] = g[4] /\ r[5] = Null)) => u.owners[x] = s.owners[x]
    BY <2>2, <2>3, <2>4, <2>6
  <2>9. QED  BY <2>4, <2>5, <2>7, <2>8 DEF OwnerIs, x
<1>4. QED  BY <1>1, <1>2, <1>3

\* From one piece to another with none between that gives the index.
OwnerFrom(w, i, j, g) ==
  /\ OwnerIs(w.run[j], g)
  /\ w.run[i].owners[g[5]] = Null \/ (\E k \in i + 1 .. j : FreesIt(w.pieces[k], g)) =>
       w.run[j].owners[g[5]] = Null
  /\ (\A k \in i + 1 .. j : ~FreesIt(w.pieces[k], g)) =>
       w.run[j].owners[g[5]] = w.run[i].owners[g[5]]

LEMMA OwnerStays ==
  ASSUME Filed, NEW w, IsCall(w), NEW i \in 0 .. w.end, NEW j \in i .. w.end,
         NEW g, g[5] \notin {Null, 0}, OwnerIs(w.run[i], g),
         \A k \in i + 1 .. j : /\ w.pieces[k].hook = "index" => IndexRow(w.pieces[k].row)
                               /\ OtherIndex(w.pieces[k], g[5])
  PROVE  OwnerFrom(w, i, j, g)
<1> DEFINE G == {k \in i .. j : OwnerFrom(w, i, k, g)}
<1>1. w.end \in Nat
  BY CallRange
<1>2. i \in Nat /\ j \in Nat /\ i <= j /\ i \in i .. j /\ i + 1 .. i = {}
  BY <1>1
<1>3. OwnerFrom(w, i, i, g)
  BY <1>2 DEF OwnerFrom
<1>4. ASSUME NEW k \in i + 1 .. j, k - 1 \in G PROVE k \in G
  <2>1. /\ k \in 1 .. w.end /\ k \in i .. j
        /\ \A m : m \in i + 1 .. k <=> m \in i + 1 .. k - 1 \/ m = k
    BY <1>1, <1>2
  <2>2. OwnerFrom(w, i, k - 1, g)
    BY <1>4
  <2>3. OwnersFold(w.run[k], w.run[k - 1], w.pieces[k])
    BY <2>1, CallFolds DEF Folds
  <2>4. /\ OwnerIs(w.run[k], g)
        /\ FreesIt(w.pieces[k], g) => w.run[k].owners[g[5]] = Null
        /\ ~FreesIt(w.pieces[k], g) => w.run[k].owners[g[5]] = w.run[k - 1].owners[g[5]]
    BY <2>2, <2>3, OwnerStep DEF OwnerFrom
  <2>5. OwnerFrom(w, i, k, g)
    BY <2>1, <2>2, <2>4 DEF OwnerFrom
  <2>6. QED  BY <2>1, <2>5
<1>5. j \in G
  <2>1. i \in G
    BY <1>2, <1>3
  <2> HIDE DEF G
  <2>2. QED  BY <1>2, <1>4, <2>1, Stretch
<1>6. QED  BY <1>5

\* Index g[5], given by the audit g, is that account's unless it was freed
\* later; there may have been more audits in between.
OwnerAs(s, g, rows, more) ==
  GivenIn(more, g[5]) = {} =>
    /\ OwnerIs(s, g)
    /\ (\E r \in rows : Later(r, g) /\ Frees(r, g)) => s.owners[g[5]] = Null
    /\ (\A r \in rows \cup more : Later(r, g) => ~Frees(r, g)) => s.owners[g[5]] = g[4]

OwnersOf(s, rows, more) ==
  \A g \in rows :
    g[3] = "new" /\ g[5] \notin {Null, 0} /\ IsLast(g, GivenIn(rows, g[5])) => OwnerAs(s, g, rows, more)

LEMMA CallOwners ==
  ASSUME Filed, NEW w, FoldWork(w), NEW more \in SUBSET stored[w.n].indices,
         OwnersOf(ledger, AuditsTo("indices", w.n - 1), more)
  PROVE  /\ OwnersOf(w.run[w.end], AuditsTo("indices", w.n - 1), stored[w.n].indices)
         /\ w.end = Len(w.pieces) => OwnersOf(w.run[w.end], AuditsTo("indices", w.n), {})
<1> DEFINE n == w.n
           s == w.run[w.end]
           old == AuditsTo("indices", n - 1)
           new == stored[n].indices
<1>1. /\ IsCall(w) /\ w.s = ledger /\ w.run[0] = ledger /\ RowPieces(w.pieces, "index", new)
  BY DEF FoldWork, WholeRows, IsCall
<1>2. /\ n \in Numbers /\ n \in Nat /\ w.end \in Nat /\ w.end <= Len(w.pieces)
      /\ IsList(w.pieces) /\ Len(w.pieces) \in Nat /\ DOMAIN w.pieces = 1 .. Len(w.pieces)
  BY <1>1, CallRange
<1>3. "indices" \in RowTables /\ new = stored[n]["indices"]
  BY DEF RowTables
<1>4. AuditsTo("indices", n) = old \cup new
  BY <1>2, <1>3, AuditsToAre
<1>5. \A r \in new : IndexRow(r) /\ r[1] = n /\ r[2] \in Nat
  <2>1. \A r \in new : IndexRow(r)
    BY <1>2, <1>3, StoredRows DEF RowsFrom, RowAt
  <2>2. QED  BY <1>2, <1>3, <2>1, AuditsToAre
<1>6. \A q \in old, r \in new : Later(r, q) /\ ~Later(q, r)
  <2>1. \A q \in old : q[1] \in 1 .. n - 1 /\ q[2] \in Nat
    <3>1. n - 1 \in -1 .. MaxBlock
      BY <1>2, SequencingAssumption DEF Numbers
    <3>2. QED  BY <1>3, <3>1, AuditsToAre
  <2> HIDE DEF old, new
  <2>2. QED  BY <1>2, <1>5, <2>1 DEF Later
<1>7. \A k \in DOMAIN w.pieces :
        w.pieces[k].hook = "index" => w.pieces[k].row \in new /\ IndexRow(w.pieces[k].row)
  BY <1>1, <1>5 DEF RowPieces
<1>8. OwnersOf(ledger, old, more) /\ more \subseteq new
  OBVIOUS
<1>9. 0 \in 0 .. w.end /\ w.end \in 0 .. w.end /\ \A k \in 0 + 1 .. w.end : k \in DOMAIN w.pieces
  BY <1>2
<1> HIDE DEF old, new, s, n
\* The index was given before.
<1>10. ASSUME NEW g \in old, g[3] = "new", g[5] \notin {Null, 0}, IsLast(g, GivenIn(old, g[5])),
              GivenIn(new, g[5]) = {}
       PROVE  /\ OwnerFrom(w, 0, w.end, g) /\ OwnerIs(s, g)
              /\ (\E r \in old : Later(r, g) /\ Frees(r, g)) => s.owners[g[5]] = Null
              /\ (\A r \in old \cup new : Later(r, g) => ~Frees(r, g)) => s.owners[g[5]] = g[4]
  <2>1. OwnerAs(ledger, g, old, more) /\ GivenIn(more, g[5]) = {}
    BY <1>8, <1>10 DEF OwnersOf, GivenIn
  <2>2. /\ OwnerIs(ledger, g)
        /\ (\E r \in old : Later(r, g) /\ Frees(r, g)) => ledger.owners[g[5]] = Null
        /\ (\A r \in old \cup more : Later(r, g) => ~Frees(r, g)) => ledger.owners[g[5]] = g[4]
    BY <2>1 DEF OwnerAs
  <2>3. \A k \in 0 + 1 .. w.end : /\ w.pieces[k].hook = "index" => IndexRow(w.pieces[k].row)
                                  /\ OtherIndex(w.pieces[k], g[5])
    BY <1>7, <1>9, <1>10 DEF OtherIndex, GivenIn
  <2>4. OwnerFrom(w, 0, w.end, g)
    BY <1>1, <1>9, <1>10, <2>2, <2>3, OwnerStays
  <2>5. OwnerIs(s, g) /\ ((\E r \in old : Later(r, g) /\ Frees(r, g)) => s.owners[g[5]] = Null)
    BY <1>1, <2>2, <2>4 DEF OwnerFrom, s
  <2>6. ASSUME \A r \in old \cup new : Later(r, g) => ~Frees(r, g) PROVE s.owners[g[5]] = g[4]
    <3>1. \A k \in 0 + 1 .. w.end : ~FreesIt(w.pieces[k], g)
      BY <1>6, <1>7, <1>9, <2>6 DEF FreesIt
    <3>2. ledger.owners[g[5]] = g[4]
      BY <1>8, <2>2, <2>6
    <3>3. QED  BY <1>1, <2>4, <3>1, <3>2 DEF OwnerFrom, s
  <2>7. QED  BY <2>4, <2>5, <2>6
<1>11. OwnersOf(s, old, new)
  BY <1>10 DEF OwnersOf, OwnerAs
<1>12. ASSUME w.end = Len(w.pieces), NEW g \in old \cup new, g[3] = "new", g[5] \notin {Null, 0},
              IsLast(g, GivenIn(old \cup new, g[5]))
       PROVE  /\ OwnerIs(s, g)
              /\ (\E r \in old \cup new : Later(r, g) /\ Frees(r, g)) => s.owners[g[5]] = Null
              /\ (\A r \in old \cup new : Later(r, g) => ~Frees(r, g)) => s.owners[g[5]] = g[4]
  <2>1. \A q \in old \cup new : q[3] = "new" /\ q[5] = g[5] => ~Later(q, g)
    BY <1>12 DEF IsLast, GivenIn
  <2>2. CASE g \in old
    <3>1. IsLast(g, GivenIn(old, g[5])) /\ GivenIn(new, g[5]) = {}
      BY <1>6, <1>12, <2>1, <2>2 DEF IsLast, GivenIn
    <3>2. /\ OwnerFrom(w, 0, w.end, g) /\ OwnerIs(s, g)
          /\ (\E r \in old : Later(r, g) /\ Frees(r, g)) => s.owners[g[5]] = Null
          /\ (\A r \in old \cup new : Later(r, g) => ~Frees(r, g)) => s.owners[g[5]] = g[4]
      BY <1>10, <1>12, <2>2, <3>1
    <3>3. ASSUME NEW r \in new, Frees(r, g) PROVE s.owners[g[5]] = Null
      <4>1. PICK k \in DOMAIN w.pieces : w.pieces[k].hook = "index" /\ w.pieces[k].row = r
        BY <1>1, <3>3 DEF RowPieces
      <4>2. k \in 0 + 1 .. w.end /\ FreesIt(w.pieces[k], g)
        BY <1>2, <1>12, <3>3, <4>1 DEF FreesIt
      <4>3. QED  BY <3>2, <4>2 DEF OwnerFrom, s
    <3>4. QED  BY <3>2, <3>3
  <2>3. CASE g \in new
    <3>1. PICK p \in DOMAIN w.pieces : w.pieces[p].hook = "index" /\ w.pieces[p].row = g
      BY <1>1, <2>3 DEF RowPieces
    <3>2. p \in 1 .. w.end /\ p \in 0 .. w.end /\ w.end \in p .. w.end /\ p \in Int
      BY <1>2, <1>12
    <3>3. OwnersFold(w.run[p], w.run[p - 1], w.pieces[p])
      BY <1>1, <3>2, CallFolds DEF Folds
    <3>4. w.run[p].owners = Put(w.run[p - 1].owners, g[5], g[4])
      BY <1>12, <3>1, <3>3 DEF OwnersFold
    <3>5. OwnerIs(w.run[p], g) /\ w.run[p].owners[g[5]] = g[4]
      BY <3>4 DEF Put, OwnerIs
    <3>6. ASSUME NEW k \in DOMAIN w.pieces, k > p, w.pieces[k].hook = "index"
          PROVE  Later(w.pieces[k].row, g) /\ OtherIndex(w.pieces[k], g[5])
      <4>1. g[2] < w.pieces[k].row[2] /\ w.pieces[k].row \in new
        BY <1>1, <3>1, <3>6 DEF RowPieces
      <4>2. Later(w.pieces[k].row, g)
        BY <1>5, <2>3, <4>1 DEF Later
      <4>3. QED  BY <2>1, <4>1, <4>2 DEF OtherIndex
    <3>7. \A k \in p + 1 .. w.end : k \in DOMAIN w.pieces /\ k > p
      BY <1>2, <3>2
    <3>8. \A k \in p + 1 .. w.end : /\ w.pieces[k].hook = "index" => IndexRow(w.pieces[k].row)
                                    /\ OtherIndex(w.pieces[k], g[5])
      BY <1>7, <3>6, <3>7 DEF OtherIndex
    <3>9. OwnerFrom(w, p, w.end, g)
      BY <1>1, <1>12, <3>2, <3>5, <3>8, OwnerStays
    <3>10. ASSUME NEW r \in old \cup new, Later(r, g), Frees(r, g) PROVE s.owners[g[5]] = Null
      <4>1. r \in new
        BY <1>6, <2>3, <3>10
      <4>2. r[2] > g[2]
        BY <1>2, <1>5, <2>3, <3>10, <4>1 DEF Later
      <4>3. PICK k \in DOMAIN w.pieces : w.pieces[k].hook = "index" /\ w.pieces[k].row = r
        BY <1>1, <4>1 DEF RowPieces
      <4>4. k \in Int /\ k <= w.end
        BY <1>2, <1>12
      <4>5. ~(k < p) /\ k # p
        <5>1. k < p => r[2] < g[2]
          BY <1>1, <3>1, <4>3 DEF RowPieces
        <5>2. k = p => r = g
          BY <3>1, <4>3
        <5>3. g[2] \in Nat /\ r[2] \in Nat
          BY <1>5, <2>3, <4>1
        <5>4. QED  BY <4>2, <5>1, <5>2, <5>3
      <4>6. k \in p + 1 .. w.end /\ FreesIt(w.pieces[k], g)
        BY <3>2, <3>10, <4>3, <4>4, <4>5 DEF FreesIt
      <4>7. QED  BY <3>9, <4>6 DEF OwnerFrom, s
    <3>11. ASSUME \A r \in old \cup new : Later(r, g) => ~Frees(r, g) PROVE s.owners[g[5]] = g[4]
      <4>1. \A k \in p + 1 .. w.end : ~FreesIt(w.pieces[k], g)
        BY <1>7, <3>6, <3>7, <3>11 DEF FreesIt
      <4>2. QED  BY <3>5, <3>9, <4>1 DEF OwnerFrom, s
    <3>12. QED  BY <3>9, <3>10, <3>11 DEF OwnerFrom, s
  <2>4. QED  BY <2>2, <2>3
<1>13. w.end = Len(w.pieces) => OwnersOf(s, old \cup new, {})
  BY <1>12 DEF OwnersOf, OwnerAs
<1>14. QED  BY <1>4, <1>11, <1>13 DEF s, n, old, new

\* The owners of indices are those of the audits of the blocks that are counted,
\* up to what the next block may have changed already.
OwnersRight == requests = 0 => OwnersOf(ledger, AuditsTo("indices", SequencerHead), More("indices"))

LEMMA SameOwners ==
  ASSUME NEW v, NEW u, v.owners = u.owners, NEW rows, NEW more, OwnersOf(u, rows, more)
  PROVE  OwnersOf(v, rows, more)
<1>1. \A g : OwnerAs(u, g, rows, more) => OwnerAs(v, g, rows, more)
  BY DEF OwnerAs, OwnerIs
<1>2. QED  BY <1>1 DEF OwnersOf

LEMMA InitOwners == Init => OwnersRight
<1>1. SUFFICES ASSUME Init PROVE AuditsTo("indices", SequencerHead) = {}
  BY DEF OwnersRight, OwnersOf
<1>2. SequencerHead = -1
  <2>1. DOMAIN ledger.totals = {}
    BY <1>1 DEF Init, NoLedger, NoRows
  <2>2. QED  BY <2>1 DEF SequencerHead, Counted
<1>3. 1 .. -1 = {}
  OBVIOUS
<1>4. QED  BY <1>2, <1>3 DEF AuditsTo

LEMMA StepOwners ==
  SequencingInv /\ Upward /\ SessionsBegun /\ OwnersRight /\ [Next]_vars => OwnersRight'
<1> DEFINE v == ledger'
           head == SequencerHead'
           more == More("indices")'
<1>1. SUFFICES ASSUME SequencingInv, Upward, SessionsBegun, OwnersRight, [Next]_vars, requests' = 0
               PROVE  OwnersOf(v, AuditsTo("indices", head), more)
  <2>1. ASSUME SequencingInv, Upward, SessionsBegun, [Next]_vars, requests' = 0 PROVE stored' = stored
    BY <2>1, StepMore
  <2>2. ASSUME stored' = stored, OwnersOf(v, AuditsTo("indices", head), more)
        PROVE  OwnersOf(ledger, AuditsTo("indices", SequencerHead), More("indices"))'
    <3> HIDE DEF v, head, more
    <3>1. QED  BY <2>2 DEF OwnersOf, AuditsTo, v, head, more
  <2> HIDE DEF v, head, more
  <2>3. QED  BY <1>1, <2>1, <2>2 DEF OwnersRight
<1>2. /\ requests = 0 /\ Filed
      /\ \/ \E w : /\ FoldWork(w) /\ w.n - 1 = SequencerHead /\ SameFolds(v, w.run[w.end])
                   /\ \A f : More(f) \in SUBSET stored[w.n][f]
                   /\ \/ w.end = Len(w.pieces) /\ head = w.n /\ more = {}
                      \/ head = w.n - 1 /\ more = stored[w.n]["indices"]
         \/ SameFolds(v, ledger) /\ head = SequencerHead /\ more = More("indices")
  BY <1>1, StepMore
<1>3. OwnersOf(ledger, AuditsTo("indices", SequencerHead), More("indices"))
  BY <1>1, <1>2 DEF OwnersRight
<1> HIDE DEF v, head, more
<1>4. CASE SameFolds(v, ledger) /\ head = SequencerHead /\ more = More("indices")
  BY <1>3, <1>4, SameOwners DEF SameFolds
<1>5. CASE \E w : /\ FoldWork(w) /\ w.n - 1 = SequencerHead /\ SameFolds(v, w.run[w.end])
                  /\ \A f : More(f) \in SUBSET stored[w.n][f]
                  /\ \/ w.end = Len(w.pieces) /\ head = w.n /\ more = {}
                     \/ head = w.n - 1 /\ more = stored[w.n]["indices"]
  <2>1. PICK w : /\ FoldWork(w) /\ w.n - 1 = SequencerHead /\ SameFolds(v, w.run[w.end])
                 /\ \A f : More(f) \in SUBSET stored[w.n][f]
                 /\ \/ w.end = Len(w.pieces) /\ head = w.n /\ more = {}
                    \/ head = w.n - 1 /\ more = stored[w.n]["indices"]
    BY <1>5
  <2>2. More("indices") \in SUBSET stored[w.n].indices
    BY <2>1
  <2>3. /\ OwnersOf(w.run[w.end], AuditsTo("indices", w.n - 1), stored[w.n].indices)
        /\ w.end = Len(w.pieces) => OwnersOf(w.run[w.end], AuditsTo("indices", w.n), {})
    BY <1>2, <1>3, <2>1, <2>2, CallOwners
  <2>4. v.owners = w.run[w.end].owners
    BY <2>1 DEF SameFolds
  <2>5. QED  BY <2>1, <2>3, <2>4, SameOwners
<1>6. QED  BY <1>2, <1>4, <1>5

LEMMA OwnersShow == SequencingInv /\ Upward /\ OwnersRight => IndexOwner
<1>1. SUFFICES ASSUME SequencingInv, Upward, OwnersRight, InStep PROVE IndexOwner
  BY DEF IndexOwner
<1> DEFINE rows == AuditsSoFar("indices")
<1>2. OwnersOf(ledger, rows, {})
  BY <1>1, InStepMore DEF OwnersRight
<1> HIDE DEF rows
<1>3. ASSUME NEW g \in rows, g[3] = "new", g[5] \notin {Null, 0}, IsLast(g, GivenIn(rows, g[5]))
      PROVE  /\ g[5] \in DOMAIN ledger.owners
             /\ ledger.owners[g[5]] =
                  IF \E r \in rows : Later(r, g) /\ Frees(r, g) THEN Null ELSE g[4]
  <2>1. OwnerAs(ledger, g, rows, {}) /\ GivenIn({}, g[5]) = {}
    BY <1>2, <1>3 DEF OwnersOf, GivenIn
  <2>2. /\ OwnerIs(ledger, g)
        /\ (\E r \in rows : Later(r, g) /\ Frees(r, g)) => ledger.owners[g[5]] = Null
        /\ (\A r \in rows : Later(r, g) => ~Frees(r, g)) => ledger.owners[g[5]] = g[4]
    BY <2>1 DEF OwnerAs
  <2>3. QED  BY <2>2 DEF OwnerIs
<1>4. QED  BY <1>3 DEF IndexOwner, GivenIn, rows

\* While the sequencer is in step, an index belongs to the account that got it
\* last, until it is freed or the account is reaped: also when blocks were given
\* up half-way and done over.
THEOREM IndicesAlwaysOwned == Spec => []IndexOwner
<1> DEFINE I == SequencingInv /\ Upward /\ SessionsBegun /\ OwnersRight
<1>1. Init => I
  BY InitInv, InitUpward, InitSessions, InitOwners
<1>2. I /\ [Next]_vars => I'
  BY StepInv, StepUpward, StepSessions, StepOwners
<1>3. I => IndexOwner
  BY OwnersShow
<1> HIDE DEF I
<1>4. QED  BY <1>1, <1>2, <1>3, PTL DEF Spec

------------------------------------------------------------------------------
(* Who was reaped, and how often.                                           *)

\* The audits about an account but the one that made its row.
Since(created, rows) == {r \in rows : r[1] > created \/ \E q \in rows : Later(r, q)}

ReapedIn(rows) == {r \in rows : r[3] = "reaped"}

\* The row goes on from what it was, by these audits.
GoesBy(row, old, rows) ==
  /\ IsFiniteSet(rows) /\ row.count_reaped = old.count_reaped + Cardinality(ReapedIn(rows))
  /\ rows = {} => row.reaped = old.reaped
  /\ \A r \in rows : IsLast(r, rows) => row.reaped = (r[3] = "reaped")

\* The row of an account is what the audits about it say; it may have been told
\* of some of the next block already, and of those of a doubtful block twice.
ReapedAs(row, rows, more, doubt) ==
  LET told == Since(row.created, rows)
  IN /\ IsFiniteSet(told) /\ row.count_reaped \in Nat
     /\ row.count_reaped >= Cardinality(ReapedIn(told))
     /\ more = {} => \A r \in told : IsLast(r, told) => row.reaped = (r[3] = "reaped")
     /\ doubt = {} => row.count_reaped = Cardinality(ReapedIn(told)) /\ (told = {} => ~row.reaped)

LEMMA ReapedMore ==
  ASSUME NEW rows, IsFiniteSet(rows), NEW r, r \notin rows
  PROVE  /\ Cardinality(ReapedIn(rows)) \in Nat
         /\ Cardinality(ReapedIn(rows \cup {r}))
              = Cardinality(ReapedIn(rows)) + (IF r[3] = "reaped" THEN 1 ELSE 0)
<1>1. IsFiniteSet(ReapedIn(rows))
  BY FS_Subset DEF ReapedIn
<1>2. Cardinality(ReapedIn(rows)) \in Nat
  BY <1>1, FS_CardinalityType
<1>3. CASE r[3] = "reaped"
  <2>1. ReapedIn(rows \cup {r}) = ReapedIn(rows) \cup {r} /\ r \notin ReapedIn(rows)
    BY <1>3 DEF ReapedIn
  <2>2. QED  BY <1>1, <1>2, <1>3, <2>1, FS_AddElement
<1>4. CASE r[3] # "reaped"
  <2>1. ReapedIn(rows \cup {r}) = ReapedIn(rows)
    BY <1>4 DEF ReapedIn
  <2>2. QED  BY <1>2, <1>4, <2>1
<1>5. QED  BY <1>2, <1>3, <1>4

LEMMA ReapedJoin ==
  ASSUME NEW a, IsFiniteSet(a), NEW b, IsFiniteSet(b), a \cap b = {}
  PROVE  /\ IsFiniteSet(a \cup b)
         /\ Cardinality(ReapedIn(a)) \in Nat /\ Cardinality(ReapedIn(b)) \in Nat
         /\ Cardinality(ReapedIn(a \cup b)) = Cardinality(ReapedIn(a)) + Cardinality(ReapedIn(b))
<1>1. IsFiniteSet(ReapedIn(a)) /\ IsFiniteSet(ReapedIn(b))
  BY FS_Subset DEF ReapedIn
<1>2. Cardinality(ReapedIn(a)) \in Nat /\ Cardinality(ReapedIn(b)) \in Nat
  BY <1>1, FS_CardinalityType
<1>3. ReapedIn(a \cup b) = ReapedIn(a) \cup ReapedIn(b)
  BY DEF ReapedIn
<1>4. ReapedIn(a) \cap ReapedIn(b) = {}
  BY DEF ReapedIn
<1>5. Cardinality(ReapedIn(a) \cup ReapedIn(b))
        = Cardinality(ReapedIn(a)) + Cardinality(ReapedIn(b)) - Cardinality({})
  BY <1>1, <1>4, FS_Union
<1>6. Cardinality({}) = 0
  BY FS_EmptySet
<1>7. Cardinality(ReapedIn(a \cup b)) = Cardinality(ReapedIn(a)) + Cardinality(ReapedIn(b))
  <2> DEFINE x == Cardinality(ReapedIn(a))
             y == Cardinality(ReapedIn(b))
             z == Cardinality(ReapedIn(a \cup b))
  <2>1. z = x + y - 0
    BY <1>3, <1>5, <1>6
  <2> HIDE DEF x, y, z
  <2>2. x \in Nat /\ y \in Nat
    BY <1>2 DEF x, y
  <2>3. z = x + y
    BY <2>1, <2>2
  <2>4. QED  BY <2>3 DEF x, y, z
<1>8. IsFiniteSet(a \cup b)
  BY FS_Union
<1>9. QED  BY <1>2, <1>7, <1>8

LEMMA ReapedFewer ==
  ASSUME NEW a, IsFiniteSet(a), NEW b \in SUBSET a
  PROVE  /\ IsFiniteSet(b) /\ Cardinality(ReapedIn(a)) \in Nat /\ Cardinality(ReapedIn(b)) \in Nat
         /\ Cardinality(ReapedIn(b)) <= Cardinality(ReapedIn(a))
<1>1. IsFiniteSet(b) /\ IsFiniteSet(ReapedIn(a))
  BY FS_Subset DEF ReapedIn
<1>2. ReapedIn(b) \in SUBSET ReapedIn(a)
  BY DEF ReapedIn
<1>3. IsFiniteSet(ReapedIn(b)) /\ Cardinality(ReapedIn(b)) <= Cardinality(ReapedIn(a))
  BY <1>1, <1>2, FS_Subset
<1>4. QED  BY <1>1, <1>3, FS_CardinalityType

LEMMA NoneReaped == Cardinality(ReapedIn({})) = 0 /\ IsFiniteSet({}) /\ \A c : Since(c, {}) = {}
<1>1. ReapedIn({}) = {} /\ \A c : Since(c, {}) = {}
  BY DEF ReapedIn, Since
<1>2. QED  BY <1>1, FS_EmptySet

\* An account that had a row hears of a whole block.
LEMMA ReapedKnown ==
  ASSUME NEW n \in Nat, NEW old, NEW new, NEW more \in SUBSET new, NEW doubt, NEW was, NEW row,
         ReapedAs(was, old, more, doubt), GoesBy(row, was, new),
         row.created = was.created, was.created \in Nat, was.created <= n,
         doubt = {} => was.created < n, was.created = n => old = {},
         \A r \in new : r[1] = n, \A r \in new, q \in old : Later(r, q) /\ ~Later(q, r)
  PROVE  ReapedAs(row, old \cup new, {}, doubt)
<1> DEFINE c == was.created
           told == Since(c, old)
           all == old \cup new
           now == Since(c, all)
<1>1. /\ IsFiniteSet(told) /\ was.count_reaped \in Nat
      /\ was.count_reaped >= Cardinality(ReapedIn(told))
      /\ more = {} => \A r \in told : IsLast(r, told) => was.reaped = (r[3] = "reaped")
      /\ doubt = {} => was.count_reaped = Cardinality(ReapedIn(told)) /\ (told = {} => ~was.reaped)
  BY DEF ReapedAs
<1>2. /\ IsFiniteSet(new) /\ row.count_reaped = was.count_reaped + Cardinality(ReapedIn(new))
      /\ new = {} => row.reaped = was.reaped
      /\ \A r \in new : IsLast(r, new) => row.reaped = (r[3] = "reaped")
  BY DEF GoesBy
<1>3. told \in SUBSET old /\ told \cap new = {}
  <2>1. told \in SUBSET old
    BY DEF Since
  <2>2. \A r \in new, q \in old : r # q
    OBVIOUS
  <2>3. QED  BY <2>1, <2>2
<1>4. /\ IsFiniteSet(told \cup new)
      /\ Cardinality(ReapedIn(told)) \in Nat /\ Cardinality(ReapedIn(new)) \in Nat
      /\ Cardinality(ReapedIn(told \cup new)) = Cardinality(ReapedIn(told)) + Cardinality(ReapedIn(new))
  BY <1>1, <1>2, <1>3, ReapedJoin
<1>5. CASE c < n
  <2>1. now = told \cup new
    <3>1. \A r \in new : r[1] > c
      BY <1>5
    <3>2. \A r \in old : (\E q \in all : Later(r, q)) <=> (\E q \in old : Later(r, q))
      OBVIOUS
    <3>3. QED  BY <3>1, <3>2 DEF Since
  <2> HIDE DEF now, told, c
  <2>2. row.count_reaped \in Nat /\ row.count_reaped >= Cardinality(ReapedIn(now))
    BY <1>1, <1>2, <1>4, <2>1
  <2>3. doubt = {} => row.count_reaped = Cardinality(ReapedIn(now))
    BY <1>1, <1>2, <1>4, <2>1
  <2>4. ASSUME NEW r \in now, IsLast(r, now) PROVE row.reaped = (r[3] = "reaped")
    <3>1. CASE new = {}
      <4>1. now = told /\ more = {}
        BY <2>1, <3>1
      <4>2. was.reaped = (r[3] = "reaped")
        BY <1>1, <2>4, <4>1
      <4>3. QED  BY <1>2, <3>1, <4>2
    <3>2. CASE new # {}
      <4>1. r \in new
        <5>1. PICK x \in new : TRUE
          BY <3>2
        <5>2. r \in old => Later(x, r)
          BY <5>1
        <5>3. r \in old => FALSE
          BY <2>1, <2>4, <5>1, <5>2 DEF IsLast
        <5>4. QED  BY <1>3, <2>1, <5>3
      <4>2. IsLast(r, new)
        BY <2>1, <2>4, <4>1 DEF IsLast
      <4>3. QED  BY <1>2, <4>1, <4>2
    <3>3. QED  BY <3>1, <3>2
  <2>5. doubt = {} /\ now = {} => ~row.reaped
    <3>1. now = {} => told = {} /\ new = {}
      BY <2>1
    <3>2. QED  BY <1>1, <1>2, <3>1
  <2>6. QED  BY <1>4, <2>1, <2>2, <2>3, <2>4, <2>5 DEF ReapedAs, now, c
<1>6. CASE c = n
  <2>1. old = {} /\ all = new /\ doubt # {}
    BY <1>6
  <2>2. now \in SUBSET new
    BY <2>1 DEF Since
  <2>3. /\ IsFiniteSet(now) /\ Cardinality(ReapedIn(now)) \in Nat
        /\ Cardinality(ReapedIn(now)) <= Cardinality(ReapedIn(new))
    <3> HIDE DEF now
    <3>1. QED  BY <1>2, <2>2, ReapedFewer
  <2>4. ASSUME NEW r \in now, IsLast(r, now) PROVE row.reaped = (r[3] = "reaped")
    <3>1. \A x \in new : Later(x, r) => x \in now
      BY <2>1, <2>2, <2>4 DEF Since
    <3> HIDE DEF now
    <3>2. r \in new /\ IsLast(r, new)
      BY <2>2, <2>4, <3>1 DEF IsLast
    <3>3. QED  BY <1>2, <3>2
  <2> HIDE DEF now, c
  <2>5. row.count_reaped \in Nat /\ row.count_reaped >= Cardinality(ReapedIn(now))
    BY <1>1, <1>2, <1>4, <2>3
  <2>6. QED  BY <2>1, <2>3, <2>4, <2>5 DEF ReapedAs, now, c
<1>7. QED  BY <1>5, <1>6

\* An account that gets its row in the block hears of the rest of the block.
LEMMA ReapedMade ==
  ASSUME NEW n, NEW all, NEW rest, NEW doubt, NEW was, NEW row, Since(n, all) = rest,
         was.count_reaped = 0, ~was.reaped, was.reaped = FALSE, GoesBy(row, was, rest), row.created = n
  PROVE  ReapedAs(row, all, {}, doubt)
<1>1. /\ IsFiniteSet(rest) /\ row.count_reaped = 0 + Cardinality(ReapedIn(rest))
      /\ rest = {} => row.reaped = was.reaped
      /\ \A r \in rest : IsLast(r, rest) => row.reaped = (r[3] = "reaped")
  BY DEF GoesBy
<1>2. Cardinality(ReapedIn(rest)) \in Nat
  BY <1>1, ReapedFewer
<1>3. row.count_reaped = Cardinality(ReapedIn(rest)) /\ row.count_reaped \in Nat
  BY <1>1, <1>2
<1>4. rest = {} => ~row.reaped
  BY <1>1
<1>5. QED  BY <1>1, <1>2, <1>3, <1>4 DEF ReapedAs

\* Piece k is for an audit about account a.
IsAbout(w, k, a) == w.pieces[k].hook = "audit" /\ w.pieces[k].row[4] = a

\* The audits about the account that the pieces behind i are for, up to piece j.
ToldOf(w, i, j, a) == {w.pieces[k].row : k \in {m \in i + 1 .. j : IsAbout(w, m, a)}}

\* How a piece tells of an account that has a row.
LEMMA PieceTells ==
  ASSUME Filed, NEW w, IsCall(w), NEW k \in 1 .. w.end, NEW a \in DOMAIN w.run[k - 1].accounts
  PROVE  LET row == w.run[k].accounts[a]
             was == w.run[k - 1].accounts[a]
             reaped == w.pieces[k].row[3] = "reaped"
         IN IF IsAbout(w, k, a)
            THEN /\ row.reaped = reaped
                 /\ row.count_reaped = IF reaped THEN was.count_reaped + 1 ELSE was.count_reaped
            ELSE row.reaped = was.reaped /\ row.count_reaped = was.count_reaped
<1>1. ReapedFold(w.run[k], w.run[k - 1], w.pieces[k])
  BY CallFolds DEF Folds
<1>2. QED  BY <1>1 DEF ReapedFold, IsAbout

LEMMA HeardOn ==
  ASSUME Filed, NEW w, IsCall(w), w.n # 0, RowPieces(w.pieces, "audit", stored[w.n].audits),
         NEW i \in 0 .. w.end, NEW j \in i .. w.end, NEW a \in DOMAIN w.run[i].accounts,
         w.run[i].accounts[a].count_reaped \in Nat
  PROVE  GoesBy(w.run[j].accounts[a], w.run[i].accounts[a], ToldOf(w, i, j, a))
<1> DEFINE was == w.run[i].accounts[a]
           G == {k \in i .. j : GoesBy(w.run[k].accounts[a], was, ToldOf(w, i, k, a))}
<1>1. /\ w.end \in Nat /\ w.end <= Len(w.pieces) /\ Len(w.pieces) \in Nat
      /\ DOMAIN w.pieces = 1 .. Len(w.pieces) /\ w.n \in Numbers
  BY CallRange
<1>2. i \in Nat /\ j \in Nat /\ i <= j
  BY <1>1
<1>3. \A r \in stored[w.n].audits : r[1] = w.n /\ r[2] \in Nat
  <2>1. "audits" \in RowTables /\ stored[w.n].audits = stored[w.n]["audits"]
    BY DEF RowTables
  <2>2. QED  BY <1>1, <2>1, AuditsToAre
<1>4. w.n \in Int
  BY <1>1, SequencingAssumption DEF Numbers
<1>5. i \in G
  <2>1. \A k \in i + 1 .. i : FALSE
    BY <1>2
  <2>2. ToldOf(w, i, i, a) = {}
    BY <2>1 DEF ToldOf
  <2>3. was.count_reaped \in Nat
    OBVIOUS
  <2>4. Cardinality(ReapedIn({})) = 0 /\ IsFiniteSet({})
    BY NoneReaped
  <2>5. was.count_reaped = was.count_reaped + 0
    BY <2>3
  <2>6. GoesBy(was, was, {})
    BY <2>4, <2>5 DEF GoesBy
  <2>7. QED  BY <1>2, <2>2, <2>6
<1>6. ASSUME NEW k \in i + 1 .. j, k - 1 \in G PROVE k \in G
  <2> DEFINE row == w.run[k].accounts[a]
             mid == w.run[k - 1].accounts[a]
             r == w.pieces[k].row
             before == ToldOf(w, i, k - 1, a)
  <2>1. k \in 1 .. w.end /\ k \in i .. j /\ k - 1 \in i .. w.end /\ k \in DOMAIN w.pieces
    BY <1>1, <1>2
  <2>2. a \in DOMAIN w.run[k - 1].accounts
    BY <2>1, CallAccounts
  <2>3. IF IsAbout(w, k, a)
        THEN /\ row.reaped = (r[3] = "reaped")
             /\ row.count_reaped = IF r[3] = "reaped" THEN mid.count_reaped + 1 ELSE mid.count_reaped
        ELSE row.reaped = mid.reaped /\ row.count_reaped = mid.count_reaped
    BY <2>1, <2>2, PieceTells
  <2>4. GoesBy(mid, was, before)
    BY <1>6
  <2>5. /\ IsFiniteSet(before) /\ mid.count_reaped = was.count_reaped + Cardinality(ReapedIn(before))
        /\ before = {} => mid.reaped = was.reaped
        /\ \A q \in before : IsLast(q, before) => mid.reaped = (q[3] = "reaped")
    BY <2>4 DEF GoesBy
  <2>6. i + 1 .. k = (i + 1 .. k - 1) \cup {k}
    BY <1>2, <2>1
  <2>7. CASE ~IsAbout(w, k, a)
    <3>1. ToldOf(w, i, k, a) = before
      BY <2>6, <2>7 DEF ToldOf
    <3> HIDE DEF before, mid, row, was
    <3>2. GoesBy(row, was, before)
      BY <2>3, <2>5, <2>7 DEF GoesBy
    <3>3. QED  BY <2>1, <3>1, <3>2 DEF before, mid, row, was
  <2>8. CASE IsAbout(w, k, a)
    <3>1. ToldOf(w, i, k, a) = before \cup {r}
      BY <2>6, <2>8 DEF ToldOf
    <3>2. ASSUME NEW q \in before PROVE Later(r, q) /\ q # r
      <4>1. PICK m \in i + 1 .. k - 1 : IsAbout(w, m, a) /\ q = w.pieces[m].row
        BY DEF ToldOf
      <4>2. m \in DOMAIN w.pieces /\ m < k
        BY <1>1, <1>2, <2>1, <4>1
      <4>3. q[2] < r[2] /\ q \in stored[w.n].audits /\ r \in stored[w.n].audits
        BY <2>1, <2>8, <4>1, <4>2 DEF RowPieces, IsAbout
      <4>4. q[1] = w.n /\ r[1] = w.n /\ q[2] \in Nat /\ r[2] \in Nat
        BY <1>3, <4>3
      <4>5. QED  BY <4>3, <4>4 DEF Later
    <3>3. r \notin before
      BY <3>2
    <3>4. row.reaped = (r[3] = "reaped")
      BY <2>3, <2>8
    <3>5. row.count_reaped = IF r[3] = "reaped" THEN mid.count_reaped + 1 ELSE mid.count_reaped
      BY <2>3, <2>8
    <3> DEFINE c == Cardinality(ReapedIn(before))
    <3> HIDE DEF before, r
    <3>6. /\ c \in Nat
          /\ Cardinality(ReapedIn(before \cup {r})) = c + (IF r[3] = "reaped" THEN 1 ELSE 0)
      BY <2>5, <3>3, ReapedMore
    <3>7. was.count_reaped \in Nat /\ mid.count_reaped = was.count_reaped + c
      BY <2>5
    <3> HIDE DEF c, mid, row, was
    <3>8. row.count_reaped = was.count_reaped + Cardinality(ReapedIn(before \cup {r}))
      BY <3>5, <3>6, <3>7
    <3>9. IsFiniteSet(before \cup {r})
      BY <2>5, FS_AddElement
    <3>10. \A x \in before \cup {r} : IsLast(x, before \cup {r}) => x = r
      BY <3>2 DEF IsLast
    <3>11. before \cup {r} # {}
      OBVIOUS
    <3>12. GoesBy(row, was, before \cup {r})
      BY <3>4, <3>8, <3>9, <3>10, <3>11 DEF GoesBy
    <3>13. QED  BY <2>1, <3>1, <3>12 DEF before, r, row, was
  <2>9. QED  BY <2>7, <2>8
<1>7. j \in G
  <2> HIDE DEF G
  <2>1. QED  BY <1>2, <1>5, <1>6, Stretch
<1>8. QED  BY <1>7

\* Nothing that block 0 tells counts.
LEMMA QuietOn ==
  ASSUME Filed, NEW w, IsCall(w),
         \A k \in DOMAIN w.pieces : w.pieces[k].hook = "audit" => w.pieces[k].row[3] = "new",
         NEW i \in 0 .. w.end, NEW j \in i .. w.end, NEW a \in DOMAIN w.run[i].accounts
  PROVE  /\ w.run[j].accounts[a].count_reaped = w.run[i].accounts[a].count_reaped
         /\ ~w.run[i].accounts[a].reaped => ~w.run[j].accounts[a].reaped
<1> DEFINE was == w.run[i].accounts[a]
           Quiet(row) == row.count_reaped = was.count_reaped /\ (~was.reaped => ~row.reaped)
           G == {k \in i .. j : Quiet(w.run[k].accounts[a])}
<1>1. /\ w.end \in Nat /\ w.end <= Len(w.pieces) /\ Len(w.pieces) \in Nat
      /\ DOMAIN w.pieces = 1 .. Len(w.pieces)
  BY CallRange
<1>2. i \in Nat /\ j \in Nat /\ i <= j /\ i \in G
  BY <1>1
<1>3. ASSUME NEW k \in i + 1 .. j, k - 1 \in G PROVE k \in G
  <2> DEFINE row == w.run[k].accounts[a]
             mid == w.run[k - 1].accounts[a]
             reaped == w.pieces[k].row[3] = "reaped"
  <2>1. k \in 1 .. w.end /\ k \in i .. j /\ k - 1 \in i .. w.end /\ k \in DOMAIN w.pieces
    BY <1>1, <1>2
  <2>2. a \in DOMAIN w.run[k - 1].accounts
    BY <2>1, CallAccounts
  <2>3. IF IsAbout(w, k, a)
        THEN /\ row.reaped = reaped
             /\ row.count_reaped = IF reaped THEN mid.count_reaped + 1 ELSE mid.count_reaped
        ELSE row.reaped = mid.reaped /\ row.count_reaped = mid.count_reaped
    BY <2>1, <2>2, PieceTells
  <2>4. IsAbout(w, k, a) => ~reaped
    BY <2>1 DEF IsAbout
  <2>5. Quiet(mid)
    BY <1>3
  <2> HIDE DEF row, mid, was, reaped
  <2>6. Quiet(row)
    BY <2>3, <2>4, <2>5
  <2>7. QED  BY <2>1, <2>6 DEF row, was
<1>4. j \in G
  <2> HIDE DEF G
  <2>1. QED  BY <1>2, <1>3, Stretch
<1>5. QED  BY <1>4

\* Piece p makes the row of account a, that is not reaped.
MakesRow(w, p, a) ==
  /\ a \notin DOMAIN w.run[p - 1].accounts /\ a \in DOMAIN w.run[p].accounts
  /\ IsAbout(w, p, a) \/ (w.pieces[p].hook = "indexed" /\ w.pieces[p].row = a)
  /\ w.run[p].accounts[a].reaped = FALSE /\ w.run[p].accounts[a].count_reaped = 0

LEMMA MadeAt ==
  ASSUME Filed, NEW w, IsCall(w), NEW j \in 0 .. w.end,
         NEW a \in DOMAIN w.run[j].accounts \ DOMAIN w.run[0].accounts
  PROVE  \E p \in 1 .. j : MakesRow(w, p, a)
<1> DEFINE G == {k \in 0 .. j : a \notin DOMAIN w.run[k].accounts}
<1>1. w.end \in Nat /\ j \in Nat /\ 0 <= j /\ 0 \in G
  BY CallRange
<1>2. PICK p \in 1 .. j : p - 1 \in G /\ p \notin G
  <2>1. SUFFICES ASSUME \A k \in 0 + 1 .. j : k - 1 \in G => k \in G PROVE j \in G
    BY <1>1
  <2> HIDE DEF G
  <2>2. 0 \in Nat
    OBVIOUS
  <2>3. QED  BY <1>1, <2>1, <2>2, Stretch
<1>3. a \notin DOMAIN w.run[p - 1].accounts /\ a \in DOMAIN w.run[p].accounts /\ p \in 1 .. w.end
  BY <1>1, <1>2
<1>4. ReapedFold(w.run[p], w.run[p - 1], w.pieces[p])
  BY <1>3, CallFolds DEF Folds
<1>5. QED  BY <1>3, <1>4 DEF ReapedFold, IsAbout, MakesRow

\* The audits of the block that the pieces of a call are for.
LEMMA HeardIs ==
  ASSUME Filed, NEW w, FoldWork(w), w.n # 0, NEW i \in 0 .. w.end, NEW a
  PROVE  /\ ToldOf(w, i, w.end, a) \in SUBSET About(stored[w.n].audits, a)
         /\ w.end = Len(w.pieces) => ToldOf(w, 0, w.end, a) = About(stored[w.n].audits, a)
<1> DEFINE own == stored[w.n].audits
<1>1. IsCall(w) /\ RowPieces(w.pieces, "audit", own)
  BY DEF FoldWork, WholeRows
<1>2. /\ w.end \in Nat /\ w.end <= Len(w.pieces) /\ Len(w.pieces) \in Nat
      /\ DOMAIN w.pieces = 1 .. Len(w.pieces)
  BY <1>1, CallRange
<1>3. \A k \in i + 1 .. w.end : k \in DOMAIN w.pieces
  BY <1>2
<1> HIDE DEF own
<1>4. \A k \in i + 1 .. w.end : IsAbout(w, k, a) => w.pieces[k].row \in About(own, a)
  BY <1>1, <1>3 DEF RowPieces, IsAbout, About
<1>5. ToldOf(w, i, w.end, a) \in SUBSET About(own, a)
  BY <1>4 DEF ToldOf
<1>6. ASSUME w.end = Len(w.pieces), NEW r \in About(own, a) PROVE r \in ToldOf(w, 0, w.end, a)
  <2>1. r \in own /\ r[4] = a
    BY <1>6 DEF About
  <2>2. PICK k \in DOMAIN w.pieces : w.pieces[k].hook = "audit" /\ w.pieces[k].row = r
    BY <1>1, <2>1 DEF RowPieces
  <2>3. k \in 0 + 1 .. w.end /\ IsAbout(w, k, a)
    BY <1>2, <1>6, <2>1, <2>2 DEF IsAbout
  <2>4. QED  BY <2>2, <2>3 DEF ToldOf
<1>7. 0 \in 0 .. w.end /\ \A k \in 0 + 1 .. w.end : k \in DOMAIN w.pieces
  BY <1>2
<1>8. \A k \in 0 + 1 .. w.end : IsAbout(w, k, a) => w.pieces[k].row \in About(own, a)
  BY <1>1, <1>7 DEF RowPieces, IsAbout, About
<1>9. ToldOf(w, 0, w.end, a) \in SUBSET About(own, a)
  BY <1>8 DEF ToldOf
<1>10. w.end = Len(w.pieces) => ToldOf(w, 0, w.end, a) = About(own, a)
  BY <1>6, <1>9
<1>11. QED  BY <1>5, <1>10 DEF own

\* What a call tells of an account that had a row.
LEMMA TellsKnown ==
  ASSUME Filed, NEW w, FoldWork(w), NEW a \in DOMAIN ledger.accounts,
         ledger.accounts[a].count_reaped \in Nat
  PROVE  LET row == w.run[w.end].accounts[a]
             was == ledger.accounts[a]
             own == stored[w.n].audits
         IN /\ a \in DOMAIN w.run[w.end].accounts /\ row.created = was.created
            /\ row.count_reaped \in Nat /\ row.count_reaped >= was.count_reaped
            /\ w.n # 0 /\ About(own, a) = {} => row.reaped = was.reaped
            /\ w.n # 0 /\ w.end = Len(w.pieces) => GoesBy(row, was, About(own, a))
            /\ w.n = 0 => row.count_reaped = was.count_reaped /\ (~was.reaped => ~row.reaped)
<1> DEFINE s == w.run[w.end]
           row == s.accounts[a]
           was == ledger.accounts[a]
           own == stored[w.n].audits
<1>1. /\ IsCall(w) /\ w.s = ledger /\ w.run[0] = ledger
      /\ w.n # 0 => RowPieces(w.pieces, "audit", own)
      /\ w.n = 0 => \A k \in DOMAIN w.pieces : w.pieces[k].hook = "audit" => w.pieces[k].row[3] = "new"
  BY DEF FoldWork, WholeRows, IsCall
<1>2. w.end \in Nat /\ 0 \in 0 .. w.end /\ w.end \in 0 .. w.end
  BY <1>1, CallRange
<1>3. a \in DOMAIN w.run[0].accounts /\ w.run[0].accounts[a] = was
  BY <1>1
<1>4. a \in DOMAIN s.accounts
  BY <1>1, <1>2, <1>3, CallAccounts
<1>5. row.created = was.created
  BY <1>1, <1>2, <1>4, CallAccounts
<1>6. CASE w.n = 0
  <2>1. row.count_reaped = was.count_reaped /\ (~was.reaped => ~row.reaped)
    <3> HIDE DEF row, was
    <3>1. /\ w.run[w.end].accounts[a].count_reaped = w.run[0].accounts[a].count_reaped
          /\ ~w.run[0].accounts[a].reaped => ~w.run[w.end].accounts[a].reaped
      BY <1>1, <1>2, <1>3, <1>6, QuietOn
    <3>2. QED  BY <1>3, <3>1 DEF row
  <2> HIDE DEF row, s
  <2>2. row.count_reaped \in Nat /\ row.count_reaped >= was.count_reaped
    BY <2>1
  <2>3. QED  BY <1>4, <1>5, <1>6, <2>1, <2>2 DEF s, row
<1>7. CASE w.n # 0
  <2> DEFINE heard == ToldOf(w, 0, w.end, a)
  <2>1. GoesBy(row, was, heard)
    <3>1. w.run[0].accounts[a].count_reaped \in Nat
      BY <1>3
    <3>2. GoesBy(w.run[w.end].accounts[a], w.run[0].accounts[a], heard)
      BY <1>1, <1>2, <1>3, <1>7, <3>1, HeardOn
    <3>3. QED  BY <1>3, <3>2
  <2>2. heard \in SUBSET About(own, a) /\ (w.end = Len(w.pieces) => heard = About(own, a))
    BY <1>2, <1>7, HeardIs
  <2> HIDE DEF heard, row, own, s
  <2>3. /\ IsFiniteSet(heard) /\ row.count_reaped = was.count_reaped + Cardinality(ReapedIn(heard))
        /\ heard = {} => row.reaped = was.reaped
    BY <2>1 DEF GoesBy
  <2>4. Cardinality(ReapedIn(heard)) \in Nat
    BY <2>3, ReapedFewer
  <2>5. row.count_reaped \in Nat /\ row.count_reaped >= was.count_reaped
    BY <2>3, <2>4
  <2>6. About(own, a) = {} => row.reaped = was.reaped
    BY <2>2, <2>3
  <2>7. QED  BY <1>4, <1>5, <1>7, <2>1, <2>2, <2>5, <2>6 DEF s, row, own
<1>8. QED  BY <1>6, <1>7

\* What a call tells of an account that gets its row in it.
LEMMA MadeHears ==
  ASSUME Filed, NEW w, FoldWork(w), w.n # 0, w.end = Len(w.pieces), NEW a, NEW p \in 1 .. w.end,
         a \notin DOMAIN w.run[p - 1].accounts, a \in DOMAIN w.run[p].accounts,
         IsAbout(w, p, a) \/ (w.pieces[p].hook = "indexed" /\ w.pieces[p].row = a)
  PROVE  Since(w.n, About(stored[w.n].audits, a)) = ToldOf(w, p, w.end, a)
<1> DEFINE own == stored[w.n].audits
           all == About(own, a)
<1>1. IsCall(w) /\ RowPieces(w.pieces, "audit", own) /\ AuditsFirst(w.pieces)
  BY DEF FoldWork, WholeRows
<1>2. /\ w.end \in Nat /\ Len(w.pieces) \in Nat /\ DOMAIN w.pieces = 1 .. w.end
      /\ w.n \in Numbers
  BY <1>1, CallRange
<1>3. \A r \in own : r[1] = w.n /\ r[2] \in Nat
  <2>1. "audits" \in RowTables /\ stored[w.n].audits = stored[w.n]["audits"]
    BY DEF RowTables
  <2>2. QED  BY <1>2, <2>1, AuditsToAre
<1>4. w.n \in Nat
  BY <1>2, SequencingAssumption DEF Numbers
<1> HIDE DEF own
<1>5. ASSUME NEW k \in DOMAIN w.pieces, IsAbout(w, k, a) PROVE ~(k < p)
  <2>1. SUFFICES ASSUME k < p PROVE FALSE
    OBVIOUS
  <2>2. k \in 1 .. w.end /\ k \in 0 .. w.end /\ p - 1 \in k .. w.end
    BY <1>2, <2>1
  <2>3. a \in DOMAIN w.run[k].accounts
    <3>1. ReapedFold(w.run[k], w.run[k - 1], w.pieces[k])
      BY <1>1, <2>2, CallFolds DEF Folds
    <3>2. QED  BY <1>5, <3>1 DEF ReapedFold, IsAbout
  <2>4. a \in DOMAIN w.run[p - 1].accounts
    BY <1>1, <2>2, <2>3, CallAccounts
  <2>5. QED  BY <2>4
<1>6. ASSUME NEW r \in all PROVE \E k \in DOMAIN w.pieces : IsAbout(w, k, a) /\ w.pieces[k].row = r
  <2>1. r \in own /\ r[4] = a
    BY <1>6 DEF About
  <2>2. QED  BY <1>1, <2>1 DEF RowPieces, IsAbout
<1>7. ASSUME NEW k \in DOMAIN w.pieces, IsAbout(w, k, a)
      PROVE  w.pieces[k].row \in all /\ w.pieces[k].row[1] = w.n /\ w.pieces[k].row[2] \in Nat
  <2>1. w.pieces[k].row \in own /\ w.pieces[k].row[4] = a
    BY <1>1, <1>7 DEF RowPieces, IsAbout
  <2>2. QED  BY <1>3, <2>1 DEF About
<1>8. ASSUME NEW j \in DOMAIN w.pieces, NEW k \in DOMAIN w.pieces, j < k,
             IsAbout(w, j, a), IsAbout(w, k, a)
      PROVE  w.pieces[j].row[2] < w.pieces[k].row[2]
  BY <1>1, <1>8 DEF RowPieces, IsAbout
<1> HIDE DEF all
<1>9. ASSUME NEW k \in p + 1 .. w.end, IsAbout(w, k, a) PROVE w.pieces[k].row \in Since(w.n, all)
  <2>1. k \in DOMAIN w.pieces /\ p \in DOMAIN w.pieces /\ p < k
    BY <1>2, <1>9
  <2>2. IsAbout(w, p, a)
    <3>1. w.pieces[p].hook = "indexed" => k < p
      BY <1>1, <1>9, <2>1 DEF AuditsFirst, IsAbout
    <3>2. QED  BY <1>2, <2>1, <3>1
  <2>3. Later(w.pieces[k].row, w.pieces[p].row)
    BY <1>4, <1>7, <1>8, <1>9, <2>1, <2>2 DEF Later
  <2>4. w.pieces[k].row \in all /\ w.pieces[p].row \in all
    BY <1>7, <1>9, <2>1, <2>2
  <2>5. QED  BY <2>3, <2>4 DEF Since
<1>10. ASSUME NEW r \in Since(w.n, all) PROVE r \in ToldOf(w, p, w.end, a)
  <2>1. r \in all /\ (r[1] > w.n \/ \E q \in all : Later(r, q))
    BY <1>10 DEF Since
  <2>2. PICK k \in DOMAIN w.pieces : IsAbout(w, k, a) /\ w.pieces[k].row = r
    BY <1>6, <2>1
  <2>3. r[1] = w.n /\ r[2] \in Nat
    BY <1>7, <2>2
  <2>4. PICK q \in all : Later(r, q)
    BY <1>4, <2>1, <2>3
  <2>5. PICK m \in DOMAIN w.pieces : IsAbout(w, m, a) /\ w.pieces[m].row = q
    BY <1>6
  <2>6. q[1] = w.n /\ q[2] \in Nat
    BY <1>7, <2>5
  <2>7. q[2] < r[2]
    BY <1>4, <2>3, <2>4, <2>6 DEF Later
  <2>8. m >= p /\ k >= p /\ m \in Int /\ k \in Int
    BY <1>2, <1>5, <2>2, <2>5
  <2>9. k # p
    <3>1. SUFFICES ASSUME k = p PROVE FALSE
      OBVIOUS
    <3>2. CASE m = p
      BY <2>2, <2>3, <2>5, <2>7, <3>1, <3>2
    <3>3. CASE m > p
      <4>1. r[2] < q[2]
        BY <1>8, <2>2, <2>5, <3>1, <3>3
      <4>2. QED  BY <2>3, <2>6, <2>7, <4>1
    <3>4. QED  BY <2>8, <3>2, <3>3
  <2>10. k \in p + 1 .. w.end
    BY <1>2, <2>8, <2>9
  <2>11. QED  BY <2>2, <2>10 DEF ToldOf
<1>11. \A r \in ToldOf(w, p, w.end, a) : r \in Since(w.n, all)
  BY <1>9 DEF ToldOf
<1>12. Since(w.n, all) = ToldOf(w, p, w.end, a)
  BY <1>10, <1>11
<1>13. QED  BY <1>12 DEF all, own

LEMMA TellsMade ==
  ASSUME Filed, NEW w, FoldWork(w), NEW a \in DOMAIN w.run[w.end].accounts \ DOMAIN ledger.accounts
  PROVE  LET row == w.run[w.end].accounts[a]
         IN /\ row.created = w.n /\ row.count_reaped \in Nat
            /\ w.n = 0 => row.count_reaped = 0 /\ ~row.reaped
            /\ w.n # 0 /\ w.end = Len(w.pieces) =>
                 \A doubt : ReapedAs(row, About(stored[w.n].audits, a), {}, doubt)
<1> DEFINE row == w.run[w.end].accounts[a]
           own == stored[w.n].audits
<1>1. /\ IsCall(w) /\ w.s = ledger /\ w.run[0] = ledger
      /\ w.n # 0 => RowPieces(w.pieces, "audit", own)
      /\ w.n = 0 => \A k \in DOMAIN w.pieces : w.pieces[k].hook = "audit" => w.pieces[k].row[3] = "new"
  BY DEF FoldWork, WholeRows, IsCall
<1>2. w.end \in Nat /\ 0 \in 0 .. w.end /\ w.end \in 0 .. w.end
  BY <1>1, CallRange
<1>3. row.created = w.n
  BY <1>1, <1>2, CallAccounts
<1>4. a \in DOMAIN w.run[w.end].accounts \ DOMAIN w.run[0].accounts
  BY <1>1
<1>5. PICK p \in 1 .. w.end : MakesRow(w, p, a)
  BY <1>1, <1>2, <1>4, MadeAt
<1>6. p \in 0 .. w.end /\ w.end \in p .. w.end
  BY <1>2
<1> DEFINE was == w.run[p].accounts[a]
<1>7. /\ a \notin DOMAIN w.run[p - 1].accounts /\ a \in DOMAIN w.run[p].accounts
      /\ IsAbout(w, p, a) \/ (w.pieces[p].hook = "indexed" /\ w.pieces[p].row = a)
  BY <1>5 DEF MakesRow
<1>8. was.count_reaped = 0 /\ was.reaped = FALSE /\ ~was.reaped /\ was.count_reaped \in Nat
  BY <1>5 DEF MakesRow
<1>9. CASE w.n = 0
  <2>1. row.count_reaped = was.count_reaped /\ (~was.reaped => ~row.reaped)
    BY <1>1, <1>6, <1>7, <1>9, QuietOn
  <2> HIDE DEF row, was
  <2>2. row.count_reaped = 0 /\ ~row.reaped /\ row.count_reaped \in Nat
    BY <1>8, <2>1
  <2>3. QED  BY <1>3, <1>9, <2>2 DEF row
<1>10. CASE w.n # 0
  <2> DEFINE heard == ToldOf(w, p, w.end, a)
  <2>1. GoesBy(row, was, heard)
    BY <1>1, <1>6, <1>7, <1>8, <1>10, HeardOn
  <2>2. w.end = Len(w.pieces) => Since(w.n, About(own, a)) = heard
    BY <1>7, <1>10, MadeHears
  <2> HIDE DEF heard, row, was, own
  <2>3. row.count_reaped \in Nat
    <3>1. IsFiniteSet(heard) /\ row.count_reaped = 0 + Cardinality(ReapedIn(heard))
      BY <1>8, <2>1 DEF GoesBy
    <3>2. QED  BY <3>1, ReapedFewer
  <2>4. ASSUME w.end = Len(w.pieces), NEW doubt PROVE ReapedAs(row, About(own, a), {}, doubt)
    BY <1>3, <1>8, <2>1, <2>2, <2>4, ReapedMade
  <2>5. QED  BY <1>3, <1>10, <2>3, <2>4 DEF row, own
<1>11. QED  BY <1>9, <1>10

\* The accounts are what the audits of the blocks up to h say of them.
ReapedOf(s, h, more, doubt) ==
  /\ \A r \in AuditsTo("audits", h) :
       r[4] \in DOMAIN s.accounts /\ s.accounts[r[4]].created <= r[1]
  /\ \A a \in DOMAIN s.accounts :
       /\ ReapedAs(s.accounts[a], About(AuditsTo("audits", h), a), About(more, a), doubt)
       /\ doubt = {} => s.accounts[a].created <= h

\* What a call leaves, as far as it gets.
LEMMA CallReaped ==
  ASSUME Filed, NEW w, FoldWork(w), NEW more \in SUBSET stored[w.n].audits, NEW doubt,
         ReapedOf(ledger, w.n - 1, more, doubt)
  PROVE  ReapedOf(w.run[w.end], w.n - 1, stored[w.n].audits, {w.n})
<1> DEFINE n == w.n
           s == w.run[w.end]
           before == AuditsTo("audits", n - 1)
           own == stored[n].audits
<1>1. IsCall(w) /\ n \in Numbers /\ n \in Nat
  BY CallRange DEF FoldWork
<1>2. "audits" \in RowTables /\ own = stored[n]["audits"] /\ before = AuditsTo("audits", n - 1)
  BY DEF RowTables
<1>3. n = 0 => before = {}
  BY <1>2, AuditsToAre
<1>4. /\ \A r \in before : r[4] \in DOMAIN ledger.accounts /\ ledger.accounts[r[4]].created <= r[1]
      /\ \A a \in DOMAIN ledger.accounts :
           ReapedAs(ledger.accounts[a], About(before, a), About(more, a), doubt)
  BY DEF ReapedOf
<1>5. \A a \in DOMAIN ledger.accounts : ledger.accounts[a].count_reaped \in Nat
  BY <1>4 DEF ReapedAs
<1>6. \A a \in DOMAIN ledger.accounts :
        /\ a \in DOMAIN s.accounts /\ s.accounts[a].created = ledger.accounts[a].created
        /\ s.accounts[a].count_reaped \in Nat
        /\ s.accounts[a].count_reaped >= ledger.accounts[a].count_reaped
        /\ n # 0 /\ About(own, a) = {} => s.accounts[a].reaped = ledger.accounts[a].reaped
  BY <1>5, TellsKnown
<1>7. \A a \in DOMAIN s.accounts \ DOMAIN ledger.accounts : s.accounts[a].count_reaped \in Nat
  BY TellsMade
<1> HIDE DEF s, before, own, n
<1>8. ASSUME NEW a \in DOMAIN ledger.accounts
      PROVE  ReapedAs(s.accounts[a], About(before, a), About(own, a), {n})
  <2> DEFINE row == s.accounts[a]
             was == ledger.accounts[a]
             told == Since(row.created, About(before, a))
  <2>1. Since(was.created, About(before, a)) = told
    BY <1>6, <1>8
  <2>2. /\ IsFiniteSet(told) /\ was.count_reaped \in Nat
        /\ was.count_reaped >= Cardinality(ReapedIn(told))
        /\ About(more, a) = {} => \A r \in told : IsLast(r, told) => was.reaped = (r[3] = "reaped")
    BY <1>4, <1>8, <2>1 DEF ReapedAs
  <2>3. Cardinality(ReapedIn(told)) \in Nat
    <3> HIDE DEF told
    <3>1. QED  BY <2>2, ReapedFewer
  <2>4. /\ row.count_reaped \in Nat /\ row.count_reaped >= was.count_reaped
        /\ n # 0 /\ About(own, a) = {} => row.reaped = was.reaped
    BY <1>6, <1>8
  <2>5. About(own, a) = {} => About(more, a) = {}
    BY DEF About, own, n
  <2>6. n = 0 => told = {}
    BY <1>3 DEF About, Since
  <2> DEFINE c == Cardinality(ReapedIn(told))
  <2>7. row.count_reaped >= c
    <3> HIDE DEF c, row, was
    <3>1. QED  BY <2>2, <2>3, <2>4 DEF c
  <2>8. ASSUME About(own, a) = {}, NEW r \in told, IsLast(r, told)
        PROVE  row.reaped = (r[3] = "reaped")
    <3>1. row.reaped = was.reaped
      BY <2>4, <2>6, <2>8
    <3> HIDE DEF told, row, was
    <3>2. was.reaped = (r[3] = "reaped")
      BY <2>2, <2>5, <2>8
    <3>3. QED  BY <3>1, <3>2
  <2>9. QED  BY <2>2, <2>4, <2>7, <2>8 DEF ReapedAs
<1>9. ASSUME NEW a \in DOMAIN s.accounts \ DOMAIN ledger.accounts
      PROVE  ReapedAs(s.accounts[a], About(before, a), About(own, a), {n})
  <2>1. About(before, a) = {}
    BY <1>4, <1>9 DEF About
  <2>2. s.accounts[a].count_reaped \in Nat
    BY <1>7, <1>9
  <2>3. s.accounts[a].count_reaped >= 0
    BY <2>2
  <2>4. \A c : Since(c, {}) = {}
    BY NoneReaped
  <2>5. QED  BY <2>1, <2>2, <2>3, <2>4, NoneReaped DEF ReapedAs
<1>10. \A r \in before : r[4] \in DOMAIN s.accounts /\ s.accounts[r[4]].created <= r[1]
  BY <1>4, <1>6
<1>11. ReapedOf(s, n - 1, own, {n})
  BY <1>8, <1>9, <1>10 DEF ReapedOf, before
<1>12. QED  BY <1>11 DEF s, n, own

\* What a call leaves that gets through the block.
LEMMA WholeReaped ==
  ASSUME Filed, NEW w, FoldWork(w), w.end = Len(w.pieces),
         NEW more \in SUBSET stored[w.n].audits, NEW doubt,
         ReapedOf(ledger, w.n - 1, more, doubt),
         \A a \in DOMAIN ledger.accounts :
           ledger.accounts[a].created \in Nat /\ ledger.accounts[a].created <= w.n
  PROVE  ReapedOf(w.run[w.end], w.n, {}, doubt)
<1> DEFINE n == w.n
           s == w.run[w.end]
           before == AuditsTo("audits", n - 1)
           own == stored[n].audits
<1>1. IsCall(w) /\ n \in Numbers /\ n \in Nat
  BY CallRange DEF FoldWork
<1>2. "audits" \in RowTables /\ own = stored[n]["audits"]
  BY DEF RowTables
<1>3. AuditsTo("audits", n) = before \cup own
  BY <1>1, <1>2, AuditsToAre
<1>4. \A r \in own : r[1] = n /\ r[2] \in Nat /\ n # 0
  BY <1>1, <1>2, AuditsToAre
<1>5. \A r \in before : r[1] \in 1 .. n - 1 /\ r[2] \in Nat
  <2>1. n - 1 \in -1 .. MaxBlock
    BY <1>1, SequencingAssumption DEF Numbers
  <2>2. QED  BY <1>2, <2>1, AuditsToAre
<1>6. /\ \A r \in before : r[4] \in DOMAIN ledger.accounts /\ ledger.accounts[r[4]].created <= r[1]
      /\ \A a \in DOMAIN ledger.accounts :
           /\ ReapedAs(ledger.accounts[a], About(before, a), About(more, a), doubt)
           /\ doubt = {} => ledger.accounts[a].created <= n - 1
  BY DEF ReapedOf
<1>7. \A a \in DOMAIN ledger.accounts : ledger.accounts[a].count_reaped \in Nat
  BY <1>6 DEF ReapedAs
<1>8. \A a \in DOMAIN ledger.accounts :
        /\ a \in DOMAIN s.accounts /\ s.accounts[a].created = ledger.accounts[a].created
        /\ n # 0 => GoesBy(s.accounts[a], ledger.accounts[a], About(own, a))
        /\ n = 0 => /\ s.accounts[a].count_reaped = ledger.accounts[a].count_reaped
                    /\ ~ledger.accounts[a].reaped => ~s.accounts[a].reaped
  BY <1>7, TellsKnown
<1>9. \A a \in DOMAIN s.accounts \ DOMAIN ledger.accounts :
        /\ s.accounts[a].created = n
        /\ n = 0 => s.accounts[a].count_reaped = 0 /\ ~s.accounts[a].reaped
        /\ n # 0 => ReapedAs(s.accounts[a], About(own, a), {}, doubt)
  BY TellsMade
<1>10. ASSUME NEW r \in own PROVE r[4] \in DOMAIN s.accounts
  <2>1. n # 0 /\ RowPieces(w.pieces, "audit", own)
    BY <1>4 DEF FoldWork, WholeRows
  <2>2. PICK k \in DOMAIN w.pieces : w.pieces[k].hook = "audit" /\ w.pieces[k].row = r
    BY <2>1 DEF RowPieces
  <2>3. k \in 1 .. w.end /\ k \in 0 .. w.end /\ w.end \in k .. w.end
    BY <1>1, CallRange
  <2>4. ReapedFold(w.run[k], w.run[k - 1], w.pieces[k])
    BY <1>1, <2>3, CallFolds DEF Folds
  <2>5. r[4] \in DOMAIN w.run[k].accounts
    BY <2>2, <2>4 DEF ReapedFold
  <2>6. QED  BY <1>1, <2>3, <2>5, CallAccounts
<1>11. \A a \in DOMAIN ledger.accounts :
         ledger.accounts[a].created \in Nat /\ ledger.accounts[a].created <= n
  OBVIOUS
<1>12. \A a : About({}, a) = {}
  BY DEF About
<1> HIDE DEF s, before, own, n
<1>13. \A a \in DOMAIN s.accounts : s.accounts[a].created <= n
  BY <1>1, <1>8, <1>9, <1>11
<1>14. ASSUME NEW r \in before \cup own
       PROVE  r[4] \in DOMAIN s.accounts /\ s.accounts[r[4]].created <= r[1]
  <2>1. CASE r \in before
    BY <1>6, <1>8, <2>1
  <2>2. CASE r \in own
    BY <1>4, <1>10, <1>13, <2>2
  <2>3. QED  BY <2>1, <2>2
<1>15. \A a : About(before \cup own, a) = About(before, a) \cup About(own, a)
  BY DEF About
<1>16. ASSUME NEW a \in DOMAIN ledger.accounts, n # 0
       PROVE  ReapedAs(s.accounts[a], About(before, a) \cup About(own, a), {}, doubt)
  <2> DEFINE row == s.accounts[a]
             was == ledger.accounts[a]
             old == About(before, a)
             new == About(own, a)
             some == About(more, a)
  <2>1. some \in SUBSET new
    BY DEF About, own, n
  <2>2. ReapedAs(was, old, some, doubt) /\ GoesBy(row, was, new) /\ row.created = was.created
    BY <1>6, <1>8, <1>16
  <2>3. was.created \in Nat /\ was.created <= n /\ (doubt = {} => was.created < n)
    BY <1>1, <1>6, <1>11, <1>16
  <2>4. was.created = n => old = {}
    <3>1. ASSUME was.created = n, NEW r \in old PROVE FALSE
      <4>1. r \in before /\ r[4] = a
        BY <3>1 DEF About
      <4>2. r[1] \in 1 .. n - 1 /\ was.created <= r[1]
        BY <1>5, <1>6, <4>1
      <4>3. QED  BY <1>1, <3>1, <4>2
    <3>2. QED  BY <3>1
  <2>5. \A r \in new : r[1] = n
    BY <1>4 DEF About
  <2>6. \A r \in new, q \in old : Later(r, q) /\ ~Later(q, r)
    <3>1. \A r \in own, q \in before : Later(r, q) /\ ~Later(q, r)
      BY <1>1, <1>4, <1>5 DEF Later
    <3>2. QED  BY <3>1 DEF About
  <2> HIDE DEF row, was, old, new, some
  <2>7. ReapedAs(row, old \cup new, {}, doubt)
    BY <1>1, <2>1, <2>2, <2>3, <2>4, <2>5, <2>6, ReapedKnown
  <2>8. QED  BY <2>7 DEF row, old, new
<1>17. ASSUME NEW a \in DOMAIN s.accounts \ DOMAIN ledger.accounts, n # 0
       PROVE  ReapedAs(s.accounts[a], About(before, a) \cup About(own, a), {}, doubt)
  <2>1. About(before, a) = {}
    BY <1>6, <1>17 DEF About
  <2>2. About(before, a) \cup About(own, a) = About(own, a)
    BY <2>1
  <2>3. QED  BY <1>9, <1>17, <2>2
<1>18. ASSUME NEW a \in DOMAIN s.accounts, n = 0
       PROVE  ReapedAs(s.accounts[a], About(before, a) \cup About(own, a), {}, doubt)
  <2> DEFINE row == s.accounts[a]
  <2>1. before = {} /\ own = {}
    BY <1>4, <1>5, <1>18
  <2>2. About(before, a) \cup About(own, a) = {}
    BY <1>12, <2>1
  <2>3. \A c : Since(c, {}) = {}
    BY NoneReaped
  <2>4. row.count_reaped \in Nat /\ (doubt = {} => row.count_reaped = 0 /\ ~row.reaped)
    <3>1. CASE a \in DOMAIN ledger.accounts
      <4> DEFINE was == ledger.accounts[a]
      <4>1. was.count_reaped \in Nat
        BY <1>7, <3>1
      <4>2. row.count_reaped = was.count_reaped
        BY <1>8, <1>18, <3>1
      <4>3. doubt # {}
        BY <1>6, <1>11, <1>18, <3>1
      <4>4. QED  BY <4>1, <4>2, <4>3
    <3>2. CASE a \notin DOMAIN ledger.accounts
      BY <1>9, <1>18, <3>2
    <3>3. QED  BY <3>1, <3>2
  <2> HIDE DEF row
  <2>5. row.count_reaped >= 0
    BY <2>4
  <2>6. ReapedAs(row, {}, {}, doubt)
    BY <2>3, <2>4, <2>5, NoneReaped DEF ReapedAs
  <2>7. QED  BY <2>2, <2>6 DEF row
<1>19. ASSUME NEW a \in DOMAIN s.accounts
       PROVE  ReapedAs(s.accounts[a], About(before \cup own, a), {}, doubt)
  BY <1>15, <1>16, <1>17, <1>18
<1>20. ReapedOf(s, n, {}, doubt)
  BY <1>3, <1>12, <1>13, <1>14, <1>19 DEF ReapedOf
<1>21. QED  BY <1>20 DEF s, n

\* The blocks that may have been gone through more than once.
Doubt == IF Half THEN {SequencerHead + 1} ELSE again

\* The accounts are reaped as the audits of the blocks that are counted say, up
\* to what the next block may have changed already.
ReapedRight == requests = 0 => ReapedOf(ledger, SequencerHead, More("audits"), Doubt)

LEMMA SameReaped ==
  ASSUME NEW v, NEW u, SameFolds(v, u), NEW h, NEW more, NEW doubt, ReapedOf(u, h, more, doubt),
         NEW less, less = {} => doubt = {}
  PROVE  ReapedOf(v, h, more, less)
<1>1. /\ DOMAIN v.accounts = DOMAIN u.accounts
      /\ \A a \in DOMAIN u.accounts : /\ v.accounts[a].reaped = u.accounts[a].reaped
                                      /\ v.accounts[a].count_reaped = u.accounts[a].count_reaped
                                      /\ v.accounts[a].created = u.accounts[a].created
  BY DEF SameFolds, FieldsKept, FoldFields
<1>2. \A r \in AuditsTo("audits", h) :
        r[4] \in DOMAIN v.accounts /\ v.accounts[r[4]].created <= r[1]
  BY <1>1 DEF ReapedOf
<1>3. ASSUME NEW a \in DOMAIN v.accounts
      PROVE  /\ ReapedAs(v.accounts[a], About(AuditsTo("audits", h), a), About(more, a), less)
             /\ less = {} => v.accounts[a].created <= h
  <2>1. /\ ReapedAs(u.accounts[a], About(AuditsTo("audits", h), a), About(more, a), doubt)
        /\ doubt = {} => u.accounts[a].created <= h
    BY <1>1 DEF ReapedOf
  <2> DEFINE rows == About(AuditsTo("audits", h), a)
             some == About(more, a)
             row == v.accounts[a]
             was == u.accounts[a]
  <2>2. /\ row.reaped = was.reaped /\ row.count_reaped = was.count_reaped
        /\ row.created = was.created
    BY <1>1
  <2> HIDE DEF rows, some, row, was
  <2>3. ReapedAs(was, rows, some, doubt)
    BY <2>1 DEF rows, some, was
  <2>4. ReapedAs(row, rows, some, less)
    BY <2>2, <2>3 DEF ReapedAs
  <2>5. QED  BY <1>1, <2>1, <2>4 DEF rows, some, row
<1>4. QED  BY <1>2, <1>3 DEF ReapedOf

LEMMA InitReaped == Init => ReapedRight
<1>1. SUFFICES ASSUME Init PROVE ReapedOf(ledger, SequencerHead, More("audits"), Doubt)
  BY DEF ReapedRight
<1>2. ledger.accounts = NoRows /\ DOMAIN ledger.totals = {}
  BY <1>1 DEF Init, NoLedger, NoRows
<1>3. DOMAIN ledger.accounts = {}
  BY <1>2 DEF NoRows
<1>4. SequencerHead = -1
  BY <1>2 DEF SequencerHead, Counted
<1>5. 1 .. SequencerHead = {}
  BY <1>4
<1>6. AuditsTo("audits", SequencerHead) = {}
  BY <1>5 DEF AuditsTo
<1>7. QED  BY <1>3, <1>6 DEF ReapedOf

LEMMA StepReaped ==
  SequencingInv /\ Upward /\ SessionsBegun /\ ReapedRight /\ [Next]_vars => ReapedRight'
<1> DEFINE v == ledger'
           head == SequencerHead'
           more == More("audits")'
           doubt == Doubt'
<1>1. SUFFICES ASSUME SequencingInv, Upward, SessionsBegun, ReapedRight, [Next]_vars,
                      requests' = 0
               PROVE  ReapedOf(v, head, more, doubt)
  <2>1. ASSUME SequencingInv, Upward, SessionsBegun, [Next]_vars, requests' = 0 PROVE stored' = stored
    BY <2>1, StepMore
  <2>2. ASSUME stored' = stored, ReapedOf(v, head, more, doubt)
        PROVE  ReapedOf(ledger, SequencerHead, More("audits"), Doubt)'
    <3> HIDE DEF v, head, more, doubt
    <3>1. QED  BY <2>2 DEF ReapedOf, AuditsTo, ReapedAs, Since, v, head, more, doubt
  <2> HIDE DEF v, head, more, doubt
  <2>3. QED  BY <1>1, <2>1, <2>2 DEF ReapedRight
<1>2. /\ requests = 0 /\ Filed /\ LedgerRight(ledger)
      /\ \/ \E w : /\ FoldWork(w) /\ w.n - 1 = SequencerHead /\ SameFolds(v, w.run[w.end])
                   /\ More("audits") \in SUBSET stored[w.n].audits
                   /\ again' = {} => again = {} /\ ~Half
                   /\ \/ w.end = Len(w.pieces) /\ head = w.n /\ ~Half' /\ more = {}
                      \/ head = w.n - 1 /\ Half' /\ more = stored[w.n].audits
         \/ /\ SameFolds(v, ledger) /\ head = SequencerHead /\ (Half' <=> Half)
            /\ again' = again /\ more = More("audits")
  BY <1>1, StepMore
<1>3. ReapedOf(ledger, SequencerHead, More("audits"), Doubt)
  BY <1>1, <1>2 DEF ReapedRight
<1>4. \A a \in DOMAIN ledger.accounts : /\ ledger.accounts[a].created \in Nat
                                        /\ ledger.accounts[a].created <= SequencerHead + 1
  BY <1>1, <1>2, SequencingAssumption DEF LedgerRight, Upward, Numbers
<1>5. doubt = IF Half' THEN {head + 1} ELSE again'
  BY DEF Doubt
<1>6. SequencerHead \in Int
  BY <1>1, HeadRange
<1> HIDE DEF v, head, more, doubt
<1>7. CASE \E w : /\ FoldWork(w) /\ w.n - 1 = SequencerHead /\ SameFolds(v, w.run[w.end])
                  /\ More("audits") \in SUBSET stored[w.n].audits
                  /\ again' = {} => again = {} /\ ~Half
                  /\ \/ w.end = Len(w.pieces) /\ head = w.n /\ ~Half' /\ more = {}
                     \/ head = w.n - 1 /\ Half' /\ more = stored[w.n].audits
  <2>1. PICK w : /\ FoldWork(w) /\ w.n - 1 = SequencerHead /\ SameFolds(v, w.run[w.end])
                 /\ More("audits") \in SUBSET stored[w.n].audits
                 /\ again' = {} => again = {} /\ ~Half
                 /\ \/ w.end = Len(w.pieces) /\ head = w.n /\ ~Half' /\ more = {}
                    \/ head = w.n - 1 /\ Half' /\ more = stored[w.n].audits
    BY <1>7
  <2>2. ReapedOf(ledger, w.n - 1, More("audits"), Doubt)
    BY <1>3, <2>1
  <2>3. CASE w.end = Len(w.pieces) /\ head = w.n /\ ~Half' /\ more = {}
    <3>1. \A a \in DOMAIN ledger.accounts :
            ledger.accounts[a].created \in Nat /\ ledger.accounts[a].created <= w.n
      <4>1. SequencerHead + 1 = w.n
        BY <1>6, <2>1 DEF FoldWork
      <4>2. QED  BY <1>4, <4>1
    <3>2. ReapedOf(w.run[w.end], w.n, {}, Doubt)
      BY <1>2, <2>1, <2>2, <2>3, <3>1, WholeReaped
    <3>3. doubt = {} => Doubt = {}
      BY <1>5, <2>1, <2>3 DEF Doubt
    <3>4. ReapedOf(v, w.n, {}, doubt)
      BY <2>1, <3>2, <3>3, SameReaped
    <3>5. QED  BY <2>3, <3>4
  <2>4. CASE head = w.n - 1 /\ Half' /\ more = stored[w.n].audits
    <3>1. ReapedOf(w.run[w.end], w.n - 1, stored[w.n].audits, {w.n})
      BY <1>2, <2>1, <2>2, CallReaped
    <3>2. doubt # {}
      BY <1>5, <2>4
    <3>3. ReapedOf(v, w.n - 1, stored[w.n].audits, doubt)
      BY <2>1, <3>1, <3>2, SameReaped
    <3>4. QED  BY <2>4, <3>3
  <2>5. QED  BY <2>1, <2>3, <2>4
<1>8. CASE /\ SameFolds(v, ledger) /\ head = SequencerHead /\ (Half' <=> Half)
           /\ again' = again /\ more = More("audits")
  <2>1. doubt = Doubt
    BY <1>5, <1>8 DEF Doubt
  <2>2. QED  BY <1>3, <1>8, <2>1, SameReaped
<1>9. QED  BY <1>2, <1>7, <1>8

LEMMA ReapedShow == SequencingInv /\ Upward /\ ReapedRight => ReapedFollowsAudits
<1>1. SUFFICES ASSUME SequencingInv, Upward, ReapedRight, InStep PROVE ReapedFollowsAudits
  BY DEF ReapedFollowsAudits
<1>2. /\ ReapedOf(ledger, SequencerHead, {}, again)
      /\ AuditsSoFar("audits") = AuditsTo("audits", SequencerHead)
  BY <1>1, InStepMore DEF ReapedRight, Doubt
<1> DEFINE rows == AuditsSoFar("audits")
<1>3. ASSUME NEW a \in DOMAIN ledger.accounts
      PROVE  LET row == ledger.accounts[a]
                 told == Since(row.created, About(rows, a))
             IN /\ row.count_reaped >= Cardinality(ReapedIn(told))
                /\ \A r \in told : IsLast(r, told) => row.reaped = (r[3] = "reaped")
                /\ again = {} => /\ row.count_reaped = Cardinality(ReapedIn(told))
                                 /\ told = {} => ~row.reaped
  <2>1. About({}, a) = {}
    BY DEF About
  <2>2. ReapedAs(ledger.accounts[a], About(rows, a), {}, again)
    BY <1>2, <2>1 DEF ReapedOf
  <2>3. QED  BY <2>2 DEF ReapedAs
<1>4. QED  BY <1>3 DEF ReapedFollowsAudits, Since, About, ReapedIn

\* While the sequencer is in step, an account counts as reaped when the last that
\* was heard of it since its row was made is that it was, and it has been reaped
\* as often as was heard - or more often, when a block was given up half-way and
\* done over.
THEOREM ReapedAlwaysFollows == Spec => []ReapedFollowsAudits
<1> DEFINE I == SequencingInv /\ Upward /\ SessionsBegun /\ ReapedRight
<1>1. Init => I
  BY InitInv, InitUpward, InitSessions, InitReaped
<1>2. I /\ [Next]_vars => I'
  BY StepInv, StepUpward, StepSessions, StepReaped
<1>3. I => ReapedFollowsAudits
  BY ReapedShow
<1> HIDE DEF I
<1>4. QED  BY <1>1, <1>2, <1>3, PTL DEF Spec
====
