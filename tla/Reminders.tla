------------------------------ MODULE Reminders ------------------------------
(***************************************************************************)
(* One price reminder in the explorer's tables, kept by the accumulation   *)
(* hooks of the AresReminder events (app/processors/events/ares_reminder). *)
(*                                                                         *)
(* Blocks are harvested in any order, mostly from the head down, and a     *)
(* repair of a fork takes blocks out and puts them in again; the hooks see *)
(* one block at a time and have to come out right all the same.            *)
(* Reminders do not meet: the tables are looked up by reminder_id.         *)
(***************************************************************************)
EXTENDS Integers, FiniteSets, FiniteSetsExt

CONSTANTS
  MaxBlock,    \* bound: the highest block
  Histories,   \* what may happen to the reminder on chain: an event per block
  MaxRemovals  \* bound: blocks taken out

Blocks == 1 .. MaxBlock

\* A history creates the reminder once and updates it in later blocks only; the
\* amounts in the events are unsigned.
\* Bound: a block has one event about the reminder at most.
ASSUME RemindersAssumption ==
  /\ MaxBlock \in Nat /\ MaxRemovals \in Nat
  /\ \A h \in Histories : \A m, n \in Blocks :
       h[m].kind = "create" /\ h[n].kind \in {"create", "update"} => m <= n
  /\ \A h \in Histories : \A n \in Blocks :
       /\ h[n].kind = "create" => h[n].count \in Nat
       /\ h[n].kind = "update" => h[n].increase \in Nat /\ h[n].reduce \in Nat

\* The event of a block, by what its hook reads of it: the repeat count of the
\* body, and what an update adds to and takes from the points.
Nothing == [kind |-> "none"]
Create(count) == [kind |-> "create", count |-> count]
Update(count, increase, reduce) ==
  [kind |-> "update", count |-> count, increase |-> increase, reduce |-> reduce]
Message == [kind |-> "msg"]
Released == [kind |-> "released"]

VARIABLES
  history,   \* the event in each block, as the harvester will find it
  harvested, \* the blocks in data_block
  reminder,  \* the data_reminder row, NoRow while there is none
  messages,  \* data_reminder_msg: the blocks of its rows
  lifecycle, \* the data_reminder_lifecycle row, NoRow while there is none
  removals   \* blocks taken out so far

vars == <<history, harvested, reminder, messages, lifecycle, removals>>

NoRow == [block |-> 0, count |-> 0]
NoLifecycle == [points |-> 0, released |-> FALSE, exists |-> FALSE]

\* Mutant of Points: a row that is there is replaced.
PointsReplaced(cycle, count, released) ==
  [points |-> count, released |-> cycle.released \/ released, exists |-> TRUE]

\* update_point_to_lifecycle: the row is made when it is missing; released,
\* once set, stays.
Points(cycle, count, released) ==
  [points |-> cycle.points + count,
   released |-> cycle.released \/ released,
   exists |-> TRUE]

\* CreateReminder keeps a row that is there already.
CreatedRow(old, n, count) ==
  IF old # NoRow THEN old ELSE [block |-> n, count |-> count]

\* Mutant of UpdatedRow: the block of the row is not looked at.
UpdatedRowAlways(old, n, count) == [block |-> n, count |-> count]

\* UpdateReminder overwrites the row of an earlier block only.
UpdatedRow(old, n, count) ==
  IF old = NoRow \/ n > old.block THEN [block |-> n, count |-> count] ELSE old

\* Mutant of MessagesWithout: ReminderMsg has no revert.
MessagesKept(n) == messages

\* The revert of ReminderMsg deletes the messages of the block.
MessagesWithout(n) == messages \ {n}

\* add_block with the accumulation hook of the block's event.
Harvest(n) ==
  /\ n \notin harvested
  /\ harvested' = harvested \cup {n}
  /\ LET e == history[n]
     IN CASE e.kind = "create" ->
               /\ reminder' = CreatedRow(reminder, n, e.count)
               /\ lifecycle' = Points(lifecycle, e.count, FALSE)
               /\ UNCHANGED messages
          [] e.kind = "update" ->
               /\ reminder' = UpdatedRow(reminder, n, e.count)
               /\ lifecycle' = IF e.increase > 0 \/ e.reduce > 0
                               THEN Points(lifecycle, e.increase - e.reduce, FALSE)
                               ELSE lifecycle
               /\ UNCHANGED messages
          [] e.kind = "msg" ->
               /\ messages' = messages \cup {n}
               /\ lifecycle' = Points(lifecycle, -1, FALSE)
               /\ UNCHANGED reminder
          [] e.kind = "released" ->
               /\ lifecycle' = Points(lifecycle, 0, TRUE)
               /\ UNCHANGED <<reminder, messages>>
          [] OTHER -> UNCHANGED <<reminder, messages, lifecycle>>
  /\ UNCHANGED <<history, removals>>

\* remove_block with the accumulation_revert of the block's event.  The reverts
\* look rows up by block: the reminder row is found by the block it was last
\* written for, and a message takes another point.  The block that comes in for
\* it may be the same one or another.
RemoveRows(n) ==
  /\ n \in harvested
  /\ removals < MaxRemovals
  /\ removals' = removals + 1
  /\ harvested' = harvested \ {n}
  /\ LET e == history[n]
     IN CASE e.kind \in {"create", "update"} /\ reminder.block = n ->
               /\ reminder' = NoRow
               /\ lifecycle' = Points(lifecycle, - reminder.count, FALSE)
               /\ UNCHANGED messages
          [] e.kind = "msg" ->
               /\ messages' = MessagesWithout(n)
               /\ lifecycle' = Points(lifecycle, -1, FALSE)
               /\ UNCHANGED reminder
          [] OTHER -> UNCHANGED <<reminder, messages, lifecycle>>
  /\ \E h \in Histories : /\ \A m \in Blocks \ {n} : h[m] = history[m]
                          /\ history' = h

Init ==
  /\ history \in Histories
  /\ harvested = {}
  /\ reminder = NoRow
  /\ messages = {}
  /\ lifecycle = NoLifecycle
  /\ removals = 0

Next == \E n \in Blocks : Harvest(n) \/ RemoveRows(n)

Spec == Init /\ [][Next]_vars

------------------------------------------------------------------------------
Seen(kind) == {n \in harvested : history[n].kind = kind}

\* What an event is worth: its points, as its block alone would have it.
Worth(e) ==
  CASE e.kind = "create" -> e.count
    [] e.kind = "update" -> e.increase - e.reduce
    [] e.kind = "msg" -> -1
    [] OTHER -> 0

TotalWorth(h, blocks) == MapThenSumSet(LAMBDA n : Worth(h[n]), blocks)

\* What the events of the harvested blocks add up to.
Balance == TotalWorth(history, harvested)

\* "processing on an isolated block level" and its revert: whatever blocks come
\* and go, the points are what the events of the harvested blocks add up to.
PointsBalance == lifecycle.points = Balance

\* In whatever order the harvester comes by the blocks - a release before the
\* creation, a message before the reminder - the points add up and a released
\* reminder stays released, as long as no block has been taken out.
PointsAddUp ==
  removals = 0 => PointsBalance /\ lifecycle.released = (Seen("released") # {})

\* The row is the one of block n.
TermsOf(n) == reminder.block = n /\ reminder.count = history[n].count

TermsAreLatest ==
  IF Seen("update") # {}
  THEN \E n \in Seen("update") : TermsOf(n) /\ \A m \in Seen("update") : m <= n
  ELSE IF Seen("create") # {} THEN \E n \in Seen("create") : TermsOf(n)
  ELSE reminder = NoRow

\* As long as no block has been taken out, the terms shown are the ones of the
\* latest harvested update, or else of the creation, although the creation is
\* usually harvested last.
LatestTerms == removals = 0 => TermsAreLatest

\* Nothing is left of a block that was taken out: the rows shown are rows of
\* harvested blocks, and a harvested message is shown.
RowsOfHarvested ==
  /\ reminder # NoRow => reminder.block \in Seen("create") \cup Seen("update")
  /\ messages = Seen("msg")
==============================================================================
