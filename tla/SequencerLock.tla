---------------------------- MODULE SequencerLock ----------------------------
(***************************************************************************)
(* The promise that one sequencer runs at a time: the SEQUENCER_TASK_ID    *)
(* row of harvester_status, which start_sequencer calls (app/tasks.py) and *)
(* the /start-sequencer request (app/resources/harvester.py) read, take    *)
(* and clear, with an age after which it is taken over.                    *)
(*                                                                         *)
(* The clock counts the periods of beat and wraps after a day, as the      *)
(* .seconds of Status.diff_second does: nothing else is asked of it.       *)
(***************************************************************************)
EXTENDS Integers, FiniteSets

CONSTANTS
  Call,      \* bound: ids of calls alive at a time
  Request,   \* the value an API request stores: "123"
  Absent,    \* the row is not there
  None,      \* the row is there, its value is null
  Timeout,   \* periods after which a lock is taken over (60 seconds)
  Day,       \* periods of a day
  UseApi,    \* requests may come in
  MaxKills   \* bound: processes killed

ASSUME LockAssumption ==
  /\ Timeout \in Nat /\ Day \in Nat /\ Timeout + 1 < Day
  /\ UseApi \in BOOLEAN /\ MaxKills \in Nat
  /\ Cardinality({Request, Absent, None}) = 3
  /\ {Request, Absent, None} \cap Call = {}

VARIABLES
  value,  \* the value of the row
  stamp,  \* its last_modified
  clock,
  pc,     \* where each call is; a done one has its result in the backend
  seen,   \* the row as each call has read it
  api,    \* where the request is
  noticed,\* the value it has read
  kills,
  calm     \* ghost: no lock has expired under a sequencer, no call has read the
           \* row while another was about to decide, no request has come in

vars == <<value, stamp, clock, pc, seen, api, noticed, kills, calm>>

NoRead == [value |-> None, stamp |-> 0]

Running(c) == pc[c] = "running"

\* An id that no row and no call refers to stands for a new one.
Fresh(c) ==
  /\ pc[c] \in {"done", "dead"}
  /\ value # c /\ noticed # c
  /\ \A d \in Call : seen[d].value # c

\* Every period beat starts the harvester, which queues a call, whether or not
\* the workers have come to the calls before it.
Beat(c) ==
  /\ Fresh(c)
  /\ clock' = (clock + 1) % Day
  /\ calm' = (calm /\ \A d \in Call : Running(d) => (clock' - stamp) % Day <= Timeout)
  /\ pc' = [pc EXCEPT ![c] = "queued"]
  /\ UNCHANGED <<value, stamp, seen, api, noticed, kills>>

Read(c) ==
  /\ pc[c] = "queued"
  /\ pc' = [pc EXCEPT ![c] = "read"]
  /\ seen' = [seen EXCEPT ![c] = [value |-> value, stamp |-> stamp]]
  /\ calm' = (calm /\ \A d \in Call : pc[d] # "read")
  /\ UNCHANGED <<value, stamp, clock, api, noticed, kills>>

\* AsyncResult(v).ready(): the call has ended.  A killed one never has, and the
\* value of a request is no call.
Ready(v) == v \in Call /\ pc[v] = "done"

\* Mutants of Expired: a lock has no age; it expires a period early.
ExpiredNever(s) == FALSE
ExpiredEarly(s) == (clock - s) % Day >= Timeout

\* Status.diff_second(s) > 60.
Expired(s) == (clock - s) % Day > Timeout

\* The row as it was read lets the call take the lock now.
Free(r) == r.value \in {Absent, None} \/ Ready(r.value) \/ Expired(r.stamp)

\* The call writes its id and commits.
Take(c) ==
  /\ pc[c] = "read" /\ Free(seen[c])
  /\ seen[c].value = Absent => value = Absent
  /\ value' = c /\ stamp' = clock
  /\ pc' = [pc EXCEPT ![c] = "running"]
  /\ seen' = [seen EXCEPT ![c] = NoRead]
  /\ UNCHANGED <<clock, api, noticed, kills, calm>>

\* It saw no row, and another one has made it meanwhile: the insert fails and
\* the call with it.
TakeFails(c) ==
  /\ pc[c] = "read" /\ seen[c].value = Absent /\ value # Absent
  /\ pc' = [pc EXCEPT ![c] = "done"]
  /\ seen' = [seen EXCEPT ![c] = NoRead]
  /\ UNCHANGED <<value, stamp, clock, api, noticed, kills, calm>>

\* "Sequencer already running".
Refuse(c) ==
  /\ pc[c] = "read" /\ ~Free(seen[c])
  /\ pc' = [pc EXCEPT ![c] = "done"]
  /\ seen' = [seen EXCEPT ![c] = NoRead]
  /\ UNCHANGED <<value, stamp, clock, api, noticed, kills, calm>>

\* The sequencer is through: the lock is cleared, whoever holds it by now.
Finish(c) ==
  /\ Running(c)
  /\ value' = None /\ stamp' = clock
  /\ pc' = [pc EXCEPT ![c] = "done"]
  /\ UNCHANGED <<clock, seen, api, noticed, kills, calm>>

\* The database refused a write of the sequencer: the error was swallowed, the
\* session is unusable, saving the lock raises, and the call fails.
FinishFails(c) ==
  /\ Running(c)
  /\ pc' = [pc EXCEPT ![c] = "done"]
  /\ UNCHANGED <<value, stamp, clock, seen, api, noticed, kills, calm>>

\* The worker dies, before or while the sequencer runs.
Kill(c) ==
  /\ pc[c] \in {"queued", "read", "running"}
  /\ kills < MaxKills
  /\ kills' = kills + 1
  /\ pc' = [pc EXCEPT ![c] = "dead"]
  /\ seen' = [seen EXCEPT ![c] = NoRead]
  /\ UNCHANGED <<value, stamp, clock, api, noticed, calm>>

------------------------------------------------------------------------------
(* StartSequenceBlockResource.on_post, one request at a time.              *)

RequestRead ==
  /\ UseApi /\ api = "idle"
  /\ api' = "read" /\ noticed' = value
  /\ calm' = FALSE
  /\ UNCHANGED <<value, stamp, clock, pc, seen, kills>>

RequestTake ==
  /\ api = "read" /\ noticed \in {Absent, None}
  /\ noticed = Absent => value = Absent
  /\ value' = Request /\ stamp' = clock
  /\ api' = "running" /\ noticed' = None
  /\ UNCHANGED <<clock, pc, seen, kills, calm>>

RequestFails ==
  /\ api = "read" /\ noticed = Absent /\ value # Absent
  /\ api' = "idle" /\ noticed' = None
  /\ UNCHANGED <<value, stamp, clock, pc, seen, kills, calm>>

\* "Busy": the lock is cleared, its task not looked at.
RequestBusy ==
  /\ api = "read" /\ noticed \notin {Absent, None}
  /\ value' = None
  /\ api' = "idle" /\ noticed' = None
  /\ UNCHANGED <<stamp, clock, pc, seen, kills, calm>>

RequestFinish ==
  /\ api = "running"
  /\ value' = None
  /\ api' = "idle"
  /\ UNCHANGED <<stamp, clock, pc, seen, noticed, kills, calm>>

RequestKill ==
  /\ api = "running"
  /\ kills < MaxKills
  /\ kills' = kills + 1
  /\ api' = "idle"
  /\ UNCHANGED <<value, stamp, clock, pc, seen, noticed, calm>>

------------------------------------------------------------------------------
Init ==
  /\ value = Absent /\ stamp = 0 /\ clock = 0
  /\ pc = [c \in Call |-> "done"]
  /\ seen = [c \in Call |-> NoRead]
  /\ api = "idle" /\ noticed = None
  /\ kills = 0
  /\ calm = TRUE

Decide(c) == Take(c) \/ TakeFails(c) \/ Refuse(c)

CallStep(c) == Read(c) \/ Decide(c) \/ Finish(c) \/ FinishFails(c) \/ Kill(c)

RequestStep ==
  \/ RequestRead \/ RequestTake \/ RequestFails
  \/ RequestBusy \/ RequestFinish \/ RequestKill

Next == (\E c \in Call : Beat(c) \/ CallStep(c)) \/ RequestStep

\* Beat goes on and the workers take up what it queues.  A sequencer may take
\* as long as it likes, and nobody has to ask the API.
Fairness ==
  /\ WF_vars(\E c \in Call : Beat(c))
  /\ \A c \in Call : WF_vars(Read(c) \/ Decide(c))

Spec == Init /\ [][Next]_vars
FairSpec == Spec /\ Fairness

------------------------------------------------------------------------------
\* Sequencing always comes back: no lock, left behind by a killed worker or a
\* killed request or cleared by the wrong one, keeps every later call away.
SequencingComesBack == []<>(api = "running" \/ \E c \in Call : Running(c))

\* "Sequencer already running": two calls do not run the sequencer at once,
\* though locks are left behind by killed and failed calls and taken over.
OneSequencer == \A c, d \in Call : Running(c) /\ Running(d) => c = d

\* What the lock does promise: two sequencers overlap only after one of them has
\* outlived its lock, two calls have been between the read of the row and its
\* writing at a time, or a request has come in, whoever was killed before.
ApartWhileCalm == calm => OneSequencer
==============================================================================
