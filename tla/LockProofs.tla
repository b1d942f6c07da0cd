------------------------------ MODULE LockProofs ------------------------------
(***************************************************************************)
(* The sequencer lock keeps sequencers apart, for any number of calls and  *)
(* any timeout, as long as no lock expires under a sequencer at work, no   *)
(* two calls are at the lock at a time, and no request comes in.           *)
(***************************************************************************)
EXTENDS SequencerLock, TLAPS

Deciding(c) == pc[c] = "read"

\* The row as a call reads it.
Current == [value |-> value, stamp |-> stamp]

LockType ==
  /\ pc \in [Call -> {"done", "dead", "queued", "read", "running"}]
  /\ seen \in [Call -> [value : Call \cup {Absent, None, Request}, stamp : Int]]
  /\ value \in Call \cup {Absent, None, Request}
  /\ stamp \in 0 .. Day - 1 /\ clock \in 0 .. Day - 1
  /\ api = "idle"

\* What holds in calm times.  The calls decide one after the other; a sequencer
\* holds the lock and has not held it for too long; and a call that decides
\* while it runs has seen that.
CalmInv ==
  /\ LockType
  /\ \A c, d \in Call : Deciding(c) /\ Deciding(d) => c = d
  /\ \A d \in Call : Running(d) => value = d /\ (clock - stamp) % Day <= Timeout
  /\ \A c, d \in Call : pc[c] = "read" /\ Running(d) => seen[c] = Current

\* The inductive invariant: nothing is said once the calm is over.
LockInv == calm \in BOOLEAN /\ (calm => CalmInv)

LEMMA InitLock == Init => LockInv
BY LockAssumption
DEF Init, LockInv, CalmInv, LockType, NoRead, Running, Deciding, LockAssumption

\* The lock of a sequencer at work is not free to a call that decides.
LEMMA NotFree ==
  ASSUME CalmInv, NEW c \in Call, pc[c] = "read", Free(seen[c]),
         NEW d \in Call, Running(d)
  PROVE  FALSE
<1>1. seen[c].value = d /\ seen[c].stamp = stamp
  BY DEF CalmInv, Current
<1>2. d \notin {Absent, None} /\ ~Ready(d)
  BY LockAssumption DEF LockAssumption, Ready, Running
<1>3. ~Expired(stamp)
  BY LockAssumption DEF CalmInv, LockType, Expired, LockAssumption
<1>4. QED  BY <1>1, <1>2, <1>3 DEF Free

LEMMA StepCalm ==
  ASSUME CalmInv, [Next]_vars, calm'
  PROVE  CalmInv'
<1> USE LockAssumption DEF CalmInv, LockType, Running, Deciding, Current
<1>1. ASSUME NEW c \in Call, Beat(c) PROVE CalmInv'
  <2>1. clock' \in 0 .. Day - 1
    BY <1>1 DEF Beat, LockAssumption
  <2>2. \A d \in Call : pc'[d] = IF d = c THEN "queued" ELSE pc[d]
    BY <1>1 DEF Beat
  <2>3. pc[c] \notin {"read", "running"}
    BY <1>1 DEF Beat, Fresh
  <2>4. \A d \in Call : Running(d) => (clock' - stamp) % Day <= Timeout
    BY <1>1 DEF Beat
  <2>5. LockType'
    BY <1>1, <2>1 DEF Beat
  <2>6. QED  BY <1>1, <2>2, <2>3, <2>4, <2>5 DEF Beat
<1>2. ASSUME NEW c \in Call, Read(c) PROVE CalmInv'
  <2>1. LockType'
    BY <1>2 DEF Read
  <2>2. \A d \in Call : /\ pc'[d] = IF d = c THEN "read" ELSE pc[d]
                        /\ seen'[d] = IF d = c THEN Current ELSE seen[d]
    BY <1>2 DEF Read
  <2>3. \A d \in Call : pc[d] # "read"
    BY <1>2 DEF Read
  <2>4. QED  BY <1>2, <2>1, <2>2, <2>3 DEF Read
<1>3. ASSUME NEW c \in Call, Take(c) PROVE CalmInv'
  <2>1. \A d \in Call : ~Running(d)
    BY <1>3, NotFree DEF Take
  <2>2. LockType'
    BY <1>3 DEF Take, NoRead
  <2>3. \A d \in Call : pc'[d] = IF d = c THEN "running" ELSE pc[d]
    BY <1>3 DEF Take
  <2>4. (clock' - stamp') % Day <= Timeout
    <3>1. clock' - stamp' = 0
      BY <1>3 DEF Take
    <3>2. 0 % Day = 0
      BY DEF LockAssumption
    <3>3. QED  BY <3>1, <3>2 DEF LockAssumption
  <2>5. \A d \in Call : pc'[d] # "read"
    BY <1>3, <2>3 DEF Take
  <2>6. value' = c
    BY <1>3 DEF Take
  <2>7. \A d, e \in Call : Deciding(d)' /\ Deciding(e)' => d = e
    BY <2>3
  <2>8. QED  BY <2>1, <2>2, <2>3, <2>4, <2>5, <2>6, <2>7
<1>4. ASSUME NEW c \in Call, TakeFails(c) \/ Refuse(c) PROVE CalmInv'
  <2>1. LockType'
    <3>1. CASE TakeFails(c)
      BY <3>1 DEF TakeFails, NoRead
    <3>2. CASE Refuse(c)
      BY <3>2 DEF Refuse, NoRead
    <3>3. QED  BY <1>4, <3>1, <3>2
  <2>2. \A d \in Call : /\ pc'[d] = IF d = c THEN "done" ELSE pc[d]
                        /\ d # c => seen'[d] = seen[d]
    BY <1>4 DEF TakeFails, Refuse
  <2>3. UNCHANGED <<value, stamp, clock>>
    BY <1>4 DEF TakeFails, Refuse
  <2>4. QED  BY <2>1, <2>2, <2>3
<1>5. ASSUME NEW c \in Call, Finish(c) PROVE CalmInv'
  <2>1. \A d \in Call : Running(d) => d = c
    BY <1>5 DEF Finish
  <2>2. LockType'
    BY <1>5 DEF Finish
  <2>3. \A d \in Call : pc'[d] = IF d = c THEN "done" ELSE pc[d]
    BY <1>5 DEF Finish
  <2>4. QED  BY <2>1, <2>2, <2>3
<1>6. ASSUME NEW c \in Call, FinishFails(c) PROVE CalmInv'
  <2>1. LockType'
    BY <1>6 DEF FinishFails
  <2>2. \A d \in Call : pc'[d] = IF d = c THEN "done" ELSE pc[d]
    BY <1>6 DEF FinishFails
  <2>3. QED  BY <1>6, <2>1, <2>2 DEF FinishFails
<1>7. ASSUME NEW c \in Call, Kill(c) PROVE CalmInv'
  <2>1. LockType'
    BY <1>7 DEF Kill, NoRead
  <2>2. \A d \in Call : /\ pc'[d] = IF d = c THEN "dead" ELSE pc[d]
                        /\ d # c => seen'[d] = seen[d]
    BY <1>7 DEF Kill
  <2>3. QED  BY <1>7, <2>1, <2>2 DEF Kill
<1>8. CASE RequestStep
  BY <1>8 DEF RequestStep, RequestRead, RequestTake, RequestFails, RequestBusy,
    RequestFinish, RequestKill
<1>9. CASE UNCHANGED vars
  BY <1>9 DEF vars
<1>10. QED
  BY <1>1, <1>2, <1>3, <1>4, <1>5, <1>6, <1>7, <1>8, <1>9
  DEF Next, CallStep, Decide

LEMMA StepLock ==
  ASSUME LockInv, [Next]_vars
  PROVE  LockInv'
<1>1. ASSUME NEW c \in Call, Beat(c) \/ Read(c)
      PROVE  calm' \in BOOLEAN /\ (calm' => calm)
  BY <1>1 DEF LockInv, Beat, Read
<1>2. ASSUME NEW c \in Call, CallStep(c), ~Read(c)
      PROVE  calm' = calm
  BY <1>2, Zenon
  DEF CallStep, Decide, Take, TakeFails, Refuse, Finish, FinishFails, Kill
<1>3. ASSUME RequestStep
      PROVE  calm' \in BOOLEAN /\ (calm' => calm)
  <2>1. calm \in BOOLEAN
    BY DEF LockInv
  <2>2. calm' = calm \/ calm' = FALSE
    BY <1>3, Zenon
    DEF RequestStep, RequestRead, RequestTake, RequestFails, RequestBusy,
      RequestFinish, RequestKill
  <2>3. CASE calm' = calm
    BY <2>1, <2>3, Zenon
  <2>4. CASE calm' = FALSE
    BY <2>4, Zenon
  <2>5. QED  BY <2>2, <2>3, <2>4, Zenon
<1>4. ASSUME UNCHANGED vars
      PROVE  calm' = calm
  BY <1>4, Zenon DEF vars
<1>5. calm' \in BOOLEAN /\ (calm' => calm)
  <2>1. calm \in BOOLEAN
    BY DEF LockInv
  <2>2. CASE calm' = calm
    BY <2>1, <2>2, Zenon
  <2>3. QED  BY <1>1, <1>2, <1>3, <1>4, <2>2, Zenon DEF Next
<1>6. QED  BY <1>5, StepCalm DEF LockInv

\* One sequencer at a time, whatever locks are left behind by killed and failed
\* calls: they are taken over, and the lock of a sequencer within its time never is.
THEOREM SequencersApart == Spec => []ApartWhileCalm
<1>1. LockInv /\ [Next]_vars => LockInv'
  BY StepLock
<1>2. LockInv => ApartWhileCalm
  BY DEF LockInv, CalmInv, ApartWhileCalm, OneSequencer
<1>3. QED  BY InitLock, <1>1, <1>2, PTL DEF Spec
==============================================================================
