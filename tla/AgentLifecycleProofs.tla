------------------------ MODULE AgentLifecycleProofs ------------------------
(***************************************************************************)
(* Proofs that the rows of AgentMessage live as MessageLifecycle says,     *)
(* that regenerating loses no answer, and that one fault leaves no working *)
(* message without a delivery, for every set of messages and workers and   *)
(* every bound on deliveries and faults.                                   *)
(*                                                                         *)
(* Most actions leave the rows alone.  RowSteps reduces a step of the      *)
(* system to the few things that can happen to the rows; the invariants    *)
(* and the refinement are proved over those.  Surviving a fault is a       *)
(* matter of one message at a time: a step is of one message, and Unseen   *)
(* to every other.                                                         *)
(***************************************************************************)
EXTENDS AgentMessageProofs

Statuses == {"absent", "queued", "working", "completed", "failed", "deleted"}
Settled == {"completed", "failed", "deleted"}

\* What can happen to the rows, beside AddMessage, ReadForRegenerate and Regenerate
RowsKept ==
    /\ UNCHANGED <<status, replaces, turns>>
    /\ \A m \in Messages : api'[m] \in {"none", "read"} => api[m] \in {"none", "read"}
RowUpdated(m, s) ==
    /\ Active(m)
    /\ status' = [status EXCEPT ![m] = s]
    /\ UNCHANGED <<replaces, turns, api>>
RowCompleted(m) ==
    /\ Active(m)
    /\ status' = [n \in Messages |->
                    IF n = m THEN "completed"
                    ELSE IF n \in replaces[m] THEN "deleted" ELSE status[n]]
    /\ UNCHANGED <<replaces, turns, api>>
RowStep ==
    \/ RowsKept
    \/ \E m \in Messages :
         \/ AddMessage(m) \/ ReadForRegenerate(m) \/ Regenerate(m)
         \/ \E s \in {"working", "failed"} : RowUpdated(m, s)
         \/ RowCompleted(m)

-----------------------------------------------------------------------------
\* What the requests, the clocks and the scans of one message do to the rows.
LEMMA MessageRows ==
  ASSUME AgentTypeOK, NEW m \in Messages, MessageStep(m)
  PROVE  RowStep
<1> USE DEF rowVars, recVars, runVars
<1>1. CASE AddMessage(m) \/ ReadForRegenerate(m) \/ Regenerate(m)
  BY <1>1 DEF RowStep
<1>2. CASE Conflict(m) \/ Dispatch(m) \/ DispatchFails(m)
  <2>1. UNCHANGED <<status, replaces, turns>>
    BY <1>2 DEF Conflict, Dispatch, DispatchFails
  <2>2. \/ api' = [api EXCEPT ![m] = "claimed"]
        \/ api' = [api EXCEPT ![m] = "done"]
    BY <1>2 DEF Conflict, Dispatch, DispatchFails
  <2>3. RowsKept
    BY <2>1, <2>2 DEF RowsKept, AgentTypeOK
  <2> QED
    BY <2>3 DEF RowStep
<1>3. CASE \/ ClaimExpires(m) \/ Ages(m) \/ RetryDue(m) \/ LockExpires(m)
           \/ FinalizeAcquire(m) \/ RedispatchClaim(m)
  <2>1. UNCHANGED <<status, replaces, turns, api>>
    BY <1>3 DEF ClaimExpires, Ages, RetryDue, LockExpires, FinalizeAcquire, RedispatchClaim
  <2> QED
    BY <2>1 DEF RowStep, RowsKept
<1> QED
  BY <1>1, <1>2, <1>3 DEF MessageStep

\* Of the reconciler, only the finalizer touches a row, and only an active one.
LEMMA ReconcilerRows ==
  ASSUME AgentTypeOK, ReconcilerStep
  PROVE  RowStep
<1> USE DEF rowVars, recVars, runVars
<1>1. CASE FinalizeFail
  <2>1. at \in Messages
    BY <1>1 DEF FinalizeFail, AgentTypeOK
  <2>2. UNCHANGED <<replaces, turns, api>>
    BY <1>1 DEF FinalizeFail
  <2>3. status' = [status EXCEPT ![at] = IF Active(at) THEN "failed" ELSE @]
    BY <1>1 DEF FinalizeFail
  <2>4. CASE Active(at)
    BY <2>1, <2>2, <2>3, <2>4 DEF RowStep, RowUpdated
  <2>5. CASE ~Active(at)
    <3>1. UNCHANGED status
      BY <2>1, <2>3, <2>5 DEF AgentTypeOK
    <3> QED
      BY <2>2, <3>1 DEF RowStep, RowsKept
  <2> QED
    BY <2>4, <2>5
<1>2. CASE ~FinalizeFail
  <2>1. UNCHANGED <<status, replaces, turns, api>>
    BY <1>2 DEF ReconcilerStep, ScanStale, ScanQueued, RedispatchPublish, RedispatchFails,
       ReconcilerRestarts
  <2> QED
    BY <2>1 DEF RowStep, RowsKept
<1> QED
  BY <1>1, <1>2

\* A worker touches the row of its delivery, and only while it is active.
LEMMA WorkerRows ==
  ASSUME AgentTypeOK, JobsHeld, NEW w \in Workers, WorkerStep(w)
  PROVE  RowStep
<1> USE DEF rowVars, recVars, runVars
<1> DEFINE m == job[w].msg
<1>1. CASE \/ StartRun(w) \/ SaveProgress(w) \/ MarkFailed(w) \/ Done(w) \/ DoneUnheard(w)
  <2>1. m \in Messages
    BY <1>1, JobTyped DEF StartRun, SaveProgress, MarkFailed, Done, DoneUnheard
  <2>2. UNCHANGED <<replaces, turns, api>>
    BY <1>1 DEF StartRun, SaveProgress, MarkFailed, Done, DoneUnheard
  <2>3. \/ \E s \in {"working", "failed"} :
             status' = [status EXCEPT ![m] = IF Active(m) THEN s ELSE @]
        \/ SaveCompleted(m)
    BY <1>1 DEF StartRun, SaveProgress, SaveActive, MarkFailed, Done, DoneUnheard
  <2>4. CASE Active(m)
    <3> HIDE DEF m
    <3>1. CASE SaveCompleted(m)
      BY <2>1, <2>2, <2>4, <3>1 DEF SaveCompleted, RowCompleted, RowStep
    <3>2. ASSUME NEW s \in {"working", "failed"},
                 status' = [status EXCEPT ![m] = IF Active(m) THEN s ELSE @]
          PROVE  RowStep
      BY <2>1, <2>2, <2>4, <3>2 DEF RowUpdated, RowStep
    <3> QED
      BY <2>3, <3>1, <3>2
  <2>5. CASE ~Active(m)
    <3> HIDE DEF m
    <3>1. status = [n \in Messages |-> status[n]]
      BY DEF AgentTypeOK
    <3>2. UNCHANGED status
      BY <2>1, <2>3, <2>5, <3>1 DEF SaveCompleted
    <3> QED
      BY <2>2, <3>2 DEF RowStep, RowsKept
  <2> QED
    BY <2>4, <2>5
<1>2. CASE ~(\/ StartRun(w) \/ SaveProgress(w) \/ MarkFailed(w) \/ Done(w) \/ DoneUnheard(w))
  <2>1. UNCHANGED <<status, replaces, turns, api>>
    BY <1>2 DEF WorkerStep, Receive, Acquire, Busy, DeleteClaim, Load, NextEvent, RunFails,
       MarkFailedFails, Unavailable, Release, Republish, Acknowledge, Crash, GiveUp,
       HeartbeatNotices, HeartbeatFails
  <2> QED
    BY <2>1 DEF RowStep, RowsKept
<1> QED
  BY <1>1, <1>2

\* Every step of the hand-off is one of the row steps.
LEMMA RowSteps ==
  ASSUME AgentTypeOK, JobsHeld, [AgentNext]_agentVars
  PROVE  RowStep
<1>1. CASE UNCHANGED agentVars
  BY <1>1 DEF agentVars, rowVars, RowStep, RowsKept
<1> QED
  BY <1>1, MessageRows, ReconcilerRows, WorkerRows DEF AgentNext

-----------------------------------------------------------------------------
(* What makes the rows safe.  A row appears only when its request commits; *)
(* what a message replaces has settled by then, and stays settled; and a   *)
(* message takes over the whole list of the one it replaces, so that no    *)
(* answer is left to depend on a row that gets deleted.                    *)

RowsAppear == \A m \in Messages : api[m] \in {"none", "read"} => status[m] = "absent"
TurnsPresent == \A i \in DOMAIN turns : status[turns[i]] # "absent"
ReplacedSettled == \A k \in Messages : \A n \in replaces[k] : status[n] \in Settled
ReplacedTakenOver == \A k \in Messages : \A n \in replaces[k] : replaces[n] \subseteq replaces[k]
TurnInv == RowsAppear /\ TurnsPresent /\ ReplacedSettled /\ ReplacedTakenOver

\* A message is started by its commit: the common part of AddMessage and Regenerate.
LEMMA TurnStarts ==
  ASSUME AgentTypeOK, TurnInv, NEW m \in Messages, NEW old \in SUBSET Messages,
         api[m] \in {"none", "read"}, Persist(m, old),
         \A n \in old : status[n] \in Settled /\ replaces[n] \subseteq old
  PROVE  TurnInv'
<1> USE DEF AgentTypeOK, Settled
<1>1. /\ status' = [status EXCEPT ![m] = "queued"] /\ replaces' = [replaces EXCEPT ![m] = old]
      /\ turns' = Append(turns, m) /\ api' = [api EXCEPT ![m] = "committed"]
  BY DEF Persist
<1>2. status[m] = "absent"
  BY DEF TurnInv, RowsAppear
<1>3. m \notin old /\ \A k \in Messages : m \notin replaces[k]
  BY <1>2 DEF TurnInv, ReplacedSettled
<1>4. RowsAppear'
  BY <1>1 DEF TurnInv, RowsAppear
<1>5. TurnsPresent'
  <2> SUFFICES ASSUME NEW i \in DOMAIN turns'
               PROVE  status'[turns'[i]] # "absent"
    BY DEF TurnsPresent
  <2>1. CASE i \in DOMAIN turns
    <3>1. turns'[i] = turns[i] /\ turns[i] \in Messages /\ status[turns[i]] # "absent"
      BY <1>1, <2>1 DEF TurnInv, TurnsPresent
    <3> QED
      BY <1>1, <3>1
  <2>2. CASE i \notin DOMAIN turns
    <3>1. turns'[i] = m
      BY <1>1, <2>2
    <3> QED
      BY <1>1, <3>1
  <2> QED
    BY <2>1, <2>2
<1>6. ReplacedSettled'
  <2> SUFFICES ASSUME NEW k \in Messages, NEW n \in replaces'[k]
               PROVE  status'[n] \in Settled
    BY DEF ReplacedSettled
  <2>1. n \in Messages /\ n # m /\ status[n] \in Settled
    BY <1>1, <1>3 DEF TurnInv, ReplacedSettled
  <2> QED
    BY <1>1, <2>1
<1>7. ReplacedTakenOver'
  <2> SUFFICES ASSUME NEW k \in Messages, NEW n \in replaces'[k]
               PROVE  replaces'[n] \subseteq replaces'[k]
    BY DEF ReplacedTakenOver
  <2>1. n \in Messages /\ n # m
    BY <1>1, <1>3
  <2>2. replaces'[n] = replaces[n]
    BY <1>1, <2>1
  <2>3. CASE k = m
    BY <1>1, <2>2, <2>3
  <2>4. CASE k # m
    BY <1>1, <2>2, <2>4 DEF TurnInv, ReplacedTakenOver
  <2> QED
    BY <2>3, <2>4
<1> QED
  BY <1>4, <1>5, <1>6, <1>7 DEF TurnInv

\* Every row step keeps the invariant of the turns.
LEMMA TurnSteps ==
  ASSUME AgentTypeOK, TurnInv, RowStep
  PROVE  TurnInv'
<1> USE DEF AgentTypeOK, Settled
<1>1. CASE RowsKept
  BY <1>1 DEF RowsKept, TurnInv, RowsAppear, TurnsPresent, ReplacedSettled, ReplacedTakenOver
<1>2. ASSUME NEW m \in Messages, AddMessage(m) PROVE TurnInv'
  BY <1>2, TurnStarts DEF AddMessage
<1>3. ASSUME NEW m \in Messages, Regenerate(m) PROVE TurnInv'
  <2>1. \A n \in replaces[m] : status[n] \in Settled /\ replaces[n] \subseteq replaces[m]
    BY DEF TurnInv, ReplacedSettled, ReplacedTakenOver
  <2> QED
    BY <1>3, <2>1, TurnStarts DEF Regenerate
<1>4. ASSUME NEW m \in Messages, ReadForRegenerate(m) PROVE TurnInv'
  <2>1. PICK n \in Messages :
          /\ LastMessage(n) /\ ~Active(n)
          /\ replaces' = [replaces EXCEPT ![m] = {n} \union replaces[n]]
    BY <1>4 DEF ReadForRegenerate
  <2>2. api[m] = "none" /\ api' = [api EXCEPT ![m] = "read"] /\ UNCHANGED <<status, turns>>
    BY <1>4 DEF ReadForRegenerate
  <2>3. status[m] = "absent"
    BY <2>2 DEF TurnInv, RowsAppear
  <2>4. status[n] \in Settled
    BY <2>1 DEF LastMessage, Active, TurnInv, TurnsPresent
  <2>5. m # n /\ \A k \in Messages : m \notin replaces[k]
    BY <2>3, <2>4 DEF TurnInv, ReplacedSettled
  <2>6. RowsAppear' /\ TurnsPresent'
    BY <2>2, <2>3 DEF TurnInv, RowsAppear, TurnsPresent
  <2>7. ReplacedSettled'
    BY <2>1, <2>2, <2>4 DEF TurnInv, ReplacedSettled
  <2>8. ReplacedTakenOver'
    <3> SUFFICES ASSUME NEW k \in Messages, NEW x \in replaces'[k]
                 PROVE  replaces'[x] \subseteq replaces'[k]
      BY DEF ReplacedTakenOver
    <3>1. x \in Messages /\ x # m
      BY <2>1, <2>5
    <3>2. replaces'[x] = replaces[x]
      BY <2>1, <3>1
    <3>3. CASE k = m
      <4>1. replaces'[k] = {n} \union replaces[n]
        BY <2>1, <3>3
      <4> QED
        BY <3>2, <4>1 DEF TurnInv, ReplacedTakenOver
    <3>4. CASE k # m
      BY <2>1, <3>2, <3>4 DEF TurnInv, ReplacedTakenOver
    <3> QED
      BY <3>3, <3>4
  <2> QED
    BY <2>6, <2>7, <2>8 DEF TurnInv
<1>5. ASSUME NEW m \in Messages, NEW s \in {"working", "failed"}, RowUpdated(m, s)
      PROVE  TurnInv'
  <2>1. /\ status[m] \in {"queued", "working"} /\ status' = [status EXCEPT ![m] = s]
        /\ UNCHANGED <<replaces, turns, api>>
    BY <1>5 DEF RowUpdated, Active
  <2>2. RowsAppear' /\ TurnsPresent'
    BY <2>1 DEF TurnInv, RowsAppear, TurnsPresent
  <2>3. ReplacedSettled' /\ ReplacedTakenOver'
    BY <2>1 DEF TurnInv, ReplacedSettled, ReplacedTakenOver
  <2> QED
    BY <2>2, <2>3 DEF TurnInv
<1>6. ASSUME NEW m \in Messages, RowCompleted(m)
      PROVE  TurnInv'
  <2>1. /\ status[m] \in {"queued", "working"} /\ UNCHANGED <<replaces, turns, api>>
        /\ \A n \in Messages :
             status'[n] = IF n = m THEN "completed"
                          ELSE IF n \in replaces[m] THEN "deleted" ELSE status[n]
    BY <1>6 DEF RowCompleted, Active
  <2>2. RowsAppear'
    <3> SUFFICES ASSUME NEW n \in Messages, api'[n] \in {"none", "read"}
                 PROVE  status'[n] = "absent"
      BY DEF RowsAppear
    <3>1. status[n] = "absent"
      BY <2>1 DEF TurnInv, RowsAppear
    <3>2. n # m /\ n \notin replaces[m]
      BY <2>1, <3>1 DEF TurnInv, ReplacedSettled
    <3> QED
      BY <2>1, <3>1, <3>2
  <2>3. TurnsPresent'
    <3> SUFFICES ASSUME NEW i \in DOMAIN turns
                 PROVE  status'[turns[i]] # "absent"
      BY <2>1 DEF TurnsPresent
    <3>1. turns[i] \in Messages /\ status[turns[i]] # "absent"
      BY DEF TurnInv, TurnsPresent
    <3> QED
      BY <2>1, <3>1
  <2>4. ReplacedSettled' /\ ReplacedTakenOver'
    BY <2>1 DEF TurnInv, ReplacedSettled, ReplacedTakenOver
  <2> QED
    BY <2>2, <2>3, <2>4 DEF TurnInv
<1> QED
  BY <1>1, <1>2, <1>3, <1>4, <1>5, <1>6 DEF RowStep

\* TurnInv holds of every state of the system, whatever interleaves.
LEMMA TurnSafe == AgentSpec => []TurnInv
<1>1. AgentInit => TurnInv
  BY DEF AgentInit, TurnInv, RowsAppear, TurnsPresent, ReplacedSettled, ReplacedTakenOver
<1>2. AgentTypeOK /\ JobsHeld /\ TurnInv /\ [AgentNext]_agentVars => TurnInv'
  BY RowSteps, TurnSteps
<1> QED
  BY <1>1, <1>2, AgentTypeCorrect, PTL DEF AgentSpec

-----------------------------------------------------------------------------
\* A deletion is made by the completion that takes over, and nothing undoes it.
LEMMA AnswerKept ==
  ASSUME AgentTypeOK, TurnInv, NoAnswerLost, RowStep
  PROVE  NoAnswerLost'
<1> USE DEF AgentTypeOK, Settled
<1> SUFFICES ASSUME NEW k \in Messages, status'[k] = "deleted"
             PROVE  \E n \in Messages : status'[n] = "completed" /\ k \in replaces'[n]
  BY DEF NoAnswerLost
<1>1. CASE RowsKept
  BY <1>1 DEF RowsKept, NoAnswerLost
\* A row that appears replaces what it likes: it is not complete yet.
<1>2. ASSUME NEW m \in Messages, AddMessage(m) \/ Regenerate(m) \/ ReadForRegenerate(m)
      PROVE  \E n \in Messages : status'[n] = "completed" /\ k \in replaces'[n]
  <2>1. status[m] = "absent"
    BY <1>2 DEF AddMessage, Regenerate, ReadForRegenerate, TurnInv, RowsAppear
  <2>2. /\ \A n \in Messages : n # m => status'[n] = status[n] /\ replaces'[n] = replaces[n]
        /\ status'[m] \in {"absent", "queued"}
    BY <1>2, <2>1 DEF AddMessage, Regenerate, ReadForRegenerate, Persist
  <2>3. status[k] = "deleted"
    BY <2>2
  <2>4. PICK n \in Messages : status[n] = "completed" /\ k \in replaces[n]
    BY <2>3 DEF NoAnswerLost
  <2> QED
    BY <2>1, <2>2, <2>4
<1>3. ASSUME NEW m \in Messages, NEW s \in {"working", "failed"}, RowUpdated(m, s)
      PROVE  \E n \in Messages : status'[n] = "completed" /\ k \in replaces'[n]
  BY <1>3 DEF RowUpdated, Active, NoAnswerLost
\* The message that is completed takes over from the one it deletes.
<1>4. ASSUME NEW m \in Messages, RowCompleted(m)
      PROVE  \E n \in Messages : status'[n] = "completed" /\ k \in replaces'[n]
  <2>1. /\ status[m] \in {"queued", "working"} /\ UNCHANGED replaces
        /\ \A n \in Messages :
             status'[n] = IF n = m THEN "completed"
                          ELSE IF n \in replaces[m] THEN "deleted" ELSE status[n]
    BY <1>4 DEF RowCompleted, Active
  <2>2. CASE k \in replaces[m]
    BY <2>1, <2>2
  <2>3. CASE k \notin replaces[m]
    <3>1. status[k] = "deleted"
      BY <2>1, <2>3
    <3>2. PICK n \in Messages : status[n] = "completed" /\ k \in replaces[n]
      BY <3>1 DEF NoAnswerLost
    <3>3. n \notin replaces[m]
      BY <2>3, <3>2 DEF TurnInv, ReplacedTakenOver
    <3> QED
      BY <2>1, <3>2, <3>3
  <2> QED
    BY <2>2, <2>3
<1> QED
  BY <1>1, <1>2, <1>3, <1>4 DEF RowStep

\* NoAnswerLost: however often a thread is regenerated, whichever runs crash, a
\* row is deleted only for an answer that is complete and stays
\* (regenerate_response, _save_completed).
THEOREM AnswersKept == AgentSpec => []NoAnswerLost
<1>1. AgentInit => NoAnswerLost
  BY DEF AgentInit, NoAnswerLost
<1>2. /\ AgentTypeOK /\ JobsHeld /\ TurnInv /\ NoAnswerLost /\ [AgentNext]_agentVars
      => NoAnswerLost'
  BY RowSteps, AnswerKept
<1> QED
  BY <1>1, <1>2, AgentTypeCorrect, TurnSafe, PTL DEF AgentSpec

-----------------------------------------------------------------------------
(* The refinement.                                                         *)

\* The initial rows are the initial states of the abstract life.
LEMMA RefinesInit == AgentInit => Lifecycle!LifecycleInit
  BY DEF AgentInit, Active, Lifecycle!LifecycleInit

\* A commit accepts the message; nothing else of a request shows.
LEMMA RefinesAccept ==
  ASSUME AgentTypeOK, TurnInv, NEW m \in Messages, NEW old \in SUBSET Messages,
         api[m] \in {"none", "read"}, Persist(m, old), \A n \in old : status[n] \in Settled
  PROVE  Lifecycle!Accept(m, old)
<1> USE DEF AgentTypeOK
<1>1. /\ status' = [status EXCEPT ![m] = "queued"] /\ replaces' = [replaces EXCEPT ![m] = old]
      /\ ~ActiveTurn
  BY DEF Persist
<1>2. status[m] = "absent"
  BY DEF TurnInv, RowsAppear
<1>3. \A n \in Messages : ~Active(n)
  BY <1>1 DEF ActiveTurn
<1> QED
  BY <1>1, <1>2, <1>3 DEF Active, Settled, Lifecycle!Accept, Lifecycle!Settled

\* Every row step is a step of the abstract life, or leaves it as it was.
LEMMA RefinesStep ==
  ASSUME AgentTypeOK, TurnInv, RowStep
  PROVE  [Lifecycle!LifecycleNext]_(Lifecycle!lifecycleVars)
<1> USE DEF AgentTypeOK
<1>1. CASE RowsKept
  BY <1>1 DEF RowsKept, Active, Lifecycle!lifecycleVars
<1>2. ASSUME NEW m \in Messages, AddMessage(m) PROVE Lifecycle!LifecycleNext
  <2>1. Lifecycle!Accept(m, {})
    BY <1>2, RefinesAccept DEF AddMessage
  <2> QED
    BY <2>1 DEF Lifecycle!LifecycleNext
<1>3. ASSUME NEW m \in Messages, Regenerate(m) PROVE Lifecycle!LifecycleNext
  <2> PICK old \in SUBSET Messages : old = replaces[m]
    OBVIOUS
  <2>1. \A n \in old : status[n] \in Settled
    BY DEF TurnInv, ReplacedSettled
  <2>2. Lifecycle!Accept(m, old)
    BY <1>3, <2>1, RefinesAccept DEF Regenerate
  <2> QED
    BY <2>2 DEF Lifecycle!LifecycleNext
<1>4. ASSUME NEW m \in Messages, ReadForRegenerate(m)
      PROVE  UNCHANGED Lifecycle!lifecycleVars
  <2>1. status[m] = "absent" /\ UNCHANGED status
    BY <1>4 DEF ReadForRegenerate, TurnInv, RowsAppear
  <2>2. \A n \in Messages : n # m => replaces'[n] = replaces[n]
    BY <1>4 DEF ReadForRegenerate
  <2> QED
    BY <2>1, <2>2 DEF Active, Lifecycle!lifecycleVars
<1>5. ASSUME NEW m \in Messages, RowUpdated(m, "working")
      PROVE  UNCHANGED Lifecycle!lifecycleVars
  BY <1>5 DEF RowUpdated, Active, Lifecycle!lifecycleVars
<1>6. ASSUME NEW m \in Messages, RowUpdated(m, "failed")
      PROVE  Lifecycle!LifecycleNext
  <2>1. Lifecycle!Fail(m)
    BY <1>6 DEF RowUpdated, Active, Lifecycle!Fail
  <2> QED
    BY <2>1 DEF Lifecycle!LifecycleNext
<1>7. ASSUME NEW m \in Messages, RowCompleted(m)
      PROVE  Lifecycle!LifecycleNext
  <2>1. /\ status[m] \in {"queued", "working"} /\ UNCHANGED replaces
        /\ \A n \in Messages :
             status'[n] = IF n = m THEN "completed"
                          ELSE IF n \in replaces[m] THEN "deleted" ELSE status[n]
    BY <1>7 DEF RowCompleted, Active
  <2>2. \A n \in replaces[m] : status[n] # "absent"
    BY DEF TurnInv, ReplacedSettled, Settled
  <2>3. Lifecycle!Complete(m)
    BY <2>1, <2>2 DEF Active, Lifecycle!Complete
  <2> QED
    BY <2>3 DEF Lifecycle!LifecycleNext
<1> QED
  BY <1>1, <1>2, <1>3, <1>4, <1>5, <1>6, <1>7 DEF RowStep

\* ImplementsLifecycle: requests, dispatcher, finalizer, broker and workers
\* together, with everything that is delivered twice, crashes or outlives its
\* lock, do to the rows what MessageLifecycle allows and nothing else: one answer
\* in the making, settled once, and deleted only by its complete replacement.
THEOREM LifecycleImplemented == AgentSpec => ImplementsLifecycle
<1>1. /\ AgentTypeOK /\ JobsHeld /\ TurnInv /\ [AgentNext]_agentVars
      => [Lifecycle!LifecycleNext]_(Lifecycle!lifecycleVars)
  BY RowSteps, RefinesStep
<1> QED
  BY <1>1, RefinesInit, AgentTypeCorrect, TurnSafe, PTL
     DEF AgentSpec, ImplementsLifecycle, Lifecycle!LifecycleSpec

-----------------------------------------------------------------------------
(* One fault is survived.  The argument is local to a message m, and goes  *)
(* by the number of faults so far.  Without a fault (Calm) the lock of m   *)
(* is always looked after, so the run that made m "working" is still under *)
(* way, holds the lock, and is the first try of its delivery.  The one     *)
(* fault may kill that run, or take the lock from it: then its first try   *)
(* is still there (FirstLeft), or has been sent off once more and outlasts *)
(* the lock (Behind), or finds the lock free (Near), or another run or the *)
(* finalizer has the message (Led).                                        *)

First(m) == [msg |-> m, tries |-> 0, state |-> "ready"]

\* No delivery of a message exists before its row is committed.
Untouched(m) ==
    /\ ~Outstanding(m)
    /\ api[m] \notin {"committed", "claimed"}
    /\ m \notin todo /\ at # m
NothingYet == \A m \in Messages : status[m] = "absent" => Untouched(m)

\* A run that acknowledges its delivery has settled the message.
AckedOver(m) ==
    \A w \in Handling(m) :
        pc[w] = "releasing" /\ verdict[w] = "ack" => ~Active(m) \/ m \in forsaken

Finalized(m) == rec = "finalize" /\ at = m

Calm(m) ==
    /\ m \notin forsaken
    /\ lock[m] # "free" => Attended(m)
    /\ \A w \in Handling(m) :
         /\ InRun(w) => hold[w] = "held"
         /\ pc[w] = "releasing" => verdict[w] = "ack"
         /\ pc[w] = "acking" => verdict[w] # "retry"
    /\ Active(m) =>
         /\ \A w \in Handling(m) : InRun(w) => job[w].tries = 0
         /\ lock[m] = "free" =>
              /\ \A d \in Delivery : d.msg = m /\ queue[d] > 0 => d.tries = 0
              /\ \A w \in Handling(m) :
                   /\ job[w].tries = 0
                   /\ pc[w] = "acking" => verdict[w] # "lock_retry"
    /\ status[m] = "working" => \E w \in Handling(m) : pc[w] \in Working

\* A run that has lost its lock, or is about to try again, is a first try.
StrayFirst(m) ==
    \A w \in Handling(m) :
        InRun(w) /\ (hold[w] # "held" \/ pc[w] = "releasing") => job[w].tries = 0

Leads(w) == pc[w] \in Working \union {"owner"} /\ hold[w] = "held"
GoesOn(w) == job[w].tries = 0 /\ ~(pc[w] \in {"releasing", "acking"} /\ verdict[w] = "ack")
Led(m) == \E w \in Handling(m) : Leads(w)
FirstLeft(m) == queue[First(m)] > 0 \/ \E w \in Handling(m) : GoesOn(w)
Behind(m) == queue[Second(m, "behind_dead")] > 0
Near(m) ==
    /\ lock[m] = "free"
    /\ \/ queue[Second(m, "ready")] > 0
       \/ queue[Second(m, "delayed")] > 0
       \/ \E w \in Handling(m) : pc[w] = "start"
Carried(m) == Finalized(m) \/ Led(m) \/ FirstLeft(m) \/ Behind(m) \/ Near(m)

Survives(m) ==
    /\ AckedOver(m)
    /\ faults = 0 => Calm(m)
    /\ faults <= 1 /\ Active(m) /\ m \notin forsaken => StrayFirst(m)
    /\ faults <= 1 /\ status[m] = "working" /\ m \notin forsaken => Carried(m)
SurvivalInv == \A m \in Messages : Survives(m)

\* A step that does not concern m: at most its row is deleted, or it is
\* published once more.
Unseen(m) ==
    /\ status'[m] = status[m] \/ status'[m] = "deleted"
    /\ m \in forsaken' <=> m \in forsaken
    /\ faults' = faults \/ faults' = faults + 1
    /\ lock'[m] = lock[m]
    /\ Finalized(m)' <=> Finalized(m)
    /\ \A d \in Delivery : d.msg = m =>
         queue'[d] = queue[d] \/ (d.tries = 0 /\ queue'[d] > 0)
    /\ Handling(m)' = Handling(m)
    /\ \A v \in Handling(m) :
         /\ pc'[v] = pc[v] /\ job'[v] = job[v]
         /\ hold'[v] = hold[v] /\ verdict'[v] = verdict[v]

SameDeliveries(m) == \A d \in Delivery : d.msg = m => queue'[d] = queue[d]

-----------------------------------------------------------------------------
\* The deliveries of one message are not those of another.
LEMMA Deliveries ==
  ASSUME NEW m \in Messages
  PROVE  /\ First(m) \in Delivery /\ First(m).msg = m /\ First(m).tries = 0
         /\ \A s \in {"ready", "delayed", "behind_dead"} :
              /\ Second(m, s) \in Delivery
              /\ Second(m, s).msg = m /\ Second(m, s).tries = 1 /\ Second(m, s).state = s
  BY DEF First, Second, Delivery

\* A step that does not concern m keeps what carries it.
LEMMA UnseenKeeps ==
  ASSUME AgentTypeOK, NEW m \in Messages, Survives(m), Unseen(m)
  PROVE  Survives(m)'
<1>1. Active(m)' => Active(m) /\ status'[m] = status[m]
  BY DEF Unseen, Active
<1>2. faults \in Nat /\ faults' \in Nat /\ faults <= faults'
  BY AgentAssumption DEF Unseen, AgentTypeOK, AgentAssumption
<1>3. AckedOver(m)'
  BY <1>1 DEF Survives, AckedOver, Unseen
<1>4. StrayFirst(m) => StrayFirst(m)'
  BY DEF Unseen, StrayFirst, InRun
<1>5. Carried(m) => Carried(m)'
  <2>1. Led(m) => Led(m)'
    BY DEF Unseen, Led, Leads
  <2>2. FirstLeft(m) => FirstLeft(m)'
    BY Deliveries DEF Unseen, FirstLeft, GoesOn
  <2>3. Behind(m) => Behind(m)'
    BY Deliveries DEF Unseen, Behind
  <2>4. Near(m) => Near(m)'
    BY Deliveries DEF Unseen, Near
  <2> QED
    BY <2>1, <2>2, <2>3, <2>4 DEF Carried, Unseen
<1>6. ASSUME faults' = 0 PROVE Calm(m)'
  <2>1. Calm(m)
    BY <1>2, <1>6 DEF Survives
  <2>2. Attended(m) => Attended(m)'
    BY DEF Unseen, Attended, InRun, Finalized
  <2>3. status'[m] = "working" => \E w \in Handling(m)' : pc'[w] \in Working
    BY <2>1 DEF Calm, Unseen
  <2>4. Active(m)' =>
         /\ \A w \in Handling(m)' : InRun(w)' => job'[w].tries = 0
         /\ lock'[m] = "free" =>
              /\ \A d \in Delivery : d.msg = m /\ queue'[d] > 0 => d.tries = 0
              /\ \A w \in Handling(m)' :
                   /\ job'[w].tries = 0
                   /\ pc'[w] = "acking" => verdict'[w] # "lock_retry"
    BY <2>1, <1>1 DEF Calm, Unseen, InRun
  <2>5. \A w \in Handling(m)' :
         /\ InRun(w)' => hold'[w] = "held"
         /\ pc'[w] = "releasing" => verdict'[w] = "ack"
         /\ pc'[w] = "acking" => verdict'[w] # "retry"
    BY <2>1 DEF Calm, Unseen, InRun
  <2>6. m \notin forsaken' /\ (lock'[m] # "free" => Attended(m)')
    BY <2>1, <2>2 DEF Calm, Unseen
  <2> QED
    BY <2>3, <2>4, <2>5, <2>6 DEF Calm
<1>7. m \in forsaken' <=> m \in forsaken
  BY DEF Unseen
<1>8. status'[m] = "working" => status[m] = "working"
  BY DEF Unseen
<1> QED
  BY <1>1, <1>2, <1>3, <1>4, <1>5, <1>6, <1>7, <1>8 DEF Survives

\* A delivery more, or a delivery less, of one message leaves those of the others.
LEMMA OthersQueued ==
  ASSUME queue \in [Delivery -> Nat], NEW k \in Messages, NEW m \in Messages, m # k,
         \/ UNCHANGED queue
         \/ Enqueue(k)
         \/ Outlasted(k)
         \/ RetryDue(k)
         \/ \E d \in Delivery : d.msg = k /\ queue' = [queue EXCEPT ![d] = @ + 1]
         \/ \E d \in Delivery : d.msg = k /\ queue' = [queue EXCEPT ![d] = @ - 1]
  PROVE  \A d \in Delivery : d.msg = m => queue'[d] = queue[d]
<1> SUFFICES ASSUME NEW d \in Delivery, d.msg = m
             PROVE  queue'[d] = queue[d]
  OBVIOUS
<1>1. CASE UNCHANGED queue
  BY <1>1
<1>2. CASE Enqueue(k)
  <2>1. queue' = [queue EXCEPT ![First(k)] = @ + 1] /\ d # First(k)
    BY <1>2, Deliveries DEF Enqueue, First
  <2> QED
    BY <2>1
<1>3. CASE Outlasted(k)
  <2>1. d # Second(k, "behind_dead") /\ d # Second(k, "delayed")
    BY Deliveries
  <2> QED
    BY <1>3, <2>1 DEF Outlasted
<1>4. CASE RetryDue(k)
  <2>1. d # Second(k, "ready") /\ d # Second(k, "delayed")
    BY Deliveries
  <2> QED
    BY <1>4, <2>1 DEF RetryDue
<1>5. ASSUME NEW e \in Delivery, e.msg = k,
             queue' = [queue EXCEPT ![e] = @ + 1] \/ queue' = [queue EXCEPT ![e] = @ - 1]
      PROVE  queue'[d] = queue[d]
  <2>1. d # e
    BY <1>5
  <2> QED
    BY <1>5, <2>1
<1> QED
  BY <1>1, <1>2, <1>3, <1>4, <1>5

\* Steps of requests, of the broker and of Valkey for another message.
LEMMA MessageUnseen ==
  ASSUME AgentTypeOK, JobsHeld, RunsExclusive, NEW m \in Messages, NEW k \in Messages, m # k,
         MessageStep(k)
  PROVE  Unseen(m) /\ SameDeliveries(m)
<1> USE DEF rowVars, recVars, runVars, Smooth
<1>1. status'[m] = status[m]
  BY DEF MessageStep, AddMessage, ReadForRegenerate, Regenerate, Conflict, Dispatch,
     DispatchFails, ClaimExpires, Ages, RetryDue, LockExpires, FinalizeAcquire,
     RedispatchClaim, Persist, AgentTypeOK
<1>2. /\ forsaken' = forsaken
      /\ faults' = faults \/ faults' = faults + 1
      /\ UNCHANGED <<pc, job, verdict>>
  BY DEF MessageStep, AddMessage, ReadForRegenerate, Regenerate, Conflict, Dispatch,
     DispatchFails, ClaimExpires, Ages, RetryDue, LockExpires, FinalizeAcquire,
     RedispatchClaim, Fault
<1>3. \/ UNCHANGED queue \/ Enqueue(k) \/ Outlasted(k) \/ RetryDue(k)
  BY DEF MessageStep, AddMessage, ReadForRegenerate, Regenerate, Conflict, Dispatch,
     DispatchFails, ClaimExpires, Ages, LockExpires, FinalizeAcquire,
     RedispatchClaim
<1>4. \A d \in Delivery : d.msg = m => queue'[d] = queue[d]
  BY <1>3, OthersQueued DEF AgentTypeOK
<1>5. lock'[m] = lock[m]
  BY DEF MessageStep, AddMessage, ReadForRegenerate, Regenerate, Conflict, Dispatch,
     DispatchFails, ClaimExpires, Ages, RetryDue, LockExpires, FinalizeAcquire,
     RedispatchClaim, AgentTypeOK
<1>6. Finalized(m)' <=> Finalized(m)
  <2>1. \/ UNCHANGED <<rec, at>>
        \/ UNCHANGED rec /\ at = NoMessage /\ at' = k
    BY DEF MessageStep, AddMessage, ReadForRegenerate, Regenerate, Conflict, Dispatch,
       DispatchFails, ClaimExpires, Ages, RetryDue, LockExpires, FinalizeAcquire,
       RedispatchClaim
  <2> QED
    BY <2>1, AgentAssumption DEF Finalized, AgentAssumption
<1>7. Handling(m)' = Handling(m)
  BY <1>2 DEF Handling
<1>8. \A v \in Handling(m) : hold'[v] = hold[v]
  <2>1. CASE UNCHANGED hold
    BY <2>1
  <2>2. CASE LockExpires(k)
    <3>1. \A v \in Workers : v \notin Handling(k) => hold'[v] = hold[v]
      BY <2>2 DEF LockExpires
    <3>2. \A v \in Handling(m) : v \in Workers /\ v \notin Handling(k)
      BY DEF Handling
    <3> QED
      BY <3>1, <3>2
  <2> QED
    BY <2>1, <2>2 DEF MessageStep, AddMessage, ReadForRegenerate, Regenerate, Conflict,
       Dispatch, DispatchFails, ClaimExpires, Ages, RetryDue, FinalizeAcquire, RedispatchClaim
<1> HIDE DEF rowVars, recVars, runVars, Smooth
<1> QED
  BY <1>1, <1>2, <1>4, <1>5, <1>6, <1>7, <1>8 DEF Unseen, SameDeliveries

\* Steps of the reconciler that is at another message, or at none.
LEMMA ReconcilerUnseen ==
  ASSUME AgentTypeOK, NEW m \in Messages, at # m, ReconcilerStep
  PROVE  Unseen(m) /\ SameDeliveries(m)
<1> USE DEF rowVars, recVars, runVars, Smooth
<1>1. status'[m] = status[m] /\ lock'[m] = lock[m]
  BY DEF ReconcilerStep, ScanStale, FinalizeFail, ScanQueued, RedispatchPublish,
     RedispatchFails, ReconcilerRestarts, AgentTypeOK
<1>2. /\ forsaken' = forsaken
      /\ faults' = faults \/ faults' = faults + 1
      /\ UNCHANGED <<pc, job, hold, verdict>>
  BY DEF ReconcilerStep, ScanStale, FinalizeFail, ScanQueued, RedispatchPublish,
     RedispatchFails, ReconcilerRestarts, Fault
<1>3. at' # m
  BY AgentAssumption DEF ReconcilerStep, ScanStale, FinalizeFail, ScanQueued,
     RedispatchPublish, RedispatchFails, ReconcilerRestarts, AgentAssumption
<1>4. \/ UNCHANGED queue
      \/ at \in Messages /\ Enqueue(at)
  BY DEF ReconcilerStep, ScanStale, FinalizeFail, ScanQueued, RedispatchPublish,
     RedispatchFails, ReconcilerRestarts, AgentTypeOK
<1>5. \A d \in Delivery : d.msg = m => queue'[d] = queue[d]
  BY <1>4, OthersQueued DEF AgentTypeOK
<1>6. Handling(m)' = Handling(m)
  BY <1>2 DEF Handling
<1> HIDE DEF rowVars, recVars, runVars, Smooth
<1> QED
  BY <1>1, <1>2, <1>3, <1>5, <1>6 DEF Unseen, SameDeliveries, Finalized

\* What any step of a worker leaves alone.
LEMMA WorkerLeaves ==
  ASSUME AgentTypeOK, NEW w \in Workers, WorkerStep(w)
  PROVE  /\ UNCHANGED <<rec, at, todo, api>>
         /\ faults' = faults \/ faults' = faults + 1
         /\ faults' = faults => forsaken' = forsaken
         /\ \A v \in Workers \ {w} :
              /\ pc'[v] = pc[v] /\ job'[v] = job[v]
              /\ hold'[v] = hold[v] /\ verdict'[v] = verdict[v]
<1> USE DEF rowVars, recVars, runVars, Smooth, Goto, End
<1>1. UNCHANGED <<rec, at, todo, api>>
  BY DEF WorkerStep, Receive, Acquire, Busy, DeleteClaim, Load, StartRun, NextEvent, SaveProgress,
     Done, DoneUnheard, RunFails, MarkFailed, MarkFailedFails, Unavailable, Release, Republish,
     Acknowledge, Crash, GiveUp, HeartbeatNotices, HeartbeatFails
<1>2. faults' = faults \/ faults' = faults + 1
  BY DEF WorkerStep, Receive, Acquire, Busy, DeleteClaim, Load, StartRun, NextEvent, SaveProgress,
     Done, DoneUnheard, RunFails, MarkFailed, MarkFailedFails, Unavailable, Release, Republish,
     Acknowledge, Crash, GiveUp, HeartbeatNotices, HeartbeatFails, Fault
<1>8. faults' = faults => forsaken' = forsaken
  <2>1. CASE MarkFailedFails(w) \/ GiveUp(w)
    <3>1. faults' = faults + 1
      BY <2>1 DEF MarkFailedFails, GiveUp, Fault
    <3>2. faults \in Nat
      BY AgentAssumption DEF AgentTypeOK, AgentAssumption
    <3> QED
      BY <3>1, <3>2
  <2>2. CASE ~(MarkFailedFails(w) \/ GiveUp(w))
    BY <2>2 DEF WorkerStep, Receive, Acquire, Busy, DeleteClaim, Load, StartRun, NextEvent,
       SaveProgress, Done, DoneUnheard, RunFails, MarkFailed, Unavailable, Release, Republish,
       Acknowledge, Crash, HeartbeatNotices, HeartbeatFails
  <2> QED
    BY <2>1, <2>2
<1>3. UNCHANGED job \/ \E j : job' = [job EXCEPT ![w] = j]
  BY DEF WorkerStep, Receive, Acquire, Busy, DeleteClaim, Load, StartRun, NextEvent, SaveProgress,
     Done, DoneUnheard, RunFails, MarkFailed, MarkFailedFails, Unavailable, Release, Republish,
     Acknowledge, Crash, GiveUp, HeartbeatNotices, HeartbeatFails
<1>4. UNCHANGED hold \/ \E h : hold' = [hold EXCEPT ![w] = h]
  BY DEF WorkerStep, Receive, Acquire, Busy, DeleteClaim, Load, StartRun, NextEvent, SaveProgress,
     Done, DoneUnheard, RunFails, MarkFailed, MarkFailedFails, Unavailable, Release, Republish,
     Acknowledge, Crash, GiveUp, HeartbeatNotices, HeartbeatFails
<1>5. UNCHANGED pc \/ \E l : pc' = [pc EXCEPT ![w] = l]
  BY DEF WorkerStep, Receive, Acquire, Busy, DeleteClaim, Load, StartRun, NextEvent, SaveProgress,
     Done, DoneUnheard, RunFails, MarkFailed, MarkFailedFails, Unavailable, Release, Republish,
     Acknowledge, Crash, GiveUp, HeartbeatNotices, HeartbeatFails
<1>6. UNCHANGED verdict \/ \E v : verdict' = [verdict EXCEPT ![w] = v]
  BY DEF WorkerStep, Receive, Acquire, Busy, DeleteClaim, Load, StartRun, NextEvent, SaveProgress,
     Done, DoneUnheard, RunFails, MarkFailed, MarkFailedFails, Unavailable, Release, Republish,
     Acknowledge, Crash, GiveUp, HeartbeatNotices, HeartbeatFails
<1> HIDE DEF rowVars, recVars, runVars, Smooth, Goto, End
<1>7. \A v \in Workers \ {w} :
        /\ pc'[v] = pc[v] /\ job'[v] = job[v]
        /\ hold'[v] = hold[v] /\ verdict'[v] = verdict[v]
  BY <1>3, <1>4, <1>5, <1>6 DEF AgentTypeOK
<1> QED
  BY <1>1, <1>2, <1>7, <1>8

\* Of the other messages, a worker can delete the row, and nothing else.
LEMMA WorkerUnseen ==
  ASSUME AgentTypeOK, JobsHeld, NEW w \in Workers, NEW m \in Messages, w \notin Handling(m),
         ~Receive(w, m), WorkerStep(w)
  PROVE  Unseen(m) /\ SameDeliveries(m)
<1> DEFINE k == job[w].msg
<1>1. pc[w] # "idle" => k \in Messages /\ k # m /\ job[w].tries \in 0..1
  BY JobTyped DEF Handling, JobsHeld
<1>2. status'[m] = status[m] \/ status'[m] = "deleted"
  <2>1. CASE \/ StartRun(w) \/ SaveProgress(w) \/ MarkFailed(w) \/ Done(w) \/ DoneUnheard(w)
    <3>1. k \in Messages /\ k # m
      BY <1>1, <2>1 DEF StartRun, SaveProgress, MarkFailed, Done, DoneUnheard
    <3>2. \/ \E s : status' = [status EXCEPT ![k] = s]
          \/ SaveCompleted(k)
      BY <2>1 DEF StartRun, SaveProgress, SaveActive, MarkFailed, Done, DoneUnheard
    <3> HIDE DEF k
    <3> QED
      BY <3>1, <3>2 DEF SaveCompleted, AgentTypeOK
  <2>2. CASE ~(\/ StartRun(w) \/ SaveProgress(w) \/ MarkFailed(w) \/ Done(w) \/ DoneUnheard(w))
    BY <2>2 DEF WorkerStep, Receive, Acquire, Busy, DeleteClaim, Load, NextEvent, RunFails,
       MarkFailedFails, Unavailable, Release, Republish, Acknowledge, Crash, GiveUp,
       HeartbeatNotices, HeartbeatFails, rowVars
  <2> QED
    BY <2>1, <2>2
<1>3. m \in forsaken' <=> m \in forsaken
  <2>1. CASE MarkFailedFails(w) \/ GiveUp(w)
    BY <1>1, <2>1 DEF MarkFailedFails, GiveUp
  <2>2. CASE ~(MarkFailedFails(w) \/ GiveUp(w))
    BY <2>2 DEF WorkerStep, Receive, Acquire, Busy, DeleteClaim, Load, StartRun, NextEvent,
       SaveProgress, Done, DoneUnheard, RunFails, MarkFailed, Unavailable, Release, Republish,
       Acknowledge, Crash, HeartbeatNotices, HeartbeatFails, Smooth
  <2> QED
    BY <2>1, <2>2
<1>4. lock'[m] = lock[m]
  <2>1. CASE Acquire(w) \/ Unavailable(w) \/ Release(w)
    <3>1. k \in Messages /\ k # m
      BY <1>1, <2>1 DEF Acquire, Unavailable, Release
    <3>2. UNCHANGED lock \/ \E o : lock' = [lock EXCEPT ![k] = o]
      BY <2>1 DEF Acquire, Unavailable, Release
    <3> HIDE DEF k
    <3> QED
      BY <3>1, <3>2 DEF AgentTypeOK
  <2>2. CASE ~(Acquire(w) \/ Unavailable(w) \/ Release(w))
    BY <2>2 DEF WorkerStep, Receive, Busy, DeleteClaim, Load, StartRun, NextEvent, SaveProgress,
       Done, DoneUnheard, RunFails, MarkFailed, MarkFailedFails, Republish, Acknowledge, Crash,
       GiveUp, HeartbeatNotices, HeartbeatFails
  <2> QED
    BY <2>1, <2>2
<1>5. \A d \in Delivery : d.msg = m => queue'[d] = queue[d]
  <2>1. CASE UNCHANGED queue
    BY <2>1
  <2>2. CASE Release(w)
    <3>1. UNCHANGED queue \/ Outlasted(k)
      BY <2>2 DEF Release
    <3>2. k \in Messages /\ k # m
      BY <1>1, <2>2 DEF Release
    <3> HIDE DEF k
    <3> QED
      BY <3>1, <3>2, OthersQueued DEF AgentTypeOK
  <2>3. ASSUME NEW n \in Messages, Receive(w, n)
        PROVE  \A d \in Delivery : d.msg = m => queue'[d] = queue[d]
    <3>1. PICK tries \in 0..1 :
            queue' = [queue EXCEPT ![[msg |-> n, tries |-> tries, state |-> "ready"]] = @ - 1]
      BY <2>3 DEF Receive
    <3>2. [msg |-> n, tries |-> tries, state |-> "ready"] \in Delivery /\ n # m
      BY <2>3 DEF Delivery
    <3> QED
      BY <3>1, <3>2, OthersQueued DEF AgentTypeOK
  <2>4. CASE Republish(w) \/ Crash(w)
    <3>1. k \in Messages /\ k # m /\ job[w].tries \in 0..1
      BY <1>1, <2>4 DEF Republish, Crash
    <3>2. \E t \in 0..1 : \E s \in {"ready", "delayed", "behind_dead"} :
            queue' = [queue EXCEPT ![[msg |-> k, tries |-> t, state |-> s]] = @ + 1]
      BY <2>4, <3>1 DEF Republish, Crash, Second
    <3> HIDE DEF k
    <3>3. \E d \in Delivery : d.msg = k /\ queue' = [queue EXCEPT ![d] = @ + 1]
      BY <3>1, <3>2 DEF Delivery
    <3> QED
      BY <3>1, <3>3, OthersQueued DEF AgentTypeOK
  <2> QED
    BY <2>1, <2>2, <2>3, <2>4 DEF WorkerStep, Acquire, Busy, DeleteClaim, Load, StartRun,
       NextEvent, SaveProgress, Done, DoneUnheard, RunFails, MarkFailed, MarkFailedFails,
       Unavailable, Acknowledge, GiveUp, HeartbeatNotices, HeartbeatFails
<1>6. w \notin Handling(m)'
  <2>1. CASE \E n \in Messages : Receive(w, n)
    <3>1. PICK n \in Messages, t \in 0..1 : job' = [job EXCEPT ![w] = [msg |-> n, tries |-> t]]
                                            /\ n # m
      BY <2>1 DEF Receive
    <3> QED
      BY <3>1 DEF Handling, AgentTypeOK
  <2>2. CASE ~\E n \in Messages : Receive(w, n)
    <3>1. UNCHANGED job \/ job' = [job EXCEPT ![w] = NoJob]
      BY <2>2 DEF WorkerStep, Acquire, Busy, DeleteClaim, Load, StartRun, NextEvent, SaveProgress,
         Done, DoneUnheard, RunFails, MarkFailed, MarkFailedFails, Unavailable, Release, Republish,
         Acknowledge, Crash, GiveUp, HeartbeatNotices, HeartbeatFails, runVars
    <3> QED
      BY <3>1 DEF Handling, AgentTypeOK
  <2> QED
    BY <2>1, <2>2
<1>7. \A v \in Handling(m) : v \in Workers \ {w}
  BY DEF Handling
<1>8. Handling(m)' = Handling(m)
  BY <1>6, <1>7, WorkerLeaves DEF Handling
<1>9. \A v \in Handling(m) :
        /\ pc'[v] = pc[v] /\ job'[v] = job[v]
        /\ hold'[v] = hold[v] /\ verdict'[v] = verdict[v]
  BY <1>7, WorkerLeaves
<1>10. Finalized(m)' <=> Finalized(m)
  BY WorkerLeaves DEF Finalized
<1>11. faults' = faults \/ faults' = faults + 1
  BY WorkerLeaves
<1> QED
  BY <1>2, <1>3, <1>4, <1>5, <1>8, <1>9, <1>10, <1>11 DEF Unseen, SameDeliveries

\* What a publication adds to the deliveries of its message.
LEMMA PublishedOnce ==
  ASSUME queue \in [Delivery -> Nat], NEW m \in Messages, UNCHANGED queue \/ Enqueue(m)
  PROVE  \A d \in Delivery : d.msg = m =>
           queue'[d] = queue[d] \/ (d.tries = 0 /\ queue'[d] > 0)
<1>1. CASE UNCHANGED queue
  BY <1>1
<1>2. CASE Enqueue(m)
  <2>1. queue' = [queue EXCEPT ![First(m)] = @ + 1] /\ First(m) \in Delivery /\ First(m).tries = 0
    BY <1>2, Deliveries DEF Enqueue, First
  <2>2. queue'[First(m)] = queue[First(m)] + 1 /\ queue[First(m)] \in Nat
    BY <2>1
  <2>3. queue'[First(m)] > 0
    BY <2>2
  <2>4. \A d \in Delivery : d # First(m) => queue'[d] = queue[d]
    BY <2>1
  <2> QED
    BY <2>1, <2>3, <2>4
<1> QED
  BY <1>1, <1>2

\* Requests and clocks that do not concern what carries m.
LEMMA RequestUnseen ==
  ASSUME AgentTypeOK, NEW m \in Messages,
         \/ ReadForRegenerate(m) \/ Conflict(m) \/ Dispatch(m) \/ DispatchFails(m)
         \/ ClaimExpires(m) \/ Ages(m) \/ RedispatchClaim(m)
  PROVE  Unseen(m)
<1> USE DEF rowVars, recVars, runVars, Smooth
<1>1. UNCHANGED <<status, forsaken, lock, pc, job, hold, verdict>>
  BY DEF ReadForRegenerate, Conflict, Dispatch, DispatchFails, ClaimExpires, Ages, RedispatchClaim
<1>2. faults' = faults \/ faults' = faults + 1
  BY DEF ReadForRegenerate, Conflict, Dispatch, DispatchFails, ClaimExpires, Ages, RedispatchClaim,
     Fault
<1>3. UNCHANGED queue \/ Enqueue(m)
  BY DEF ReadForRegenerate, Conflict, Dispatch, DispatchFails, ClaimExpires, Ages, RedispatchClaim
<1>4. UNCHANGED <<rec, at>> \/ (rec = "dispatch" /\ rec' = "dispatch")
  BY DEF ReadForRegenerate, Conflict, Dispatch, DispatchFails, ClaimExpires, Ages, RedispatchClaim
<1> HIDE DEF rowVars, recVars, runVars, Smooth
<1>5. \A d \in Delivery : d.msg = m =>
        queue'[d] = queue[d] \/ (d.tries = 0 /\ queue'[d] > 0)
  BY <1>3, PublishedOnce DEF AgentTypeOK
<1> QED
  BY <1>1, <1>2, <1>4, <1>5 DEF Unseen, Finalized, Handling

\* A message starts without a delivery.
LEMMA StartSurvives ==
  ASSUME AgentTypeOK, NothingYet, RowsAppear, NEW m \in Messages, Survives(m),
         AddMessage(m) \/ Regenerate(m)
  PROVE  Survives(m)'
<1>1. status[m] = "absent"
  BY DEF AddMessage, Regenerate, RowsAppear
<1>2. Handling(m) = {} /\ \A d \in Delivery : d.msg = m => ~(queue[d] > 0)
  BY <1>1 DEF NothingYet, Untouched, Outstanding
<1>3. /\ status'[m] = "queued"
      /\ UNCHANGED <<rec, at, lock, queue, pc, job, hold, verdict, faults, forsaken>>
  BY DEF AddMessage, Regenerate, Persist, Smooth, recVars, runVars, AgentTypeOK
<1>4. Handling(m)' = {}
  BY <1>2, <1>3 DEF Handling
<1>5. AckedOver(m)' /\ StrayFirst(m)'
  BY <1>4 DEF AckedOver, StrayFirst
<1>6. Calm(m) => Calm(m)'
  <2>1. Attended(m) => Attended(m)'
    BY <1>3 DEF Attended, Handling, InRun
  <2> QED
    BY <1>2, <1>3, <1>4, <2>1 DEF Calm
<1> QED
  BY <1>3, <1>5, <1>6 DEF Survives

\* A retry falls due.
LEMMA RetrySurvives ==
  ASSUME AgentTypeOK, NEW m \in Messages, Survives(m), RetryDue(m)
  PROVE  Survives(m)'
<1> DEFINE due == Second(m, "delayed")
           now == Second(m, "ready")
<1>1. UNCHANGED <<status, rec, at, lock, pc, job, hold, verdict, faults, forsaken>>
  BY DEF RetryDue, Smooth, rowVars, recVars, runVars
<1>2. due \in Delivery /\ now \in Delivery /\ due # now /\ due.tries = 1 /\ due.msg = m
  BY Deliveries
<1>3. queue[due] > 0 /\ queue' = [queue EXCEPT ![due] = @ - 1, ![now] = @ + 1]
  BY DEF RetryDue
<1>4. now # First(m) /\ due # First(m) /\ now # Second(m, "behind_dead")
      /\ due # Second(m, "behind_dead")
  BY DEF First, Second
<1> HIDE DEF due, now
<1>5. queue'[now] = queue[now] + 1 /\ queue[now] \in Nat
  BY <1>2, <1>3 DEF AgentTypeOK
<1>6. queue'[now] > 0
  BY <1>5
<1>7. \A d \in Delivery : d # due /\ d # now => queue'[d] = queue[d]
  BY <1>2, <1>3 DEF AgentTypeOK
<1>8. Handling(m)' = Handling(m)
  BY <1>1 DEF Handling
<1>9. AckedOver(m)' /\ (StrayFirst(m) => StrayFirst(m)')
  BY <1>1, <1>8 DEF Survives, AckedOver, StrayFirst, Active, InRun
<1>10. Carried(m) => Carried(m)'
  <2>1. Led(m) => Led(m)'
    BY <1>1, <1>8 DEF Led, Leads
  <2>2. FirstLeft(m) => FirstLeft(m)'
    BY <1>1, <1>4, <1>7, <1>8, Deliveries DEF FirstLeft, GoesOn
  <2>3. Behind(m) => Behind(m)'
    BY <1>4, <1>7, Deliveries DEF Behind
  <2>4. Near(m) => Near(m)'
    BY <1>1, <1>6 DEF Near, now
  <2> QED
    BY <1>1, <2>1, <2>2, <2>3, <2>4 DEF Carried, Finalized
<1>11. Calm(m) => Calm(m)'
  <2> SUFFICES ASSUME Calm(m) PROVE Calm(m)'
    OBVIOUS
  <2>1. Attended(m) => Attended(m)'
    BY <1>1, <1>8 DEF Attended, InRun
  <2>2. ~(Active(m) /\ lock[m] = "free")
    BY <1>2, <1>3 DEF Calm
  <2> QED
    BY <1>1, <1>8, <2>1, <2>2 DEF Calm, Active, InRun
<1> QED
  BY <1>1, <1>9, <1>10, <1>11 DEF Survives, Active

\* What becomes of the deliveries of m when its lock goes.
LEMMA OutlastedKeeps ==
  ASSUME queue \in [Delivery -> Nat], NEW m \in Messages, Outlasted(m)
  PROVE  /\ queue'[First(m)] = queue[First(m)]
         /\ queue'[Second(m, "ready")] = queue[Second(m, "ready")]
         /\ queue[Second(m, "delayed")] > 0 => queue'[Second(m, "delayed")] > 0
         /\ queue[Second(m, "behind_dead")] > 0 => queue'[Second(m, "delayed")] > 0
<1> DEFINE dead == Second(m, "behind_dead")
           due == Second(m, "delayed")
<1>1. dead \in Delivery /\ due \in Delivery /\ dead # due
  BY Deliveries
<1>2. /\ First(m) # dead /\ First(m) # due /\ First(m) \in Delivery
      /\ Second(m, "ready") # dead /\ Second(m, "ready") # due
      /\ Second(m, "ready") \in Delivery
  BY Deliveries DEF First, Second
<1>3. queue' = [queue EXCEPT ![dead] = 0, ![due] = @ + queue[dead]]
  BY DEF Outlasted
<1> HIDE DEF dead, due
<1>4. queue'[due] = queue[due] + queue[dead] /\ queue[due] \in Nat /\ queue[dead] \in Nat
  BY <1>1, <1>3
<1>5. (queue[due] > 0 \/ queue[dead] > 0) => queue'[due] > 0
  BY <1>4
<1> QED
  BY <1>2, <1>3, <1>5 DEF dead, due

\* Without a fault, a message that is worked on has a run that leads, is a first
\* try, and holds the lock.
LEMMA CalmLeads ==
  ASSUME AgentTypeOK, NEW m \in Messages, Survives(m), faults = 0, status[m] = "working"
  PROVE  \E u \in Handling(m) : Leads(u) /\ job[u].tries = 0 /\ pc[u] \in Working
<1>1. Calm(m)
  BY DEF Survives
<1>2. PICK u \in Handling(m) : pc[u] \in Working
  BY <1>1 DEF Calm
<1>3. hold[u] = "held" /\ job[u].tries = 0
  BY <1>1, <1>2 DEF Calm, InRun, Owning, Active
<1> QED
  BY <1>2, <1>3 DEF Leads

\* The lock of m runs out: under a run, which is the fault, or after its owner
\* is gone.
LEMMA ExpirySurvives ==
  ASSUME AgentTypeOK, JobsHeld, RunsExclusive, NEW m \in Messages, Survives(m), LockExpires(m)
  PROVE  Survives(m)'
<1>1. /\ UNCHANGED <<status, rec, at, pc, job, verdict, forsaken>>
      /\ lock[m] # "free" /\ lock' = [lock EXCEPT ![m] = "free"]
      /\ Outlasted(m)
  BY DEF LockExpires, rowVars, recVars
<1>2. \A v \in Workers :
        hold'[v] = IF v = lock[m] /\ v \in Handling(m) /\ hold[v] = "held"
                   THEN "expired" ELSE hold[v]
  BY DEF LockExpires
<1>3. /\ Attended(m) => faults' = faults + 1
      /\ ~Attended(m) => faults' = faults
  BY DEF LockExpires, Fault
<1>4. faults \in Nat
  BY AgentAssumption DEF AgentTypeOK, AgentAssumption
<1>5. Handling(m)' = Handling(m) /\ Handling(m) \subseteq Workers
  BY <1>1 DEF Handling
<1>6. AckedOver(m)'
  BY <1>1, <1>5 DEF Survives, AckedOver, Active
<1>7. faults' # 0
  <2>1. CASE Attended(m)
    BY <1>3, <1>4, <2>1
  <2>2. CASE ~Attended(m)
    BY <1>1, <1>3, <2>2 DEF Survives, Calm
  <2> QED
    BY <2>1, <2>2
<1>8. ASSUME faults' <= 1, Active(m), m \notin forsaken
      PROVE  StrayFirst(m)'
  <2>1. CASE Attended(m)
    <3>1. Calm(m)
      BY <1>3, <1>4, <1>8, <2>1 DEF Survives
    <3> QED
      BY <1>1, <1>5, <1>8, <3>1 DEF StrayFirst, Calm, InRun
  <2>2. CASE ~Attended(m)
    <3>1. StrayFirst(m)
      BY <1>3, <1>4, <1>8, <2>2 DEF Survives
    <3>2. \A v \in Handling(m) : InRun(v) => hold'[v] = hold[v]
      BY <1>2, <1>5, <2>2 DEF Attended
    <3> QED
      BY <1>1, <1>5, <3>1, <3>2 DEF StrayFirst, InRun
  <2> QED
    BY <2>1, <2>2
<1>9. ASSUME faults' <= 1, status[m] = "working", m \notin forsaken
      PROVE  Carried(m)'
  <2>1. CASE Attended(m)
    <3>1. PICK u \in Handling(m) : Leads(u) /\ job[u].tries = 0 /\ pc[u] \in Working
      BY <1>3, <1>4, <1>9, <2>1, CalmLeads
    <3>2. u \in Handling(m)' /\ GoesOn(u)'
      BY <1>1, <1>5, <3>1 DEF GoesOn, Working
    <3> QED
      BY <3>2 DEF Carried, FirstLeft
  <2>2. CASE ~Attended(m)
    <3>1. Carried(m)
      BY <1>3, <1>4, <1>9, <2>2 DEF Survives
    <3>2. ~Led(m)
      <4> SUFFICES ASSUME NEW v \in Handling(m), Leads(v) PROVE FALSE
        BY DEF Led
      <4>1. InRun(v) /\ hold[v] = "held" /\ v \in Workers /\ job[v].msg = m
        BY DEF Leads, InRun, Owning, Handling
      <4>2. lock[m] = v
        BY <4>1 DEF RunsExclusive
      <4> QED
        BY <2>2, <4>1, <4>2 DEF Attended
    <3>3. FirstLeft(m) => FirstLeft(m)'
      BY <1>1, <1>5, OutlastedKeeps DEF FirstLeft, GoesOn, AgentTypeOK
    <3>4. Behind(m) => Near(m)'
      BY <1>1, OutlastedKeeps DEF Behind, Near, AgentTypeOK
    <3>5. ~Near(m)
      BY <1>1 DEF Near
    <3> QED
      BY <1>1, <3>1, <3>2, <3>3, <3>4, <3>5 DEF Carried, Finalized
  <2> QED
    BY <2>1, <2>2
<1> QED
  BY <1>1, <1>6, <1>7, <1>8, <1>9 DEF Survives, Active

\* The finalizer comes to m: it takes the free lock, or leaves m alone.
LEMMA FinalizerSurvives ==
  ASSUME AgentTypeOK, NEW m \in Messages, Survives(m), FinalizeAcquire(m)
  PROVE  Survives(m)'
<1>1. /\ UNCHANGED <<status, rec, queue, pc, job, hold, verdict, faults, forsaken>>
      /\ rec = "finalize" /\ at = NoMessage
      /\ \/ lock[m] = "free" /\ at' = m /\ lock' = [lock EXCEPT ![m] = "finalizer"]
         \/ lock[m] # "free" /\ UNCHANGED <<at, lock>>
  BY DEF FinalizeAcquire, Smooth, rowVars, runVars
<1>2. Handling(m)' = Handling(m)
  BY <1>1 DEF Handling
<1>3. CASE lock[m] = "free"
  <2>1. Finalized(m)' /\ lock'[m] = "finalizer" /\ Attended(m)'
    BY <1>1, <1>3 DEF Finalized, Attended, AgentTypeOK
  <2>2. Calm(m) => Calm(m)'
    BY <1>1, <1>2, <2>1 DEF Calm, Active, InRun
  <2>3. AckedOver(m)' /\ (StrayFirst(m) => StrayFirst(m)')
    BY <1>1, <1>2 DEF Survives, AckedOver, StrayFirst, Active, InRun
  <2> QED
    BY <1>1, <2>1, <2>2, <2>3 DEF Survives, Active, Carried
<1>4. CASE lock[m] # "free"
  <2>1. Unseen(m)
    BY <1>1, <1>2, <1>4 DEF Unseen, Finalized
  <2> QED
    BY <2>1, UnseenKeeps
<1> QED
  BY <1>3, <1>4

\* The reconciler at m: it publishes m once more, settles it, or is lost.
LEMMA ReconcilerSurvives ==
  ASSUME AgentTypeOK, NEW m \in Messages, Survives(m), at = m, ReconcilerStep
  PROVE  Survives(m)'
<1> USE DEF rowVars, recVars, runVars, Smooth
<1>1. m # NoMessage
  BY AgentAssumption DEF AgentAssumption
<1>2. CASE FinalizeFail
  <2>1. /\ UNCHANGED <<queue, pc, job, hold, verdict, faults, forsaken>>
        /\ status' = [status EXCEPT ![m] = IF Active(m) THEN "failed" ELSE @]
        /\ lock' = [lock EXCEPT ![m] = IF @ = "finalizer" THEN "free" ELSE @]
    BY <1>2 DEF FinalizeFail
  <2>2. Handling(m)' = Handling(m)
    BY <2>1 DEF Handling
  <2>3. ~Active(m)'
    BY <2>1 DEF Active, AgentTypeOK
  <2>4. AckedOver(m)' /\ status'[m] # "working"
    BY <2>3 DEF AckedOver, Active
  <2>5. Calm(m) => Calm(m)'
    <3>1. Calm(m) /\ lock'[m] # "free" => Attended(m)'
      BY <2>1, <2>2 DEF Calm, Attended, InRun, AgentTypeOK
    <3> QED
      BY <2>1, <2>2, <2>3, <2>4, <3>1 DEF Calm, InRun
  <2> QED
    BY <2>1, <2>3, <2>4, <2>5 DEF Survives
<1>3. CASE ReconcilerRestarts
  <2>1. /\ UNCHANGED <<status, lock, queue, pc, job, hold, verdict, forsaken>>
        /\ faults' = faults + 1
    BY <1>3 DEF ReconcilerRestarts, Fault
  <2>2. faults \in Nat
    BY AgentAssumption DEF AgentTypeOK, AgentAssumption
  <2>3. Handling(m)' = Handling(m)
    BY <2>1 DEF Handling
  <2>4. AckedOver(m)' /\ (StrayFirst(m) => StrayFirst(m)')
    BY <2>1, <2>3 DEF Survives, AckedOver, StrayFirst, Active, InRun
  <2>5. ASSUME faults' <= 1, status[m] = "working" PROVE Carried(m)'
    <3>1. PICK u \in Handling(m) : Leads(u)
      BY <2>1, <2>2, <2>5, CalmLeads
    <3> QED
      BY <2>1, <2>3, <3>1 DEF Carried, Led, Leads
  <2> QED
    BY <2>1, <2>2, <2>4, <2>5 DEF Survives, Active
<1>4. CASE RedispatchPublish \/ RedispatchFails
  <2>1. /\ UNCHANGED <<status, lock, pc, job, hold, verdict, forsaken>>
        /\ faults' = faults \/ faults' = faults + 1
        /\ rec = "dispatch" /\ rec' = rec
        /\ UNCHANGED queue \/ Enqueue(m)
    BY <1>4 DEF RedispatchPublish, RedispatchFails, Fault
  <2>2. Unseen(m)
    BY <2>1, PublishedOnce DEF Unseen, Finalized, Handling, AgentTypeOK
  <2> QED
    BY <2>2, UnseenKeeps
<1> QED
  BY <1>1, <1>2, <1>3, <1>4 DEF ReconcilerStep, ScanStale, ScanQueued

\* The counter of faults is a number, and no step lowers it.
LEMMA WorkerFaults ==
  ASSUME AgentTypeOK, NEW w \in Workers, WorkerStep(w)
  PROVE  /\ faults \in Nat /\ faults' \in Nat /\ faults <= faults'
         /\ faults' = 0 => forsaken' = forsaken /\ faults = 0
<1>1. faults \in Nat
  BY AgentAssumption DEF AgentTypeOK, AgentAssumption
<1> QED
  BY <1>1, WorkerLeaves

\* A run of m goes on, or ends because m has settled or the lock is lost.
RunMove(w, m) ==
    /\ UNCHANGED <<lock, queue, job, hold>>
    /\ pc[w] \in Working \union {"owner"}
    /\ \/ pc'[w] \in Working /\ UNCHANGED verdict
       \/ /\ pc'[w] = "releasing" /\ verdict'[w] = "ack"
          /\ ~Active(m)' \/ m \in forsaken'
       \/ pc'[w] = "releasing" /\ verdict'[w] = "lock_retry" /\ hold[w] = "lost"
    /\ Active(m)' => Active(m)
    /\ m \in forsaken => m \in forsaken'

\* The steps of a run between the deletion of the claim and its end.
LEMMA RunMoves ==
  ASSUME AgentTypeOK, JobsHeld, NEW w \in Workers, NEW m \in Messages, w \in Handling(m),
         \/ DeleteClaim(w) \/ Load(w) \/ StartRun(w) \/ NextEvent(w) \/ SaveProgress(w) \/ Done(w)
         \/ DoneUnheard(w) \/ RunFails(w) \/ MarkFailed(w) \/ MarkFailedFails(w)
  PROVE  RunMove(w, m)
<1> USE DEF rowVars, recVars, runVars, Smooth, Goto, End, AgentTypeOK
<1>1. job[w].msg = m
  BY DEF Handling
<1>2. UNCHANGED <<lock, queue, job, hold>>
  BY DEF DeleteClaim, Load, StartRun, NextEvent, SaveProgress, Done, DoneUnheard, RunFails,
     MarkFailed, MarkFailedFails
<1>3. pc[w] \in Working \union {"owner"}
  BY DEF DeleteClaim, Load, StartRun, NextEvent, SaveProgress, Done, DoneUnheard, RunFails,
     MarkFailed, MarkFailedFails, Working
<1>4. m \in forsaken => m \in forsaken'
  BY DEF DeleteClaim, Load, StartRun, NextEvent, SaveProgress, Done, DoneUnheard, RunFails,
     MarkFailed, MarkFailedFails
<1>5. Active(m)' => Active(m)
  <2>1. CASE StartRun(w) \/ SaveProgress(w)
    BY <1>1, <2>1 DEF StartRun, SaveProgress, SaveActive, Active
  <2>2. CASE Done(w) \/ DoneUnheard(w)
    BY <1>1, <2>2 DEF Done, DoneUnheard, SaveCompleted, Active
  <2>3. CASE MarkFailed(w)
    BY <1>1, <2>3 DEF MarkFailed, Active
  <2> QED
    BY <2>1, <2>2, <2>3 DEF DeleteClaim, Load, NextEvent, RunFails, MarkFailedFails, Active
<1>6. \/ pc'[w] \in Working /\ UNCHANGED verdict
      \/ /\ pc'[w] = "releasing" /\ verdict'[w] = "ack"
         /\ ~Active(m)' \/ m \in forsaken'
      \/ pc'[w] = "releasing" /\ verdict'[w] = "lock_retry" /\ hold[w] = "lost"
  <2>1. CASE DeleteClaim(w)
    BY <2>1 DEF DeleteClaim, Working
  <2>2. CASE Load(w)
    BY <1>1, <1>5, <2>2 DEF Load, Working, Active
  <2>3. CASE StartRun(w)
    BY <1>1, <1>5, <2>3 DEF StartRun, Working
  <2>4. CASE NextEvent(w)
    BY <2>4 DEF NextEvent, Working
  <2>5. CASE SaveProgress(w)
    BY <1>1, <1>5, <2>5 DEF SaveProgress, Working
  <2>6. CASE Done(w)
    BY <1>1, <2>6 DEF Done, SaveCompleted, Active
  <2>7. CASE DoneUnheard(w)
    BY <2>7 DEF DoneUnheard, Working
  <2>8. CASE RunFails(w)
    BY <2>8 DEF RunFails, Working
  <2>9. CASE MarkFailed(w)
    BY <1>1, <2>9 DEF MarkFailed, Active
  <2>10. CASE MarkFailedFails(w)
    BY <1>1, <2>10 DEF MarkFailedFails
  <2> QED
    BY <2>1, <2>2, <2>3, <2>4, <2>5, <2>6, <2>7, <2>8, <2>9, <2>10
<1> QED
  BY <1>2, <1>3, <1>4, <1>5, <1>6 DEF RunMove

\* A run that goes on carries its message; one that ends has settled it, or is
\* the first try that will be sent off again.
LEMMA RunSurvives ==
  ASSUME AgentTypeOK, NEW w \in Workers, NEW m \in Messages, w \in Handling(m), Survives(m),
         WorkerStep(w), RunMove(w, m)
  PROVE  Survives(m)'
<1>1. Handling(m)' = Handling(m)
  BY DEF RunMove, Handling
<1>2. \A v \in Handling(m) \ {w} :
        /\ pc'[v] = pc[v] /\ job'[v] = job[v]
        /\ hold'[v] = hold[v] /\ verdict'[v] = verdict[v]
  BY WorkerLeaves DEF Handling
<1>3. InRun(w) /\ hold'[w] = hold[w] /\ job'[w] = job[w]
  BY DEF RunMove, InRun, Owning
<1>4. AckedOver(m)'
  BY <1>1, <1>2 DEF RunMove, Survives, AckedOver, Working
<1>5. ASSUME faults' <= 1, Active(m)', m \notin forsaken'
      PROVE  StrayFirst(m)'
  <2>1. StrayFirst(m)
    BY <1>5, WorkerFaults DEF Survives, RunMove
  <2>2. \/ pc'[w] \in Working
        \/ pc'[w] = "releasing" /\ hold[w] = "lost"
    BY <1>5 DEF RunMove
  <2> QED
    BY <1>1, <1>2, <1>3, <2>1, <2>2 DEF StrayFirst, InRun, Working
<1>6. ASSUME faults' <= 1, status'[m] = "working", m \notin forsaken'
      PROVE  Carried(m)'
  <2>1. StrayFirst(m) /\ Active(m)'
    BY <1>6, WorkerFaults DEF Survives, RunMove, Active
  <2>2. \/ pc'[w] \in Working
        \/ pc'[w] = "releasing" /\ verdict'[w] = "lock_retry" /\ hold[w] = "lost"
    BY <1>6, <2>1 DEF RunMove
  <2>3. CASE hold[w] = "held"
    <3>1. Leads(w)'
      BY <1>3, <2>2, <2>3 DEF Leads
    <3> QED
      BY <1>1, <3>1 DEF Carried, Led
  <2>4. CASE hold[w] # "held"
    <3>1. GoesOn(w)'
      BY <1>3, <2>1, <2>2, <2>4 DEF StrayFirst, GoesOn, Working
    <3> QED
      BY <1>1, <3>1 DEF Carried, FirstLeft
  <2> QED
    BY <2>3, <2>4
<1>7. ASSUME faults' = 0 PROVE Calm(m)'
  <2>1. Calm(m) /\ m \notin forsaken'
    BY <1>7, WorkerFaults DEF Survives, Calm
  <2>2. hold[w] = "held"
    BY <1>3, <2>1 DEF Calm
  <2>3. \/ pc'[w] \in Working /\ UNCHANGED verdict
        \/ pc'[w] = "releasing" /\ verdict'[w] = "ack" /\ ~Active(m)'
    BY <2>1, <2>2 DEF RunMove
  <2>4. InRun(w)'
    BY <2>3 DEF InRun, Owning
  <2>5. Attended(m) => Attended(m)'
    BY <1>1, <1>2, <1>3, <2>4, WorkerLeaves DEF Attended, InRun, RunMove
  <2>6. \A v \in Handling(m)' :
         /\ InRun(v)' => hold'[v] = "held"
         /\ pc'[v] = "releasing" => verdict'[v] = "ack"
         /\ pc'[v] = "acking" => verdict'[v] # "retry"
    BY <1>1, <1>2, <1>3, <2>1, <2>2, <2>3 DEF Calm, InRun, Working
  <2>7. Active(m)' =>
         /\ \A v \in Handling(m)' : InRun(v)' => job'[v].tries = 0
         /\ lock'[m] = "free" =>
              /\ \A d \in Delivery : d.msg = m /\ queue'[d] > 0 => d.tries = 0
              /\ \A v \in Handling(m)' :
                   /\ job'[v].tries = 0
                   /\ pc'[v] = "acking" => verdict'[v] # "lock_retry"
    <3> SUFFICES ASSUME Active(m)' PROVE
         /\ \A v \in Handling(m)' : InRun(v)' => job'[v].tries = 0
         /\ lock'[m] = "free" =>
              /\ \A d \in Delivery : d.msg = m /\ queue'[d] > 0 => d.tries = 0
              /\ \A v \in Handling(m)' :
                   /\ job'[v].tries = 0
                   /\ pc'[v] = "acking" => verdict'[v] # "lock_retry"
      OBVIOUS
    <3>1. Active(m) /\ UNCHANGED <<lock, queue>>
      BY DEF RunMove
    <3> QED
      BY <1>1, <1>2, <1>3, <2>1, <2>3, <3>1 DEF Calm, InRun, Working
  <2>8. status'[m] = "working" => \E v \in Handling(m)' : pc'[v] \in Working
    BY <1>1, <2>3 DEF Active
  <2> QED
    BY <2>1, <2>5, <2>6, <2>7, <2>8 DEF Calm, RunMove
<1>8. Active(m)' => Active(m)
  BY DEF RunMove
<1> QED
  BY <1>4, <1>5, <1>6, <1>7 DEF Survives

\* The other workers on m are where they were.
LEMMA OthersStay ==
  ASSUME AgentTypeOK, NEW w \in Workers, NEW m \in Messages, WorkerStep(w)
  PROVE  /\ Handling(m)' \ {w} = Handling(m) \ {w}
         /\ Handling(m) \subseteq Workers
         /\ \A v \in Handling(m) \ {w} :
              /\ pc'[v] = pc[v] /\ job'[v] = job[v]
              /\ hold'[v] = hold[v] /\ verdict'[v] = verdict[v]
<1>1. Handling(m) \subseteq Workers /\ Handling(m)' \subseteq Workers
  BY DEF Handling
<1>2. \A v \in Workers \ {w} : v \in Handling(m)' <=> v \in Handling(m)
  BY WorkerLeaves DEF Handling
<1> QED
  BY <1>1, <1>2, WorkerLeaves

\* What carries m is kept by the step of a worker that does not carry it itself,
\* takes no delivery of it and leaves its lock.
LEMMA OthersCarry ==
  ASSUME AgentTypeOK, NEW w \in Workers, NEW m \in Messages, WorkerStep(w), Carried(m),
         lock[m] = "free" => lock'[m] = "free",
         \A d \in Delivery : d.msg = m /\ queue[d] > 0 => queue'[d] > 0,
         w \in Handling(m) /\ (Leads(w) \/ GoesOn(w) \/ (pc[w] = "start" /\ lock[m] = "free"))
           => Carried(m)'
  PROVE  Carried(m)'
<1>1. CASE Finalized(m)
  BY <1>1, WorkerLeaves DEF Carried, Finalized
<1>2. ASSUME NEW v \in Handling(m), Leads(v) \/ GoesOn(v) \/ (pc[v] = "start" /\ lock[m] = "free")
      PROVE  Carried(m)'
  <2>1. CASE v = w
    BY <1>2, <2>1
  <2>2. CASE v # w
    BY <1>2, <2>2, OthersStay DEF Leads, GoesOn, Carried, Led, FirstLeft, Near
  <2> QED
    BY <2>1, <2>2
<1>3. CASE queue[First(m)] > 0 \/ Behind(m)
  BY <1>3, Deliveries DEF Carried, FirstLeft, Behind
<1>4. CASE lock[m] = "free" /\ \E s \in {"ready", "delayed"} : queue[Second(m, s)] > 0
  BY <1>4, Deliveries DEF Carried, Near
<1> QED
  BY <1>1, <1>2, <1>3, <1>4 DEF Carried, Led, FirstLeft, Near

\* The heartbeat of a run gives the lock up.
LEMMA HeartbeatSurvives ==
  ASSUME AgentTypeOK, NEW w \in Workers, NEW m \in Messages, w \in Handling(m), Survives(m),
         WorkerStep(w), HeartbeatNotices(w) \/ HeartbeatFails(w)
  PROVE  Survives(m)'
<1>1. /\ UNCHANGED <<status, lock, queue, pc, job, verdict, forsaken>>
      /\ hold' = [hold EXCEPT ![w] = "lost"] /\ pc[w] \in Working
  BY DEF HeartbeatNotices, HeartbeatFails, Smooth, rowVars
<1>2. Handling(m)' = Handling(m) /\ InRun(w)
  BY <1>1 DEF Handling, InRun, Owning
<1>3. AckedOver(m)'
  BY <1>1, <1>2 DEF Survives, AckedOver, Active
<1>4. faults' # 0 /\ (faults' <= 1 /\ Active(m) /\ m \notin forsaken => job[w].tries = 0)
  <2>1. CASE HeartbeatNotices(w)
    <3>1. faults' = faults /\ hold[w] = "expired"
      BY <2>1 DEF HeartbeatNotices, Smooth
    <3> QED
      BY <1>2, <3>1 DEF Survives, Calm, StrayFirst
  <2>2. CASE HeartbeatFails(w)
    <3>1. faults' = faults + 1
      BY <2>2 DEF HeartbeatFails, Fault
    <3> QED
      BY <1>2, <3>1, WorkerFaults DEF Survives, Calm
  <2> QED
    BY <2>1, <2>2
<1>5. ASSUME faults' <= 1, Active(m), m \notin forsaken
      PROVE  StrayFirst(m)' /\ GoesOn(w)'
  <2>1. StrayFirst(m)
    BY <1>5, WorkerFaults DEF Survives
  <2> QED
    BY <1>1, <1>2, <1>4, <1>5, <2>1, OthersStay DEF StrayFirst, GoesOn, InRun, Working
<1>6. status[m] = "working" => Active(m)
  BY DEF Active
<1> QED
  BY <1>1, <1>2, <1>3, <1>4, <1>5, <1>6 DEF Survives, Carried, FirstLeft, Active

\* A worker takes the free lock of m.
LEMMA AcquireSurvives ==
  ASSUME AgentTypeOK, NEW w \in Workers, NEW m \in Messages, w \in Handling(m), Survives(m),
         WorkerStep(w), Acquire(w)
  PROVE  Survives(m)'
<1>1. job[w].msg = m
  BY DEF Handling
<1>2. /\ UNCHANGED <<status, queue, job, verdict, faults, forsaken>>
      /\ pc[w] = "start" /\ lock[m] = "free" /\ lock' = [lock EXCEPT ![m] = w]
      /\ pc' = [pc EXCEPT ![w] = "owner"] /\ hold' = [hold EXCEPT ![w] = "held"]
  BY <1>1 DEF Acquire, Goto, Smooth, rowVars
<1>3. Handling(m)' = Handling(m)
  BY <1>2 DEF Handling
<1>4. pc'[w] = "owner" /\ hold'[w] = "held" /\ lock'[m] = w
  BY <1>2 DEF AgentTypeOK
<1>5. Carried(m)'
  BY <1>3, <1>4 DEF Carried, Led, Leads
<1>6. AckedOver(m)'
  BY <1>2, <1>3, <1>4, OthersStay DEF Survives, AckedOver, Active
<1>7. StrayFirst(m) => StrayFirst(m)'
  BY <1>2, <1>3, <1>4, OthersStay DEF StrayFirst, InRun
<1>8. Calm(m) => Calm(m)'
  <2> SUFFICES ASSUME Calm(m) PROVE Calm(m)'
    OBVIOUS
  <2>1. Attended(m)'
    BY <1>3, <1>4 DEF Attended, InRun, Owning
  <2>2. lock'[m] # "free"
    BY <1>4, AgentAssumption DEF AgentAssumption
  <2>3. Active(m) => job[w].tries = 0
    BY <1>2 DEF Calm
  <2>4. Active(m)' => \A v \in Handling(m)' : InRun(v)' => job'[v].tries = 0
    BY <1>2, <1>3, <2>3, OthersStay DEF Calm, Active, InRun
  <2>5. \A v \in Handling(m)' :
         /\ InRun(v)' => hold'[v] = "held"
         /\ pc'[v] = "releasing" => verdict'[v] = "ack"
         /\ pc'[v] = "acking" => verdict'[v] # "retry"
    BY <1>3, <1>4, OthersStay DEF Calm, InRun
  <2>6. status'[m] = "working" => \E v \in Handling(m)' : pc'[v] \in Working
    <3>1. pc[w] \notin Working
      BY <1>2 DEF Working
    <3> QED
      BY <1>2, <1>3, <3>1, OthersStay DEF Calm
  <2> QED
    BY <1>2, <2>1, <2>2, <2>4, <2>5, <2>6 DEF Calm
<1> QED
  BY <1>2, <1>5, <1>6, <1>7, <1>8 DEF Survives, Active

\* A worker finds the lock of m taken.
LEMMA BusySurvives ==
  ASSUME AgentTypeOK, NEW w \in Workers, NEW m \in Messages, w \in Handling(m), Survives(m),
         WorkerStep(w), Busy(w)
  PROVE  Survives(m)'
<1>1. job[w].msg = m
  BY DEF Handling
<1>2. /\ UNCHANGED <<status, lock, queue, job, hold, faults, forsaken>>
      /\ pc[w] = "start" /\ lock[m] # "free"
      /\ pc' = [pc EXCEPT ![w] = "acking"] /\ verdict' = [verdict EXCEPT ![w] = "lock_retry"]
  BY <1>1 DEF Busy, Goto, Smooth, rowVars
<1>3. Handling(m)' = Handling(m) /\ ~InRun(w) /\ pc[w] \notin Working
  BY <1>2 DEF Handling, InRun, Owning, Working
<1>4. pc'[w] = "acking" /\ verdict'[w] = "lock_retry" /\ ~InRun(w)'
  BY <1>2 DEF AgentTypeOK, InRun, Owning, Working
<1>5. AckedOver(m)'
  BY <1>2, <1>3, <1>4, OthersStay DEF Survives, AckedOver, Active
<1>6. StrayFirst(m) => StrayFirst(m)'
  BY <1>3, <1>4, OthersStay DEF StrayFirst, InRun
<1>7. Carried(m) => Carried(m)'
  <2>1. ~Leads(w)
    BY <1>2 DEF Leads, Working
  <2>2. GoesOn(w) => GoesOn(w)'
    BY <1>2, <1>4 DEF GoesOn
  <2>3. GoesOn(w) => Carried(m)'
    BY <1>3, <2>2 DEF Carried, FirstLeft
  <2> QED
    BY <1>2, <2>1, <2>3, OthersCarry
<1>8. Calm(m) => Calm(m)'
  <2> SUFFICES ASSUME Calm(m) PROVE Calm(m)'
    OBVIOUS
  <2>1. Attended(m)'
    <3>1. Attended(m)
      BY <1>2 DEF Calm
    <3> QED
      BY <1>2, <1>3, <3>1, OthersStay, WorkerLeaves DEF Attended, InRun
  <2>2. Active(m)' => \A v \in Handling(m)' : InRun(v)' => job'[v].tries = 0
    BY <1>2, <1>3, <1>4, OthersStay DEF Calm, Active, InRun
  <2>3. \A v \in Handling(m)' :
         /\ InRun(v)' => hold'[v] = "held"
         /\ pc'[v] = "releasing" => verdict'[v] = "ack"
         /\ pc'[v] = "acking" => verdict'[v] # "retry"
    BY <1>3, <1>4, OthersStay DEF Calm, InRun
  <2>4. status'[m] = "working" => \E v \in Handling(m)' : pc'[v] \in Working
    BY <1>2, <1>3, OthersStay DEF Calm
  <2> QED
    BY <1>2, <2>1, <2>2, <2>3, <2>4 DEF Calm
<1> QED
  BY <1>2, <1>5, <1>6, <1>7, <1>8 DEF Survives, Active

\* Valkey fails a worker: the run that leads is a first try, and goes on as one.
LEMMA UnavailableSurvives ==
  ASSUME AgentTypeOK, NEW w \in Workers, NEW m \in Messages, w \in Handling(m), Survives(m),
         WorkerStep(w), Unavailable(w)
  PROVE  Survives(m)'
<1>1. /\ UNCHANGED <<status, queue, job, hold, forsaken>> /\ faults' = faults + 1
      /\ pc[w] \in {"start", "owner", "running"}
      /\ pc' = [pc EXCEPT ![w] = IF pc[w] = "start" THEN "acking" ELSE "releasing"]
      /\ verdict' = [verdict EXCEPT ![w] = "retry"]
  BY DEF Unavailable, Goto, Fault, rowVars
<1>2. Handling(m)' = Handling(m)
  BY <1>1 DEF Handling
<1>3. verdict'[w] = "retry" /\ pc'[w] = IF pc[w] = "start" THEN "acking" ELSE "releasing"
  BY <1>1 DEF AgentTypeOK
<1>4. AckedOver(m)'
  BY <1>1, <1>2, <1>3, OthersStay DEF Survives, AckedOver, Active
<1>5. faults' # 0 /\ (faults' <= 1 => faults = 0)
  BY <1>1, WorkerFaults
<1>6. ASSUME faults' <= 1, Active(m), m \notin forsaken
      PROVE  StrayFirst(m)'
  <2>1. Calm(m) /\ StrayFirst(m)
    BY <1>5, <1>6 DEF Survives
  <2>2. CASE pc[w] = "start"
    <3>1. ~InRun(w)'
      BY <1>3, <2>2 DEF InRun, Owning, Working
    <3> QED
      BY <1>2, <2>1, <3>1, OthersStay DEF StrayFirst, InRun
  <2>3. CASE pc[w] # "start"
    <3>1. InRun(w) /\ job'[w] = job[w]
      BY <1>1, <2>3 DEF InRun, Owning, Working
    <3> QED
      BY <1>2, <1>6, <2>1, <3>1, OthersStay DEF StrayFirst, InRun, Calm
  <2> QED
    BY <2>2, <2>3
<1>7. ASSUME faults' <= 1, status[m] = "working"
      PROVE  Carried(m)'
  <2>1. PICK u \in Handling(m) : Leads(u) /\ job[u].tries = 0 /\ pc[u] \in Working
    BY <1>5, <1>7, CalmLeads
  <2>2. CASE u = w
    <3>1. GoesOn(w)'
      BY <1>1, <1>3, <2>1, <2>2 DEF GoesOn, Working
    <3> QED
      BY <1>2, <3>1 DEF Carried, FirstLeft
  <2>3. CASE u # w
    BY <1>2, <2>1, <2>3, OthersStay DEF Carried, Led, Leads
  <2> QED
    BY <2>2, <2>3
<1> QED
  BY <1>1, <1>4, <1>5, <1>6, <1>7 DEF Survives, Active

\* A run ends: it has settled m, or it is the first try and will be sent off again.
LEMMA ReleaseSurvives ==
  ASSUME AgentTypeOK, JobsHeld, RunsExclusive, NEW w \in Workers, NEW m \in Messages,
         w \in Handling(m), Survives(m), WorkerStep(w), Release(w)
  PROVE  Survives(m)'
<1>1. job[w].msg = m
  BY DEF Handling
<1>2. /\ UNCHANGED <<status, job, verdict, forsaken>> /\ pc[w] = "releasing"
      /\ pc' = [pc EXCEPT ![w] = "acking"] /\ hold' = [hold EXCEPT ![w] = "none"]
  BY DEF Release, Goto, rowVars
<1>3. Handling(m)' = Handling(m) /\ InRun(w)
  BY <1>2 DEF Handling, InRun, Owning
<1>4. pc'[w] = "acking" /\ ~InRun(w)'
  BY <1>2 DEF AgentTypeOK, InRun, Owning, Working
<1>5. AckedOver(m)'
  BY <1>2, <1>3, <1>4, OthersStay DEF Survives, AckedOver, Active
<1>6. ASSUME faults' <= 1, Active(m), m \notin forsaken
      PROVE  StrayFirst(m)' /\ GoesOn(w)'
  <2>1. StrayFirst(m) /\ AckedOver(m)
    BY <1>6, WorkerFaults DEF Survives
  <2>2. job[w].tries = 0 /\ verdict[w] # "ack"
    BY <1>2, <1>3, <1>6, <2>1 DEF StrayFirst, AckedOver
  <2>3. GoesOn(w)'
    BY <1>2, <2>2 DEF GoesOn
  <2> QED
    BY <1>3, <1>4, <2>1, <2>3, OthersStay DEF StrayFirst, InRun
<1>7. ASSUME faults' = 0 PROVE Calm(m)'
  <2>1. Calm(m)
    BY <1>7, WorkerFaults DEF Survives
  <2>2. hold[w] = "held" /\ verdict[w] = "ack" /\ ~Active(m)
    BY <1>2, <1>3, <2>1 DEF Calm, Survives, AckedOver
  <2>3. lock[m] = w
    BY <1>1, <1>3, <2>2 DEF RunsExclusive
  <2>4. lock' = [lock EXCEPT ![m] = "free"]
    BY <1>1, <1>7, <2>2, <2>3, WorkerFaults DEF Release, Fault
  <2>5. \A v \in Handling(m)' :
         /\ InRun(v)' => hold'[v] = "held"
         /\ pc'[v] = "releasing" => verdict'[v] = "ack"
         /\ pc'[v] = "acking" => verdict'[v] # "retry"
    BY <1>2, <1>3, <1>4, <2>1, <2>2, OthersStay DEF Calm, InRun
  <2>6. ~Active(m)' /\ lock'[m] = "free" /\ status'[m] # "working"
    BY <1>2, <2>2, <2>4 DEF Active, AgentTypeOK
  <2> QED
    BY <1>2, <2>1, <2>5, <2>6 DEF Calm
<1>8. status[m] = "working" => Active(m)
  BY DEF Active
<1> QED
  BY <1>2, <1>3, <1>5, <1>6, <1>7, <1>8 DEF Survives, Carried, FirstLeft, Active

\* A delivery of m that is taken back in: what there was is still there.
LEMMA TakenBack ==
  ASSUME queue \in [Delivery -> Nat], NEW d \in Delivery, queue' = [queue EXCEPT ![d] = @ + 1]
  PROVE  queue'[d] > 0 /\ \A e \in Delivery : queue[e] > 0 => queue'[e] > 0
<1>1. queue'[d] = queue[d] + 1 /\ queue[d] \in Nat
  OBVIOUS
<1>2. queue'[d] > 0
  BY <1>1
<1>3. \A e \in Delivery : e # d => queue'[e] = queue[e]
  OBVIOUS
<1> QED
  BY <1>2, <1>3

\* The retry of a run that was in the way of another, or that failed: a second
\* try finds the lock free, or looked after by the run or the finalizer that
\* has m now; behind a dead lock it waits until the lock is gone.
LEMMA RepublishSurvives ==
  ASSUME AgentTypeOK, JobsHeld, NEW w \in Workers, NEW m \in Messages, w \in Handling(m),
         Survives(m), WorkerStep(w), Republish(w)
  PROVE  Survives(m)'
<1>1. job[w].msg = m /\ job[w].tries \in 0..1
  BY JobTyped DEF Handling, Republish
<1>2. /\ UNCHANGED <<status, lock, job, pc, hold, faults, forsaken>> /\ pc[w] = "acking"
      /\ verdict' = [verdict EXCEPT ![w] = "ack"]
  BY DEF Republish, Smooth, rowVars
<1>3. Handling(m)' = Handling(m) /\ ~InRun(w) /\ pc[w] \notin Working
  BY <1>2 DEF Handling, InRun, Owning, Working
<1>4. PICK d \in Delivery :
        /\ queue' = [queue EXCEPT ![d] = @ + 1]
        /\ \/ /\ verdict[w] = "retry" /\ job[w].tries = 0 /\ d = First(m)
           \/ /\ verdict[w] = "retry" /\ job[w].tries = 1 /\ d = Second(m, "ready")
           \/ /\ verdict[w] = "lock_retry" /\ job[w].tries = 0 /\ d = Second(m, "delayed")
              /\ lock[m] = "free" \/ Attended(m)
           \/ /\ verdict[w] = "lock_retry" /\ job[w].tries = 0 /\ d = Second(m, "behind_dead")
              /\ lock[m] # "free"
  <2>1. CASE verdict[w] = "retry"
    <3>1. queue' = [queue EXCEPT ![[msg |-> m, tries |-> job[w].tries, state |-> "ready"]] = @ + 1]
      BY <1>1, <2>1 DEF Republish
    <3>2. CASE job[w].tries = 0
      BY <2>1, <3>1, <3>2, Deliveries DEF First
    <3>3. CASE job[w].tries = 1
      BY <2>1, <3>1, <3>3, Deliveries DEF Second
    <3> QED
      BY <1>1, <3>2, <3>3
  <2>2. CASE verdict[w] # "retry"
    <3>1. verdict[w] = "lock_retry" /\ job[w].tries = 0
      BY <2>2 DEF Republish
    <3>2. CASE lock[m] = "free" \/ Attended(m)
      BY <1>1, <2>2, <3>1, <3>2, Deliveries DEF Republish
    <3>3. CASE ~(lock[m] = "free" \/ Attended(m))
      BY <1>1, <2>2, <3>1, <3>3, Deliveries DEF Republish
    <3> QED
      BY <3>2, <3>3
  <2> QED
    BY <2>1, <2>2
<1>5. queue'[d] > 0 /\ \A e \in Delivery : queue[e] > 0 => queue'[e] > 0
  BY <1>4, TakenBack DEF AgentTypeOK
<1>6. AckedOver(m)'
  BY <1>2, <1>3, OthersStay DEF Survives, AckedOver, Active
<1>7. StrayFirst(m) => StrayFirst(m)'
  BY <1>2, <1>3 DEF StrayFirst, InRun
<1>8. ASSUME faults <= 1, status[m] = "working", m \notin forsaken
      PROVE  Carried(m)'
  <2>1. Carried(m) /\ StrayFirst(m) /\ AckedOver(m) /\ Active(m)
    BY <1>8 DEF Survives, Active
  <2>2. CASE d = First(m) \/ d = Second(m, "behind_dead")
    BY <1>5, <2>2 DEF Carried, FirstLeft, Behind
  <2>3. CASE d = Second(m, "ready")
    <3>1. job[w].tries = 1
      BY <1>4, <2>3, Deliveries
    <3>2. ~Leads(w) /\ ~GoesOn(w) /\ pc[w] # "start"
      BY <1>2, <3>1 DEF Leads, GoesOn, Working
    <3> QED
      BY <1>2, <1>5, <2>1, <3>2, OthersCarry
  <2>4. CASE d = Second(m, "delayed")
    <3>1. lock[m] = "free" \/ Attended(m)
      BY <1>4, <2>4, Deliveries
    <3>2. CASE lock[m] = "free"
      BY <1>2, <1>5, <2>4, <3>2 DEF Carried, Near
    <3>3. CASE lock[m] = "finalizer" /\ rec = "finalize" /\ at = m
      BY <3>3, WorkerLeaves DEF Carried, Finalized
    <3>4. ASSUME NEW v \in Handling(m), InRun(v), hold[v] = "held"
          PROVE  Carried(m)'
      <4>1. v # w /\ v \in Handling(m)' /\ pc'[v] = pc[v] /\ hold'[v] = hold[v]
            /\ job'[v] = job[v] /\ verdict'[v] = verdict[v]
        BY <1>3, <3>4, OthersStay
      <4>2. CASE pc[v] = "releasing"
        <5>1. job[v].tries = 0 /\ verdict[v] # "ack"
          BY <1>8, <2>1, <3>4, <4>2 DEF StrayFirst, AckedOver
        <5>2. GoesOn(v)'
          BY <4>1, <5>1 DEF GoesOn
        <5> QED
          BY <4>1, <5>2 DEF Carried, FirstLeft
      <4>3. CASE pc[v] # "releasing"
        <5>1. Leads(v)'
          BY <3>4, <4>1, <4>3 DEF Leads, InRun, Owning
        <5> QED
          BY <4>1, <5>1 DEF Carried, Led
      <4> QED
        BY <4>2, <4>3
    <3> QED
      BY <3>1, <3>2, <3>3, <3>4 DEF Attended
  <2> QED
    BY <1>4, <2>2, <2>3, <2>4
<1>9. Calm(m) => Calm(m)'
  <2> SUFFICES ASSUME Calm(m) PROVE Calm(m)'
    OBVIOUS
  <2>1. ~(Active(m) /\ lock[m] = "free")
    BY <1>2, <1>4 DEF Calm
  <2>2. Attended(m) => Attended(m)'
    BY <1>2, <1>3, WorkerLeaves DEF Attended, InRun
  <2>3. \A v \in Handling(m)' :
         /\ InRun(v)' => hold'[v] = "held"
         /\ pc'[v] = "releasing" => verdict'[v] = "ack"
         /\ pc'[v] = "acking" => verdict'[v] # "retry"
    BY <1>2, <1>3, OthersStay DEF Calm, InRun, AgentTypeOK
  <2> QED
    BY <1>2, <1>3, <2>1, <2>2, <2>3 DEF Calm, Active, InRun
<1> QED
  BY <1>2, <1>6, <1>7, <1>8, <1>9 DEF Survives, Active

\* A delivery is acknowledged: its run is over, or it was a second try that found
\* m looked after.
LEMMA AcknowledgeSurvives ==
  ASSUME AgentTypeOK, NEW w \in Workers, NEW m \in Messages, w \in Handling(m),
         Survives(m), WorkerStep(w), Acknowledge(w)
  PROVE  Survives(m)'
<1>1. /\ UNCHANGED <<status, lock, queue, hold, faults, forsaken>> /\ pc[w] = "acking"
      /\ verdict[w] = "ack" \/ job[w].tries = 1
      /\ job' = [job EXCEPT ![w] = NoJob]
  BY DEF Acknowledge, Smooth, rowVars
<1>2. Handling(m)' = Handling(m) \ {w} /\ ~InRun(w) /\ pc[w] \notin Working
  <2>1. w \notin Handling(m)'
    BY <1>1 DEF Handling, AgentTypeOK
  <2> QED
    BY <1>1, <2>1, OthersStay DEF InRun, Owning, Working
<1>3. AckedOver(m)'
  BY <1>1, <1>2, OthersStay DEF Survives, AckedOver, Active
<1>4. StrayFirst(m) => StrayFirst(m)'
  BY <1>2, OthersStay DEF StrayFirst, InRun
<1>5. Carried(m) => Carried(m)'
  <2>1. ~Leads(w) /\ ~GoesOn(w) /\ pc[w] # "start"
    BY <1>1 DEF Leads, GoesOn, Working
  <2> QED
    BY <1>1, <2>1, OthersCarry
<1>6. Calm(m) => Calm(m)'
  <2> SUFFICES ASSUME Calm(m) PROVE Calm(m)'
    OBVIOUS
  <2>1. Attended(m) => Attended(m)'
    BY <1>1, <1>2, OthersStay, WorkerLeaves DEF Attended, InRun
  <2>2. status'[m] = "working" => \E v \in Handling(m)' : pc'[v] \in Working
    BY <1>1, <1>2, OthersStay DEF Calm
  <2>3. \A v \in Handling(m)' :
         /\ InRun(v)' => hold'[v] = "held"
         /\ pc'[v] = "releasing" => verdict'[v] = "ack"
         /\ pc'[v] = "acking" => verdict'[v] # "retry"
    BY <1>2, OthersStay DEF Calm, InRun
  <2>4. Active(m)' =>
         /\ \A v \in Handling(m)' : InRun(v)' => job'[v].tries = 0
         /\ lock'[m] = "free" =>
              /\ \A d \in Delivery : d.msg = m /\ queue'[d] > 0 => d.tries = 0
              /\ \A v \in Handling(m)' :
                   /\ job'[v].tries = 0
                   /\ pc'[v] = "acking" => verdict'[v] # "lock_retry"
    BY <1>1, <1>2, OthersStay DEF Calm, Active, InRun
  <2> QED
    BY <1>1, <2>1, <2>2, <2>3, <2>4 DEF Calm
<1> QED
  BY <1>1, <1>3, <1>4, <1>5, <1>6 DEF Survives, Active

\* A worker is killed: another run leads, or its first try is back in the broker.
LEMMA CrashSurvives ==
  ASSUME AgentTypeOK, JobsHeld, NEW w \in Workers, NEW m \in Messages, w \in Handling(m),
         Survives(m), WorkerStep(w), Crash(w)
  PROVE  Survives(m)'
<1>1. job[w].msg = m /\ job[w].tries \in 0..1
  BY JobTyped DEF Handling, Crash
<1>2. /\ UNCHANGED <<status, lock, forsaken>> /\ faults' = faults + 1
      /\ queue' = [queue EXCEPT ![[msg |-> m, tries |-> job[w].tries, state |-> "ready"]] = @ + 1]
      /\ job' = [job EXCEPT ![w] = NoJob]
  BY <1>1 DEF Crash, Fault, rowVars
<1>3. Handling(m)' = Handling(m) \ {w}
  <2>1. w \notin Handling(m)'
    BY <1>2 DEF Handling, AgentTypeOK
  <2> QED
    BY <2>1, OthersStay
<1>4. faults' # 0 /\ (faults' <= 1 => faults = 0)
  BY <1>2, WorkerFaults
<1>5. AckedOver(m)'
  BY <1>2, <1>3, OthersStay DEF Survives, AckedOver, Active
<1>6. StrayFirst(m) => StrayFirst(m)'
  BY <1>3, OthersStay DEF StrayFirst, InRun
<1>7. ASSUME faults' <= 1, status[m] = "working"
      PROVE  Carried(m)'
  <2>1. PICK u \in Handling(m) : Leads(u) /\ job[u].tries = 0 /\ pc[u] \in Working
    BY <1>4, <1>7, CalmLeads
  <2>2. CASE u = w
    <3>1. queue' = [queue EXCEPT ![First(m)] = @ + 1]
      BY <1>2, <2>1, <2>2 DEF First
    <3> QED
      BY <3>1, Deliveries, TakenBack DEF Carried, FirstLeft, AgentTypeOK
  <2>3. CASE u # w
    BY <1>3, <2>1, <2>3, OthersStay DEF Carried, Led, Leads
  <2> QED
    BY <2>2, <2>3
<1> QED
  BY <1>2, <1>4, <1>5, <1>6, <1>7 DEF Survives, Active

\* A delivery is destroyed: m is forsaken.
LEMMA GiveUpSurvives ==
  ASSUME AgentTypeOK, NEW w \in Workers, NEW m \in Messages, w \in Handling(m),
         Survives(m), WorkerStep(w), GiveUp(w)
  PROVE  Survives(m)'
<1>1. /\ m \in forsaken' /\ faults' = faults + 1
  BY DEF GiveUp, Fault, Handling
<1>2. faults' # 0
  BY <1>1, WorkerFaults
<1> QED
  BY <1>1, <1>2 DEF Survives, AckedOver

\* A delivery of m is handed to a worker: a first try goes on there; a second one
\* is near the lock where it was.
LEMMA ReceiveSurvives ==
  ASSUME AgentTypeOK, JobsHeld, NEW w \in Workers, NEW m \in Messages, Survives(m),
         WorkerStep(w), Receive(w, m)
  PROVE  Survives(m)'
<1>1. PICK tries \in 0..1 :
        /\ queue[[msg |-> m, tries |-> tries, state |-> "ready"]] > 0
        /\ queue' = [queue EXCEPT ![[msg |-> m, tries |-> tries, state |-> "ready"]] = @ - 1]
        /\ job' = [job EXCEPT ![w] = [msg |-> m, tries |-> tries]]
  BY DEF Receive
<1> DEFINE d == [msg |-> m, tries |-> tries, state |-> "ready"]
<1>2. /\ UNCHANGED <<status, lock, hold, verdict, faults, forsaken>>
      /\ pc[w] = "idle" /\ pc' = [pc EXCEPT ![w] = "start"]
  BY DEF Receive, Smooth, rowVars
<1>3. d \in Delivery /\ d.tries = tries /\ d.msg = m /\ d.state = "ready"
  BY DEF Delivery
<1>4. [msg |-> m, tries |-> tries] \in Job /\ [msg |-> m, tries |-> tries] # NoJob
  BY AgentAssumption DEF Job, AgentAssumption
<1>5. queue[d] > 0 /\ \A e \in Delivery : e # d => queue'[e] = queue[e]
  BY <1>1, <1>3 DEF AgentTypeOK
<1>6. \A e \in Delivery : queue'[e] > 0 => queue[e] > 0
  BY <1>5
<1>7. d = First(m) \/ d = Second(m, "ready")
  BY DEF First, Second
<1>8. tries = 0 => d = First(m)
  BY DEF First
<1> HIDE DEF d
<1>9. /\ job'[w].tries = tries /\ job'[w].msg = m /\ job'[w] # NoJob
      /\ pc'[w] = "start" /\ w \in Handling(m)' /\ w \notin Handling(m)
  BY <1>1, <1>2, <1>4 DEF AgentTypeOK, Handling, JobsHeld
<1>10. Handling(m)' = Handling(m) \union {w} /\ ~InRun(w)' /\ pc'[w] \notin Working
  BY <1>9, OthersStay DEF InRun, Owning, Working
<1>11. AckedOver(m)' /\ (StrayFirst(m) => StrayFirst(m)')
  BY <1>2, <1>9, <1>10, OthersStay DEF Survives, AckedOver, StrayFirst, Active, InRun
<1>12. Carried(m) => Carried(m)'
  <2>1. CASE tries = 0
    <3>1. GoesOn(w)'
      BY <1>9, <2>1 DEF GoesOn
    <3> QED
      BY <1>9, <3>1 DEF Carried, FirstLeft
  <2>2. CASE tries # 0
    <3>1. d # First(m) /\ d # Second(m, "behind_dead") /\ d # Second(m, "delayed")
      BY <1>3, <2>2, Deliveries
    <3>2. CASE lock[m] = "free"
      BY <1>2, <1>9, <3>2 DEF Carried, Near
    <3>3. CASE lock[m] # "free"
      <4>1. Finalized(m) => Finalized(m)'
        BY WorkerLeaves DEF Finalized
      <4>2. Led(m) => Led(m)'
        BY <1>9, <1>10, OthersStay DEF Led, Leads
      <4>3. FirstLeft(m) => FirstLeft(m)'
        BY <1>5, <1>9, <1>10, <3>1, Deliveries, OthersStay DEF FirstLeft, GoesOn
      <4>4. Behind(m) => Behind(m)'
        BY <1>5, <3>1, Deliveries DEF Behind
      <4> QED
        BY <3>3, <4>1, <4>2, <4>3, <4>4 DEF Carried, Near
    <3> QED
      BY <3>2, <3>3
  <2> QED
    BY <2>1, <2>2
<1>13. Calm(m) => Calm(m)'
  <2> SUFFICES ASSUME Calm(m) PROVE Calm(m)'
    OBVIOUS
  <2>1. Attended(m) => Attended(m)'
    BY <1>2, <1>9, <1>10, OthersStay, WorkerLeaves DEF Attended, InRun
  <2>2. status'[m] = "working" => \E v \in Handling(m)' : pc'[v] \in Working
    BY <1>2, <1>9, <1>10, OthersStay DEF Calm
  <2>3. \A v \in Handling(m)' :
         /\ InRun(v)' => hold'[v] = "held"
         /\ pc'[v] = "releasing" => verdict'[v] = "ack"
         /\ pc'[v] = "acking" => verdict'[v] # "retry"
    BY <1>9, <1>10, OthersStay DEF Calm, InRun
  <2>4. Active(m)' =>
         /\ \A v \in Handling(m)' : InRun(v)' => job'[v].tries = 0
         /\ lock'[m] = "free" =>
              /\ \A e \in Delivery : e.msg = m /\ queue'[e] > 0 => e.tries = 0
              /\ \A v \in Handling(m)' :
                   /\ job'[v].tries = 0
                   /\ pc'[v] = "acking" => verdict'[v] # "lock_retry"
    <3>1. Active(m)' => Active(m)
      BY <1>2 DEF Active
    <3>2. Active(m) => \A v \in Handling(m)' : InRun(v)' => job'[v].tries = 0
      BY <1>9, <1>10, OthersStay DEF Calm, InRun
    <3>3. Active(m) /\ lock[m] = "free" =>
             \A e \in Delivery : e.msg = m /\ queue'[e] > 0 => e.tries = 0
      BY <1>6 DEF Calm
    <3>4. Active(m) /\ lock[m] = "free" => tries = 0
      BY <1>3, <1>5 DEF Calm
    <3>5. Active(m) /\ lock[m] = "free" =>
             \A v \in Handling(m)' :
               /\ job'[v].tries = 0
               /\ pc'[v] = "acking" => verdict'[v] # "lock_retry"
      BY <1>9, <1>10, <3>4, OthersStay DEF Calm
    <3> QED
      BY <1>2, <3>1, <3>2, <3>3, <3>5
  <2> QED
    BY <1>2, <2>1, <2>2, <2>3, <2>4 DEF Calm
<1> QED
  BY <1>2, <1>11, <1>12, <1>13 DEF Survives, Active

\* Any step of a worker.
LEMMA WorkerSurvives ==
  ASSUME AgentTypeOK, JobsHeld, RunsExclusive, NEW w \in Workers, NEW m \in Messages,
         Survives(m), WorkerStep(w)
  PROVE  Survives(m)'
<1>1. CASE Receive(w, m)
  BY <1>1, ReceiveSurvives
<1>2. CASE ~Receive(w, m) /\ w \notin Handling(m)
  BY <1>2, WorkerUnseen, UnseenKeeps
<1>3. CASE ~Receive(w, m) /\ w \in Handling(m)
  <2>1. ~\E n \in Messages : Receive(w, n)
    BY <1>3 DEF Receive, Handling, JobsHeld
  <2>2. CASE \/ DeleteClaim(w) \/ Load(w) \/ StartRun(w) \/ NextEvent(w) \/ SaveProgress(w)
             \/ Done(w) \/ DoneUnheard(w) \/ RunFails(w) \/ MarkFailed(w) \/ MarkFailedFails(w)
    <3>1. RunMove(w, m)
      BY <1>3, <2>2, RunMoves
    <3> QED
      BY <1>3, <3>1, RunSurvives
  <2> QED
    BY <1>3, <2>1, <2>2, HeartbeatSurvives, AcquireSurvives, BusySurvives, UnavailableSurvives,
       ReleaseSurvives, RepublishSurvives, AcknowledgeSurvives, CrashSurvives, GiveUpSurvives
       DEF WorkerStep
<1> QED
  BY <1>1, <1>2, <1>3

\* Any step of the hand-off.
LEMMA StepSurvives ==
  ASSUME AgentTypeOK, JobsHeld, RunsExclusive, RowsAppear, NothingYet, SurvivalInv,
         [AgentNext]_agentVars
  PROVE  SurvivalInv'
<1> SUFFICES ASSUME NEW m \in Messages PROVE Survives(m)'
  BY DEF SurvivalInv
<1>1. Survives(m)
  BY DEF SurvivalInv
<1>2. CASE UNCHANGED agentVars
  <2>1. Unseen(m)
    BY <1>2 DEF agentVars, rowVars, recVars, runVars, Unseen, Finalized, Handling
  <2> QED
    BY <1>1, <2>1, UnseenKeeps
<1>3. ASSUME NEW k \in Messages, MessageStep(k) PROVE Survives(m)'
  <2>1. CASE k # m
    <3>1. Unseen(m)
      BY <1>3, <2>1, MessageUnseen
    <3> QED
      BY <1>1, <3>1, UnseenKeeps
  <2>2. CASE k = m
    <3>1. CASE \/ ReadForRegenerate(m) \/ Conflict(m) \/ Dispatch(m) \/ DispatchFails(m)
               \/ ClaimExpires(m) \/ Ages(m) \/ RedispatchClaim(m)
      <4>1. Unseen(m)
        BY <3>1, RequestUnseen
      <4> QED
        BY <1>1, <4>1, UnseenKeeps
    <3> QED
      BY <1>1, <1>3, <2>2, <3>1, StartSurvives, RetrySurvives, ExpirySurvives, FinalizerSurvives
         DEF MessageStep
  <2> QED
    BY <2>1, <2>2
<1>4. CASE ReconcilerStep
  <2>1. CASE at = m
    BY <1>1, <1>4, <2>1, ReconcilerSurvives
  <2>2. CASE at # m
    BY <1>1, <1>4, <2>2, ReconcilerUnseen, UnseenKeeps
  <2> QED
    BY <2>1, <2>2
<1>5. ASSUME NEW w \in Workers, WorkerStep(w) PROVE Survives(m)'
  BY <1>1, <1>5, WorkerSurvives
<1> QED
  BY <1>2, <1>3, <1>4, <1>5 DEF AgentNext

\* No step brings a delivery of a message whose row does not exist yet.
LEMMA NothingYetStays ==
  ASSUME AgentTypeOK, JobsHeld, RunsExclusive, NothingYet, [AgentNext]_agentVars
  PROVE  NothingYet'
<1> SUFFICES ASSUME NEW m \in Messages, status'[m] = "absent"
             PROVE  Untouched(m)'
  BY DEF NothingYet
<1> USE DEF rowVars, recVars, runVars
<1>1. status[m] = "absent"
  <2>1. RowStep
    BY RowSteps
  <2>2. CASE RowsKept
    BY <2>2 DEF RowsKept
  <2>3. ASSUME NEW k \in Messages, AddMessage(k) \/ Regenerate(k)
        PROVE  status[m] = "absent"
    <3>1. status' = [status EXCEPT ![k] = "queued"]
      BY <2>3 DEF AddMessage, Regenerate, Persist
    <3> QED
      BY <3>1 DEF AgentTypeOK
  <2>4. ASSUME NEW k \in Messages, ReadForRegenerate(k)
        PROVE  status[m] = "absent"
    BY <2>4 DEF ReadForRegenerate
  <2>5. ASSUME NEW k \in Messages, NEW s \in {"working", "failed"}, RowUpdated(k, s)
        PROVE  status[m] = "absent"
    BY <2>5 DEF RowUpdated, AgentTypeOK
  <2>6. ASSUME NEW k \in Messages, RowCompleted(k)
        PROVE  status[m] = "absent"
    BY <2>6 DEF RowCompleted
  <2> QED
    BY <2>1, <2>2, <2>3, <2>4, <2>5, <2>6 DEF RowStep
<1>2. /\ Handling(m) = {} /\ \A d \in Delivery : d.msg = m => ~(queue[d] > 0)
      /\ api[m] \notin {"committed", "claimed"} /\ m \notin todo /\ at # m
  BY <1>1 DEF NothingYet, Untouched, Outstanding
<1>3. CASE UNCHANGED agentVars
  BY <1>2, <1>3 DEF agentVars, Untouched, Outstanding, Handling
<1>4. ASSUME Unseen(m), SameDeliveries(m),
             api'[m] \in {"committed", "claimed"} => api[m] \in {"committed", "claimed"},
             m \in todo' => m \in todo, at' = m => at = m
      PROVE  Untouched(m)'
  BY <1>2, <1>4 DEF Untouched, Outstanding, Unseen, SameDeliveries
<1>5. ASSUME NEW k \in Messages, k # m, MessageStep(k) PROVE Untouched(m)'
  <2>1. Unseen(m) /\ SameDeliveries(m)
    BY <1>5, MessageUnseen
  <2>2. api'[m] = api[m]
    BY <1>5 DEF MessageStep, AddMessage, ReadForRegenerate, Regenerate, Conflict, Dispatch,
       DispatchFails, ClaimExpires, Ages, RetryDue, LockExpires, FinalizeAcquire, RedispatchClaim,
       Persist, AgentTypeOK
  <2>3. (m \in todo' => m \in todo) /\ (at' = m => at = m)
    BY <1>5 DEF MessageStep, AddMessage, ReadForRegenerate, Regenerate, Conflict, Dispatch,
       DispatchFails, ClaimExpires, Ages, RetryDue, LockExpires, FinalizeAcquire, RedispatchClaim
  <2> QED
    BY <1>4, <2>1, <2>2, <2>3
<1>6. ASSUME MessageStep(m) PROVE Untouched(m)'
  <2>1. CASE AddMessage(m) \/ Regenerate(m)
    BY <1>1, <2>1 DEF AddMessage, Regenerate, Persist, AgentTypeOK
  <2>2. CASE ReadForRegenerate(m) \/ Conflict(m) \/ ClaimExpires(m)
    <3>1. UNCHANGED <<todo, at, queue, job>>
      BY <2>2 DEF ReadForRegenerate, Conflict, ClaimExpires
    <3>2. api'[m] \notin {"committed", "claimed"}
      BY <1>2, <2>2 DEF ReadForRegenerate, Conflict, ClaimExpires, AgentTypeOK
    <3> QED
      BY <1>2, <3>1, <3>2 DEF Untouched, Outstanding, Handling
  <2>3. CASE LockExpires(m)
    <3>1. UNCHANGED <<todo, at, api, job>> /\ Outlasted(m)
      BY <2>3 DEF LockExpires
    <3>2. /\ Second(m, "behind_dead") \in Delivery /\ Second(m, "delayed") \in Delivery
          /\ queue[Second(m, "behind_dead")] = 0 /\ queue[Second(m, "delayed")] = 0
      BY <1>2, Deliveries DEF AgentTypeOK
    <3>3. \A d \in Delivery : queue'[d] = queue[d]
      BY <3>1, <3>2 DEF Outlasted, AgentTypeOK
    <3> QED
      BY <1>2, <3>1, <3>3 DEF Untouched, Outstanding, Handling
  <2>4. ~RetryDue(m)
    BY <1>2, Deliveries DEF RetryDue
  <2> QED
    BY <1>1, <1>2, <1>6, <2>1, <2>2, <2>3, <2>4 DEF MessageStep, Dispatch, DispatchFails, Ages,
       Active, FinalizeAcquire, RedispatchClaim
<1>7. CASE ReconcilerStep
  <2>1. Unseen(m) /\ SameDeliveries(m)
    BY <1>2, <1>7, ReconcilerUnseen
  <2>2. UNCHANGED api
    BY <1>7 DEF ReconcilerStep, ScanStale, FinalizeFail, ScanQueued, RedispatchPublish,
       RedispatchFails, ReconcilerRestarts
  <2>3. m \in todo' => m \in todo
    BY <1>1, <1>7 DEF ReconcilerStep, ScanStale, FinalizeFail, ScanQueued, RedispatchPublish,
       RedispatchFails, ReconcilerRestarts, Active
  <2>4. at' = m => at = m
    BY <1>7, AgentAssumption DEF ReconcilerStep, ScanStale, FinalizeFail, ScanQueued,
       RedispatchPublish, RedispatchFails, ReconcilerRestarts, AgentAssumption
  <2> QED
    BY <1>4, <2>1, <2>2, <2>3, <2>4
<1>8. ASSUME NEW w \in Workers, WorkerStep(w) PROVE Untouched(m)'
  <2>1. ~Receive(w, m)
    <3> SUFFICES ASSUME Receive(w, m) PROVE FALSE
      OBVIOUS
    <3>1. PICK tries \in 0..1 : queue[[msg |-> m, tries |-> tries, state |-> "ready"]] > 0
      BY DEF Receive
    <3> QED
      BY <1>2, <3>1 DEF Delivery
  <2>2. Unseen(m) /\ SameDeliveries(m)
    BY <1>2, <1>8, <2>1, WorkerUnseen
  <2> QED
    BY <1>4, <1>8, <2>2, WorkerLeaves
<1> QED
  BY <1>3, <1>5, <1>6, <1>7, <1>8 DEF AgentNext

\* What the survival of one fault rests on holds throughout.
LEMMA SurvivalSafe == AgentSpec => [](NothingYet /\ SurvivalInv)
<1>1. AgentInit => NothingYet /\ SurvivalInv
  <2> SUFFICES ASSUME AgentInit PROVE NothingYet /\ SurvivalInv
    OBVIOUS
  <2>1. \A m \in Messages : Handling(m) = {}
    BY DEF AgentInit, Handling
  <2>2. NothingYet
    BY <2>1, AgentAssumption
       DEF AgentInit, NothingYet, Untouched, Outstanding, AgentAssumption
  <2>3. SurvivalInv
    BY <2>1 DEF AgentInit, SurvivalInv, Survives, AckedOver, Calm, Active, StrayFirst
  <2> QED
    BY <2>2, <2>3
<1>2. /\ AgentTypeOK /\ JobsHeld /\ RunsExclusive /\ TurnInv /\ NothingYet /\ SurvivalInv
      /\ [AgentNext]_agentVars
      => (NothingYet /\ SurvivalInv)'
  BY NothingYetStays, StepSurvives DEF TurnInv
<1> QED
  BY <1>1, <1>2, AgentTypeCorrect, ExclusiveRuns, TurnSafe, PTL DEF AgentSpec

\* OneFaultSurvived: a crash, a stall or an outage, whenever it comes, leaves a
\* message that is being worked on with a delivery, or the finalizer at work on it
\* (process_agent_message, run_agent_message); for any number of messages and
\* workers, and however many duplicates of its delivery there are.
THEOREM FaultSurvived == AgentSpec => []OneFaultSurvived
<1>1. AgentTypeOK /\ NothingYet /\ SurvivalInv => OneFaultSurvived
  <2> SUFFICES ASSUME AgentTypeOK, SurvivalInv, NEW m \in Messages,
                      status[m] = "working", faults <= 1, m \notin forsaken
               PROVE  Outstanding(m) \/ (rec = "finalize" /\ at = m)
    BY DEF OneFaultSurvived
  <2>1. Carried(m)
    BY DEF SurvivalInv, Survives
  <2>2. (\E d \in Delivery : d.msg = m /\ queue[d] > 0) \/ Handling(m) # {} \/ Finalized(m)
    BY <2>1, Deliveries DEF Carried, Led, FirstLeft, Behind, Near
  <2> QED
    BY <2>2 DEF Outstanding, Finalized
<1> QED
  BY <1>1, AgentTypeCorrect, SurvivalSafe, PTL
=============================================================================
