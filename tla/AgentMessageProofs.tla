------------------------- MODULE AgentMessageProofs -------------------------
(***************************************************************************)
(* Proofs about AgentMessage, for every set of messages and workers and    *)
(* every bound on deliveries and faults.                                   *)
(***************************************************************************)
EXTENDS AgentMessage, TLAPS

\* A worker has a delivery exactly while it is not idle.
JobsHeld == \A w \in Workers : pc[w] = "idle" <=> job[w] = NoJob

-----------------------------------------------------------------------------
\* The hand-off starts well typed, with no delivery at any worker.
LEMMA InitTyped == AgentInit => AgentTypeOK /\ JobsHeld
<1> SUFFICES ASSUME AgentInit PROVE AgentTypeOK /\ JobsHeld
  OBVIOUS
<1> USE DEF AgentInit
<1>1. faults \in 0..MaxFaults
  BY AgentAssumption DEF AgentAssumption
<1>2. turns \in Seq(Messages)
  OBVIOUS
<1>3. queue \in [Delivery -> Nat]
  OBVIOUS
<1> QED
  BY <1>1, <1>2, <1>3 DEF AgentTypeOK, JobsHeld

\* A fault stays within the bound.
LEMMA FaultTyped == faults \in 0..MaxFaults /\ Fault => faults' \in 0..MaxFaults
  BY AgentAssumption DEF AgentAssumption, Fault

\* The broker takes in one more delivery, hands one out, or has one fall due.
LEMMA QueueGrows ==
  ASSUME queue \in [Delivery -> Nat], NEW d \in Delivery,
         queue' = [queue EXCEPT ![d] = @ + 1]
  PROVE  queue' \in [Delivery -> Nat]
<1>1. queue[d] + 1 \in Nat
  OBVIOUS
<1> QED
  BY <1>1

\* Taking a delivery that is there keeps the queue a bag of deliveries.
LEMMA QueueShrinks ==
  ASSUME queue \in [Delivery -> Nat], NEW d \in Delivery, queue[d] > 0,
         queue' = [queue EXCEPT ![d] = @ - 1]
  PROVE  queue' \in [Delivery -> Nat]
<1>1. queue[d] - 1 \in Nat
  OBVIOUS
<1> QED
  BY <1>1

\* A publication keeps the queue a bag of deliveries.
LEMMA EnqueueTyped ==
  ASSUME queue \in [Delivery -> Nat], NEW m \in Messages, Enqueue(m)
  PROVE  queue' \in [Delivery -> Nat]
<1>1. [msg |-> m, tries |-> 0, state |-> "ready"] \in Delivery
  BY DEF Delivery
<1> QED
  BY <1>1, QueueGrows DEF Enqueue

\* A retry is a delivery.
LEMMA SecondTyped ==
  ASSUME NEW m \in Messages, NEW s \in {"ready", "delayed", "behind_dead"}
  PROVE  Second(m, s) \in Delivery
  BY DEF Second, Delivery

\* Retries that outlast a lock stay deliveries.
LEMMA OutlastedTyped ==
  ASSUME queue \in [Delivery -> Nat], NEW m \in Messages, Outlasted(m)
  PROVE  queue' \in [Delivery -> Nat]
<1>1. Second(m, "behind_dead") \in Delivery /\ Second(m, "delayed") \in Delivery
  BY SecondTyped
<1> QED
  BY <1>1 DEF Outlasted

\* Steps of requests, of the broker and of Valkey.
LEMMA MessageTyped ==
  ASSUME AgentTypeOK, JobsHeld, NEW m \in Messages, MessageStep(m)
  PROVE  AgentTypeOK' /\ JobsHeld'
<1> USE DEF AgentTypeOK, JobsHeld, rowVars, recVars, runVars, Smooth
<1>1. CASE AddMessage(m)
  BY <1>1, AgentAssumption DEF AddMessage, Persist, AgentAssumption
<1>2. CASE ReadForRegenerate(m)
  BY <1>2 DEF ReadForRegenerate
<1>3. CASE Regenerate(m)
  BY <1>3, AgentAssumption DEF Regenerate, Persist, AgentAssumption
<1>4. CASE Conflict(m)
  BY <1>4 DEF Conflict
<1>5. CASE Dispatch(m)
  <2>1. UNCHANGED queue \/ Enqueue(m)
    BY <1>5 DEF Dispatch
  <2>2. queue' \in [Delivery -> Nat]
    BY <2>1, EnqueueTyped
  <2>3. claim' \in [Messages -> BOOLEAN]
    BY <1>5 DEF Dispatch
  <2>4. api' \in [Messages -> {"none", "read", "committed", "claimed", "done"}]
    <3>1. \/ api' = [api EXCEPT ![m] = "claimed"]
          \/ api' = [api EXCEPT ![m] = "done"]
      BY <1>5, Zenon DEF Dispatch
    <3> QED
      BY <3>1
  <2>5. UNCHANGED <<rowVars, recVars, lock, runVars, faults, forsaken>>
    BY <1>5 DEF Dispatch
  <2> QED
    BY <2>2, <2>3, <2>4, <2>5
<1>6. CASE DispatchFails(m)
  <2>1. UNCHANGED queue \/ Enqueue(m)
    BY <1>6 DEF DispatchFails
  <2>2. queue' \in [Delivery -> Nat]
    BY <2>1, EnqueueTyped
  <2>3. faults' \in 0..MaxFaults
    BY <1>6, FaultTyped DEF DispatchFails
  <2> QED
    BY <1>6, <2>2, <2>3 DEF DispatchFails
<1>7. CASE ClaimExpires(m)
  BY <1>7 DEF ClaimExpires
<1>8. CASE Ages(m)
  BY <1>8 DEF Ages
<1>9. CASE RetryDue(m)
  <2>1. Second(m, "delayed") \in Delivery /\ Second(m, "ready") \in Delivery
    BY SecondTyped
  <2>2. queue' \in [Delivery -> Nat]
    BY <1>9, <2>1 DEF RetryDue
  <2> QED
    BY <1>9, <2>2 DEF RetryDue
<1>10. CASE LockExpires(m)
  <2>2. queue' \in [Delivery -> Nat]
    BY <1>10, OutlastedTyped DEF LockExpires
  <2>3. faults' \in 0..MaxFaults
    BY <1>10, FaultTyped DEF LockExpires
  <2>4. hold' \in [Workers -> {"none", "held", "expired", "lost"}]
    BY <1>10 DEF LockExpires
  <2> QED
    BY <1>10, <2>2, <2>3, <2>4 DEF LockExpires
<1>11. CASE FinalizeAcquire(m)
  BY <1>11 DEF FinalizeAcquire
<1>12. CASE RedispatchClaim(m)
  BY <1>12 DEF RedispatchClaim
<1> QED
  BY <1>1, <1>2, <1>3, <1>4, <1>5, <1>6, <1>7, <1>8, <1>9, <1>10, <1>11, <1>12
     DEF MessageStep

\* Steps of the reconciler.
LEMMA ReconcilerTyped ==
  ASSUME AgentTypeOK, JobsHeld, ReconcilerStep
  PROVE  AgentTypeOK' /\ JobsHeld'
<1> USE DEF AgentTypeOK, JobsHeld, rowVars, recVars, runVars, Smooth
<1>1. CASE ScanStale
  BY <1>1 DEF ScanStale
<1>2. CASE FinalizeFail
  BY <1>2 DEF FinalizeFail
<1>3. CASE ScanQueued
  BY <1>3 DEF ScanQueued
<1>4. CASE RedispatchPublish
  <2>1. queue' \in [Delivery -> Nat]
    BY <1>4, EnqueueTyped DEF RedispatchPublish
  <2> QED
    BY <1>4, <2>1 DEF RedispatchPublish
<1>5. CASE RedispatchFails
  <2>1. queue' \in [Delivery -> Nat]
    BY <1>5, EnqueueTyped DEF RedispatchFails
  <2>2. faults' \in 0..MaxFaults
    BY <1>5, FaultTyped DEF RedispatchFails
  <2> QED
    BY <1>5, <2>1, <2>2 DEF RedispatchFails
<1>6. CASE ReconcilerRestarts
  <2>1. faults' \in 0..MaxFaults
    BY <1>6, FaultTyped DEF ReconcilerRestarts
  <2> QED
    BY <1>6, <2>1 DEF ReconcilerRestarts
<1> QED
  BY <1>1, <1>2, <1>3, <1>4, <1>5, <1>6 DEF ReconcilerStep

\* What a worker that is not idle works on.
LEMMA JobTyped ==
  ASSUME AgentTypeOK, JobsHeld, NEW w \in Workers, pc[w] # "idle"
  PROVE  job[w] \in Job /\ job[w].msg \in Messages /\ job[w].tries \in 0..1
  BY DEF AgentTypeOK, JobsHeld, Job

\* The run goes on or ends.
LEMMA MoveTyped ==
  ASSUME AgentTypeOK, JobsHeld, NEW w \in Workers, pc[w] # "idle",
         NEW on \in Owning, NEW v \in {"ack", "lock_retry", "retry"},
         \/ pc' = [pc EXCEPT ![w] = on] /\ UNCHANGED verdict
         \/ pc' = [pc EXCEPT ![w] = "releasing"] /\ verdict' = [verdict EXCEPT ![w] = v],
         UNCHANGED job
  PROVE  /\ pc' \in [Workers -> Owning \union {"idle", "start", "acking"}]
         /\ verdict' \in [Workers -> {"ack", "lock_retry", "retry"}]
         /\ JobsHeld'
<1> USE DEF AgentTypeOK, JobsHeld, Owning, Working
<1>1. CASE pc' = [pc EXCEPT ![w] = on] /\ UNCHANGED verdict
  BY <1>1
<1>2. CASE pc' = [pc EXCEPT ![w] = "releasing"] /\ verdict' = [verdict EXCEPT ![w] = v]
  BY <1>2
<1> QED
  BY <1>1, <1>2

\* Steps of a worker.
LEMMA WorkerTyped ==
  ASSUME AgentTypeOK, JobsHeld, NEW w \in Workers, WorkerStep(w)
  PROVE  AgentTypeOK' /\ JobsHeld'
<1> USE DEF AgentTypeOK, JobsHeld, rowVars, recVars, runVars, Smooth, Goto, End, Owning, Working
<1>1. ASSUME NEW m \in Messages, Receive(w, m)
      PROVE  AgentTypeOK' /\ JobsHeld'
  <2>1. PICK tries \in 0..1 :
          LET d == [msg |-> m, tries |-> tries, state |-> "ready"] IN
          /\ queue[d] > 0
          /\ queue' = [queue EXCEPT ![d] = @ - 1]
          /\ job' = [job EXCEPT ![w] = [msg |-> m, tries |-> tries]]
    BY <1>1 DEF Receive
  <2>2. [msg |-> m, tries |-> tries, state |-> "ready"] \in Delivery
    BY DEF Delivery
  <2>3. queue' \in [Delivery -> Nat]
    BY <2>1, <2>2, QueueShrinks
  <2>4. [msg |-> m, tries |-> tries] \in Job /\ [msg |-> m, tries |-> tries] # NoJob
    BY AgentAssumption DEF Job, AgentAssumption
  <2> QED
    BY <1>1, <2>1, <2>3, <2>4 DEF Receive
<1>2. CASE Acquire(w)
  BY <1>2 DEF Acquire
<1>3. CASE Busy(w)
  BY <1>3 DEF Busy
<1>4. CASE DeleteClaim(w)
  BY <1>4 DEF DeleteClaim
<1>5. CASE Load(w)
  <2>1. /\ pc[w] # "idle" /\ UNCHANGED job
        /\ \/ pc' = [pc EXCEPT ![w] = "starting"] /\ UNCHANGED verdict
           \/ pc' = [pc EXCEPT ![w] = "releasing"] /\ verdict' = [verdict EXCEPT ![w] = "ack"]
    BY <1>5 DEF Load
  <2>2. /\ pc' \in [Workers -> Owning \union {"idle", "start", "acking"}]
        /\ verdict' \in [Workers -> {"ack", "lock_retry", "retry"}]
        /\ JobsHeld'
    BY <2>1, MoveTyped, "starting" \in Owning, "ack" \in {"ack", "lock_retry", "retry"}
  <2> QED
    BY <1>5, <2>1, <2>2 DEF Load
<1>6. CASE StartRun(w)
  <2>1. /\ pc[w] # "idle" /\ UNCHANGED job
        /\ \/ pc' = [pc EXCEPT ![w] = "running"] /\ UNCHANGED verdict
           \/ pc' = [pc EXCEPT ![w] = "releasing"] /\ verdict' = [verdict EXCEPT ![w] = "ack"]
    BY <1>6 DEF StartRun
  <2>2. /\ pc' \in [Workers -> Owning \union {"idle", "start", "acking"}]
        /\ verdict' \in [Workers -> {"ack", "lock_retry", "retry"}]
        /\ JobsHeld'
    BY <2>1, MoveTyped, "running" \in Owning, "ack" \in {"ack", "lock_retry", "retry"}
  <2>3. status' \in [Messages -> {"absent", "queued", "working", "completed", "failed", "deleted"}]
    BY <1>6 DEF StartRun, SaveActive
  <2> QED
    BY <1>6, <2>1, <2>2, <2>3 DEF StartRun
<1>7. CASE NextEvent(w)
  <2>1. /\ pc[w] # "idle" /\ UNCHANGED job
        /\ \/ pc' = [pc EXCEPT ![w] = "writing"] /\ UNCHANGED verdict
           \/ pc' = [pc EXCEPT ![w] = "releasing"] /\ verdict' = [verdict EXCEPT ![w] = "lock_retry"]
    BY <1>7 DEF NextEvent
  <2>2. /\ pc' \in [Workers -> Owning \union {"idle", "start", "acking"}]
        /\ verdict' \in [Workers -> {"ack", "lock_retry", "retry"}]
        /\ JobsHeld'
    BY <2>1, MoveTyped, "writing" \in Owning, "lock_retry" \in {"ack", "lock_retry", "retry"}
  <2> QED
    BY <1>7, <2>1, <2>2 DEF NextEvent
<1>8. CASE SaveProgress(w)
  <2>1. /\ pc[w] # "idle" /\ UNCHANGED job
        /\ \/ pc' = [pc EXCEPT ![w] = "running"] /\ UNCHANGED verdict
           \/ pc' = [pc EXCEPT ![w] = "releasing"] /\ verdict' = [verdict EXCEPT ![w] = "ack"]
    BY <1>8 DEF SaveProgress
  <2>2. /\ pc' \in [Workers -> Owning \union {"idle", "start", "acking"}]
        /\ verdict' \in [Workers -> {"ack", "lock_retry", "retry"}]
        /\ JobsHeld'
    BY <2>1, MoveTyped, "running" \in Owning, "ack" \in {"ack", "lock_retry", "retry"}
  <2>3. status' \in [Messages -> {"absent", "queued", "working", "completed", "failed", "deleted"}]
    BY <1>8 DEF SaveProgress, SaveActive
  <2> QED
    BY <1>8, <2>1, <2>2, <2>3 DEF SaveProgress
<1>9. CASE Done(w)
  BY <1>9 DEF Done, SaveCompleted
<1>10. CASE DoneUnheard(w)
  <2>1. faults' \in 0..MaxFaults
    BY <1>10, FaultTyped DEF DoneUnheard
  <2> QED
    BY <1>10, <2>1 DEF DoneUnheard, SaveCompleted
<1>11. CASE RunFails(w)
  <2>1. /\ pc[w] # "idle" /\ UNCHANGED job
        /\ \/ pc' = [pc EXCEPT ![w] = "failing"] /\ UNCHANGED verdict
           \/ pc' = [pc EXCEPT ![w] = "releasing"] /\ verdict' = [verdict EXCEPT ![w] = "lock_retry"]
    BY <1>11 DEF RunFails
  <2>2. /\ pc' \in [Workers -> Owning \union {"idle", "start", "acking"}]
        /\ verdict' \in [Workers -> {"ack", "lock_retry", "retry"}]
        /\ JobsHeld'
    BY <2>1, MoveTyped, "failing" \in Owning, "lock_retry" \in {"ack", "lock_retry", "retry"}
  <2> QED
    BY <1>11, <2>1, <2>2 DEF RunFails
<1>12. CASE MarkFailed(w)
  BY <1>12 DEF MarkFailed
<1>13. CASE MarkFailedFails(w)
  <2>1. faults' \in 0..MaxFaults
    BY <1>13, FaultTyped DEF MarkFailedFails
  <2> QED
    BY <1>13, <2>1, JobTyped DEF MarkFailedFails
<1>14. CASE Unavailable(w)
  <2>1. faults' \in 0..MaxFaults
    BY <1>14, FaultTyped DEF Unavailable
  <2>2. lock' \in [Messages -> Workers \union {"free", "finalizer"}]
    BY <1>14 DEF Unavailable
  <2> QED
    BY <1>14, <2>1, <2>2 DEF Unavailable
<1>15. CASE Release(w)
  <2>1. faults' \in 0..MaxFaults
    BY <1>15, FaultTyped DEF Release
  <2>2. lock' \in [Messages -> Workers \union {"free", "finalizer"}]
    BY <1>15 DEF Release
  <2>3. job[w].msg \in Messages
    BY <1>15, JobTyped DEF Release
  <2>4. queue' \in [Delivery -> Nat]
    BY <1>15, <2>3, OutlastedTyped DEF Release
  <2> QED
    BY <1>15, <2>1, <2>2, <2>4 DEF Release
<1>16. CASE Republish(w)
  <2>1. PICK d \in Delivery : queue' = [queue EXCEPT ![d] = @ + 1]
    <3>1. job[w].msg \in Messages /\ job[w].tries \in 0..1
      BY <1>16, JobTyped DEF Republish
    <3> QED
      BY <1>16, <3>1 DEF Republish, Second, Delivery
  <2>2. queue' \in [Delivery -> Nat]
    BY <2>1, QueueGrows
  <2> QED
    BY <1>16, <2>2 DEF Republish
<1>17. CASE Acknowledge(w)
  BY <1>17 DEF Acknowledge
<1>18. CASE Crash(w)
  <2>1. faults' \in 0..MaxFaults
    BY <1>18, FaultTyped DEF Crash
  <2>2. [msg |-> job[w].msg, tries |-> job[w].tries, state |-> "ready"] \in Delivery
    BY <1>18, JobTyped DEF Crash, Delivery
  <2>3. queue' \in [Delivery -> Nat]
    BY <1>18, <2>2, QueueGrows DEF Crash
  <2> QED
    BY <1>18, <2>1, <2>3 DEF Crash
<1>19. CASE GiveUp(w)
  <2>1. faults' \in 0..MaxFaults
    BY <1>19, FaultTyped DEF GiveUp
  <2>2. job[w].msg \in Messages
    BY <1>19, JobTyped DEF GiveUp
  <2> QED
    BY <1>19, <2>1, <2>2 DEF GiveUp
<1>20. CASE HeartbeatNotices(w)
  BY <1>20 DEF HeartbeatNotices
<1>21. CASE HeartbeatFails(w)
  <2>1. faults' \in 0..MaxFaults
    BY <1>21, FaultTyped DEF HeartbeatFails
  <2> QED
    BY <1>21, <2>1 DEF HeartbeatFails
<1> HIDE DEF AgentTypeOK, JobsHeld
<1> QED
  BY <1>1, <1>2, <1>3, <1>4, <1>5, <1>6, <1>7, <1>8, <1>9, <1>10, <1>11, <1>12, <1>13,
     <1>14, <1>15, <1>16, <1>17, <1>18, <1>19, <1>20, <1>21 DEF WorkerStep

\* AgentTypeOK: every variable keeps to its range, for any number of messages,
\* workers and faults; a worker that is not idle has a delivery to acknowledge
\* (run_agent_message, process_agent_message).
THEOREM AgentTypeCorrect == AgentSpec => [](AgentTypeOK /\ JobsHeld)
<1>1. AgentTypeOK /\ JobsHeld /\ [AgentNext]_agentVars => (AgentTypeOK /\ JobsHeld)'
  <2> SUFFICES ASSUME AgentTypeOK, JobsHeld, [AgentNext]_agentVars
               PROVE  AgentTypeOK' /\ JobsHeld'
    OBVIOUS
  <2>1. CASE UNCHANGED agentVars
    BY <2>1 DEF AgentTypeOK, JobsHeld, agentVars, rowVars, recVars, runVars
  <2> QED
    BY <2>1, MessageTyped, ReconcilerTyped, WorkerTyped DEF AgentNext
<1> QED
  BY InitTyped, <1>1, PTL DEF AgentSpec

-----------------------------------------------------------------------------
(* A run that believes it holds the lock holds it.                         *)

\* No run comes to believe that it holds a lock.
NoNewHolder ==
  \A v \in Workers :
    pc'[v] \in Owning /\ hold'[v] = "held" =>
      pc[v] \in Owning /\ hold[v] = "held" /\ job'[v] = job[v]

\* A step that leaves the locks and the runs alone keeps runs exclusive.
LEMMA StillExclusive ==
  ASSUME RunsExclusive, NoNewHolder, UNCHANGED lock
  PROVE  RunsExclusive'
  BY DEF RunsExclusive, NoNewHolder, InRun

\* Steps of requests, of the broker and of Valkey.
LEMMA MessageExclusive ==
  ASSUME AgentTypeOK, JobsHeld, RunsExclusive, NEW m \in Messages, MessageStep(m)
  PROVE  RunsExclusive'
<1> USE DEF rowVars, recVars, runVars, RunsExclusive, InRun
<1>1. CASE LockExpires(m)
  <2> SUFFICES ASSUME NEW v \in Workers, pc'[v] \in Owning, hold'[v] = "held"
               PROVE  lock'[job'[v].msg] = v
    OBVIOUS
  <2>1. UNCHANGED <<pc, job>> /\ lock' = [lock EXCEPT ![m] = "free"]
    BY <1>1 DEF LockExpires
  <2>2. hold'[v] = IF v = lock[m] /\ v \in Handling(m) /\ hold[v] = "held"
                   THEN "expired" ELSE hold[v]
    BY <1>1 DEF LockExpires
  <2>3. hold[v] = "held" /\ ~(v = lock[m] /\ v \in Handling(m))
    BY <2>2
  <2>4. lock[job[v].msg] = v
    BY <2>1, <2>3
  <2>5. job[v] # NoJob /\ job[v].msg \in Messages
    BY <2>1, JobTyped DEF Owning, Working, JobsHeld
  <2>6. job[v].msg # m
    BY <2>3, <2>4, <2>5 DEF Handling
  <2> QED
    BY <2>1, <2>4, <2>6
<1>2. CASE FinalizeAcquire(m)
  <2>1. UNCHANGED <<pc, job, hold>>
    BY <1>2 DEF FinalizeAcquire
  <2>2. \/ UNCHANGED lock
        \/ lock[m] = "free" /\ lock' = [lock EXCEPT ![m] = "finalizer"]
    BY <1>2 DEF FinalizeAcquire
  <2>3. "free" \notin Workers
    BY AgentAssumption DEF AgentAssumption
  <2> SUFFICES ASSUME NEW v \in Workers, pc[v] \in Owning, hold[v] = "held"
               PROVE  lock'[job[v].msg] = v
    BY <2>1
  <2>4. lock[job[v].msg] = v /\ job[v].msg \in Messages
    BY JobTyped DEF Owning, Working
  <2> QED
    BY <2>2, <2>3, <2>4 DEF AgentTypeOK
<1>3. CASE ~LockExpires(m) /\ ~FinalizeAcquire(m)
  <2>1. UNCHANGED <<lock, pc, job, hold>>
    BY <1>3 DEF MessageStep, AddMessage, ReadForRegenerate, Regenerate, Conflict, Dispatch,
       DispatchFails, ClaimExpires, Ages, RetryDue, RedispatchClaim
  <2> QED
    BY <2>1
<1> QED
  BY <1>1, <1>2, <1>3

\* Steps of the reconciler: the finalizer deletes its own lock only.
LEMMA ReconcilerExclusive ==
  ASSUME AgentTypeOK, RunsExclusive, ReconcilerStep
  PROVE  RunsExclusive'
<1> USE DEF rowVars, recVars, runVars, RunsExclusive, InRun
<1>1. UNCHANGED <<pc, job, hold>>
  BY DEF ReconcilerStep, ScanStale, FinalizeFail, ScanQueued, RedispatchPublish,
     RedispatchFails, ReconcilerRestarts
<1>2. CASE FinalizeFail
  <2>1. lock' = [lock EXCEPT ![at] = IF @ = "finalizer" THEN "free" ELSE @]
    BY <1>2 DEF FinalizeFail
  <2>2. "finalizer" \notin Workers
    BY AgentAssumption DEF AgentAssumption
  <2> QED
    BY <1>1, <2>1, <2>2 DEF AgentTypeOK
<1>3. CASE ~FinalizeFail
  <2>1. UNCHANGED lock
    BY <1>3 DEF ReconcilerStep, ScanStale, ScanQueued, RedispatchPublish,
       RedispatchFails, ReconcilerRestarts
  <2> QED
    BY <1>1, <2>1
<1> QED
  BY <1>2, <1>3

\* Steps of a worker: a lock is taken only when it is free, and freed only by
\* its owner.
LEMMA WorkerExclusive ==
  ASSUME AgentTypeOK, JobsHeld, RunsExclusive, NEW w \in Workers, WorkerStep(w)
  PROVE  RunsExclusive'
<1> USE DEF rowVars, recVars, runVars, Goto, End
<1>1. CASE Acquire(w)
  <2>1. /\ lock[job[w].msg] = "free" /\ job' = job
        /\ lock' = [lock EXCEPT ![job[w].msg] = w]
        /\ pc' = [pc EXCEPT ![w] = "owner"] /\ hold' = [hold EXCEPT ![w] = "held"]
    BY <1>1 DEF Acquire
  <2>2. job[w].msg \in Messages
    BY <1>1, JobTyped DEF Acquire
  <2>3. "free" \notin Workers
    BY AgentAssumption DEF AgentAssumption
  <2> QED
    BY <2>1, <2>2, <2>3 DEF RunsExclusive, InRun, AgentTypeOK
<1>2. CASE Unavailable(w)
  <2>1. /\ job' = job /\ hold' = hold
        /\ \/ UNCHANGED lock
           \/ lock[job[w].msg] = "free" /\ lock' = [lock EXCEPT ![job[w].msg] = w]
    BY <1>2 DEF Unavailable
  <2>2. pc' = [pc EXCEPT ![w] = IF pc[w] = "start" THEN "acking" ELSE "releasing"]
    BY <1>2 DEF Unavailable
  <2>3. pc[w] = "start" \/ pc[w] \in Owning
    BY <1>2 DEF Unavailable, Owning, Working
  <2>4. "acking" \notin Owning /\ "free" \notin Workers
    BY AgentAssumption DEF AgentAssumption, Owning, Working
  <2> SUFFICES ASSUME NEW v \in Workers, pc'[v] \in Owning, hold[v] = "held"
               PROVE  lock'[job[v].msg] = v
    BY <2>1 DEF RunsExclusive, InRun
  <2>5. pc[v] \in Owning
    BY <2>2, <2>3, <2>4 DEF AgentTypeOK
  <2>6. lock[job[v].msg] = v /\ job[v].msg \in Messages
    BY <2>5, JobTyped DEF RunsExclusive, InRun, Owning, Working
  <2> QED
    BY <2>1, <2>4, <2>6 DEF AgentTypeOK
<1>3. CASE Release(w)
  <2>1. /\ job' = job /\ hold' = [hold EXCEPT ![w] = "none"]
        /\ pc' = [pc EXCEPT ![w] = "acking"]
        /\ \/ UNCHANGED lock
           \/ lock[job[w].msg] = w /\ lock' = [lock EXCEPT ![job[w].msg] = "free"]
    BY <1>3 DEF Release
  <2>2. "acking" \notin Owning
    BY DEF Owning, Working
  <2> SUFFICES ASSUME NEW v \in Workers, pc'[v] \in Owning, hold'[v] = "held"
               PROVE  lock'[job[v].msg] = v
    BY <2>1 DEF RunsExclusive, InRun
  <2>3. v # w /\ pc[v] \in Owning /\ hold[v] = "held"
    BY <2>1, <2>2 DEF AgentTypeOK
  <2>4. lock[job[v].msg] = v /\ job[v].msg \in Messages
    BY <2>3, JobTyped DEF RunsExclusive, InRun, Owning, Working
  <2> QED
    BY <2>1, <2>3, <2>4 DEF AgentTypeOK
<1>4. CASE ~Acquire(w) /\ ~Unavailable(w) /\ ~Release(w)
  <2>1. UNCHANGED lock
    BY <1>4 DEF WorkerStep, Receive, Busy, DeleteClaim, Load, StartRun, NextEvent,
       SaveProgress, Done, DoneUnheard, RunFails, MarkFailed, MarkFailedFails, Republish,
       Acknowledge, Crash, GiveUp, HeartbeatNotices, HeartbeatFails
  <2>2. NoNewHolder
    <3> USE DEF AgentTypeOK, NoNewHolder, Owning, Working
    <3>1. CASE \E m \in Messages : Receive(w, m)
      <4>1. pc' = [pc EXCEPT ![w] = "start"] /\ UNCHANGED hold
        BY <3>1 DEF Receive
      <4>2. \E j : job' = [job EXCEPT ![w] = j]
        BY <3>1 DEF Receive
      <4> QED
        BY <4>1, <4>2
    <3>2. CASE Busy(w) \/ Acknowledge(w) \/ Crash(w) \/ GiveUp(w)
      <4>1. \/ pc' = [pc EXCEPT ![w] = "acking"]
            \/ pc' = [pc EXCEPT ![w] = "idle"]
        BY <3>2 DEF Busy, Acknowledge, Crash, GiveUp
      <4>2. \/ UNCHANGED hold
            \/ hold' = [hold EXCEPT ![w] = "none"]
        BY <3>2 DEF Busy, Acknowledge, Crash, GiveUp
      <4>3. \/ UNCHANGED job
            \/ job' = [job EXCEPT ![w] = NoJob]
        BY <3>2 DEF Busy, Acknowledge, Crash, GiveUp
      <4> QED
        BY <4>1, <4>2, <4>3
    <3>3. CASE HeartbeatNotices(w) \/ HeartbeatFails(w)
      <4>1. hold' = [hold EXCEPT ![w] = "lost"] /\ UNCHANGED <<pc, job>>
        BY <3>3 DEF HeartbeatNotices, HeartbeatFails
      <4> QED
        BY <4>1
    <3>4. CASE Republish(w)
      BY <3>4 DEF Republish
    <3>5. CASE \/ DeleteClaim(w) \/ Load(w) \/ StartRun(w) \/ NextEvent(w) \/ SaveProgress(w)
               \/ Done(w) \/ DoneUnheard(w) \/ RunFails(w) \/ MarkFailed(w) \/ MarkFailedFails(w)
      <4>1. UNCHANGED <<job, hold>>
        BY <3>5 DEF DeleteClaim, Load, StartRun, NextEvent, SaveProgress, Done, DoneUnheard,
           RunFails, MarkFailed, MarkFailedFails
      <4>2. pc[w] \in Owning /\ \E l : pc' = [pc EXCEPT ![w] = l]
        BY <3>5 DEF DeleteClaim, Load, StartRun, NextEvent, SaveProgress, Done, DoneUnheard,
           RunFails, MarkFailed, MarkFailedFails
      <4> QED
        BY <4>1, <4>2
    <3> QED
      BY <1>4, <3>1, <3>2, <3>3, <3>4, <3>5 DEF WorkerStep
  <2> QED
    BY <2>1, <2>2, StillExclusive
<1> QED
  BY <1>1, <1>2, <1>3, <1>4

\* RunsExclusive: a run whose heartbeat has not given the lock up, and under
\* which it has not run out, owns it; so no duplicate delivery, redelivery,
\* finalizer or release ever puts a second run beside it (run_agent_message).
THEOREM ExclusiveRuns == AgentSpec => []RunsExclusive
<1>1. AgentInit => RunsExclusive
  BY DEF AgentInit, RunsExclusive
<1>2. /\ AgentTypeOK /\ JobsHeld /\ RunsExclusive /\ [AgentNext]_agentVars
      => RunsExclusive'
  <2> SUFFICES ASSUME AgentTypeOK, JobsHeld, RunsExclusive, [AgentNext]_agentVars
               PROVE  RunsExclusive'
    OBVIOUS
  <2>1. CASE UNCHANGED agentVars
    BY <2>1 DEF RunsExclusive, InRun, agentVars, rowVars, recVars, runVars
  <2> QED
    BY <2>1, MessageExclusive, ReconcilerExclusive, WorkerExclusive DEF AgentNext
<1> QED
  BY <1>1, <1>2, AgentTypeCorrect, PTL DEF AgentSpec
=============================================================================
