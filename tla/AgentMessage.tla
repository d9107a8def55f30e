---------------------------- MODULE AgentMessage ----------------------------
(***************************************************************************)
(* The assistant messages of one chat thread, from the request that        *)
(* persists one to the row that holds its answer: the API process          *)
(* (controllers/ai_chat_controller.py), the dispatch reconciler and the    *)
(* stale finalizer (services/agent_dispatcher.py), the Celery broker and   *)
(* the agent workers (tasks/agent_task.py), over the rows of PostgreSQL    *)
(* and the locks and claims of Valkey.                                     *)
(*                                                                         *)
(* A transaction or a Redis command is one action; everything may happen   *)
(* between two of them.  Time is not counted.  A lock or claim may expire  *)
(* whenever its TTL can have run out; of the lengths only one comparison   *)
(* is kept: the retry of a busy delivery (91 s) outlasts the lock (90 s)   *)
(* of a run that is already dead.                                          *)
(*                                                                         *)
(* A run is one call of run_agent_message.  The statuses analyzing,        *)
(* searching, thinking and generating are one, "working".                  *)
(***************************************************************************)
EXTENDS Naturals, Sequences, FiniteSets, Functions

CONSTANTS
    Messages,           \* the assistant messages of the thread
    Workers,            \* the processes of the agent worker
    Flushed,            \* whether the commit writes the merged _agent_job (see Persist)
    MaxDeliveries,      \* bound: deliveries of a message in the broker and at workers
    MaxFaults,          \* bound: crashes, stalls and outages in a behaviour
    NoJob,              \* what an idle worker works on
    NoMessage           \* what the reconciler is at between two messages

Delivery == [msg : Messages, tries : 0..1, state : {"ready", "delayed", "behind_dead"}]
Job == [msg : Messages, tries : 0..1]

ASSUME AgentAssumption ==
    /\ Flushed \subseteq BOOLEAN
    /\ MaxDeliveries \in Nat
    /\ MaxFaults \in Nat
    /\ NoJob \notin Job
    /\ NoMessage \notin Messages
    /\ Workers \cap {"free", "finalizer"} = {}

VARIABLES
    status,             \* AiMessage.status
    replaces,           \* metadata replaces_message_ids
    outbox,             \* the row has metadata _agent_job
    aged,               \* created_at is more than ACTIVE_JOB_TTL ago
    turns,              \* the messages in the order of created_at
    api,                \* the request that creates the message
    rec,                \* the phase of the reconciler's pass
    todo,               \* the messages its last query returned and it has not seen to
    at,                 \* the message it holds a lock or a claim for
    claim,              \* dispatched_agent_message:{id} exists
    lock,               \* the owner of lock:agent:message:{id}
    queue,              \* the deliveries in the broker
    pc,                 \* where a worker's run is
    job,                \* its delivery, not yet acknowledged
    hold,               \* its lock: held, expired unnoticed, or lock_lost is set
    verdict,            \* how process_agent_message ends
    faults,             \* the faults so far
    forsaken            \* history: messages whose delivery a fault destroyed for good

rowVars == <<status, replaces, outbox, aged, turns>>
recVars == <<rec, todo, at>>
runVars == <<pc, job, hold, verdict>>
agentVars == <<rowVars, api, recVars, claim, lock, queue, runVars, faults, forsaken>>

Working == {"loading", "starting", "running", "writing", "failing"}
Owning == Working \union {"owner", "releasing"}

AgentTypeOK ==
    /\ status \in [Messages -> {"absent", "queued", "working", "completed", "failed", "deleted"}]
    /\ replaces \in [Messages -> SUBSET Messages]
    /\ outbox \in [Messages -> BOOLEAN]
    /\ aged \in [Messages -> BOOLEAN]
    /\ turns \in Seq(Messages)
    /\ api \in [Messages -> {"none", "read", "committed", "claimed", "done"}]
    /\ rec \in {"finalize", "dispatch"}
    /\ todo \in SUBSET Messages
    /\ at \in Messages \union {NoMessage}
    /\ claim \in [Messages -> BOOLEAN]
    /\ lock \in [Messages -> Workers \union {"free", "finalizer"}]
    /\ queue \in [Delivery -> Nat]
    /\ pc \in [Workers -> Owning \union {"idle", "start", "acking"}]
    /\ job \in [Workers -> Job \union {NoJob}]
    /\ hold \in [Workers -> {"none", "held", "expired", "lost"}]
    /\ verdict \in [Workers -> {"ack", "lock_retry", "retry"}]
    /\ faults \in 0..MaxFaults
    /\ forsaken \in SUBSET Messages

AgentInit ==
    /\ status = [m \in Messages |-> "absent"]
    /\ replaces = [m \in Messages |-> {}]
    /\ outbox = [m \in Messages |-> FALSE]
    /\ aged = [m \in Messages |-> FALSE]
    /\ turns = <<>>
    /\ api = [m \in Messages |-> "none"]
    /\ rec = "dispatch" /\ todo = {} /\ at = NoMessage
    /\ claim = [m \in Messages |-> FALSE]
    /\ lock = [m \in Messages |-> "free"]
    /\ queue = [d \in Delivery |-> 0]
    /\ pc = [w \in Workers |-> "idle"]
    /\ job = [w \in Workers |-> NoJob]
    /\ hold = [w \in Workers |-> "none"]
    /\ verdict = [w \in Workers |-> "ack"]
    /\ faults = 0
    /\ forsaken = {}

-----------------------------------------------------------------------------
\* status in ACTIVE_ASSISTANT_STATUSES
Active(m) == status[m] \in {"queued", "working"}

\* The row that uq_ai_message_active_assistant_per_thread allows only once.
ActiveTurn == \E m \in Messages : Active(m)

\* get_last_message returns n.
LastMessage(n) ==
    \E i \in DOMAIN turns :
        /\ turns[i] = n /\ status[n] # "deleted"
        /\ \A j \in (i + 1)..Len(turns) : status[turns[j]] = "deleted"

\* The workers that have a delivery of m.
Handling(m) == {w \in Workers : job[w] # NoJob /\ job[w].msg = m}

Copies(m) == SumFunctionOnSet(queue, {d \in Delivery : d.msg = m}) + Cardinality(Handling(m))
Outstanding(m) == (\E d \in Delivery : d.msg = m /\ queue[d] > 0) \/ Handling(m) # {}

\* w is past the acquisition of the lock and has not released it.
InRun(w) == pc[w] \in Owning

\* The owner of the lock of m is there to extend and release it.
Attended(m) ==
    \/ lock[m] = "finalizer" /\ rec = "finalize" /\ at = m
    \/ \E w \in Handling(m) : lock[m] = w /\ InRun(w) /\ hold[w] = "held"

Fault == faults < MaxFaults /\ faults' = faults + 1
Smooth == UNCHANGED <<faults, forsaken>>

\* The delivery of the one retry behind a lock (_lock_retry_count = 1)
Second(m, state) == [msg |-> m, tries |-> 1, state |-> state]

\* The lock of m is gone: a retry sent off behind the lock of a dead run has
\* still to wait.
Outlasted(m) ==
    queue' = [queue EXCEPT
                 ![Second(m, "behind_dead")] = 0,
                 ![Second(m, "delayed")] = @ + queue[Second(m, "behind_dead")]]

\* enqueue_agent_job
Enqueue(m) ==
    /\ Copies(m) < MaxDeliveries
    /\ queue' = [queue EXCEPT ![[msg |-> m, tries |-> 0, state |-> "ready"]] = @ + 1]

-----------------------------------------------------------------------------
(* The requests: create_thread, add_message and regenerate_response, then  *)
(* _commit_and_enqueue_agent.                                              *)

\* The rows are inserted, _agent_job is merged into the metadata, and the
\* transaction commits.  update_message_metadata merges into the very dict the
\* row object already holds and assigns that dict back, and a plain JSONB column
\* is flushed only when its value differs from the one it had: as the code
\* stands nothing is written (Flushed = {FALSE}).
Persist(m, old) ==
    /\ ~ActiveTurn
    /\ status' = [status EXCEPT ![m] = "queued"]
    /\ replaces' = [replaces EXCEPT ![m] = old]
    /\ turns' = Append(turns, m)
    /\ \E written \in Flushed : outbox' = [outbox EXCEPT ![m] = written]
    /\ api' = [api EXCEPT ![m] = "committed"]
    /\ UNCHANGED aged

AddMessage(m) ==
    /\ api[m] = "none"
    /\ Persist(m, {})
    /\ Smooth /\ UNCHANGED <<recVars, claim, lock, queue, runVars>>

\* regenerate_response reads the last message; other requests may commit before
\* it does.
ReadForRegenerate(m) ==
    /\ api[m] = "none"
    /\ \E n \in Messages :
         /\ LastMessage(n) /\ ~Active(n)
         /\ replaces' = [replaces EXCEPT ![m] = {n} \union replaces[n]]
    /\ api' = [api EXCEPT ![m] = "read"]
    /\ Smooth /\ UNCHANGED <<status, outbox, aged, turns, recVars, claim, lock, queue, runVars>>

Regenerate(m) ==
    /\ api[m] = "read"
    /\ Persist(m, replaces[m])
    /\ Smooth /\ UNCHANGED <<recVars, claim, lock, queue, runVars>>

\* IntegrityError, for a new turn as for a regeneration: 409
Conflict(m) ==
    /\ api[m] \in {"none", "read"} /\ ActiveTurn
    /\ api' = [api EXCEPT ![m] = "done"]
    /\ Smooth /\ UNCHANGED <<rowVars, recVars, claim, lock, queue, runVars>>

\* dispatch_agent_job, called by the request
Dispatch(m) ==
    /\ \/ /\ api[m] = "committed" /\ ~claim[m]
          /\ claim' = [claim EXCEPT ![m] = TRUE]
          /\ api' = [api EXCEPT ![m] = "claimed"]
          /\ UNCHANGED queue
       \/ /\ api[m] = "committed" /\ claim[m]
          /\ api' = [api EXCEPT ![m] = "done"]
          /\ UNCHANGED <<claim, queue>>
       \/ /\ api[m] = "claimed"
          /\ Enqueue(m)
          /\ api' = [api EXCEPT ![m] = "done"]
          /\ UNCHANGED claim
    /\ Smooth /\ UNCHANGED <<rowVars, recVars, lock, runVars>>

\* The process dies, or Valkey or the broker fails: publish deferred.  A broker
\* error does not tell whether the job was queued.
DispatchFails(m) ==
    /\ api[m] \in {"committed", "claimed"}
    /\ Fault
    /\ api' = [api EXCEPT ![m] = "done"]
    /\ UNCHANGED queue \/ (api[m] = "claimed" /\ Enqueue(m))
    /\ UNCHANGED <<rowVars, recVars, claim, lock, runVars, forsaken>>

ClaimExpires(m) ==
    /\ claim[m]
    /\ claim' = [claim EXCEPT ![m] = FALSE]
    /\ Smooth /\ UNCHANGED <<rowVars, api, recVars, lock, queue, runVars>>

\* The row becomes older than the cutoff of the finalizer.
Ages(m) ==
    /\ Active(m) /\ ~aged[m]
    /\ aged' = [aged EXCEPT ![m] = TRUE]
    /\ Smooth
    /\ UNCHANGED <<status, replaces, outbox, turns, api, recVars, claim, lock, queue, runVars>>

-----------------------------------------------------------------------------
(* reconcile_agent_jobs_once: first finalize_stale_active_agent_messages,  *)
(* then dispatch_agent_job for the queued rows.  Both act on rows read     *)
(* before.  With nothing to do in "dispatch" the reconciler sleeps.        *)

\* Faulty variant: only queued rows are finalized.
ScanStaleQueued ==
    /\ rec = "dispatch" /\ at = NoMessage /\ todo = {}
    /\ rec' = "finalize"
    /\ todo' = {m \in Messages : status[m] = "queued" /\ aged[m]}
    /\ Smooth /\ UNCHANGED <<rowVars, api, at, claim, lock, queue, runVars>>

ScanStale ==
    /\ rec = "dispatch" /\ at = NoMessage /\ todo = {}
    /\ rec' = "finalize"
    /\ todo' = {m \in Messages : Active(m) /\ aged[m]}
    /\ Smooth /\ UNCHANGED <<rowVars, api, at, claim, lock, queue, runVars>>

FinalizeAcquire(m) ==
    /\ rec = "finalize" /\ at = NoMessage /\ m \in todo
    /\ todo' = todo \ {m}
    /\ \/ lock[m] = "free" /\ at' = m /\ lock' = [lock EXCEPT ![m] = "finalizer"]
       \/ lock[m] # "free" /\ UNCHANGED <<at, lock>>
    /\ Smooth /\ UNCHANGED <<rowVars, api, rec, claim, queue, runVars>>

\* fail_stale_active_assistant_message, and the release of the lock
FinalizeFail ==
    /\ rec = "finalize" /\ at # NoMessage
    /\ status' = [status EXCEPT ![at] = IF Active(at) THEN "failed" ELSE @]
    /\ lock' = [lock EXCEPT ![at] = IF @ = "finalizer" THEN "free" ELSE @]
    /\ at' = NoMessage
    /\ Smooth
    /\ UNCHANGED <<replaces, outbox, aged, turns, api, rec, todo, claim, queue, runVars>>

ScanQueued ==
    /\ rec = "finalize" /\ at = NoMessage /\ todo = {}
    /\ rec' = "dispatch"
    /\ todo' = {m \in Messages : status[m] = "queued" /\ outbox[m]}
    /\ Smooth /\ UNCHANGED <<rowVars, api, at, claim, lock, queue, runVars>>

\* dispatch_agent_job, called by the reconciler
RedispatchClaim(m) ==
    /\ rec = "dispatch" /\ at = NoMessage /\ m \in todo
    /\ todo' = todo \ {m}
    /\ \/ ~claim[m] /\ at' = m /\ claim' = [claim EXCEPT ![m] = TRUE]
       \/ claim[m] /\ UNCHANGED <<at, claim>>
    /\ Smooth /\ UNCHANGED <<rowVars, api, rec, lock, queue, runVars>>

RedispatchPublish ==
    /\ rec = "dispatch" /\ at # NoMessage
    /\ Enqueue(at)
    /\ at' = NoMessage
    /\ Smooth /\ UNCHANGED <<rowVars, api, rec, todo, claim, lock, runVars>>

RedispatchFails ==
    /\ rec = "dispatch" /\ at # NoMessage
    /\ Fault
    /\ UNCHANGED queue \/ Enqueue(at)
    /\ at' = NoMessage
    /\ UNCHANGED <<rowVars, api, rec, todo, claim, lock, runVars, forsaken>>

\* The API process restarts, or an error ends the pass.
ReconcilerRestarts ==
    /\ rec = "finalize" \/ todo # {} \/ at # NoMessage
    /\ Fault
    /\ rec' = "dispatch" /\ todo' = {} /\ at' = NoMessage
    /\ UNCHANGED <<rowVars, api, claim, lock, queue, runVars, forsaken>>

-----------------------------------------------------------------------------
(* Broker and locks.                                                       *)

\* A worker is handed a delivery; it stays unacknowledged (task_acks_late).
Receive(w, m) ==
    /\ pc[w] = "idle"
    /\ \E tries \in 0..1 :
         LET d == [msg |-> m, tries |-> tries, state |-> "ready"] IN
         /\ queue[d] > 0
         /\ queue' = [queue EXCEPT ![d] = @ - 1]
         /\ job' = [job EXCEPT ![w] = [msg |-> m, tries |-> tries]]
    /\ pc' = [pc EXCEPT ![w] = "start"]
    /\ Smooth /\ UNCHANGED <<rowVars, api, recVars, claim, lock, hold, verdict>>

\* The countdown of a retry ends.
RetryDue(m) ==
    /\ queue[Second(m, "delayed")] > 0
    /\ queue' = [queue EXCEPT ![Second(m, "delayed")] = @ - 1, ![Second(m, "ready")] = @ + 1]
    /\ Smooth /\ UNCHANGED <<rowVars, api, recVars, claim, lock, runVars>>

\* The TTL of the lock runs out: its owner is gone or no longer extends it, or
\* it has stalled for longer than the TTL.
LockExpires(m) ==
    /\ lock[m] # "free"
    /\ IF Attended(m) THEN Fault ELSE UNCHANGED faults
    /\ lock' = [lock EXCEPT ![m] = "free"]
    /\ hold' = [w \in Workers |->
                  IF w = lock[m] /\ w \in Handling(m) /\ hold[w] = "held"
                  THEN "expired" ELSE hold[w]]
    /\ Outlasted(m)
    /\ UNCHANGED <<rowVars, api, recVars, claim, pc, job, verdict, forsaken>>

\* _refresh_lock: extend() finds the lock gone, or fails, and sets lock_lost.
HeartbeatNotices(w) ==
    /\ pc[w] \in Working /\ hold[w] = "expired"
    /\ hold' = [hold EXCEPT ![w] = "lost"]
    /\ Smooth
    /\ UNCHANGED <<rowVars, api, recVars, claim, lock, queue, pc, job, verdict>>

HeartbeatFails(w) ==
    /\ pc[w] \in Working /\ hold[w] = "held"
    /\ Fault
    /\ hold' = [hold EXCEPT ![w] = "lost"]
    /\ UNCHANGED <<rowVars, api, recVars, claim, lock, queue, pc, job, verdict, forsaken>>

-----------------------------------------------------------------------------
(* run_agent_message                                                       *)

Goto(w, label) == pc' = [pc EXCEPT ![w] = label]
End(w, v) == Goto(w, "releasing") /\ verdict' = [verdict EXCEPT ![w] = v]

Acquire(w) ==
    /\ pc[w] = "start" /\ lock[job[w].msg] = "free"
    /\ lock' = [lock EXCEPT ![job[w].msg] = w]
    /\ hold' = [hold EXCEPT ![w] = "held"]
    /\ Goto(w, "owner")
    /\ Smooth /\ UNCHANGED <<rowVars, api, recVars, claim, queue, job, verdict>>

\* AgentMessageBusy
Busy(w) ==
    /\ pc[w] = "start" /\ lock[job[w].msg] # "free"
    /\ Goto(w, "acking")
    /\ verdict' = [verdict EXCEPT ![w] = "lock_retry"]
    /\ Smooth /\ UNCHANGED <<rowVars, api, recVars, claim, lock, queue, job, hold>>

DeleteClaim(w) ==
    /\ pc[w] = "owner"
    /\ claim' = [claim EXCEPT ![job[w].msg] = FALSE]
    /\ Goto(w, "loading")
    /\ Smooth /\ UNCHANGED <<rowVars, api, recVars, lock, queue, job, hold, verdict>>

\* _load_run
Load(w) ==
    /\ pc[w] = "loading"
    /\ \/ Active(job[w].msg) /\ Goto(w, "starting") /\ UNCHANGED verdict
       \/ status[job[w].msg] \in {"completed", "failed"} /\ End(w, "ack")
    /\ Smooth /\ UNCHANGED <<rowVars, api, recVars, claim, lock, queue, job, hold>>

\* Faulty variant: the update does not ask for an active row.
SaveAlways(m) == status' = [status EXCEPT ![m] = "working"]

\* update_active_assistant_message with an active status: from _save_status and
\* _save_partial; nothing is updated in a row that is already terminal.
SaveActive(m) == status' = [status EXCEPT ![m] = IF Active(m) THEN "working" ELSE @]

\* _save_status("analyzing"), or AgentMessageTerminal
StartRun(w) ==
    /\ pc[w] = "starting"
    /\ SaveActive(job[w].msg)
    /\ \/ Active(job[w].msg) /\ Goto(w, "running") /\ UNCHANGED verdict
       \/ ~Active(job[w].msg) /\ End(w, "ack")
    /\ Smooth
    /\ UNCHANGED <<replaces, outbox, aged, turns, api, recVars, claim, lock, queue, job, hold>>

\* The agent yields an event: lock_lost is looked at once, before it is handled.
NextEvent(w) ==
    /\ pc[w] = "running"
    /\ \/ hold[w] # "lost" /\ Goto(w, "writing") /\ UNCHANGED verdict
       \/ hold[w] = "lost" /\ End(w, "lock_retry")
    /\ Smooth /\ UNCHANGED <<rowVars, api, recVars, claim, lock, queue, job, hold>>

\* An event that only saves a status or a partial answer
SaveProgress(w) ==
    /\ pc[w] = "writing"
    /\ SaveActive(job[w].msg)
    /\ \/ Active(job[w].msg) /\ Goto(w, "running") /\ UNCHANGED verdict
       \/ ~Active(job[w].msg) /\ End(w, "ack")
    /\ Smooth
    /\ UNCHANGED <<replaces, outbox, aged, turns, api, recVars, claim, lock, queue, job, hold>>

\* Faulty variant: what the message replaces is deleted although it has been
\* settled meanwhile.
SaveCompletedLate(m) ==
    status' = [n \in Messages |->
                 IF n = m THEN (IF Active(m) THEN "completed" ELSE status[m])
                 ELSE IF n \in replaces[m] THEN "deleted"
                 ELSE status[n]]

\* _save_completed: one transaction completes the message and deletes what it
\* replaces.
SaveCompleted(m) ==
    status' = [n \in Messages |->
                 IF ~Active(m) THEN status[n]
                 ELSE IF n = m THEN "completed"
                 ELSE IF n \in replaces[m] THEN "deleted"
                 ELSE status[n]]

Done(w) ==
    /\ pc[w] = "writing"
    /\ SaveCompleted(job[w].msg)
    /\ End(w, "ack")
    /\ Smooth
    /\ UNCHANGED <<replaces, outbox, aged, turns, api, recVars, claim, lock, queue, job, hold>>

\* The commit reaches the database but its answer is lost: the run fails.
DoneUnheard(w) ==
    /\ pc[w] = "writing" /\ hold[w] # "lost"
    /\ Fault
    /\ SaveCompleted(job[w].msg)
    /\ Goto(w, "failing")
    /\ UNCHANGED <<replaces, outbox, aged, turns, api, recVars, claim, lock, queue, job, hold,
                   verdict, forsaken>>

\* except Exception: from the agent, from the database, or from _load_run
\* because the row is gone
RunFails(w) ==
    /\ pc[w] \in {"loading", "starting", "running", "writing"}
    /\ \/ hold[w] # "lost" /\ Goto(w, "failing") /\ UNCHANGED verdict
       \/ hold[w] = "lost" /\ End(w, "lock_retry")
    /\ Smooth /\ UNCHANGED <<rowVars, api, recVars, claim, lock, queue, job, hold>>

\* Faulty variant: the row is given the name of the event, "error".
MarkFailedError(w) ==
    /\ pc[w] = "failing"
    /\ status' = [status EXCEPT ![job[w].msg] = IF Active(job[w].msg) THEN "error" ELSE @]
    /\ End(w, "ack")
    /\ Smooth
    /\ UNCHANGED <<replaces, outbox, aged, turns, api, recVars, claim, lock, queue, job, hold>>

\* _save_status("failed", content=AGENT_FAILURE_CONTENT)
MarkFailed(w) ==
    /\ pc[w] = "failing"
    /\ status' = [status EXCEPT ![job[w].msg] = IF Active(job[w].msg) THEN "failed" ELSE @]
    /\ End(w, "ack")
    /\ Smooth
    /\ UNCHANGED <<replaces, outbox, aged, turns, api, recVars, claim, lock, queue, job, hold>>

\* suppress(Exception): the database refuses that write too.
MarkFailedFails(w) ==
    /\ pc[w] = "failing"
    /\ Fault
    /\ forsaken' = forsaken \union {job[w].msg}
    /\ End(w, "ack")
    /\ UNCHANGED <<rowVars, api, recVars, claim, lock, queue, job, hold>>

\* RedisError becomes AgentMessageUnavailable.  When it comes from acquire(), the
\* lock may have been set all the same, and nobody will release it.
Unavailable(w) ==
    /\ pc[w] \in {"start", "owner", "running"}
    /\ Fault
    /\ Goto(w, IF pc[w] = "start" THEN "acking" ELSE "releasing")
    /\ verdict' = [verdict EXCEPT ![w] = "retry"]
    /\ \/ UNCHANGED lock
       \/ /\ pc[w] = "start" /\ lock[job[w].msg] = "free"
          /\ lock' = [lock EXCEPT ![job[w].msg] = w]
    /\ UNCHANGED <<rowVars, api, recVars, claim, queue, job, hold, forsaken>>

\* Faulty variant: the lock is deleted whoever owns it.
ReleaseAnyones(w) ==
    /\ pc[w] = "releasing"
    /\ lock' = [lock EXCEPT ![job[w].msg] = "free"]
    /\ hold' = [hold EXCEPT ![w] = "none"]
    /\ Goto(w, "acking")
    /\ UNCHANGED <<rowVars, api, recVars, claim, queue, job, verdict, faults, forsaken>>

\* finally: lock.release() frees the lock only for its owner; a RedisError is
\* suppressed, and is the same outage if the run ended for one.
Release(w) ==
    /\ pc[w] = "releasing"
    /\ \/ /\ lock[job[w].msg] = w
          /\ lock' = [lock EXCEPT ![job[w].msg] = "free"]
          /\ Outlasted(job[w].msg)
          /\ UNCHANGED faults
       \/ lock[job[w].msg] # w /\ UNCHANGED <<lock, queue, faults>>
       \/ /\ IF verdict[w] = "retry" THEN UNCHANGED faults ELSE Fault
          /\ UNCHANGED <<lock, queue>>
    /\ hold' = [hold EXCEPT ![w] = "none"]
    /\ Goto(w, "acking")
    /\ UNCHANGED <<rowVars, api, recVars, claim, job, verdict, forsaken>>

-----------------------------------------------------------------------------
(* process_agent_message                                                   *)

\* Faulty variant: the countdown is shorter than the TTL of a dead run's lock.
RepublishTooSoon(w) ==
    /\ pc[w] = "acking"
    /\ verdict[w] = "lock_retry" /\ job[w].tries = 0
    /\ queue' = [queue EXCEPT ![Second(job[w].msg, "delayed")] = @ + 1]
    /\ verdict' = [verdict EXCEPT ![w] = "ack"]
    /\ Smooth /\ UNCHANGED <<rowVars, api, recVars, claim, lock, pc, job, hold>>

\* self.retry: after 91 s with _lock_retry_count 1, once; after 5 s as it was.
Republish(w) ==
    /\ pc[w] = "acking"
    /\ LET m == job[w].msg
           state == IF verdict[w] = "retry" THEN "ready"
                    ELSE IF lock[m] = "free" \/ Attended(m) THEN "delayed" ELSE "behind_dead"
       IN \/ /\ verdict[w] = "lock_retry" /\ job[w].tries = 0
             /\ queue' = [queue EXCEPT ![Second(m, state)] = @ + 1]
          \/ /\ verdict[w] = "retry"
             /\ queue' = [queue EXCEPT ![[msg |-> m, tries |-> job[w].tries,
                                          state |-> state]] = @ + 1]
    /\ verdict' = [verdict EXCEPT ![w] = "ack"]
    /\ Smooth /\ UNCHANGED <<rowVars, api, recVars, claim, lock, pc, job, hold>>

\* The run is over, or "lock_unresolved"
Acknowledge(w) ==
    /\ pc[w] = "acking"
    /\ verdict[w] = "ack" \/ (verdict[w] = "lock_retry" /\ job[w].tries = 1)
    /\ job' = [job EXCEPT ![w] = NoJob]
    /\ verdict' = [verdict EXCEPT ![w] = "ack"]
    /\ Goto(w, "idle")
    /\ Smooth /\ UNCHANGED <<rowVars, api, recVars, claim, lock, queue, hold>>

\* The worker process is killed.  A lost worker has its delivery put back
\* (task_reject_on_worker_lost).
Crash(w) ==
    /\ pc[w] # "idle"
    /\ Fault
    /\ queue' = [queue EXCEPT ![[msg |-> job[w].msg, tries |-> job[w].tries,
                                 state |-> "ready"]] = @ + 1]
    /\ job' = [job EXCEPT ![w] = NoJob]
    /\ hold' = [hold EXCEPT ![w] = "none"]
    /\ verdict' = [verdict EXCEPT ![w] = "ack"]
    /\ Goto(w, "idle")
    /\ UNCHANGED <<rowVars, api, recVars, claim, lock, forsaken>>

\* The delivery is gone: task_time_limit kills the run and acknowledges it, or
\* the retries are used up or cannot be published.
GiveUp(w) ==
    /\ pc[w] # "idle"
    /\ Fault
    /\ forsaken' = forsaken \union {job[w].msg}
    /\ job' = [job EXCEPT ![w] = NoJob]
    /\ hold' = [hold EXCEPT ![w] = "none"]
    /\ verdict' = [verdict EXCEPT ![w] = "ack"]
    /\ Goto(w, "idle")
    /\ UNCHANGED <<rowVars, api, recVars, claim, lock, queue>>

-----------------------------------------------------------------------------
MessageStep(m) ==
    \/ AddMessage(m) \/ ReadForRegenerate(m) \/ Regenerate(m) \/ Conflict(m)
    \/ Dispatch(m) \/ DispatchFails(m)
    \/ ClaimExpires(m) \/ Ages(m) \/ RetryDue(m) \/ LockExpires(m)
    \/ FinalizeAcquire(m) \/ RedispatchClaim(m)

ReconcilerStep ==
    \/ ScanStale \/ FinalizeFail \/ ScanQueued
    \/ RedispatchPublish \/ RedispatchFails \/ ReconcilerRestarts

WorkerStep(w) ==
    \/ \E m \in Messages : Receive(w, m)
    \/ Acquire(w) \/ Busy(w) \/ DeleteClaim(w) \/ Load(w) \/ StartRun(w)
    \/ NextEvent(w) \/ SaveProgress(w) \/ Done(w) \/ DoneUnheard(w)
    \/ RunFails(w) \/ MarkFailed(w) \/ MarkFailedFails(w) \/ Unavailable(w)
    \/ Release(w) \/ Republish(w) \/ Acknowledge(w) \/ Crash(w) \/ GiveUp(w)
    \/ HeartbeatNotices(w) \/ HeartbeatFails(w)

AgentNext ==
    \/ \E m \in Messages : MessageStep(m)
    \/ ReconcilerStep
    \/ \E w \in Workers : WorkerStep(w)

AgentSpec == AgentInit /\ [][AgentNext]_agentVars

\* The processes run, leases run out, and the broker hands out what it holds; an
\* agent run ends (its model calls time out), a finalizer that comes back again
\* and again finds the lock free at last.
AgentFairness ==
    /\ \A m \in Messages :
         /\ WF_agentVars(Dispatch(m)) /\ WF_agentVars(ClaimExpires(m))
         /\ WF_agentVars(RetryDue(m))
         /\ WF_agentVars(LockExpires(m) /\ ~Attended(m))
         /\ SF_agentVars(FinalizeAcquire(m) /\ lock[m] = "free")
    /\ WF_agentVars(\E m \in Messages : FinalizeAcquire(m) \/ RedispatchClaim(m))
    /\ WF_agentVars(ScanStale \/ FinalizeFail \/ ScanQueued \/ RedispatchPublish)
    /\ \A w \in Workers :
         /\ WF_agentVars(\E m \in Messages : Receive(w, m))
         /\ WF_agentVars(\/ Acquire(w) \/ Busy(w) \/ DeleteClaim(w) \/ Load(w) \/ StartRun(w)
                         \/ NextEvent(w) \/ MarkFailed(w) \/ Release(w) \/ Republish(w)
                         \/ Acknowledge(w))
         /\ WF_agentVars(HeartbeatNotices(w))
         /\ SF_agentVars(Done(w) \/ RunFails(w))

\* With and without the 7200 s that make a message stale.
PromptAgentSpec == AgentSpec /\ AgentFairness
FairAgentSpec == PromptAgentSpec /\ \A m \in Messages : WF_agentVars(Ages(m))

-----------------------------------------------------------------------------
(* What the hand-off promises.                                             *)

\* Whatever is delivered twice, crashes or outlives its lock, a thread has one
\* answer in the making, an answer settles once and for all, and a replaced one
\* disappears in the very step that completes its replacement
\* (update_active_assistant_message, _save_completed, the unique index).
Lifecycle ==
    INSTANCE MessageLifecycle WITH
        state    <- [m \in Messages |-> IF Active(m) THEN "active" ELSE status[m]],
        replaced <- [m \in Messages |-> IF status[m] = "absent" THEN {} ELSE replaces[m]]
ImplementsLifecycle == Lifecycle!LifecycleSpec

\* Two runs of one message can be under way only if the lock ran out under one of
\* them or its heartbeat gave the lock up: no duplicate delivery, redelivery or
\* release lets a second run in beside one that holds the lock
\* (run_agent_message, finalize_stale_active_agent_messages).
RunsExclusive ==
    \A w \in Workers : InRun(w) /\ hold[w] = "held" => lock[job[w].msg] = w

\* Regenerating never loses an answer: what was replaced was replaced by an
\* answer that is complete (replaces_message_ids, _save_completed).
NoAnswerLost ==
    \A m \in Messages : status[m] = "deleted" =>
        \E n \in Messages : status[n] = "completed" /\ m \in replaces[n]

\* One crash, stall or outage never leaves a message that is being worked on
\* without a delivery, or the finalizer at work on it: the redelivery of a crashed
\* run finds the dead run's lock, and its single retry outlasts it
\* (process_agent_message).  What forsakes a message is the time limit, a lost
\* retry, or a refused failure write.
OneFaultSurvived ==
    \A m \in Messages :
        status[m] = "working" /\ faults <= 1 /\ m \notin forsaken =>
            Outstanding(m) \/ (rec = "finalize" /\ at = m)

\* Every accepted message gets an answer or a failure, be its deliveries lost,
\* forsaken or never published: the finalizer is the last resort.
EveryTurnSettles == \A m \in Messages : Active(m) ~> ~Active(m)

\* A queued message that no delivery carries after its request is through is
\* enqueued again before it is stale (docs/workflow-ai-chat.md on the dispatch
\* reconciler; "durable outbox record" in _commit_and_enqueue_agent).
QueuedRepublished ==
    \A m \in Messages :
        (status[m] = "queued" /\ api[m] = "done" /\ ~Outstanding(m))
            ~> (Outstanding(m) \/ aged[m])
=============================================================================
