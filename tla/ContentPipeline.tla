--------------------------- MODULE ContentPipeline ---------------------------
(***************************************************************************)
(* One uploaded file on its way from the upload to its summary: the file   *)
(* service and the content service (API requests), the task queue with its *)
(* duplicate guard, the GPU worker, the result stream and its consumer,    *)
(* the summary runner's write lock, and the watchdog with its reconciler.  *)
(*                                                                         *)
(* All but the worker share the status column of the content row.  A       *)
(* validated update reads the status in one statement and writes it in a   *)
(* later one that does not compare it again, so it is two actions here:    *)
(* StatusChecked (which leaves the decided status in goal) and             *)
(* StatusWritten.                                                          *)
(***************************************************************************)
EXTENDS ContentStatus, Naturals, Sequences, FiniteSets, SequencesExt

CONSTANTS
    Kinds,        \* the kinds of file looked at: "audio", "document"
    Requests,     \* API requests of the user, each of one operation
    Ops,          \* the operations they may ask for
    Ingest,       \* the upload, or the download of a video
    Consumer,     \* the result stream consumer of the backend
    Reconciler,   \* the watchdog's reconciler
    Nobody,       \* nobody holds the lock, or no job is registered
    MaxRetries,   \* retries of a worker task (3 in the code)
    MaxFaults     \* bound on crashes, lost workers, lock expiries, failing calls

Actors == Requests \union {Ingest, Consumer, Reconciler}
Jobs == Requests \union {Ingest}      \* a job bears the name of who enqueued it

ASSUME PipelineAssumption ==
    /\ Kinds \subseteq {"audio", "document"}
    /\ Ops \subseteq {"text", "download", "summary", "block", "delete"}
    /\ Cardinality({Ingest, Consumer, Reconciler, Nobody}) = 4
    /\ Requests \intersect {Ingest, Consumer, Reconciler, Nobody} = {}
    /\ MaxRetries \in Nat
    /\ MaxFaults \in Nat

VARIABLES
    kind,       \* content_type of the file
    status,     \* contents.status, or "deleted"
    text,       \* a text that is not blank is stored for the file
    sections,   \* summary_sections holds blocks
    key,        \* the job registered under active_job:<type>:<file>, or Nobody
    jobs,       \* the worker tasks: phase and retries
    stream,     \* results no consumer has been given
    pend,       \* results given to the consumer and not acknowledged
    at,         \* the entry of pend the consumer handles, or would handle next
    holder,     \* who holds lock:summary:write
    act,        \* what each actor runs (op), the step it is at (pc) and the
                \* status it decided to write (goal)
    kept,       \* history: the jobs whose result was stored
    faults      \* history: the faults so far, by kind

rowVars == <<kind, status, text, sections>>
queueVars == <<key, jobs>>
streamVars == <<stream, pend, at>>
historyVars == <<kept, faults>>
vars == <<rowVars, queueVars, streamVars, holder, act, historyVars>>

NoGoal == "none"
FaultKinds == {"crash", "worker", "lock", "call", "ending", "slow"}
Results == {"started", "completed", "empty", "failed"}
Entry == [job : Jobs, what : Results]
Job == [phase : {"none", "queued", "running", "over"}, tries : 0..MaxRetries]
Steps == {"idle", "over",
          "exists", "register",                              \* enqueue a job
          "download", "pulled", "unpulled",                  \* a video
          "requeue", "repull", "acquire", "cancel", "erase", \* requests
          "started", "store", "blank", "failed", "clear", "ack",
          "begin", "lock", "generate", "full", "partial", "giveup", "restore",
          "markfailed"}
Course == [op : {"none", "upload", "consume", "reconcile"} \union
                {"text", "download", "summary", "block", "delete"},
           pc : Steps,
           goal : Statuses \union {NoGoal}]

\* The steps that are a validated update_file_status, and those that are one
\* with validate=False.
Validated == {"pulled", "unpulled", "started", "store", "blank", "failed",
              "begin", "full", "partial", "giveup"}
Forced == {"requeue", "repull", "markfailed"}

\* The updates that take the row out of SUMMARIZING at the end of a summary.
Endings == {"full", "partial", "giveup", "restore"}

-----------------------------------------------------------------------------
(* Initial state: a file was uploaded (its row is QUEUED and its blank     *)
(* text row exists), or a video's placeholder row was made.                *)

At(op, pc) == [op |-> op, pc |-> pc, goal |-> NoGoal]

Uploaded ==
    /\ status = "QUEUED"
    /\ act = [a \in Actors |-> IF a = Ingest THEN At("upload", "exists")
                                             ELSE At("none", "idle")]

PlaceholderMade ==
    /\ kind = "audio"
    /\ status = "PULLING"
    /\ act = [a \in Actors |-> IF a = Ingest THEN At("download", "download")
                                             ELSE At("none", "idle")]

ContentInit ==
    /\ kind \in Kinds
    /\ Uploaded \/ PlaceholderMade
    /\ text = FALSE
    /\ sections = FALSE
    /\ key = Nobody
    /\ jobs = [j \in Jobs |-> [phase |-> "none", tries |-> 0]]
    /\ stream = <<>>
    /\ pend = <<>>
    /\ at = 1
    /\ holder = Nobody
    /\ kept = {}
    /\ faults = [k \in FaultKinds |-> 0]

-----------------------------------------------------------------------------
(* Steps of a procedure.                                                   *)

\* At rest nothing is left of the procedure.  The reconciler marks a file
\* whose summary it could not make as failed.
Goto(a, pc) ==
    act' = [act EXCEPT ![a] = [op |-> IF pc \in {"idle", "over"} THEN "none" ELSE @.op,
                               pc |-> pc,
                               goal |-> IF pc = "markfailed" THEN "SUMMARY_FAILED"
                                                             ELSE NoGoal]]

\* Where a procedure rests when it is over.
Rest(a) == IF a \in {Consumer, Reconciler} THEN "idle" ELSE "over"

\* The exception leaves the procedure: a request answers with an error, the
\* reconciler rolls back, the consumer goes on to the next entry and leaves
\* this one unacknowledged.
RaiseOut(a) == /\ Goto(a, Rest(a))
               /\ at' = IF a = Consumer THEN at + 1 ELSE at

\* DELETE holds the row until it commits.
RowFree == \A r \in Requests : act[r].pc # "erase"

\* One more fault may happen, and is counted.
TotalFaults == faults["crash"] + faults["worker"] + faults["lock"]
                   + faults["call"] + faults["ending"] + faults["slow"]
Fault(k) == /\ TotalFaults < MaxFaults
            /\ faults' = [faults EXCEPT ![k] = @ + 1]

\* The status a validated update is after.
Target(pc) == CASE pc = "pulled" -> "QUEUED"
                [] pc = "unpulled" -> "DOWNLOAD_FAILED"
                [] pc = "started" -> WorkingStatus(kind)
                [] pc = "store" -> "SUMMARY_QUEUED"
                [] pc = "begin" -> "SUMMARIZING"
                [] pc = "failed" -> FailedStatus(kind)
                [] pc \in {"blank", "full"} -> "COMPLETED"
                [] OTHER -> "SUMMARY_FAILED"

\* Where the procedure goes on once the status is set.
Follow(a) == LET pc == act[a].pc IN
    CASE pc = "started" -> "ack"
      [] pc \in {"blank", "failed"} -> "clear"
      [] pc = "store" -> IF pend[at].what = "empty" THEN "blank" ELSE "begin"
      [] pc = "begin" -> IF a = Reconciler THEN "generate" ELSE "lock"
      [] pc = "giveup" /\ a = Reconciler -> "markfailed"
      [] pc \in {"full", "partial", "giveup"} -> IF a = Consumer THEN "clear" ELSE Rest(a)
      [] pc \in {"pulled", "requeue"} -> "exists"
      [] pc = "repull" -> "download"
      [] OTHER -> Rest(a)

\* Faulty variant: a result that cannot be stored counts as handled.
HandlerSwallows(a) == LET pc == act[a].pc IN
    CASE pc \in {"full", "partial"} -> "giveup"
      [] pc = "begin" /\ a = Reconciler -> "giveup"
      [] pc = "pulled" -> "unpulled"
      [] pc = "store" -> "clear"
      [] OTHER -> "out"

\* The handler an exception of the update reaches, "out" when there is none.
Handler(a) == LET pc == act[a].pc IN
    CASE pc \in {"full", "partial"} -> "giveup"
      [] pc = "begin" /\ a = Reconciler -> "giveup"
      [] pc = "pulled" -> "unpulled"
      [] OTHER -> "out"

\* can_transition; a result that finds the row QUEUED passes through the
\* working status in the same transaction.
Legal(pc) == \/ CanTransition(status, Target(pc))
             \/ pc = "store" /\ status = "QUEUED"

\* The result is written in the transaction that sets SUMMARY_QUEUED.
KeepResult(a) ==
    IF act[a].pc = "store"
    THEN /\ text' = (pend[at].what = "completed")
         /\ kept' = kept \union {pend[at].job}
    ELSE UNCHANGED <<text, kept>>

-----------------------------------------------------------------------------
(* update_file_status.                                                     *)

\* The SELECT and the check.  The row is at the target already: nothing is
\* written.  It is gone: the update reports so and the caller does not look,
\* but to store a result or the row of a video's text then breaks a foreign
\* key.  The transition is illegal: InvalidTransitionError.
StatusChecked(a) ==
    LET pc == act[a].pc IN
    /\ pc \in Validated
    /\ act[a].goal = NoGoal
    /\ pc = "store" => RowFree
    /\ \/ /\ status = Target(pc)
          /\ Goto(a, Follow(a))
          /\ KeepResult(a)
          /\ UNCHANGED at
       \/ /\ status = "deleted"
          /\ pc # "store"
          /\ IF pc = "pulled" THEN Goto(a, "unpulled") ELSE Goto(a, Follow(a))
          /\ UNCHANGED <<text, kept, at>>
       \/ /\ status \notin {"deleted", Target(pc)}
          /\ Legal(pc)
          /\ act' = [act EXCEPT ![a].goal = Target(pc)]
          /\ UNCHANGED <<text, kept, at>>
       \/ /\ status # Target(pc)
          /\ ~Legal(pc)
          /\ status # "deleted" \/ pc = "store"
          /\ IF Handler(a) = "out" THEN RaiseOut(a)
                                   ELSE Goto(a, Handler(a)) /\ UNCHANGED at
          /\ UNCHANGED <<text, kept>>
    /\ UNCHANGED <<kind, status, sections, queueVars, stream, pend, holder, faults>>

\* The UPDATE and the commit.
StatusWritten(a) ==
    /\ act[a].pc \in Validated \union Forced
    /\ act[a].goal # NoGoal
    /\ RowFree
    /\ status' = IF status = "deleted" THEN "deleted" ELSE act[a].goal
    /\ KeepResult(a)
    /\ Goto(a, Follow(a))
    /\ UNCHANGED <<kind, sections, queueVars, streamVars, holder, faults>>

\* The database fails at the update or its commit, or the result to be stored
\* cannot be downloaded.  The handler may find the session broken and fail as
\* well, but for the consumer's, which opens another.  It is counted apart when
\* an update that was to end a summary fails and no handler makes another.
UpdateFails(a) ==
    /\ act[a].pc \in Validated \union Forced \union {"acquire", "restore", "erase"}
    /\ \/ /\ Handler(a) # "out"
          /\ Fault("call")
          /\ Goto(a, Handler(a))
          /\ UNCHANGED at
       \/ /\ Handler(a) = "out" \/ a # Consumer
          /\ Fault(IF act[a].pc \in Endings THEN "ending" ELSE "call")
          /\ RaiseOut(a)
    /\ UNCHANGED <<rowVars, queueVars, stream, pend, holder, kept>>

-----------------------------------------------------------------------------
(* The task queue adapter: check the key and send the task, then register  *)
(* the key.  (A check that is overtaken by another actor's registration    *)
(* has the effect of one that came before it, and a task that waits.)      *)

\* A key that exists: the job is skipped, and the caller is not told apart.
DuplicateSkipped(a) ==
    /\ act[a].pc = "exists"
    /\ key # Nobody
    /\ Goto(a, "over")
    /\ UNCHANGED <<rowVars, queueVars, streamVars, holder, historyVars>>

TaskSent(a) ==
    /\ act[a].pc = "exists"
    /\ key = Nobody
    /\ jobs' = [jobs EXCEPT ![a].phase = "queued"]
    /\ Goto(a, "register")
    /\ UNCHANGED <<rowVars, key, streamVars, holder, historyVars>>

JobRegistered(a) ==
    /\ act[a].pc = "register"
    /\ key' = a
    /\ Goto(a, "over")
    /\ UNCHANGED <<rowVars, jobs, streamVars, holder, historyVars>>

\* The broker cannot be reached.  A download treats it as its own failure,
\* an upload only logs it, a retry answers with an error.
EnqueueFails(a) ==
    /\ act[a].pc \in {"exists", "register"}
    /\ Fault("call")
    /\ Goto(a, IF act[a].op = "download" THEN "unpulled" ELSE "over")
    /\ UNCHANGED <<rowVars, queueVars, streamVars, holder, kept>>

-----------------------------------------------------------------------------
(* The upload and the video download.                                      *)

DownloadDone(a) ==
    /\ act[a].pc = "download"
    /\ Goto(a, "pulled")
    /\ UNCHANGED <<rowVars, queueVars, streamVars, holder, historyVars>>

DownloadFails(a) ==
    /\ act[a].pc = "download"
    /\ Goto(a, "unpulled")
    /\ UNCHANGED <<rowVars, queueVars, streamVars, holder, historyVars>>

-----------------------------------------------------------------------------
(* Requests of the user.                                                   *)

\* An update with validate=False is decided when the request is accepted.
Enters(a, op, pc, goal) ==
    act' = [act EXCEPT ![a] = [op |-> op, pc |-> pc, goal |-> goal]]

\* retry "asr" of an audio file and "ocr" of a document: only the first looks
\* at the status.
RetryText(r) ==
    /\ "text" \in Ops
    /\ act[r].pc = "idle"
    /\ status # "deleted"
    /\ kind = "audio" => status \in {"ASR_FAILED", "PROCESSING", "QUEUED"}
    /\ Enters(r, "text", "requeue", "QUEUED")
    /\ UNCHANGED <<rowVars, queueVars, streamVars, holder, historyVars>>

\* retry "download": whatever the status.
RetryDownload(r) ==
    /\ "download" \in Ops
    /\ act[r].pc = "idle"
    /\ status # "deleted"
    /\ kind = "audio"
    /\ Enters(r, "download", "repull", "PULLING")
    /\ UNCHANGED <<rowVars, queueVars, streamVars, holder, historyVars>>

\* retry "summary" needs a text.
RetrySummary(r) ==
    /\ "summary" \in Ops
    /\ act[r].pc = "idle"
    /\ status # "deleted"
    /\ text
    /\ Enters(r, "summary", "acquire", NoGoal)
    /\ UNCHANGED <<rowVars, queueVars, streamVars, holder, historyVars>>

\* regenerate_summary_block: the status found is the one to come back to.
RegenerateBlock(r) ==
    /\ "block" \in Ops
    /\ act[r].pc = "idle"
    /\ text /\ sections
    /\ status \in {"COMPLETED", "SUMMARY_FAILED"}
    /\ Enters(r, "block", "acquire", status)
    /\ UNCHANGED <<rowVars, queueVars, streamVars, holder, historyVars>>

\* try_acquire_summarizing_lock: one UPDATE that compares the status.
SummarizingAcquired(r) ==
    /\ act[r].pc = "acquire"
    /\ RowFree
    /\ status \in IF act[r].op = "block"
                  THEN {act[r].goal}
                  ELSE {"SUMMARY_QUEUED", "SUMMARY_FAILED", "COMPLETED"}
    /\ status' = "SUMMARIZING"
    /\ act' = [act EXCEPT ![r].pc = "lock"]
    /\ UNCHANGED <<kind, text, sections, queueVars, streamVars, holder, historyVars>>

SummarizingRefused(r) ==
    /\ act[r].pc = "acquire"
    /\ status \notin IF act[r].op = "block"
                     THEN {act[r].goal}
                     ELSE {"SUMMARY_QUEUED", "SUMMARY_FAILED", "COMPLETED"}
    /\ Goto(r, "over")
    /\ UNCHANGED <<rowVars, queueVars, streamVars, holder, historyVars>>

\* Faulty variant: an exception of the regeneration passes the restore by.
StatusRestoredIfDone(r) ==
    /\ act[r].pc = "restore"
    /\ RowFree
    /\ status' \in {status, IF status = "SUMMARIZING" THEN act[r].goal ELSE status}
    /\ Goto(r, "over")
    /\ UNCHANGED <<kind, text, sections, queueVars, streamVars, holder, historyVars>>

\* restore_summarizing_status: back to the status found, if the row is
\* SUMMARIZING.
StatusRestored(r) ==
    /\ act[r].pc = "restore"
    /\ RowFree
    /\ status' = IF status = "SUMMARIZING" THEN act[r].goal ELSE status
    /\ Goto(r, "over")
    /\ UNCHANGED <<kind, text, sections, queueVars, streamVars, holder, historyVars>>

\* delete_files_by_ids: the row is deleted, held until the commit; the tasks
\* the worker reports as active or reserved are revoked first, as far as it
\* answers.  A transaction that stores a result holds the row as well.
DeleteBegins(r) ==
    /\ "delete" \in Ops
    /\ act[r].pc = "idle"
    /\ status # "deleted"
    /\ RowFree
    /\ ~(act[Consumer].pc = "store" /\ act[Consumer].goal # NoGoal)
    /\ \E revoked \in SUBSET {j \in Jobs : jobs[j].phase \in {"queued", "running"}} :
          jobs' = [j \in Jobs |-> IF j \in revoked THEN [jobs[j] EXCEPT !.phase = "over"]
                                                   ELSE jobs[j]]
    /\ Enters(r, "delete", "erase", NoGoal)
    /\ UNCHANGED <<rowVars, key, streamVars, holder, historyVars>>

DeleteCommits(r) ==
    /\ act[r].pc = "erase"
    /\ status' = "deleted"
    /\ text' = FALSE
    /\ sections' = FALSE
    /\ Goto(r, "over")
    /\ UNCHANGED <<kind, queueVars, streamVars, holder, historyVars>>

-----------------------------------------------------------------------------
(* The summary runner: the write lock, the generator, and what the caller  *)
(* does with its outcome.                                                  *)

\* Where an exception of the runner takes its caller.
RunnerRaises(a) == IF act[a].op = "block" THEN "restore" ELSE "giveup"

\* Faulty variant: the lock is taken from whoever holds it.
LockStolen(a) ==
    /\ act[a].pc = "lock"
    /\ holder' = a
    /\ act' = [act EXCEPT ![a].pc = "generate"]
    /\ UNCHANGED <<rowVars, queueVars, streamVars, historyVars>>

\* The lock is tried once.
LockTaken(a) ==
    /\ act[a].pc = "lock"
    /\ holder = Nobody
    /\ holder' = a
    /\ act' = [act EXCEPT ![a].pc = "generate"]
    /\ UNCHANGED <<rowVars, queueVars, streamVars, historyVars>>

LockBusy(a) ==
    /\ act[a].pc = "lock"
    /\ holder # Nobody
    /\ act' = [act EXCEPT ![a].pc = RunnerRaises(a)]
    /\ UNCHANGED <<rowVars, queueVars, streamVars, holder, historyVars>>

\* A block is done, and all the blocks are written to the row.  The
\* reconciler's executor has no blocks.
BlockPersisted(a) ==
    /\ act[a].pc = "generate"
    /\ a # Reconciler
    /\ RowFree
    /\ status # "deleted"
    /\ ~sections
    /\ sections' = TRUE
    /\ UNCHANGED <<kind, status, text, queueVars, streamVars, holder, act, historyVars>>

\* The generator ends: every required block, some, or an exception.  The lock
\* is released if it is still the caller's.
GeneratorEnds(a) ==
    /\ act[a].pc = "generate"
    /\ holder' = IF holder = a THEN Nobody ELSE holder
    /\ \E pc \in IF act[a].op = "block" THEN {"restore"}
                 ELSE IF a = Reconciler THEN {"full", "giveup"}
                 ELSE {"full", "partial", "giveup"} :
          act' = [act EXCEPT ![a].pc = pc]
    /\ UNCHANGED <<rowVars, queueVars, streamVars, historyVars>>

\* The lock's 40 minutes are over, its holder alive or not.
LockExpires ==
    /\ holder # Nobody
    /\ Fault("lock")
    /\ holder' = Nobody
    /\ UNCHANGED <<rowVars, queueVars, streamVars, act, kept>>

-----------------------------------------------------------------------------
(* The worker (one task at a time, acknowledged when it is over).          *)

Result(j, what) == [job |-> j, what |-> what]
Phase(j, phase) == jobs' = [jobs EXCEPT ![j].phase = phase]
Retried(j) == jobs' = [jobs EXCEPT ![j] = [phase |-> "queued", tries |-> @.tries + 1]]

JobStarts(j) ==
    /\ jobs[j].phase = "queued"
    /\ \A i \in Jobs : jobs[i].phase # "running"
    /\ Phase(j, "running")
    /\ stream' = Append(stream, Result(j, "started"))
    /\ UNCHANGED <<rowVars, key, pend, at, holder, act, historyVars>>

\* The result is in the store before it is published.
JobSucceeds(j) ==
    /\ jobs[j].phase = "running"
    /\ Phase(j, "over")
    /\ \E what \in {"completed", "empty"} : stream' = Append(stream, Result(j, what))
    /\ UNCHANGED <<rowVars, key, pend, at, holder, act, historyVars>>

\* How often a failed attempt is published.  process_asr_task publishes the
\* last one, once.  process_ocr_task does the same, after the OCR processor
\* has published most failures of any attempt.
AsrFailures(last) == IF last THEN {1} ELSE {0}
OcrFailures(last) == IF last THEN {1, 2} ELSE {0, 1}
FailurePublished(j, last) ==
    \E n \in IF kind = "audio" THEN AsrFailures(last) ELSE OcrFailures(last) :
        stream' = stream \o [i \in 1..n |-> Result(j, "failed")]

JobRetries(j) ==
    /\ jobs[j].phase = "running"
    /\ jobs[j].tries < MaxRetries
    /\ Retried(j)
    /\ FailurePublished(j, FALSE)
    /\ UNCHANGED <<rowVars, key, pend, at, holder, act, historyVars>>

\* The last retry, or an error no retry would mend.
JobFails(j) ==
    /\ jobs[j].phase = "running"
    /\ Phase(j, "over")
    /\ FailurePublished(j, TRUE)
    /\ UNCHANGED <<rowVars, key, pend, at, holder, act, historyVars>>

\* The worker dies: the task is delivered again, even if it had published its
\* result.  Past its hard time limit it is killed and not delivered again.
WorkerLost(j) ==
    /\ jobs[j].phase = "running"
    /\ Fault("worker")
    /\ \/ Phase(j, "queued") /\ UNCHANGED stream
       \/ Phase(j, "queued") /\ stream' = Append(stream, Result(j, "completed"))
       \/ Phase(j, "over") /\ UNCHANGED stream
    /\ UNCHANGED <<rowVars, key, pend, at, holder, act, kept>>

-----------------------------------------------------------------------------
(* The result stream consumer: one entry after the other.                  *)

\* xreadgroup hands over what is in the stream (fewer than 10 entries within
\* these bounds).
ResultsRead ==
    /\ act[Consumer].pc = "idle"
    /\ at > Len(pend)
    /\ stream # <<>>
    /\ pend' = pend \o stream
    /\ stream' = <<>>
    /\ UNCHANGED <<rowVars, queueVars, at, holder, act, historyVars>>

FirstStep == [what \in Results |-> CASE what = "started" -> "started"
                                      [] what = "failed" -> "failed"
                                      [] OTHER -> "store"]

HandleResult ==
    /\ act[Consumer].pc = "idle"
    /\ at <= Len(pend)
    /\ act' = [act EXCEPT ![Consumer] = At("consume", FirstStep[pend[at].what])]
    /\ UNCHANGED <<rowVars, queueVars, streamVars, holder, historyVars>>

\* The two handlers differ in the statuses they set, Target(pc).
HandleAsrResult == kind = "audio" /\ HandleResult
HandleOcrResult == kind = "document" /\ HandleResult

\* clear_active_job deletes the key, whichever job registered it.
ActiveJobCleared ==
    /\ act[Consumer].pc = "clear"
    /\ key' = Nobody
    /\ Goto(Consumer, "ack")
    /\ UNCHANGED <<rowVars, jobs, streamVars, holder, historyVars>>

\* Faulty variant: the next entry is skipped.
AcknowledgedAndSkipped ==
    /\ act[Consumer].pc = "ack"
    /\ pend' = RemoveAt(pend, at)
    /\ at' = at + 1
    /\ Goto(Consumer, "idle")
    /\ UNCHANGED <<rowVars, queueVars, stream, holder, historyVars>>

Acknowledged ==
    /\ act[Consumer].pc = "ack"
    /\ pend' = RemoveAt(pend, at)
    /\ Goto(Consumer, "idle")
    /\ UNCHANGED <<rowVars, queueVars, stream, at, holder, historyVars>>

-----------------------------------------------------------------------------
(* The watchdog finds the file stuck, by the time of its last log line,    *)
(* and the reconciler handles the finding.  The time-outs are long: while  *)
(* the file is being worked on, a finding means that something is slow.    *)

Quiet == /\ \A a \in Actors : act[a].pc \in {"idle", "over"}
         /\ \A j \in Jobs : jobs[j].phase \in {"none", "over"}
         /\ stream = <<>>
         /\ at > Len(pend)

FoundStuck == \/ Quiet /\ UNCHANGED faults
              \/ ~Quiet /\ Fault("slow")

\* Faulty variant: a summary under way is left to its maker.
MarkAsFailedButSummary ==
    /\ act[Reconciler].pc = "idle"
    /\ FoundStuck
    /\ \/ status \in {"QUEUED", "PROCESSING", "OCR_PROCESSING"}
       \/ status = "SUMMARY_QUEUED" /\ ~text
    /\ Enters(Reconciler, "reconcile", "markfailed", FailureStateFor(status))
    /\ UNCHANGED <<rowVars, queueVars, streamVars, holder, kept>>

MarkAsFailed ==
    /\ act[Reconciler].pc = "idle"
    /\ FoundStuck
    /\ \/ status \in {"QUEUED", "PROCESSING", "OCR_PROCESSING", "SUMMARIZING"}
       \/ status = "SUMMARY_QUEUED" /\ ~text
    /\ Enters(Reconciler, "reconcile", "markfailed", FailureStateFor(status))
    /\ UNCHANGED <<rowVars, queueVars, streamVars, holder, kept>>

\* A summary that waits is made here, without the runner's lock.
RequeueLlmJob ==
    /\ act[Reconciler].pc = "idle"
    /\ FoundStuck
    /\ status = "SUMMARY_QUEUED"
    /\ text
    /\ Enters(Reconciler, "reconcile", "begin", NoGoal)
    /\ UNCHANGED <<rowVars, queueVars, streamVars, holder, kept>>

-----------------------------------------------------------------------------
(* The backend dies: uncommitted work is lost, the locks stay.  It starts  *)
(* again under the same name and reads its pending entries from the first, *)
(* or, in a new container, under another one, and nobody claims them.      *)

Crash ==
    /\ Fault("crash")
    /\ act' = [a \in Actors |-> IF act[a].pc = "idle" THEN act[a]
                                                     ELSE At("none", Rest(a))]
    /\ at' = 1
    /\ pend' \in {pend, <<>>}
    /\ UNCHANGED <<rowVars, queueVars, stream, holder, kept>>

-----------------------------------------------------------------------------
ActorStep(a) ==
    \/ StatusChecked(a) \/ StatusWritten(a)
    \/ DuplicateSkipped(a) \/ TaskSent(a) \/ JobRegistered(a)
    \/ DownloadDone(a) \/ DownloadFails(a)
    \/ LockTaken(a) \/ LockBusy(a) \/ GeneratorEnds(a)

RequestStep(r) ==
    \/ SummarizingAcquired(r) \/ SummarizingRefused(r) \/ StatusRestored(r)
    \/ DeleteCommits(r)

UserAsks(r) ==
    \/ RetryText(r) \/ RetryDownload(r) \/ RetrySummary(r) \/ RegenerateBlock(r)
    \/ DeleteBegins(r)

ConsumerStep ==
    \/ ResultsRead \/ HandleAsrResult \/ HandleOcrResult
    \/ ActiveJobCleared \/ Acknowledged

ReconcilerStep == MarkAsFailed \/ RequeueLlmJob

WorkerStep == \E j \in Jobs : JobStarts(j) \/ JobSucceeds(j) \/ JobRetries(j) \/ JobFails(j)

Faults == \/ \E a \in Actors : EnqueueFails(a) \/ UpdateFails(a)
          \/ \E j \in Jobs : WorkerLost(j)
          \/ LockExpires \/ Crash

ContentNext ==
    \/ \E a \in Actors : ActorStep(a) \/ BlockPersisted(a)
    \/ \E r \in Requests : RequestStep(r) \/ UserAsks(r)
    \/ ConsumerStep \/ ReconcilerStep \/ WorkerStep \/ Faults

ContentSpec == ContentInit /\ [][ContentNext]_vars

\* What has begun goes on, the worker works, and the backend's two loops turn.
\* Nothing is asked of the user, and no fault has to happen.
FairContentSpec ==
    /\ ContentSpec
    /\ \A a \in Actors : WF_vars(ActorStep(a))
    /\ \A r \in Requests : WF_vars(RequestStep(r))
    /\ WF_vars(ConsumerStep)
    /\ WF_vars(Quiet /\ ReconcilerStep)
    /\ WF_vars(WorkerStep)

-----------------------------------------------------------------------------
(* Properties.                                                             *)

\* Type invariant.
ContentTypeOK ==
    /\ kind \in Kinds
    /\ status \in Statuses \union {"deleted"}
    /\ text \in BOOLEAN
    /\ sections \in BOOLEAN
    /\ key \in Jobs \union {Nobody}
    /\ jobs \in [Jobs -> Job]
    /\ stream \in Seq(Entry)
    /\ pend \in Seq(Entry)
    /\ at \in 1..(Len(pend) + 1)
    /\ holder \in Actors \union {Nobody}
    /\ act \in [Actors -> Course]
    /\ kept \subseteq Jobs
    /\ faults \in [FaultKinds -> 0..MaxFaults]

\* A result the consumer is about to acknowledge was stored, whatever the
\* status did meanwhile: a retry, a deletion, the reconciler, a second
\* delivery, a failed summary (at-least-once handling, stream_consumer.start).
AckedResultKept ==
    (act[Consumer].pc \in {"clear", "ack"} /\ pend[at].what \in {"completed", "empty"})
        => pend[at].job \in kept

\* Two generators never write a file's blocks at once, but for as many locks
\* as expired under their holders (_summary_write_lock); crashes, the
\* reconciler and refused transitions in between do not let one more in.
GeneratorsExclude ==
    Cardinality({a \in Actors \ {Reconciler} : act[a].pc = "generate"})
        <= 1 + faults["lock"]

\* A file is in a phase of the summary only after a result of its was stored:
\* neither the reconciler nor a retried or late update brings it there.
TextBeforeSummary ==
    status \in {"SUMMARY_QUEUED", "SUMMARIZING", "SUMMARY_FAILED", "COMPLETED"}
        => kept # {}

\* While the row is SUMMARIZING someone is bound to take it out again, unless
\* the backend died, or the database failed at the update that was to take it out
\* and no handler made another: no other failure, and no interleaving of two
\* summaries, a block's regeneration (which restores the status it found) and the
\* reconciler leaves it there.
Summarizers == {a \in Actors : act[a].pc \in {"lock", "generate", "full", "partial",
                                              "giveup", "restore"}}
SummarizingOwned ==
    status = "SUMMARIZING" /\ faults["crash"] = 0 /\ faults["ending"] = 0
        => Summarizers # {}

\* A file that is being processed gets to a final status (or is deleted),
\* whatever is lost on the way: results, the worker, the backend, the lock.
\* A download the backend lost is the exception: the reconciler has no branch
\* for PULLING, and the file stays there.
FilesSettle ==
    status \in Processing \ {"PULLING"} ~> status \in Terminal \union {"deleted"}

\* The worker publishes a failure when it is final: the comments of
\* process_ocr_task and of the ASR processor.
FailureIsFinal ==
    \A i \in 1..Len(stream) :
        stream[i].what = "failed" => jobs[stream[i].job].phase = "over"
=============================================================================
