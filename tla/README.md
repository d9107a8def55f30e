# TLA+ specifications of inuself

inuself is a self-hosted assistant: a browser front end, a FastAPI backend, an
agent worker (Celery), a GPU worker that transcribes and summarises uploads, and
an AI gateway that shares a few inference providers between all of them.  These
modules model the parts of it whose correctness depends on the order in which
things happen.  Paths below are relative to the repository root.

Contents: 1 inventory, 2 plan, 3 the provider pool, 4 the chat route, 5 the agent
hand-off, 6 the stream of an answer and the thread cache, 7 the content pipeline,
8 the summary of a file, 9 one answer of the agent, 10 runs and bounds, 11 fairness,
12 proofs, 13 where code and documents disagree, 14 not modelled.

## 1. Inventory

| component | state | operations | hard behaviour | correct when |
|---|---|---|---|---|
| **Provider pool** `infra/ai-gateway/services/provider_pool.py` | per provider: health, in-flight count, probe and request failures, circuit and its cooldown, half-open flag; the leases; the callers blocked on one condition variable | acquire, acquire_explicit, release, record_success, record_failure, probe | callers interleave at every await; wake-ups; late outcomes of old leases; a trial per cooldown | slots are exactly the leases out; the flag of a trial never outlives it; nobody sleeps beside a free slot; every caller gets an answer before its deadline |
| **Local chat route** `infra/ai-gateway/routes/chat.py` | per handler: the providers tried, whether the explicit one is still to be tried, whether a 429 was seen | choose, acquire, open upstream, fail over, stream, cancel, clean up | failover before the first output, none after it; ten ways out, each with its own clean-up | no provider twice, no wider scope, no leaked slot, the right answer, only real failures counted |
| **Serverless routing, media, embeddings, telemetry** of the gateway | none shared | proxying | none | a function of the request |
| **Agent hand-off** `backend/app/controllers/ai_chat_controller.py`, `services/agent_dispatcher.py`, `tasks/agent_task.py`, `repositories/thread_repository.py` | message rows (status, replaced messages, outbox marker), claims and locks in Valkey, deliveries in the broker, the worker's run and its heartbeat | accept a turn, regenerate, dispatch, reconcile, finalize, run, save, retry, release, acknowledge | crash of API or worker, lost and repeated deliveries, expiring locks, zombie runs, commits whose answer is lost | one turn per thread at work; a message settles once; one fault never strands it; regenerating loses no answer |
| **SSE relay** `ai_chat_controller.py:184-305` | last partial and sequence sent | subscribe, replay, forward, ping | events before the subscription, run restarted, row polled between events | the client ends with the row's content |
| **Thread service and cache** `backend/app/services/thread_service.py` | rows; cached threads | read through, invalidate | fill after invalidation | no read older than the last commit for longer than needed |
| **Agent graph** `backend/app/agents/` | `GraphState` of one run: mode, search results, retry count, time budget | classify, search, evaluate, rewrite, fall back, retrieve, reason, generate, reflect, under two drivers | two loops that count the same retries differently; a clock that cuts them short; results that outlive their rejection | the answer rests on judged results, the sources shown are its own, the run stays within its limits |
| **Chat stream client** `frontend/src/shared/services/chatStreamService.ts` | reader, reconnect attempt | read, reconnect, resume, cancel | answer finished while disconnected | every token once, every answer found |
| **Chat store** `frontend/src/shared/stores/chatStore.ts` | thread, messages, stream, abort controller, polling | send, regenerate, cancel, switch, poll | callbacks of an aborted stream, switch and return | callbacks change only the thread they belong to |
| **Content pipeline**: `state_machines/`, `services/stream_consumer.py`, `services/state_watchdog.py`, `services/state_reconciler.py`, `services/content_service.py`, `utils/task_queue_adapter.py`, `worker/` | status of a file and a content, result stream, active-job keys | upload, transcribe, summarise, translate, retry, reconcile | lost and late results, two writers of one status, stuck states | only legal transitions; nothing is stuck for ever; one job per file |
| **Summary and translation runners** `services/block_generator.py`, `summary_runner.py`, `translation_runner.py` | the state of the blocks, the row it is saved to, `lock:summary:write` | rounds of generation, incremental save, regeneration of a block | concurrent sections, saves that fail, siblings that outlive their round, a lock that expires under its run | what succeeded is kept, who writes without the lock, sections of one outline, the lock given back |
| **Media cache, sessions, progress events, search, ingestion, quality tools, migrations, infrastructure, pages** | small or none | sequential calls | little | see `PROJECT.json`, which gives the reason for each |

How they interact.  The browser posts a turn to the backend; the backend commits
the rows and enqueues the job; the agent worker runs it, calling models through
the gateway, saving progress to the row and publishing events that the relay
forwards to the browser.  The gateway's chat route takes leases from the pool,
which probes the providers in the background.  Uploads go through the task queue
to the GPU worker, whose results come back on a Redis stream to the consumer; a
watchdog repairs what stops on the way.  The rows in PostgreSQL, the locks,
claims and caches in Valkey and the broker are the only state shared between
processes.

`PROJECT.json` lists under "hazards" the places where this goes wrong if it does,
each with the properties that watch it.

## 2. Plan

Written in this order:

1. `ProviderPool` (the pool), `MCProviderPool`, `ProviderPoolProofs`;
2. `GatewayChat` (the route over the pool, implementing `PoolSpec`),
   `MCGatewayChat`, `GatewayChatProofs`;
3. `MessageLifecycle` (what a thread promises about its answers) and
   `AgentMessage` (the hand-off, implementing it), `MCAgentMessage`,
   `AgentMessageProofs`, `AgentLifecycleProofs`;
4. `ContentStatus` (the transition table of a file) and `ContentPipeline` (upload,
   worker, consumer, requests, reconciler over it), `MCContentPipeline`,
   `ContentPipelineProofs`;
5. `MessageStream` (run, relay and reconnecting client), `MCMessageStream`,
   `MessageStreamProofs`;
6. `ThreadCache` (read-through cache of a thread), `MCThreadCache`;
7. `SummaryRun` (the rounds of a summary, its regenerations and the lock between
   them), `MCSummaryRun`, `SummaryRunProofs`;
8. `SearchQuality` (the gates of the search evaluator) and `AgentAnswer` (the nodes
   and the two drivers of the agent over them), `MCAgentAnswer`, `AgentAnswerProofs`.

Open: the message list of the browser's store (optimistic turns, polling, switching
threads), and serverless routing as operators.

## 3. The provider pool (`ProviderPool`)

Each method of `ProviderPool` runs its critical section under one
`asyncio.Condition` with no await but `Condition.wait()`, so each is one action.
The fields of `ProviderState` are the variables of the same names;
`circuit_open_until` is split into `circuit_open` (it is not 0.0) and `cooldown`
(ticks until it is past).  A lease is held by a caller; a caller that is blocked
is in `waiting` with its candidate list, the ticks to its deadline, the ticks to
its timer, and whether it was notified.

| action | code |
|---|---|
| `AcquireGrant`, `AcquireNoHealthy`, `AcquireBlock` | first pass of `_acquire_from` |
| `RecheckGrant`, `RecheckNoHealthy`, `RecheckBlock` | a pass after a wake-up |
| `AdmissionExpires`, `AdmissionCancelled` | the deadline, or `CancelledError`, while blocked |
| `Release`, `RecordSuccess`, `RecordFailure` | the methods of these names |
| `Probe` | `_probe`, with either outcome |
| `Tick` | the event loop's clock |

Abstractions: the lists a policy yields are the constant `SpecLists`; a grant takes
the first candidate that fits, in list order, as the scan does;
failure counters stop at the threshold, beyond which the code does not tell them
apart; disabled providers are left out of every list.  A caller arrives only when
every provider has been probed once: `start()` awaits the first probes before the
gateway serves.

## 4. The chat route (`GatewayChat`)

The callers of the pool are the request handlers.  Each step of a handler that
touches the pool is a pool action conjoined with the handler's own assignments;
`trail` is a history of the providers it opened and what came of each.  The list a
handler asks with is described, not computed: the eligible providers in the order
of their route (`Candidates`, `InRouteOrder`), which is one list because the policy
names no provider twice in a route.
`Arrive`, `Select`, `Admission`, `WaitCancelled`, `OpenEnds` (five outcomes), `StreamEnds`,
`StreamBreaks`, `StreamCancelled`, `Close` follow `_handle_local` and
`generate()`.  The clean-up between an outcome and the release is a state of its
own ("closing"), since the upstream is closed in between.

Assumed: closing an upstream takes less than a tick; clean-up is not itself
cancelled, and the server runs every generator it is given.  The first is only
granularity.  The second is a real dependency of the code on its server: a
cancellation inside the `except` branch, or a response never started, would leak
a slot (two hazards without a property name the lines).

## 5. The agent hand-off (`MessageLifecycle`, `AgentMessage`)

`AgentMessage` models one thread: the rows, the request that creates a message,
the reconciler with the finalizer of stale messages, the broker and the workers.
One database transaction or one Valkey command is one action.  A run of
`run_agent_message` is the sequence start, owner, loading, starting, running,
writing, failing, releasing, acking of `pc`.

| state | code |
|---|---|
| `status`, `replaces`, `outbox`, `aged`, `turns` | the `ai_messages` rows: status, `replaces_message_ids`, `_agent_job`, age against `ACTIVE_JOB_TTL`, `created_at` order |
| `api` | progress of `_commit_and_enqueue_agent` |
| `rec`, `todo`, `at` | the pass of `reconcile_agent_jobs_once` and the rows it read |
| `claim`, `lock` | `dispatched_agent_message:{id}`, `lock:agent:message:{id}` |
| `queue`, `job` | deliveries in the broker, and the one a worker has not acknowledged |
| `hold` | the worker's view of its lock, which may differ from the lock |
| `faults`, `forsaken` | bookkeeping: how many faults happened, which messages a fault left without delivery |

Time is not counted: a claim or lock may expire as soon as it could have run out
(a lock under a live run only as a fault: its heartbeat renews it).  Of the
lengths one comparison matters and is kept: a busy delivery is retried after
91 s, a dead run's lock lasts 90 s.  Such a delivery is in the state
"behind_dead" and becomes due only when that lock has gone, whether it ran out or
the run, still alive behind a heartbeat that gave up, released it.

Faults are explicit and bounded by `MaxFaults`: a crash of a worker or of the
API, a lock that expires under a stalled worker, a heartbeat or a database that
does not answer, a commit whose answer is lost, a delivery destroyed by the time
limit or by exhausted retries.

`Flushed` says whether the outbox marker reaches the database.
`update_message_metadata` changes the dict the row already holds and assigns it
back; SQLAlchemy compares a plain JSONB value with itself and writes nothing.
`Flushed = {FALSE}` is the code as it stands, `{TRUE}` what it means to do; the
safety runs allow both, so what they show survives the repair.

Merged: the four working statuses are "working"; a claim's length is not counted
and its `expire` after the publication is part of the publication.

`MessageLifecycle` is the abstract specification: accepting, completing and
failing a message, a completion deleting in the same step what it replaces.
`ImplementsLifecycle` maps "queued" and "working" to "active".

Observed while modelling: the document's `active_agent_thread:{thread_id}` key
does not exist; the partial unique index `uq_ai_message_active_assistant_per_thread`
does what it describes.  A message whose worker crashes twice has its second
redelivery acknowledged as `lock_unresolved`: it stays working until the
finalizer, 7200 s later.  `OneFaultSurvived` is therefore about one fault, and
`EveryTurnSettles` about any number.

## 6. The stream of an answer and the thread cache (`MessageStream`, `ThreadCache`)

`MessageStream` follows one answer from the worker's run to the pages that show it.

| state | code |
|---|---|
| `status`, `answer`, `partial`, `saved` | the row: status, `content`, `partial_content`, `_content_sequence` |
| `run`, `pc`, `made` | the current `run_agent_message`, where it is, its `content_sequence` |
| `relay`, `events`, `persisted`, `restored` | the locals of `_relay_agent_events` and what its subscription holds |
| `kind`, `phase`, `tries`, `accepted` | the client: POST or GET, open, waiting or ended, attempts, message id known |
| `shown`, `result` | `streaming.currentMessage`, and the content of the completed message |

The worker's actions are those of the run that a page can notice: a token, a
partial save and its event, completion and `done`, failure and `error`.  Any
publication may be lost.  A run may be lost between any two steps, and another
starts from nothing while the row keeps the partial text of the first; the
finalizer may fail the message without an event.  Tokens carry the number of their
run, so that `ShownInOrder` can tell a repetition from a second run.

One step for two: the relay's `yield` and the client's handling of it.  What a
broken connection loses is what the relay had not forwarded.  Not here: two runs of
one message side by side (in `AgentMessage` the lock excludes them, up to the time
a heartbeat needs to notice), a message deleted while it is relayed.

`ThreadCache` has the rows, the key `ai:thread:{id}`, the request that writes a
turn (flush, invalidate, commit), the worker's write of an outcome, and overlapping
calls of `get_thread` (call, look up, read, fill).  Behaviours are shorter than the
24 hours of the entry.  Its one property is what the docstring promises, and the
code does not keep it (section 13).

## 7. The content pipeline (`ContentStatus`, `ContentPipeline`)

`ContentStatus` is the table of `ContentStateMachine`.  `ContentPipeline` takes one
uploaded file through it.  Everybody but the worker writes the status column:

| actor | procedures |
|---|---|
| `Ingest` | the upload that enqueues, or the download of a video from its placeholder row |
| `Requests` | retry of the text, the download or the summary, a block's regeneration, deletion |
| `Consumer` | one result after the other from the Redis stream: started, completed, empty, failed |
| `Reconciler` | a finding of the watchdog: mark as failed, or make the waiting summary |

Each actor is a procedure at a step (`act[a].pc`) with the status it has decided to
write (`act[a].goal`).  `update_file_status` is two actions, `StatusChecked` and
`StatusWritten`, because the row is not compared again when it is written; a
transition the table forbids is the exception whose handler `Handler` names.  An
UPDATE that compares (`try_acquire_summarizing_lock`,
`restore_summarizing_status`) is one action.  A result and the status that goes
with it are written in one transaction.  The worker's tasks (`jobs`) are
acknowledged late: a lost worker's task is delivered again even when it had
published its result.

Merged: the check of the duplicate key and the send (an actor that registers in
between leaves the same states as one that came first); log rows, titles and the
progress events, on which no decision depends.  The `active_job` key does not
expire in a behaviour, nor does a queue revoke a task it has not reported.

`UpdateFails` is a database that fails at an update or at its commit (or a result that
cannot be downloaded), at any step that writes the row.  The exception goes where a
refused transition's goes, to `Handler` or out; a request or the reconciler, whose
handler goes on with the same session, may also fail in it, the consumer's handler
opens a session of its own.  `Endings` are the updates that take the row out of
SUMMARIZING, the give-up and the restore of a block's status among them: when one of
them fails and no handler makes another, the row stays SUMMARIZING with nobody to
take it out.  That failure is counted apart ("ending"): `SummarizingOwned` excepts it
and a crash of the backend, and no other; `FilesSettle` excepts neither, the watchdog
finds the file.

`Quiet` says that nobody is working on the file.  The watchdog goes by the time of
the last log line: a finding while the file is not quiet means that something was
slower than 30 to 60 minutes, and counts as a fault ("slow").

Observed while modelling, beside section 13: a key registered after its task has
already finished and been cleared (`setex` after `send`) makes the next retry a
no-op that answers "started", until the key expires; the file is then failed by the
watchdog and not before.  A retried OCR or download does not look at the status, so a user can send a completed
file back to QUEUED; the code means that.  `CANCELLED` is never set.

## 8. The summary of a file (`SummaryRun`)

`ContentPipeline` takes the generation of a summary as one step with any outcome;
`SummaryRun` opens it.  A run is a call of `summarize_with_block_generator` or of
`regenerate_block`.

| state | code |
|---|---|
| `sections`, `lock` | `contents.summary_sections`, `lock:summary:write` |
| `outlived` | the runs whose lock expired under them |
| `pc`, `round` | where the run is in `generate`, and its round |
| `mem` | its `SectionsState`: the status of title, keywords and headings, and the sections |
| `left`, `ok`, `copy` | the blocks of the group still to be reported, whether the group's answer was whole, the state the run is saving |
| `task`, `draft` | the coroutines handed to `asyncio.gather`, and the states they are saving |

| action | code |
|---|---|
| `SummaryStarts`, `RegenerateStarts`, `Refused`, `Released` | `summary_write_lock` around the two entry points; what `regenerate_block` resets |
| `LockExpires` | the 40 minutes of the lock are over, and its holder is not |
| `RoundBegins`, `RoundsSpent`, `RoundEnds` | the loop of `generate` |
| `GroupAnswered`, `BlockReported`, `GroupReported` | `_run_metadata_group` |
| `SectionsBegin`, `SectionCalled`, `SectionAnswered` | `_expand_dynamic_blocks`, `_run_sections_group`, `_gated`, `_one` |
| `GroupStored`, `GroupStoreFails`, `SectionStored`, `SectionStoreFails` | `_persist`, called by the run or by one of its tasks |

A section remembers the run whose headings it was made from (`label`), so that
sections of two outlines can be told apart.  `_persist` takes the state when it is
called and writes it after an await: `copy` and `draft` are these snapshots.  When a
save raises, `gather` raises with it and the run ends; its siblings are not
cancelled, and go on as tasks of a run that has given the lock back.

The lock is taken for 40 minutes and never extended, and nothing keeps a run below
them: `generate` looks at its 30 minutes at the head of a round
(`block_generator.py:221`) and then waits up to 600 s and makes a whole round of
calls.  So from its first round on a run may lose the lock at any time
(`LockExpires`), and another may start beside it; it goes on and saves, but begins
no further round (`RoundBegins`), and its release leaves the other's lock alone
(`Released`).  `StoresLocked` therefore does not say that only the holder writes: it
says who else may, a run that outlived its lock or the siblings of one that raised,
and that neither of them takes the lock from under the run beside it.  What the two
do to the row is bounded by `SectionsOfOneOutline` and `SuccessKept` only.

Two things the module shows by what it does not claim.  The saves of two sections
may reach the row in either order, and the later one may carry the older snapshot
(`summary_runner.py:73`); the next save, or the file the run returns, repairs the
text but not always the row.  And regenerating the title makes new headings while
the sections of the old ones stay: `SectionsOfOneOutline` is about the sections
among themselves.

Abstractions: time is not counted, so the 30 minutes may be over at the head of any
round but the first, and the lock's 40 at any step from the first round on; blocks a
group call left out are marked as failed at once and reported one by one.

## 9. One answer of the agent (`SearchQuality`, `AgentAnswer`)

In `AgentMessage` a run of the agent is any sequence of events; `AgentAnswer` opens
it.  The agent worker drives the nodes with the loop of `stream_ai_agent`;
`run_ai_agent` drives the same nodes with the LangGraph workflows of
`create_ai_graph_with_retry` and `create_ai_graph`.  `request.driver` says which.

| state | code |
|---|---|
| `request` | the arguments: driver, retry, reflection, mode, documents attached, follow-up, question |
| `mode`, `search_results`, `search_retry_count` | the fields of `GraphState` |
| `at` | the node to run next; "answering" while the tokens are sent |
| `late` | `deadline` is less than 30 s away |
| `shown` | the last `sources` event, or the sources returned |
| `searches`, `steps` | history: web searches, and nodes the workflow has counted |

| action | code |
|---|---|
| `ParseIntent` | `IntentParserNode`, with `_quick_classify`, and the follow-up that skips the search |
| `Search`, `Evaluate`, `Rewrite`, `Fallback`, `Retrieve`, `Reason`, `Generate`, `Reflect` | the nodes of these names, with what the driver does next |
| `LeaveLoop` | the head of the streaming loop: attempts used up, or the budget |
| `StartTokens`, `FinishTokens`, `TokensFail` | `GeneratorNode.stream` and the `except` of the driver |
| `BudgetRunsOut` | the clock |

A question is the set of marker words it holds, a list of results the figures
`SearchQuality` judges it by, the number of the search it came from, and whether it
holds internal documents.  The nodes await one another, so that the
nondeterminism is all in the language model, the search and the clock.  A node
that fails catches its exception, except the streamed generator and reasoner.

Observed while modelling:

- The streaming loop makes `max_retries` searches, the workflow one more.
- The fallback of the streaming loop may set the mode to RAG, and the generator then
  answers in RAG mode without a retrieval (`graph.py:951`); the workflow retrieves
  (`route_after_fallback`), and the node announces it (`fallback_handler.py:63`).
  "찾아줘" with "내 문서" makes such a question: it is classified as a web search first.
- `docs/architecture-v1.3.0.md:452` sends a HYBRID search that used up its attempts to
  the fallback; both drivers send it to the retriever, with the rejected results.
- The last gate of the evaluator can never close (`OverallGateIdle`).
- Without a property, since no property of the run depends on them:
  `fallback_message` and `clarification_question` are read by nobody; a rewrite
  may repeat the queries that have just failed, as `failed_queries` gets them only
  afterwards; the reflection asked of the streaming driver is ignored.

## 10. Runs and bounds

| run | question | bounds | states |
|---|---|---|---|
| `pool` | are slots, trials, circuits and wake-ups right in every order, and does every blocked caller get an answer? | 3 callers, a probed provider with 2 slots and an unprobed one with 1, threshold 2, cooldown 2, deadline 2 | 128 thousand |
| `chat` | failover, scope, slots, answers, use of the pool; is every request answered? | 2 handlers, one slot each on a local and a remote provider, 3 kinds of request (local as a stream, remote allowed, explicit), all times 1 | 341 thousand |
| `agent_safety` | locks, redeliveries, retries, finalizer, one settlement | 1 message, 2 workers, 2 deliveries, 2 faults | 1.3 million |
| `agent_settles` | does every turn settle, and does regenerating keep an answer? | 2 messages, 1 worker, 1 delivery, 1 fault, `Flushed = {FALSE}` | 241 thousand |
| `agent_outbox` | is a lost publication repeated? **violated** | 1 message, 1 fault, `Flushed = {FALSE}` | - |
| `content_safety` | results kept, one generator, no summary before its text, no orphaned SUMMARIZING | both kinds of file, 1 request of any kind, 1 fault, no worker retry | 2.1 million |
| `content_settles` | does every file settle? | an audio file, 1 summary request, 1 worker retry, 1 fault | 149 thousand |
| `ocr_retry` | is a published failure final? **violated** | a document, 1 retry, no fault | - |
| `message_stream` | order, stored answer, explained errors, end of the stream | 1 page, 2 attempts, 2 runs of 2 tokens, 3 faults | 246 thousand |
| `thread_cache` | is a settled answer read as settled? **violated** | 2 readers, 2 turns | - |
| `summary_run` | who writes the row, is a success kept, is the lock given back? | 2 runs, 2 rounds, 2 sections, 1 at a time, 1 failing save, either lock may expire | 712 thousand |
| `agent_answer` | what an answer rests on, what is shown beside it, how long a run may take | both drivers, every mode, 3 retries, 25 steps, 7 questions, results at and just below each gate | 55 thousand |

Why they suffice.  The pool's interactions are between a holder, a sleeper and a
newcomer (3 callers) over a provider that can be partly full (2 slots) and one
that cannot; two cooldown ticks and two deadline ticks, with a cooldown that may be half over,
let a timer be shorter than or equal to the deadline.  Two handlers compete for one slot
and fail over in both directions; a stream does not fail over once it has begun, and
the route's theorems hold for streams of every kind of request.  Two workers and
two deliveries are a run and its duplicate; two faults are a fault and a second one
in the handling of the first.  Two messages are a turn and its regeneration.  In the
pipeline one request beside the upload, the consumer and the reconciler makes
four writers of one status; a single request may come at any moment, and a fault
lets the reconciler or a second delivery in beside it.  Two runs of two tokens are
the least in which a text can be out of order within a run and mixed between
runs; three faults spend both attempts and lose one event.  Two summary runs are a
run and the one that takes the lock after it; two rounds of two sections let one
section fail, its sibling outlive the round, and a round repeat what failed.  The
agent's run has the retries and the step limit of the code itself, and needs no
smaller ones.  The theorems of section 12 remove the bounds for the safety of the
pool, of the route, of the hand-off, of the pipeline, of the stream, of the summary
and of the agent's run.

`CHECK_DEADLOCK FALSE` stands in runs whose system may stop: every message
settled, every file final, every page served.  Symmetry is used only in runs
without liveness properties.

Every property has, in `PROJECT.json`, a mutant: a faulty variant of one
definition, kept in the module beside the true one and marked "Faulty variant",
with which the run must fail.

## 11. Fairness

- Pool and route: weak fairness of each task the event loop can run (it runs
  every ready task) and of the clock.  In `GatewayChat` the clock has strong
  fairness: it is only disabled while streams are being closed, and time passes
  between two closings.  No fairness makes a client go
  away (`AdmissionCancelled`, `WaitCancelled`).  An upstream answers or times out
  (`OpenEnds`); a stream may last for ever, and `EveryRequestAnswered` does not say it ends.
- Hand-off: weak fairness of each process's steps, of the broker's delivery and of
  expiry of leases nobody renews.  A run ends (`Done` or `RunFails`, strongly
  fair: model calls have time-outs).  The finalizer is strongly fair in finding a
  lock free: it comes every few seconds.  A message grows old only in
  `FairAgentSpec`; `PromptAgentSpec`, without it, asks for repair before the
  7200 s have passed.  Faults are never fair.
- Stream: weak fairness of the worker's step (a run ends, the finalizer passes),
  of each relay's loop and of the client's timers.  Nothing obliges a user to
  leave, and no fault has to happen.
- Summary: weak fairness of each run once begun and of each of its tasks (the
  gateway answers or times out, the database answers); starts, failing saves and the
  lock's expiry are never fair: `LockReturned` does not count on the clock.
- Pipeline: weak fairness of each actor's procedure once begun, of the consumer's
  loop, of the worker, and of the reconciler while the file is quiet.  Requests and
  faults are never fair.

## 12. Proofs

`tlapm` checks the following for every value of the constants that meets
`PoolAssumption`, `ChatAssumption`, `AgentAssumption`, `StreamAssumption`,
`PipelineAssumption`, `SummaryAssumption`, `AnswerAssumption` and `StepsAssumption`.

`ProviderPoolProofs`:
- `TypeCorrect`: one lemma per operation, then a case split over `Next`.
- `CapacitySafe` from `CapacityInv`: the count alone is not inductive, since a
  grant to a caller that already holds a lease would count it twice; the
  invariant adds that a blocked caller holds nothing.  `HoldersAfterGrant` and
  `HoldersAfterRelease` reduce the cardinalities to adding and removing one
  element.
- `CircuitCounts` and `TrialOwned` from `CircuitInv`: a set flag needs an open
  circuit, an open circuit a counter at its threshold, and a failure finds the
  counter there only if the next one opens the circuit and clears the flag.
- `WakeupSafe`: inductive with the type invariant alone; the lemmas say which
  steps can make a provider fit for someone (`GrantGainsNothing`,
  `NotifiedWakes`, `TickWakes`).

`GatewayChatProofs`:
- `PoolImplemented`: every step of a handler is a step of the pool or leaves it
  alone, so the four theorems above hold beneath the route.
- `ChatInv` says what is true of a handler at each of its steps: it holds a slot
  exactly while it tries the last provider of its trail (`Slot`); its trail is
  within what it attempted, and the list it waits with holds only providers it may
  still try (`Tried`); the outcomes so far fit what will follow (`Explained`).
  `NoSecondTry` and `ScopeRespected` alone are not inductive: the list of a blocked
  request was chosen at an earlier step.  A step of one handler keeps the lease and
  the list of every other (`PoolKeeps`, `HandlerKeeps`), so each action is proved for
  its own handler only.
- `ChatTypeCorrect`, `NoProviderTwice`, `ScopeKept`, `SlotsReturned`,
  `AnswersExplained` follow from it; `FailuresCounted` from it and from what each
  pool operation does to the counters.

`AgentMessageProofs`:
- `AgentTypeCorrect` with `JobsHeld` (a worker is idle exactly when it has no
  delivery), which typing the queue needs: a republished delivery is built from
  the job.
- `ExclusiveRuns`: a worker in its run that believes it holds the lock does.

`AgentLifecycleProofs`:
- `RowSteps` reduces every step to what it does to the rows: nothing, a new turn,
  a status among the active ones, a failure, or a completion with its deletions.
- `AnswersKept` from `TurnInv`: a row appears only with its request's commit;
  what a message replaces is settled and stays so; a message that replaces
  another takes over the whole list the other replaced.  Without the last part
  the only answer that replaced a deleted one could itself be deleted.
- `LifecycleImplemented`: initial states map to initial states and, by `RowSteps`,
  every step maps to a step of `MessageLifecycle` or a stutter.
- `FaultSurvived` (the property `OneFaultSurvived`) from `SurvivalInv`.  That a
  delivery is left says nothing of what becomes of it, so the property is not
  inductive; `Survives(m)` says by the number of faults what carries the message
  on.  Without a fault (`Calm`) a lock has its run, every run holds its lock, and a
  free lock leaves only first attempts.  After one fault (`StrayFirst`) only a first
  attempt can run without its lock, so one retry is left; `Carried` names what takes
  the message further: the finalizer about to settle it, a run with its lock, the
  first delivery still to come, a retry behind the lock of a dead run, or a free
  lock with the retry near.  `AckedOver`: whoever acknowledges has settled it.
  `NothingYet` gives a message that does not exist nothing to survive.  A step of
  another message is `Unseen`: at most it deletes the row or publishes the message
  again.

`ContentPipelineProofs`:
- `ContentControl` and `ContentTypeCorrect` from `ControlInv`: an actor is at a step
  of the operation it is in, with a status that step may write, and the entry the
  consumer handles is in its list.  The types alone are not inductive: what a step
  writes was decided at an earlier one.
- `ContentSummarizingOwned`: inductive with `ControlInv`.  `SideStepLeaves`: nobody
  who owes the file its way out of SUMMARIZING is taken from it by the steps of
  others.  `UpdateFailsKeepsOwner`: a failing update hands the duty to its handler,
  unless it was the last one, which the claim excepts as it does a crash.
- `ContentTextBeforeSummary` from `LateAfterResult`: also an actor already past the
  check of a status of the summary has a stored result behind it.
- `ContentAckedResultKept` from `HandledInOrder`: at each step of the handler the
  entry is of the kind the step is for, and past the storing its result is kept.
- `ContentGeneratorsExclude` from `LocksLost`: the generators without the lock are at
  most as many as locks expired.  Two generators at once need an expiry; that the
  set is finite is part of the invariant, `Requests` being any set.
- `AsrFailureIsFinal` from `SentOnce` (a job is sent at most once, by the actor that
  bears its name): what `FailureIsFinal` says holds of a recording.  It is the
  document tasks that break it (section 13, `ocr_retry`), and now provably only they.

`MessageStreamProofs` (under `StreamAssumption`):
- `StreamTypeCorrect`, one lemma per action.
- `AnswerStored` and `ErrorsExplained` from `CompletionInv` (a `done` event on its
  way carries the answer of a completed row; a completed row does not change) and
  `ErrorInv` (an error event on its way was published by a run that saved its
  failure, or met a fault; a client has spent at most one attempt per fault).
- `TokensInOrder` from `OrderInv`: what a subscription still holds for a relay,
  appended to what the page shows and cut by the persisted sequence, is in order
  for each run.  `ShownInOrder` alone says nothing of what is on its way, and
  would not survive the next event.

`SummaryRunProofs`:
- `SummaryTypeCorrect` and `OneOutlineStored` from `DataInv` and `ControlInv`: every
  state in memory, in the row or on its way there is `Whole` (its sections share an
  outline, and headings that succeeded are some run's).  The row alone is not
  inductive: what is stored next is in a snapshot.
- `WritesLocked` from `LockInv`: a run between its start and its release holds the
  lock or has outlived it, and one that leaves its round in good order has no task
  left.
- `SuccessesKept` from `TaskInv`: a task at work is on a section that has not
  succeeded; `BodySteps` and `TaskSteps` reduce every step to what it does to the
  sections and the tasks.

`AgentAnswerProofs`:
- `AnswerTypes`, `JudgedResults`, `ShownSources` and `BoundedRun` from `AnswerInv`.
  The bounds alone are not inductive: `AttemptsCounted` ties the number of searches
  to the retry count node by node (equal before a search, one apart after it),
  `StepsCounted` ties the workflow's steps to the retry count, `ResultsKnown` and
  `ShownKnown` say what the results and the sources can be at each node.
- `StepsAssumption` (`3 * MaxRetries + 7 <= StepLimit`) is what the workflow needs of
  LangGraph's limit: three steps for each retry and seven more.  The default of 25
  allows six retries; the code asks for three.
- `OverallGateIdle`: count, quality and relevance at their thresholds make 61 points,
  and the last gate asks for 55.

Every invariant and action property a passing run checks is so proved.  Only
model-checked: liveness (`AdmissionResolves`, `EveryRequestAnswered`,
`EveryTurnSettles`, `FilesSettle`, `StreamSettles`, `LockReturned`), since the prover
has no fairness reasoning here; the runs of section 13, which end in a
counterexample; and what a fold computes over data for every input.

## 13. Where code and documents disagree

- `agent_outbox`: `docs/workflow-ai-chat.md:87` and `ai_chat_controller.py:135`
  promise that a queued message whose publication failed is published again.  The
  marker is not written (`thread_repository.py:296`), and the message waits for
  the finalizer.  With `Flushed = {TRUE}` TLC finds the property to hold with
  faults in any place (68 thousand states at two faults).
- `ocr_retry`: the comments of `ocr_task.py:82` and `:95` make a published failure
  the last one; `ocr_processor.py:244` publishes each.  A document whose first
  attempt failed is OCR_FAILED for good although the retry succeeds.
- `thread_cache`: `thread_service.py:6` says a write renews the cache.  The worker's
  writes do not, and the requests invalidate before they commit: a finished answer
  can be read as unfinished until the next turn or for a day.

Seen in the models, without a run: `docs/routing-v2.md:86` allows a single half-open
request after a cooldown.  The flag is the provider's: a trial from an earlier
cooldown that is released during a later one clears it, and a second trial goes out
beside the first (`provider_pool.py:455`).  `TrialHasOwner` claims that a set flag
has a trial out, and not that there is one trial.

## 14. Not modelled

Wording, headers, logging, metrics and the content of prompts and answers;
start-up and shutdown; deletion of a thread during a run, the title task and the
zombie of a soft time limit in the hand-off; a second thread (threads share
nothing in the hand-off).  The message list of the browser's store and the page's
effects.  Of the agent's nodes, what they ask a language model and make of its words:
the queries, the reasoning level, the citations, the scoring of a single page.  The
translation runner (one call after the other,
each saved as it comes) and the older summary service.  Sessions, media cache,
progress events, search, dashboards, quality tools, infrastructure: `PROJECT.json`
gives the reason for each.
