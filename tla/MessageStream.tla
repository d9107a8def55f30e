--------------------------- MODULE MessageStream ---------------------------
(***************************************************************************)
(* How one answer reaches the pages that wait for it: the run of the agent *)
(* worker that publishes its tokens and saves what it has now and then     *)
(* (tasks/agent_task.py), the SSE relay that forwards the published events *)
(* and repairs what it missed from the row (_relay_agent_events of         *)
(* controllers/ai_chat_controller.py), and the client that reads the       *)
(* relay and reconnects (frontend chatStreamService.ts, over the streaming *)
(* text of chatStore.ts).                                                  *)
(*                                                                         *)
(* A relay's yield and the client's handling of it are one step: what a    *)
(* broken connection swallows is what the relay had not yet forwarded.     *)
(* The i-th token of run r is <<r, i>>.  Locks and deliveries of the runs  *)
(* are those of AgentMessage: here a run is lost and another one starts.   *)
(***************************************************************************)
EXTENDS Naturals, Sequences

CONSTANTS
    Clients,            \* the pages that show the answer
    Attempts,           \* the length of RECONNECT_DELAYS_MS
    MaxRuns,            \* bound: runs of the message
    MaxTokens,          \* bound: tokens of a run
    MaxFaults           \* bound: lost workers, connections, relays, events and writes

ASSUME StreamAssumption ==
    /\ Attempts \in Nat \ {0}
    /\ MaxRuns \in Nat
    /\ MaxTokens \in Nat
    /\ MaxFaults \in Nat

VARIABLES
    status,             \* AiMessage.status; the active ones are one
    answer,             \* AiMessage.content
    partial,            \* AiMessage.partial_content
    saved,              \* metadata _content_sequence
    run,                \* the number of the worker's run
    pc,                 \* where that run is
    made,               \* its content_sequence; full_response is Text(run, made)
    kind,               \* how a client got its stream: POST regenerate or GET stream
    phase,              \* where the client is
    tries,              \* the attempts of resumeMessageStream so far
    accepted,           \* the client knows the message id
    relay,              \* the relay that serves the client
    events,             \* what its subscription holds
    persisted,          \* its persisted_content_sequence
    restored,           \* its last_partial
    shown,              \* the client's streaming.currentMessage
    result,             \* the content it was completed with
    faults

rowVars == <<status, answer, partial, saved>>
runVars == <<run, pc, made>>
clientVars == <<kind, phase, tries, accepted>>
relayVars == <<relay, events, persisted, restored>>
viewVars == <<shown, result>>
streamVars == <<rowVars, runVars, clientVars, relayVars, viewVars, faults>>

Token == (1..MaxRuns) \X (1..MaxTokens)
Text(r, n) == [i \in 1..n |-> <<r, i>>]

TokenEvent(r, n) == [type |-> "token", seq |-> n, data |-> <<<<r, n>>>>]
ContentEvent(r, n) == [type |-> "content", seq |-> n, data |-> Text(r, n)]
DoneEvent(text) == [type |-> "done", seq |-> 0, data |-> text]
ErrorEvent == [type |-> "error", seq |-> 0, data |-> <<>>]
Event == [type : {"token", "content", "done", "error"}, seq : 0..MaxTokens, data : Seq(Token)]

StreamTypeOK ==
    /\ status \in {"active", "completed", "failed"}
    /\ answer \in Seq(Token) /\ partial \in Seq(Token) /\ saved \in 0..MaxTokens
    /\ run \in 0..MaxRuns /\ made \in 0..MaxTokens
    /\ pc \in {"idle", "running", "saving", "restating", "announcing", "apologising", "over"}
    /\ kind \in [Clients -> {"stream", "resume"}]
    /\ phase \in [Clients -> {"open", "waiting", "done", "error", "aborted"}]
    /\ tries \in [Clients -> 0..Attempts]
    /\ accepted \in [Clients -> BOOLEAN]
    /\ relay \in [Clients -> {"none", "opening", "subscribed", "looping"}]
    /\ events \in [Clients -> Seq(Event)]
    /\ persisted \in [Clients -> 0..MaxTokens]
    /\ restored \in [Clients -> Seq(Token)]
    /\ shown \in [Clients -> Seq(Token)]
    /\ result \in [Clients -> Seq(Token)]
    /\ faults \in 0..MaxFaults

\* The row is committed.  A page that regenerates has its POST open, one that
\* posted a job or found messageId in its address calls resumeMessageStream.
StreamInit ==
    /\ status = "active" /\ answer = <<>> /\ partial = <<>> /\ saved = 0
    /\ run = 0 /\ pc = "idle" /\ made = 0
    /\ kind \in [Clients -> {"stream", "resume"}]
    /\ phase = [c \in Clients |-> IF kind[c] = "stream" THEN "open" ELSE "waiting"]
    /\ tries = [c \in Clients |-> 0]
    /\ accepted = [c \in Clients |-> kind[c] = "resume"]
    /\ relay = [c \in Clients |-> IF kind[c] = "stream" THEN "opening" ELSE "none"]
    /\ events = [c \in Clients |-> <<>>]
    /\ persisted = [c \in Clients |-> 0]
    /\ restored = [c \in Clients |-> <<>>]
    /\ shown = [c \in Clients |-> <<>>]
    /\ result = [c \in Clients |-> <<>>]
    /\ faults = 0

Fault == faults < MaxFaults /\ faults' = faults + 1
Smooth == UNCHANGED faults

Subscribed(c) == relay[c] \in {"subscribed", "looping"}

-----------------------------------------------------------------------------
(* The worker: run_agent_message.                                          *)

\* _publish: the subscribers get the event, or a RedisError loses it.
Publish(e) ==
    /\ \/ events' = [c \in Clients |->
                        IF Subscribed(c) THEN Append(events[c], e) ELSE events[c]] /\ Smooth
       \/ events' = events /\ Fault
    /\ UNCHANGED <<relay, persisted, restored, clientVars, viewVars>>

Quiet == UNCHANGED <<clientVars, relayVars, viewVars>>

\* _load_run and _save_status("analyzing"): what an earlier run saved of its
\* text stays in the row.
RunStarts ==
    /\ pc = "idle" /\ status = "active" /\ run < MaxRuns
    /\ run' = run + 1 /\ made' = 0 /\ pc' = "running"
    /\ UNCHANGED rowVars /\ Quiet /\ Smooth

\* A token; from time to time it is due for a partial save.
TokenMade ==
    /\ pc = "running" /\ made < MaxTokens
    /\ made' = made + 1
    /\ pc' \in {"running", "saving"}
    /\ Publish(TokenEvent(run, made + 1))
    /\ UNCHANGED <<rowVars, run>>

\* _save_partial
PartialSaved ==
    /\ pc = "saving" /\ status = "active"
    /\ partial' = Text(run, made) /\ saved' = made
    /\ pc' = "restating"
    /\ UNCHANGED <<status, answer, run, made>> /\ Quiet /\ Smooth

PartialPublished ==
    /\ pc = "restating"
    /\ Publish(ContentEvent(run, made))
    /\ pc' = "running"
    /\ UNCHANGED <<rowVars, run, made>>

\* _save_completed
Completed ==
    /\ pc = "running" /\ status = "active"
    /\ status' = "completed" /\ answer' = Text(run, made)
    /\ partial' = <<>> /\ saved' = 0
    /\ pc' = "announcing"
    /\ UNCHANGED <<run, made>> /\ Quiet /\ Smooth

DonePublished ==
    /\ pc = "announcing"
    /\ Publish(DoneEvent(Text(run, made)))
    /\ pc' = "over"
    /\ UNCHANGED <<rowVars, run, made>>

\* The agent failed.  The failure is saved, or that write fails as well.
RunFails ==
    /\ pc = "running"
    /\ \/ status' = "failed" /\ Smooth
       \/ UNCHANGED status /\ Fault
    /\ pc' = "apologising"
    /\ UNCHANGED <<answer, partial, saved, run, made>> /\ Quiet

ErrorPublished ==
    /\ pc = "apologising"
    /\ Publish(ErrorEvent)
    /\ pc' = "over"
    /\ UNCHANGED <<rowVars, run, made>>

\* The worker dies; the broker delivers the message again.
WorkerLost ==
    /\ pc \notin {"idle", "over"} /\ Fault
    /\ pc' = "idle"
    /\ UNCHANGED <<rowVars, run, made>> /\ Quiet

\* finalize_stale_agent_messages: no run holds the lock of a message that has
\* been active for too long.  Nothing is published.
Finalized ==
    /\ pc \in {"idle", "over"} /\ status = "active"
    /\ status' = "failed" /\ partial' = <<>>
    /\ UNCHANGED <<answer, saved, runVars>> /\ Quiet /\ Smooth

-----------------------------------------------------------------------------
(* What the client does with what it reads: processSSEStream.              *)

\* The stream is closed: onComplete, a terminal error, or an abort.
Closed(c, end) ==
    /\ phase' = [phase EXCEPT ![c] = end]
    /\ relay' = [relay EXCEPT ![c] = "none"]
    /\ events' = [events EXCEPT ![c] = <<>>]
    /\ persisted' = [persisted EXCEPT ![c] = 0]
    /\ restored' = [restored EXCEPT ![c] = <<>>]

\* finishStreaming: the message gets the content of done, and the streaming
\* text is cleared.
DoneRead(c, text) ==
    /\ Closed(c, "done")
    /\ result' = [result EXCEPT ![c] = text]
    /\ shown' = [shown EXCEPT ![c] = <<>>]
    /\ UNCHANGED <<kind, tries, accepted>>

\* TerminalStreamError
ErrorRead(c) ==
    /\ Closed(c, "error")
    /\ UNCHANGED <<kind, tries, accepted, viewVars>>

\* content and partial_restore replace the text, tokens are appended to it
TextRead(c, text) ==
    /\ shown' = [shown EXCEPT ![c] = text]
    /\ UNCHANGED <<clientVars, result>>

\* Faulty variant: the attempts are not counted when a stream breaks.
InterruptedUncounted(c, ok) ==
    /\ Closed(c, IF ok THEN "waiting" ELSE "error")
    /\ accepted' = [accepted EXCEPT ![c] = ok]
    /\ UNCHANGED <<kind, tries, viewVars>>

\* A retryable error, ok if it has told the client the id: postAgentStream
\* goes over to resumeMessageStream, which tries again while it has attempts.
Interrupted(c, ok) ==
    /\ Closed(c, IF ok /\ tries[c] < Attempts THEN "waiting" ELSE "error")
    /\ accepted' = [accepted EXCEPT ![c] = ok]
    /\ UNCHANGED <<kind, tries, viewVars>>

-----------------------------------------------------------------------------
(* The relay: _relay_agent_events.                                         *)

\* The subscription; the POST's relay then sends accepted.
Subscribes(c) ==
    /\ relay[c] = "opening"
    /\ relay' = [relay EXCEPT ![c] = "subscribed"]
    /\ accepted' = [accepted EXCEPT ![c] = TRUE]
    /\ UNCHANGED <<rowVars, runVars, kind, phase, tries, events, persisted, restored, viewVars>>
    /\ Smooth

\* Faulty variant: the restored text does not move the sequence.
PartialRestoredOnly(c) ==
    /\ restored' = [restored EXCEPT ![c] = partial]
    /\ UNCHANGED persisted
    /\ TextRead(c, partial)

PartialRestored(c) ==
    /\ restored' = [restored EXCEPT ![c] = partial]
    /\ persisted' = [persisted EXCEPT ![c] = IF saved > @ THEN saved ELSE @]
    /\ TextRead(c, partial)

\* Faulty variant: the finished row is taken for its partial content, cleared.
RowReadPartial(c) ==
    \/ status = "completed" /\ DoneRead(c, partial)
    \/ status = "failed" /\ ErrorRead(c)
    \/ /\ status = "active" /\ partial \notin {<<>>, restored[c]}
       /\ PartialRestored(c)
       /\ relay' = [relay EXCEPT ![c] = "looping"] /\ UNCHANGED events

\* The row is read: it settles the stream, or brings a new partial content.
RowRead(c) ==
    \/ status = "completed" /\ DoneRead(c, answer)
    \/ status = "failed" /\ ErrorRead(c)
    \/ /\ status = "active" /\ partial \notin {<<>>, restored[c]}
       /\ PartialRestored(c)
       /\ relay' = [relay EXCEPT ![c] = "looping"] /\ UNCHANGED events

\* The snapshot after the subscription
Snapshot(c) ==
    /\ relay[c] = "subscribed"
    /\ \/ RowRead(c)
       \/ /\ status = "active" /\ partial = <<>>
          /\ relay' = [relay EXCEPT ![c] = "looping"]
          /\ UNCHANGED <<events, persisted, restored, clientVars, viewVars>>
    /\ UNCHANGED <<rowVars, runVars>> /\ Smooth

\* Faulty variant: the row is polled only for partial content.
PollsPartial(c) ==
    /\ relay[c] = "looping" /\ events[c] = <<>> /\ status = "active"
    /\ RowRead(c)
    /\ UNCHANGED <<rowVars, runVars>> /\ Smooth

\* get_message timed out.
Polls(c) ==
    /\ relay[c] = "looping" /\ events[c] = <<>>
    /\ RowRead(c)
    /\ UNCHANGED <<rowVars, runVars>> /\ Smooth

Seen(c, e) == e.type \in {"token", "content"} /\ e.seq <= persisted[c]

Forwards(c) ==
    /\ relay[c] = "looping" /\ events[c] # <<>>
    /\ LET e == Head(events[c])
           Rest == events' = [events EXCEPT ![c] = Tail(@)] /\ UNCHANGED <<relay, restored>>
       IN  \/ e.type = "error" /\ ErrorRead(c)
           \/ e.type = "done" /\ DoneRead(c, e.data)
           \/ /\ Seen(c, e)
              /\ Rest
              /\ UNCHANGED <<persisted, clientVars, viewVars>>
           \/ /\ e.type = "token" /\ ~Seen(c, e)
              /\ Rest
              /\ TextRead(c, shown[c] \o e.data)
              /\ UNCHANGED persisted
           \/ /\ e.type = "content" /\ ~Seen(c, e)
              /\ Rest
              /\ TextRead(c, e.data)
              /\ persisted' = [persisted EXCEPT ![c] = e.seq]
    /\ UNCHANGED <<rowVars, runVars>> /\ Smooth

\* The relay lost Redis or the database: accepted if it is not sent yet, then
\* relay_unavailable, retryable.
RelayFails(c) ==
    /\ relay[c] # "none" /\ Fault
    /\ Interrupted(c, TRUE)
    /\ UNCHANGED <<rowVars, runVars>>

\* The connection breaks: "SSE stream ended before done".
ConnectionLost(c) ==
    /\ relay[c] # "none" /\ Fault
    /\ Interrupted(c, accepted[c])
    /\ UNCHANGED <<rowVars, runVars>>

-----------------------------------------------------------------------------
(* The client's connections: resumeMessageStream.                          *)

Connects(c) ==
    /\ phase[c] = "waiting"
    /\ tries' = [tries EXCEPT ![c] = @ + 1]
    /\ phase' = [phase EXCEPT ![c] = "open"]
    /\ relay' = [relay EXCEPT ![c] = "opening"]
    /\ UNCHANGED <<rowVars, runVars, kind, accepted, events, persisted, restored, viewVars>>
    /\ Smooth

\* Faulty variant: any failure to connect is final.
ConnectFailsForGood(c) ==
    /\ phase[c] = "waiting" /\ Fault
    /\ tries' = [tries EXCEPT ![c] = @ + 1]
    /\ phase' = [phase EXCEPT ![c] = "error"]
    /\ UNCHANGED <<rowVars, runVars, kind, accepted, relayVars, viewVars>>

\* The GET does not get through, or answers 5xx.
ConnectFails(c) ==
    /\ phase[c] = "waiting" /\ Fault
    /\ tries' = [tries EXCEPT ![c] = @ + 1]
    /\ phase' = [phase EXCEPT ![c] = IF tries[c] + 1 < Attempts THEN "waiting" ELSE "error"]
    /\ UNCHANGED <<rowVars, runVars, kind, accepted, relayVars, viewVars>>

\* The user leaves the page: the AbortController of the stream fires.
Aborts(c) ==
    /\ phase[c] \in {"open", "waiting"}
    /\ Closed(c, "aborted")
    /\ UNCHANGED <<rowVars, runVars, kind, tries, accepted, viewVars>> /\ Smooth

-----------------------------------------------------------------------------
WorkerStep ==
    \/ RunStarts \/ TokenMade \/ PartialSaved \/ PartialPublished
    \/ Completed \/ DonePublished \/ RunFails \/ ErrorPublished \/ Finalized

RelayStep(c) == Subscribes(c) \/ Snapshot(c) \/ Polls(c) \/ Forwards(c)

StreamNext ==
    \/ WorkerStep
    \/ WorkerLost
    \/ \E c \in Clients :
        \/ RelayStep(c)
        \/ RelayFails(c) \/ ConnectionLost(c)
        \/ Connects(c) \/ ConnectFails(c)
        \/ Aborts(c)

StreamSpec == StreamInit /\ [][StreamNext]_streamVars

\* The server runs on: the worker is scheduled, a run ends, the finalizer
\* makes its passes, and the relay's loop and the client's timers go on.
\* Nothing obliges a user to leave.
FairStreamSpec ==
    /\ StreamSpec
    /\ WF_streamVars(WorkerStep)
    /\ \A c \in Clients :
        /\ WF_streamVars(RelayStep(c))
        /\ WF_streamVars(Connects(c))

-----------------------------------------------------------------------------
(* Properties                                                              *)

\* A page that shows an answer as complete shows the one the row holds, and
\* the row is complete: no reconnect, replay, second run or lost event makes
\* it keep a text put together from what it has received
\* (_save_completed before the done event, done.content in processSSEStream).
AnswerIsStored ==
    \A c \in Clients : phase[c] = "done" => status = "completed" /\ result[c] = answer

\* While it streams, no token of a run is shown twice or behind a later one of
\* that run, although the snapshot, the events that waited in the subscription
\* meanwhile, the restated content and the text of a lost run overlap
\* (persisted_content_sequence of the relay).  Tokens may be missing until the
\* next partial save.
ShownInOrder ==
    \A c \in Clients : \A i, j \in 1..Len(shown[c]) :
        i < j /\ shown[c][i][1] = shown[c][j][1] => shown[c][i][2] < shown[c][j][2]

\* An error is shown only for an answer that failed, or when every attempt of
\* resumeMessageStream met a fault of its own, or the POST was cut off before
\* accepted, or a failed run could not save its failure.
ErrorExplained ==
    \A c \in Clients : phase[c] = "error" =>
        \/ status = "failed"
        \/ tries[c] = Attempts /\ faults >= Attempts
        \/ ~accepted[c] /\ faults > 0
        \/ pc = "over" /\ status = "active" /\ faults > 0

\* A page does not wait for ever: whatever events were lost, its stream is
\* completed or ends in an error, unless the user leaves first (the poll of
\* the row in the relay and the bounded reconnects of the client).
StreamSettles ==
    \A c \in Clients : phase[c] \in {"open", "waiting"} ~>
                       phase[c] \in {"done", "error", "aborted"}
=============================================================================
