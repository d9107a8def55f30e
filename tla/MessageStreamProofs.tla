------------------------ MODULE MessageStreamProofs ------------------------
(***************************************************************************)
(* Proofs about MessageStream, for every set of clients, every number of   *)
(* reconnect attempts and every bound on runs, tokens and faults.          *)
(***************************************************************************)
EXTENDS MessageStream, SequenceTheorems, TLAPS

\* A run has a number once it has started.
RunNumbered == pc # "idle" => run \in 1..MaxRuns

\* A client that waits to reconnect has an attempt left.
AttemptLeft == \A c \in Clients : phase[c] = "waiting" => tries[c] < Attempts

TypeInv == StreamTypeOK /\ RunNumbered /\ AttemptLeft

-----------------------------------------------------------------------------
\* The text of a run is a sequence of tokens.
LEMMA TextTyped ==
  ASSUME NEW r \in 1..MaxRuns, NEW n \in 0..MaxTokens
  PROVE  Text(r, n) \in Seq(Token)
<1>1. n \in Nat
  BY StreamAssumption DEF StreamAssumption
<1>2. \A i \in 1..n : <<r, i>> \in Token
  BY <1>1, StreamAssumption DEF StreamAssumption, Token
<1> QED
  BY <1>1, <1>2 DEF Text

\* Every event that the worker publishes is one.
LEMMA EventsTyped ==
  /\ \A r \in 1..MaxRuns, n \in 1..MaxTokens : TokenEvent(r, n) \in Event
  /\ \A r \in 1..MaxRuns, n \in 0..MaxTokens : ContentEvent(r, n) \in Event
  /\ \A text \in Seq(Token) : DoneEvent(text) \in Event
  /\ ErrorEvent \in Event
<1>1. ASSUME NEW r \in 1..MaxRuns, NEW n \in 1..MaxTokens PROVE TokenEvent(r, n) \in Event
  <2>1. <<<<r, n>>>> \in Seq(Token)
    BY DEF Token
  <2> QED
    BY <2>1, StreamAssumption DEF StreamAssumption, TokenEvent, Event
<1>2. ASSUME NEW r \in 1..MaxRuns, NEW n \in 0..MaxTokens PROVE ContentEvent(r, n) \in Event
  BY TextTyped DEF ContentEvent, Event
<1>3. ASSUME NEW text \in Seq(Token) PROVE DoneEvent(text) \in Event
  BY StreamAssumption DEF StreamAssumption, DoneEvent, Event
<1>4. ErrorEvent \in Event
  BY StreamAssumption DEF StreamAssumption, ErrorEvent, Event
<1> QED
  BY <1>1, <1>2, <1>3, <1>4

\* A fault stays within the bound.
LEMMA FaultTyped == faults \in 0..MaxFaults /\ (Fault \/ Smooth) => faults' \in 0..MaxFaults
  BY StreamAssumption DEF StreamAssumption, Fault, Smooth

\* A publication appends to the subscriptions and changes nothing else.
LEMMA PublishTyped ==
  ASSUME StreamTypeOK, NEW e \in Event, Publish(e)
  PROVE  /\ events' \in [Clients -> Seq(Event)]
         /\ faults' \in 0..MaxFaults
         /\ UNCHANGED <<relay, persisted, restored, clientVars, viewVars>>
<1>1. faults' \in 0..MaxFaults
  BY FaultTyped DEF Publish, StreamTypeOK
<1>2. CASE events' = events
  BY <1>1, <1>2 DEF Publish, StreamTypeOK
<1>3. CASE events' = [c \in Clients |->
                        IF Subscribed(c) THEN Append(events[c], e) ELSE events[c]]
  <2>1. \A c \in Clients : events[c] \in Seq(Event) /\ Append(events[c], e) \in Seq(Event)
    BY DEF StreamTypeOK
  <2> QED
    BY <1>1, <1>3, <2>1 DEF Publish
<1> QED
  BY <1>2, <1>3 DEF Publish

\* The stream starts well typed.
LEMMA InitTyped == StreamInit => TypeInv
<1> SUFFICES ASSUME StreamInit PROVE TypeInv
  OBVIOUS
<1>1. faults \in 0..MaxFaults /\ run \in 0..MaxRuns /\ made \in 0..MaxTokens /\ saved \in 0..MaxTokens
  BY StreamAssumption DEF StreamAssumption, StreamInit
<1>2. tries \in [Clients -> 0..Attempts] /\ persisted \in [Clients -> 0..MaxTokens]
  BY StreamAssumption DEF StreamAssumption, StreamInit
<1>3. events \in [Clients -> Seq(Event)]
  BY DEF StreamInit
<1>4. answer \in Seq(Token) /\ partial \in Seq(Token)
  BY DEF StreamInit
<1>5. /\ restored \in [Clients -> Seq(Token)]
      /\ shown \in [Clients -> Seq(Token)]
      /\ result \in [Clients -> Seq(Token)]
  BY DEF StreamInit
<1>6. RunNumbered /\ AttemptLeft
  BY StreamAssumption DEF StreamAssumption, StreamInit, RunNumbered, AttemptLeft
<1> QED
  BY <1>1, <1>2, <1>3, <1>4, <1>5, <1>6 DEF StreamInit, TypeInv, StreamTypeOK

\* The steps of the worker keep the types.
LEMMA WorkerTyped ==
  ASSUME TypeInv, WorkerStep \/ WorkerLost
  PROVE  TypeInv'
<1> USE DEF TypeInv, StreamTypeOK, RunNumbered, AttemptLeft, rowVars, runVars, clientVars, relayVars, viewVars, Quiet
<1>a. ASSUME NEW e \in Event, Publish(e), UNCHANGED rowVars, made' \in 0..MaxTokens,
             UNCHANGED run, pc' \in {"running", "saving", "over"}, run \in 1..MaxRuns
      PROVE  TypeInv'
  BY <1>a, PublishTyped
<1>1. CASE RunStarts
  <2>1. run' \in 1..MaxRuns /\ made' \in 0..MaxTokens
    BY <1>1, StreamAssumption DEF RunStarts, StreamAssumption
  <2> QED
    BY <1>1, <2>1, FaultTyped DEF RunStarts, Smooth
<1>2. CASE TokenMade
  <2>1. made + 1 \in 1..MaxTokens
    BY <1>2, StreamAssumption DEF TokenMade, StreamAssumption
  <2>2. TokenEvent(run, made + 1) \in Event
    BY <1>2, <2>1, EventsTyped DEF TokenMade
  <2>3. Publish(TokenEvent(run, made + 1)) /\ made' \in 0..MaxTokens
    BY <1>2, <2>1 DEF TokenMade
  <2> QED
    BY <1>2, <1>a, <2>2, <2>3 DEF TokenMade
<1>3. CASE PartialSaved
  <2>1. Text(run, made) \in Seq(Token)
    BY <1>3, TextTyped DEF PartialSaved
  <2> QED
    BY <1>3, <2>1 DEF PartialSaved, Smooth
<1>4. CASE PartialPublished
  <2>1. ContentEvent(run, made) \in Event
    BY <1>4, EventsTyped DEF PartialPublished
  <2>2. Publish(ContentEvent(run, made))
    BY <1>4 DEF PartialPublished
  <2> QED
    BY <1>4, <1>a, <2>1, <2>2 DEF PartialPublished
<1>5. CASE Completed
  <2>1. Text(run, made) \in Seq(Token)
    BY <1>5, TextTyped DEF Completed
  <2>2. 0 \in 0..MaxTokens
    BY StreamAssumption DEF StreamAssumption
  <2> QED
    BY <1>5, <2>1, <2>2 DEF Completed, Smooth
<1>6. CASE DonePublished
  <2>1. DoneEvent(Text(run, made)) \in Event
    BY <1>6, EventsTyped, TextTyped DEF DonePublished
  <2>2. Publish(DoneEvent(Text(run, made)))
    BY <1>6 DEF DonePublished
  <2> QED
    BY <1>6, <1>a, <2>1, <2>2 DEF DonePublished
<1>7. CASE RunFails
  BY <1>7, FaultTyped DEF RunFails, Smooth
<1>8. CASE ErrorPublished
  <2>1. Publish(ErrorEvent) /\ ErrorEvent \in Event
    BY <1>8, EventsTyped DEF ErrorPublished
  <2> QED
    BY <1>8, <1>a, <2>1 DEF ErrorPublished
<1>9. CASE Finalized
  BY <1>9 DEF Finalized, Smooth
<1>10. CASE WorkerLost
  BY <1>10, FaultTyped DEF WorkerLost
<1> QED
  BY <1>1, <1>2, <1>3, <1>4, <1>5, <1>6, <1>7, <1>8, <1>9, <1>10 DEF WorkerStep

\* A closed stream leaves a well-typed client and no relay.
LEMMA ClosedTyped ==
  ASSUME StreamTypeOK, NEW c \in Clients,
         NEW end \in {"waiting", "done", "error", "aborted"}, Closed(c, end)
  PROVE  /\ phase' \in [Clients -> {"open", "waiting", "done", "error", "aborted"}]
         /\ relay' \in [Clients -> {"none", "opening", "subscribed", "looping"}]
         /\ events' \in [Clients -> Seq(Event)]
         /\ persisted' \in [Clients -> 0..MaxTokens]
         /\ restored' \in [Clients -> Seq(Token)]
<1>1. 0 \in 0..MaxTokens
  BY StreamAssumption DEF StreamAssumption
<1>2. <<>> \in Seq(Event) /\ <<>> \in Seq(Token)
  OBVIOUS
<1>3. /\ phase' \in [Clients -> {"open", "waiting", "done", "error", "aborted"}]
      /\ relay' \in [Clients -> {"none", "opening", "subscribed", "looping"}]
  BY DEF Closed, StreamTypeOK
<1>4. events' \in [Clients -> Seq(Event)]
  BY <1>2 DEF Closed, StreamTypeOK
<1>5. persisted' \in [Clients -> 0..MaxTokens]
  BY <1>1 DEF Closed, StreamTypeOK
<1>6. restored' \in [Clients -> Seq(Token)]
  BY <1>2 DEF Closed, StreamTypeOK
<1> QED
  BY <1>3, <1>4, <1>5, <1>6

\* A client's step keeps the types.
LEMMA ClientTyped ==
  ASSUME TypeInv, NEW c \in Clients,
         RelayStep(c) \/ RelayFails(c) \/ ConnectionLost(c)
         \/ Connects(c) \/ ConnectFails(c) \/ Aborts(c)
  PROVE  TypeInv'
<1> USE DEF TypeInv, StreamTypeOK, RunNumbered, AttemptLeft
<1>r. ASSUME UNCHANGED <<rowVars, runVars>>, faults' \in 0..MaxFaults,
             kind' \in [Clients -> {"stream", "resume"}],
             phase' \in [Clients -> {"open", "waiting", "done", "error", "aborted"}],
             tries' \in [Clients -> 0..Attempts],
             accepted' \in [Clients -> BOOLEAN],
             relay' \in [Clients -> {"none", "opening", "subscribed", "looping"}],
             events' \in [Clients -> Seq(Event)],
             persisted' \in [Clients -> 0..MaxTokens],
             restored' \in [Clients -> Seq(Token)],
             shown' \in [Clients -> Seq(Token)],
             result' \in [Clients -> Seq(Token)],
             \A d \in Clients : phase'[d] = "waiting" => tries'[d] < Attempts
      PROVE  TypeInv'
  BY <1>r DEF rowVars, runVars
<1>s. ASSUME Smooth \/ Fault PROVE faults' \in 0..MaxFaults
  BY <1>s, FaultTyped
<1>d. ASSUME NEW text \in Seq(Token), DoneRead(c, text), Smooth, UNCHANGED <<rowVars, runVars>>
      PROVE  TypeInv'
  <2>1. result' \in [Clients -> Seq(Token)] /\ shown' \in [Clients -> Seq(Token)]
    <3>1. <<>> \in Seq(Token)
      OBVIOUS
    <3> QED
      BY <1>d, <3>1 DEF DoneRead
  <2> QED
    BY <1>d, <1>r, <1>s, <2>1, ClosedTyped DEF DoneRead, Closed
<1>e. ASSUME ErrorRead(c), Smooth, UNCHANGED <<rowVars, runVars>>
      PROVE  TypeInv'
  BY <1>e, <1>r, <1>s, ClosedTyped DEF ErrorRead, Closed, viewVars
<1>t. ASSUME NEW text \in Seq(Token), TextRead(c, text)
      PROVE  /\ shown' \in [Clients -> Seq(Token)]
             /\ UNCHANGED <<clientVars, result>>
  BY <1>t DEF TextRead
<1>p. ASSUME PartialRestored(c), relay' = [relay EXCEPT ![c] = "looping"], UNCHANGED events,
             Smooth, UNCHANGED <<rowVars, runVars>>
      PROVE  TypeInv'
  <2>1. persisted' \in [Clients -> 0..MaxTokens]
    BY <1>p DEF PartialRestored
  <2>2. restored' \in [Clients -> Seq(Token)]
    BY <1>p DEF PartialRestored
  <2> QED
    BY <1>p, <1>r, <1>s, <1>t, <2>1, <2>2 DEF PartialRestored, clientVars
<1>w. ASSUME RowRead(c), Smooth, UNCHANGED <<rowVars, runVars>>
      PROVE  TypeInv'
  BY <1>w, <1>d, <1>e, <1>p DEF RowRead
<1>i. ASSUME NEW ok \in BOOLEAN, Interrupted(c, ok), Fault, UNCHANGED <<rowVars, runVars>>
      PROVE  TypeInv'
  <2>1. accepted' \in [Clients -> BOOLEAN]
    BY <1>i DEF Interrupted
  <2> QED
    BY <1>i, <1>r, <1>s, <2>1, ClosedTyped DEF Interrupted, Closed, viewVars
<1>1. CASE Subscribes(c)
  BY <1>1, <1>r, <1>s DEF Subscribes, viewVars
<1>2. CASE Snapshot(c)
  <2>1. CASE RowRead(c)
    BY <1>2, <1>w, <2>1 DEF Snapshot
  <2>2. CASE ~RowRead(c)
    BY <1>2, <1>r, <1>s, <2>2 DEF Snapshot, clientVars, viewVars
  <2> QED
    BY <2>1, <2>2
<1>3. CASE Polls(c)
  BY <1>3, <1>w DEF Polls
<1>4. CASE Forwards(c)
  <2> DEFINE e == Head(events[c])
             Rest == events' = [events EXCEPT ![c] = Tail(@)] /\ UNCHANGED <<relay, restored>>
  <2>1. e \in Event /\ Tail(events[c]) \in Seq(Event)
    BY <1>4 DEF Forwards
  <2>2. e.data \in Seq(Token) /\ e.seq \in 0..MaxTokens
    BY <2>1 DEF Event
  <2>3. shown[c] \o e.data \in Seq(Token)
    BY <2>2
  <2>4. Rest => events' \in [Clients -> Seq(Event)]
    BY <2>1
  <2>5. CASE e.type = "error" /\ ErrorRead(c)
    BY <1>4, <1>e, <2>5 DEF Forwards
  <2>6. CASE e.type = "done" /\ DoneRead(c, e.data)
    BY <1>4, <1>d, <2>2, <2>6 DEF Forwards
  <2>7. CASE Rest /\ UNCHANGED <<persisted, clientVars, viewVars>>
    BY <1>4, <1>r, <1>s, <2>4, <2>7 DEF Forwards, clientVars, viewVars
  <2>8. CASE Rest /\ TextRead(c, shown[c] \o e.data) /\ UNCHANGED persisted
    BY <1>4, <1>r, <1>s, <1>t, <2>3, <2>4, <2>8 DEF Forwards, clientVars
  <2>9. CASE Rest /\ TextRead(c, e.data) /\ persisted' = [persisted EXCEPT ![c] = e.seq]
    BY <1>4, <1>r, <1>s, <1>t, <2>2, <2>4, <2>9 DEF Forwards, clientVars
  <2> QED
    BY <1>4, <2>5, <2>6, <2>7, <2>8, <2>9 DEF Forwards
<1>5. CASE RelayFails(c)
  BY <1>5, <1>i DEF RelayFails
<1>6. CASE ConnectionLost(c)
  BY <1>6, <1>i DEF ConnectionLost
<1>7. CASE Connects(c)
  <2>1. tries[c] + 1 \in 0..Attempts
    BY <1>7, StreamAssumption DEF Connects, StreamAssumption
  <2> QED
    BY <1>7, <1>r, <1>s, <2>1 DEF Connects, viewVars
<1>8. CASE ConnectFails(c)
  <2>1. tries[c] + 1 \in 0..Attempts
    BY <1>8, StreamAssumption DEF ConnectFails, StreamAssumption
  <2> QED
    BY <1>8, <1>r, <1>s, <2>1 DEF ConnectFails, relayVars, viewVars
<1>9. CASE Aborts(c)
  BY <1>9, <1>r, <1>s, ClosedTyped DEF Aborts, Closed, viewVars
<1> QED
  BY <1>1, <1>2, <1>3, <1>4, <1>5, <1>6, <1>7, <1>8, <1>9 DEF RelayStep

\* Stuttering changes nothing.
LEMMA TypePreserved == TypeInv /\ [StreamNext]_streamVars => TypeInv'
<1> SUFFICES ASSUME TypeInv, [StreamNext]_streamVars PROVE TypeInv'
  OBVIOUS
<1>1. CASE UNCHANGED streamVars
  BY <1>1 DEF streamVars, rowVars, runVars, clientVars, relayVars, viewVars,
              TypeInv, StreamTypeOK, RunNumbered, AttemptLeft
<1> QED
  BY <1>1, WorkerTyped, ClientTyped DEF StreamNext

\* The variables of the worker, the relays and the clients keep their types,
\* whatever is lost on the way.
THEOREM StreamTypeCorrect == StreamSpec => []StreamTypeOK
<1>1. TypeInv => StreamTypeOK
  BY DEF TypeInv
<1> QED
  BY <1>1, InitTyped, TypePreserved, PTL DEF StreamSpec

-----------------------------------------------------------------------------
(* What a subscription holds.                                              *)

Held(c) == {events[c][i] : i \in 1..Len(events[c])}

\* The worker adds at most the event it publishes.
LEMMA PublishHeld ==
  ASSUME StreamTypeOK, NEW e \in Event, Publish(e), NEW c \in Clients
  PROVE  Held(c)' \subseteq Held(c) \cup {e}
<1>1. events[c] \in Seq(Event)
  BY DEF StreamTypeOK
<1>2. events'[c] = events[c] \/ events'[c] = Append(events[c], e)
  BY DEF Publish
<1>3. \A i \in 1..Len(Append(events[c], e)) :
        \/ Append(events[c], e)[i] = e
        \/ i \in 1..Len(events[c]) /\ Append(events[c], e)[i] = events[c][i]
  BY <1>1
<1> QED
  BY <1>2, <1>3 DEF Held

\* The events of a client's step are those it had, less those it consumed.
LEMMA ClientHeld ==
  ASSUME TypeInv, NEW c \in Clients,
         RelayStep(c) \/ RelayFails(c) \/ ConnectionLost(c)
         \/ Connects(c) \/ ConnectFails(c) \/ Aborts(c)
  PROVE  \A d \in Clients : Held(d)' \subseteq Held(d)
<1>1. events \in [Clients -> Seq(Event)]
  BY DEF TypeInv, StreamTypeOK
<1>2. ASSUME UNCHANGED events PROVE \A d \in Clients : Held(d)' \subseteq Held(d)
  BY <1>2 DEF Held
<1>3. ASSUME events' = [events EXCEPT ![c] = <<>>]
      PROVE  \A d \in Clients : Held(d)' \subseteq Held(d)
  BY <1>1, <1>3 DEF Held
<1>4. ASSUME events[c] # <<>>, events' = [events EXCEPT ![c] = Tail(@)]
      PROVE  \A d \in Clients : Held(d)' \subseteq Held(d)
  <2>1. \A i \in 1..Len(Tail(events[c])) :
          i + 1 \in 1..Len(events[c]) /\ Tail(events[c])[i] = events[c][i + 1]
    BY <1>1, <1>4
  <2> QED
    BY <1>1, <1>4, <2>1 DEF Held
<1>5. ASSUME NEW end, Closed(c, end) PROVE \A d \in Clients : Held(d)' \subseteq Held(d)
  BY <1>3, <1>5 DEF Closed
<1>6. ASSUME RowRead(c) PROVE \A d \in Clients : Held(d)' \subseteq Held(d)
  BY <1>2, <1>5, <1>6 DEF RowRead, DoneRead, ErrorRead
<1>7. CASE Subscribes(c) \/ Connects(c) \/ ConnectFails(c)
  BY <1>2, <1>7 DEF Subscribes, Connects, ConnectFails, relayVars
<1>8. CASE Snapshot(c) \/ Polls(c)
  BY <1>2, <1>6, <1>8 DEF Snapshot, Polls
<1>9. CASE Forwards(c)
  BY <1>4, <1>5, <1>9 DEF Forwards, DoneRead, ErrorRead
<1>10. CASE RelayFails(c) \/ ConnectionLost(c) \/ Aborts(c)
  BY <1>5, <1>10 DEF RelayFails, ConnectionLost, Interrupted, Aborts
<1> QED
  BY <1>7, <1>8, <1>9, <1>10 DEF RelayStep

-----------------------------------------------------------------------------
(* The answer that is shown as complete.                                   *)

\* The row is completed before the worker announces it, a completed row stays
\* as it is, and every done event carries its answer.
CompletionInv ==
    /\ pc \in {"running", "saving", "restating"} => status = "active"
    /\ pc = "announcing" => status = "completed" /\ answer = Text(run, made)
    /\ \A c \in Clients : \A e \in Held(c) :
            e.type = "done" => status = "completed" /\ e.data = answer
    /\ AnswerIsStored

\* Nobody is done, and nothing is published.
LEMMA CompletionInit == StreamInit => CompletionInv
  BY DEF StreamInit, CompletionInv, AnswerIsStored, Held

\* The worker's steps keep it.
LEMMA CompletionWorker ==
  ASSUME TypeInv, CompletionInv, WorkerStep \/ WorkerLost
  PROVE  CompletionInv'
<1> USE DEF CompletionInv, AnswerIsStored
<1>1. ASSUME Quiet PROVE (\A c \in Clients : Held(c)' = Held(c)) /\ UNCHANGED <<phase, result>>
  BY <1>1 DEF Quiet, Held, clientVars, relayVars, viewVars
<1>2. ASSUME NEW e \in Event, Publish(e), UNCHANGED rowVars, UNCHANGED <<run>>,
             e.type = "done" => status = "completed" /\ e.data = answer,
             pc' \in {"running", "saving"} => status = "active", pc' # "announcing",
             pc' # "restating"
      PROVE  CompletionInv'
  BY <1>2, PublishHeld DEF TypeInv, Publish, rowVars, clientVars, viewVars
<1>3. CASE RunStarts
  BY <1>1, <1>3 DEF RunStarts, rowVars
<1>4. CASE TokenMade
  <2>1. run \in 1..MaxRuns /\ made + 1 \in 1..MaxTokens
    BY <1>4, StreamAssumption DEF TokenMade, StreamAssumption, TypeInv, StreamTypeOK, RunNumbered
  <2> DEFINE e == TokenEvent(run, made + 1)
  <2>2. e \in Event
    BY <2>1, EventsTyped
  <2>3. e.type = "token"
    BY DEF TokenEvent
  <2> QED
    BY <1>2, <1>4, <2>2, <2>3 DEF TokenMade
<1>5. CASE PartialSaved
  BY <1>1, <1>5 DEF PartialSaved
<1>6. CASE PartialPublished
  <2>1. run \in 1..MaxRuns /\ made \in 0..MaxTokens
    BY <1>6 DEF PartialPublished, TypeInv, StreamTypeOK, RunNumbered
  <2> DEFINE e == ContentEvent(run, made)
  <2>2. e \in Event
    BY <2>1, EventsTyped
  <2>3. e.type = "content"
    BY DEF ContentEvent
  <2> QED
    BY <1>2, <1>6, <2>2, <2>3 DEF PartialPublished
<1>7. CASE Completed
  BY <1>1, <1>7 DEF Completed
<1>8. CASE DonePublished
  <2>1. Text(run, made) \in Seq(Token)
    BY <1>8, TextTyped DEF DonePublished, TypeInv, StreamTypeOK, RunNumbered
  <2> DEFINE e == DoneEvent(Text(run, made))
  <2>2. e \in Event
    BY <2>1, EventsTyped
  <2>3. e.data = answer /\ status = "completed"
    BY <1>8 DEF DoneEvent, DonePublished
  <2> QED
    BY <1>2, <1>8, <2>2, <2>3 DEF DonePublished
<1>9. CASE RunFails
  BY <1>1, <1>9 DEF RunFails
<1>10. CASE ErrorPublished
  <2>1. ErrorEvent \in Event /\ ErrorEvent.type = "error"
    BY EventsTyped DEF ErrorEvent
  <2> QED
    BY <1>2, <1>10, <2>1 DEF ErrorPublished
<1>11. CASE Finalized
  BY <1>1, <1>11 DEF Finalized, runVars
<1>12. CASE WorkerLost
  BY <1>1, <1>12 DEF WorkerLost, rowVars
<1> QED
  BY <1>3, <1>4, <1>5, <1>6, <1>7, <1>8, <1>9, <1>10, <1>11, <1>12 DEF WorkerStep

\* So do the clients': what completes one is the row or a done event.
LEMMA CompletionClient ==
  ASSUME TypeInv, CompletionInv, NEW c \in Clients,
         RelayStep(c) \/ RelayFails(c) \/ ConnectionLost(c)
         \/ Connects(c) \/ ConnectFails(c) \/ Aborts(c)
  PROVE  CompletionInv'
<1> USE DEF CompletionInv
<1>t. phase \in [Clients -> {"open", "waiting", "done", "error", "aborted"}]
      /\ result \in [Clients -> Seq(Token)]
  BY DEF TypeInv, StreamTypeOK
<1>h. \A d \in Clients : Held(d)' \subseteq Held(d)
  BY ClientHeld
<1>0. UNCHANGED <<rowVars, runVars>>
  BY DEF RelayStep, Subscribes, Snapshot, Polls, Forwards, RelayFails, ConnectionLost,
         Connects, ConnectFails, Aborts
<1>1. ASSUME AnswerIsStored' PROVE CompletionInv'
  BY <1>h, <1>0, <1>1 DEF rowVars, runVars
<1>2. ASSUME \A d \in Clients : phase'[d] = "done" => phase[d] = "done" /\ result'[d] = result[d]
      PROVE  CompletionInv'
  BY <1>0, <1>1, <1>2 DEF AnswerIsStored, rowVars
<1>3. ASSUME NEW end, end # "done", Closed(c, end), UNCHANGED viewVars PROVE CompletionInv'
  BY <1>t, <1>2, <1>3 DEF Closed, viewVars
<1>4. ASSUME DoneRead(c, answer), status = "completed" PROVE CompletionInv'
  BY <1>t, <1>0, <1>1, <1>4 DEF DoneRead, Closed, AnswerIsStored, rowVars
<1>5. ASSUME NEW text, TextRead(c, text) PROVE CompletionInv'
  BY <1>2, <1>5 DEF TextRead, clientVars
<1>6. ASSUME RowRead(c) PROVE CompletionInv'
  BY <1>3, <1>4, <1>5, <1>6 DEF RowRead, ErrorRead, PartialRestored
<1>7. CASE Subscribes(c)
  BY <1>2, <1>7 DEF Subscribes, viewVars
<1>8. CASE Snapshot(c) \/ Polls(c)
  BY <1>2, <1>6, <1>8 DEF Snapshot, Polls, clientVars, viewVars
<1>9. CASE Forwards(c)
  <2> DEFINE e == Head(events[c])
  <2>1. e \in Held(c)
    <3>1. events[c] \in Seq(Event) /\ events[c] # <<>>
      BY <1>9 DEF Forwards, TypeInv, StreamTypeOK
    <3> QED
      BY <3>1 DEF Held
  <2>2. CASE e.type = "error" /\ ErrorRead(c)
    BY <1>3, <2>2 DEF ErrorRead
  <2>3. CASE e.type = "done" /\ DoneRead(c, e.data)
    BY <1>4, <2>1, <2>3
  <2>4. CASE UNCHANGED <<clientVars, viewVars>>
    BY <1>2, <2>4 DEF clientVars, viewVars
  <2>5. CASE TextRead(c, shown[c] \o e.data) \/ TextRead(c, e.data)
    BY <1>5, <2>5
  <2> QED
    BY <1>9, <2>2, <2>3, <2>4, <2>5 DEF Forwards
<1>10. CASE RelayFails(c) \/ ConnectionLost(c)
  BY <1>3, <1>10 DEF RelayFails, ConnectionLost, Interrupted
<1>11. CASE Connects(c) \/ ConnectFails(c)
  BY <1>t, <1>2, <1>11 DEF Connects, ConnectFails, viewVars
<1>12. CASE Aborts(c)
  BY <1>3, <1>12 DEF Aborts
<1> QED
  BY <1>7, <1>8, <1>9, <1>10, <1>11, <1>12 DEF RelayStep

\* A page that shows an answer as complete shows the answer of the row, for
\* every number of pages, runs, tokens and faults.
THEOREM AnswerStored == StreamSpec => []AnswerIsStored
<1>1. StreamInit => TypeInv /\ CompletionInv
  BY InitTyped, CompletionInit
<1>2. TypeInv /\ CompletionInv /\ [StreamNext]_streamVars => (TypeInv /\ CompletionInv)'
  <2> SUFFICES ASSUME TypeInv, CompletionInv, [StreamNext]_streamVars PROVE CompletionInv'
    BY TypePreserved
  <2>1. CASE UNCHANGED streamVars
    BY <2>1 DEF streamVars, rowVars, runVars, clientVars, relayVars, viewVars,
                CompletionInv, AnswerIsStored, Held
  <2> QED
    BY <2>1, CompletionWorker, CompletionClient DEF StreamNext
<1>3. CompletionInv => AnswerIsStored
  BY DEF CompletionInv
<1> QED
  BY <1>1, <1>2, <1>3, PTL DEF StreamSpec

-----------------------------------------------------------------------------
(* The errors that are shown.                                              *)

\* The answer failed, and the row says so unless that write was lost.
FailureKnown ==
    \/ status = "failed"
    \/ pc = "over" /\ status = "active" /\ faults > 0

\* Only a failed run apologises, no relay outlives its stream, and every
\* attempt but the first or the last one met a fault.
ErrorInv ==
    /\ pc = "apologising" => (status = "failed" \/ (status = "active" /\ faults > 0))
    /\ \A c \in Clients : \A e \in Held(c) : e.type = "error" => FailureKnown
    /\ \A c \in Clients :
        /\ phase[c] # "open" => relay[c] = "none"
        /\ phase[c] = "open" => tries[c] <= faults + 1
        /\ phase[c] = "waiting" => tries[c] <= faults
    /\ ErrorExplained

\* No error has been published or shown.
LEMMA ErrorInit == StreamInit => ErrorInv
  BY DEF StreamInit, ErrorInv, ErrorExplained, Held

\* A known failure stays known.
LEMMA FailureStays ==
  ASSUME TypeInv, CompletionInv, FailureKnown, StreamNext
  PROVE  FailureKnown'
<1>1. faults' \in Nat /\ faults \in Nat /\ faults' >= faults
  <2>1. Fault \/ Smooth
    BY DEF StreamNext, WorkerStep, RunStarts, TokenMade, PartialSaved, PartialPublished, Completed,
           DonePublished, RunFails, ErrorPublished, Finalized, WorkerLost, Publish, RelayStep,
           Subscribes, Snapshot, Polls, Forwards, RelayFails, ConnectionLost, Connects,
           ConnectFails, Aborts
  <2> QED
    BY <2>1, StreamAssumption DEF StreamAssumption, TypeInv, StreamTypeOK, Fault, Smooth
<1>2. CASE WorkerStep
  BY <1>1, <1>2 DEF FailureKnown, CompletionInv, WorkerStep, RunStarts, TokenMade, PartialSaved,
         PartialPublished, Completed, DonePublished, RunFails, ErrorPublished, Finalized,
         rowVars, runVars
<1>3. CASE WorkerLost
  BY <1>1, <1>3 DEF FailureKnown, WorkerLost, rowVars
<1>4. ASSUME UNCHANGED <<rowVars, runVars>> PROVE FailureKnown'
  BY <1>1, <1>4 DEF FailureKnown, rowVars, runVars
<1> QED
  BY <1>2, <1>3, <1>4 DEF StreamNext, RelayStep, Subscribes, Snapshot, Polls, Forwards, RelayFails,
         ConnectionLost, Connects, ConnectFails, Aborts

\* A client that shows an error has an explanation for it afterwards as well,
\* if it keeps its attempts and its acceptance.
LEMMA ExplanationStays ==
  ASSUME TypeInv, ErrorInv, NEW c \in Clients, phase[c] = "error",
         tries'[c] = tries[c], accepted'[c] = accepted[c],
         faults' \in Nat, faults' >= faults, FailureKnown => FailureKnown'
  PROVE  \/ status' = "failed"
         \/ tries'[c] = Attempts /\ faults' >= Attempts
         \/ ~accepted'[c] /\ faults' > 0
         \/ pc' = "over" /\ status' = "active" /\ faults' > 0
<1>1. faults \in Nat /\ Attempts \in Nat
  BY StreamAssumption DEF StreamAssumption, TypeInv, StreamTypeOK
<1> QED
  BY <1>1 DEF ErrorInv, ErrorExplained, FailureKnown

\* Faults are only added.
LEMMA FaultsAdded ==
  ASSUME TypeInv, StreamNext
  PROVE  faults \in Nat /\ faults' \in Nat /\ faults' >= faults
<1>1. Fault \/ Smooth
  BY DEF StreamNext, WorkerStep, RunStarts, TokenMade, PartialSaved, PartialPublished, Completed,
         DonePublished, RunFails, ErrorPublished, Finalized, WorkerLost, Publish, RelayStep,
         Subscribes, Snapshot, Polls, Forwards, RelayFails, ConnectionLost, Connects,
         ConnectFails, Aborts
<1> QED
  BY <1>1, StreamAssumption DEF StreamAssumption, TypeInv, StreamTypeOK, Fault, Smooth

\* The worker's steps keep it.
LEMMA ErrorWorker ==
  ASSUME TypeInv, CompletionInv, ErrorInv, WorkerStep \/ WorkerLost
  PROVE  ErrorInv'
<1>f. faults \in Nat /\ faults' \in Nat /\ faults' >= faults
  BY FaultsAdded DEF StreamNext
<1>s. FailureKnown => FailureKnown'
  BY FailureStays DEF StreamNext
<1>c. UNCHANGED <<clientVars, relay>>
  BY DEF WorkerStep, RunStarts, TokenMade, PartialSaved, PartialPublished, Completed,
         DonePublished, RunFails, ErrorPublished, Finalized, WorkerLost, Quiet, Publish, relayVars
<1>1. pc' = "apologising" => (status' = "failed" \/ (status' = "active" /\ faults' > 0))
  <2>1. CASE RunFails
    BY <1>f, <2>1 DEF RunFails, CompletionInv, Fault
  <2> QED
    BY <1>f, <2>1 DEF WorkerStep, RunStarts, TokenMade, PartialSaved, PartialPublished, Completed,
           DonePublished, ErrorPublished, Finalized, WorkerLost, ErrorInv, rowVars, runVars
<1>2. \A c \in Clients : \A e \in Held(c)' : e.type = "error" => FailureKnown'
  <2> SUFFICES ASSUME NEW c \in Clients, NEW e \in Held(c)', e.type = "error" PROVE FailureKnown'
    OBVIOUS
  <2>1. CASE Quiet
    BY <1>s, <2>1 DEF Quiet, relayVars, ErrorInv, Held
  <2>2. ASSUME NEW x \in Event, Publish(x), x.type # "error" PROVE FailureKnown'
    BY <1>s, <2>2, PublishHeld DEF TypeInv, ErrorInv
  <2>3. CASE ErrorPublished
    BY <1>f, <2>3 DEF ErrorPublished, ErrorInv, FailureKnown, rowVars
  <2>4. CASE TokenMade
    <3>1. run \in 1..MaxRuns /\ made + 1 \in 1..MaxTokens
      BY <2>4, StreamAssumption DEF TokenMade, StreamAssumption, TypeInv, StreamTypeOK, RunNumbered
    <3> QED
      BY <2>2, <2>4, <3>1, EventsTyped DEF TokenMade, TokenEvent
  <2>5. CASE PartialPublished
    <3>1. run \in 1..MaxRuns /\ made \in 0..MaxTokens
      BY <2>5 DEF PartialPublished, TypeInv, StreamTypeOK, RunNumbered
    <3> QED
      BY <2>2, <2>5, <3>1, EventsTyped DEF PartialPublished, ContentEvent
  <2>6. CASE DonePublished
    <3>1. Text(run, made) \in Seq(Token)
      BY <2>6, TextTyped DEF DonePublished, TypeInv, StreamTypeOK, RunNumbered
    <3> QED
      BY <2>2, <2>6, <3>1, EventsTyped DEF DonePublished, DoneEvent
  <2> QED
    BY <2>1, <2>3, <2>4, <2>5, <2>6 DEF WorkerStep, RunStarts, PartialSaved, Completed, RunFails,
           Finalized, WorkerLost
<1>3. \A c \in Clients :
        /\ phase'[c] # "open" => relay'[c] = "none"
        /\ phase'[c] = "open" => tries'[c] <= faults' + 1
        /\ phase'[c] = "waiting" => tries'[c] <= faults'
  BY <1>f, <1>c DEF ErrorInv, clientVars, TypeInv, StreamTypeOK
<1>4. ErrorExplained'
  BY <1>f, <1>s, <1>c, ExplanationStays DEF ErrorExplained, clientVars
<1> QED
  BY <1>1, <1>2, <1>3, <1>4 DEF ErrorInv

\* So do the clients': a stream is given up when the row or an event says that
\* the answer failed, or by a fault that finds no attempt left or no id.
LEMMA ErrorClient ==
  ASSUME TypeInv, CompletionInv, ErrorInv, NEW c \in Clients,
         RelayStep(c) \/ RelayFails(c) \/ ConnectionLost(c)
         \/ Connects(c) \/ ConnectFails(c) \/ Aborts(c)
  PROVE  ErrorInv'
<1>t. /\ phase \in [Clients -> {"open", "waiting", "done", "error", "aborted"}]
      /\ relay \in [Clients -> {"none", "opening", "subscribed", "looping"}]
      /\ tries \in [Clients -> 0..Attempts] /\ accepted \in [Clients -> BOOLEAN]
      /\ Attempts \in Nat
  BY StreamAssumption DEF StreamAssumption, TypeInv, StreamTypeOK
<1>f. faults \in Nat /\ faults' \in Nat /\ faults' >= faults
  BY FaultsAdded DEF StreamNext
<1>s. FailureKnown => FailureKnown'
  BY FailureStays DEF StreamNext
<1>h. \A d \in Clients : Held(d)' \subseteq Held(d)
  BY ClientHeld
<1>0. UNCHANGED <<rowVars, runVars>>
  BY DEF RelayStep, Subscribes, Snapshot, Polls, Forwards, RelayFails, ConnectionLost,
         Connects, ConnectFails, Aborts
<1> DEFINE Explained(d) ==
             \/ status' = "failed"
             \/ tries'[d] = Attempts /\ faults' >= Attempts
             \/ ~accepted'[d] /\ faults' > 0
             \/ pc' = "over" /\ status' = "active" /\ faults' > 0
           Bounded(d) ==
             /\ phase'[d] # "open" => relay'[d] = "none"
             /\ phase'[d] = "open" => tries'[d] <= faults' + 1
             /\ phase'[d] = "waiting" => tries'[d] <= faults'
             /\ phase'[d] = "error" => Explained(d)
<1>1. ASSUME \A d \in Clients : Bounded(d) PROVE ErrorInv'
  BY <1>f, <1>s, <1>h, <1>0, <1>1 DEF ErrorInv, ErrorExplained, rowVars, runVars
<1>2. ASSUME NEW d \in Clients, phase'[d] = phase[d], tries'[d] = tries[d], relay'[d] = relay[d],
             accepted'[d] = accepted[d]
      PROVE  Bounded(d)
  BY <1>t, <1>f, <1>s, <1>2, ExplanationStays DEF ErrorInv
<1>3. ASSUME Bounded(c), \A d \in Clients \ {c} :
             phase'[d] = phase[d] /\ tries'[d] = tries[d] /\ relay'[d] = relay[d]
             /\ accepted'[d] = accepted[d]
      PROVE  ErrorInv'
  BY <1>1, <1>2, <1>3
<1> HIDE DEF Explained, Bounded
<1>4. ASSUME NEW end \in {"done", "aborted"}, Closed(c, end), UNCHANGED <<tries, accepted>>
      PROVE  ErrorInv'
  <2>1. Bounded(c)
    BY <1>t, <1>4 DEF Closed, Bounded
  <2> QED
    BY <1>t, <1>3, <1>4, <2>1 DEF Closed
<1>5. ASSUME Closed(c, "error"), UNCHANGED <<tries, accepted>>, FailureKnown'
      PROVE  ErrorInv'
  <2>1. Bounded(c)
    BY <1>t, <1>5 DEF Closed, Bounded, Explained, FailureKnown
  <2> QED
    BY <1>t, <1>3, <1>5, <2>1 DEF Closed
<1>6. ASSUME UNCHANGED <<phase, tries, accepted>>, relay[c] # "none",
             relay' = relay \/ relay' = [relay EXCEPT ![c] = "looping"]
      PROVE  ErrorInv'
  <2>1. phase[c] = "open" /\ tries[c] <= faults + 1
    BY <1>6 DEF ErrorInv
  <2>2. Bounded(c)
    BY <1>t, <1>f, <1>6, <2>1 DEF Bounded
  <2> QED
    BY <1>t, <1>3, <1>6, <2>2
<1>7. ASSUME RowRead(c), relay[c] # "none" PROVE ErrorInv'
  BY <1>0, <1>4, <1>5, <1>6, <1>7
     DEF RowRead, DoneRead, ErrorRead, PartialRestored, TextRead, clientVars, FailureKnown, rowVars
<1>8. ASSUME Interrupted(c, TRUE) \/ Interrupted(c, accepted[c]), Fault, relay[c] # "none"
      PROVE  ErrorInv'
  <2>1. tries[c] <= faults + 1 /\ faults' = faults + 1
    BY <1>8 DEF ErrorInv, Fault
  <2>2. Bounded(c)
    BY <1>t, <1>f, <1>8, <2>1 DEF Interrupted, Closed, Bounded, Explained
  <2> QED
    BY <1>t, <1>3, <1>8, <2>2 DEF Interrupted, Closed
<1>9. CASE Subscribes(c)
  <2>1. phase[c] = "open" /\ tries[c] <= faults + 1
    BY <1>9 DEF Subscribes, ErrorInv
  <2>2. Bounded(c)
    BY <1>t, <1>f, <1>9, <2>1 DEF Subscribes, Bounded
  <2> QED
    BY <1>t, <1>3, <1>9, <2>2 DEF Subscribes
<1>10. CASE Snapshot(c)
  BY <1>6, <1>7, <1>10 DEF Snapshot, clientVars
<1>11. CASE Polls(c)
  BY <1>7, <1>11 DEF Polls
<1>12. CASE Forwards(c)
  <2> DEFINE e == Head(events[c])
  <2>1. e \in Held(c)
    <3>1. events[c] \in Seq(Event) /\ events[c] # <<>>
      BY <1>12 DEF Forwards, TypeInv, StreamTypeOK
    <3> QED
      BY <3>1 DEF Held
  <2>2. CASE e.type = "error" /\ ErrorRead(c)
    BY <1>5, <1>s, <2>1, <2>2 DEF ErrorRead, ErrorInv
  <2>3. CASE e.type = "done" /\ DoneRead(c, e.data)
    BY <1>4, <2>3 DEF DoneRead
  <2>4. CASE UNCHANGED <<relay, phase, tries, accepted>>
    BY <1>6, <1>12, <2>4 DEF Forwards
  <2> QED
    BY <1>12, <2>2, <2>3, <2>4 DEF Forwards, TextRead, clientVars
<1>13. CASE RelayFails(c) \/ ConnectionLost(c)
  BY <1>8, <1>13 DEF RelayFails, ConnectionLost
<1>14. CASE Connects(c)
  <2>1. tries[c] <= faults
    BY <1>14 DEF Connects, ErrorInv
  <2>2. Bounded(c)
    BY <1>t, <1>f, <1>14, <2>1 DEF Connects, Bounded
  <2> QED
    BY <1>t, <1>3, <1>14, <2>2 DEF Connects
<1>15. CASE ConnectFails(c)
  <2>1. tries[c] <= faults /\ tries[c] < Attempts /\ faults' = faults + 1 /\ relay[c] = "none"
    BY <1>15 DEF ConnectFails, ErrorInv, Fault, TypeInv, AttemptLeft
  <2>2. Bounded(c)
    BY <1>t, <1>f, <1>15, <2>1 DEF ConnectFails, Bounded, Explained, relayVars
  <2> QED
    BY <1>t, <1>3, <1>15, <2>2 DEF ConnectFails, relayVars
<1>16. CASE Aborts(c)
  BY <1>4, <1>16 DEF Aborts
<1> QED
  BY <1>9, <1>10, <1>11, <1>12, <1>13, <1>14, <1>15, <1>16 DEF RelayStep

\* A page shows an error only for an answer that failed, when every attempt of
\* the reconnect met a fault of its own, when the POST was cut off before it was
\* accepted, or when a failed run could not save its failure.
THEOREM ErrorsExplained == StreamSpec => []ErrorExplained
<1>1. StreamInit => TypeInv /\ CompletionInv /\ ErrorInv
  BY InitTyped, CompletionInit, ErrorInit
<1>2. TypeInv /\ CompletionInv /\ ErrorInv /\ [StreamNext]_streamVars
        => (TypeInv /\ CompletionInv /\ ErrorInv)'
  <2> SUFFICES ASSUME TypeInv, CompletionInv, ErrorInv, [StreamNext]_streamVars
               PROVE  CompletionInv' /\ ErrorInv'
    BY TypePreserved
  <2>1. CASE UNCHANGED streamVars
    BY <2>1 DEF streamVars, rowVars, runVars, clientVars, relayVars, viewVars,
                CompletionInv, AnswerIsStored, ErrorInv, ErrorExplained, FailureKnown, Held
  <2> QED
    BY <2>1, CompletionWorker, CompletionClient, ErrorWorker, ErrorClient DEF StreamNext
<1>3. ErrorInv => ErrorExplained
  BY DEF ErrorInv
<1> QED
  BY <1>1, <1>2, <1>3, PTL DEF StreamSpec

-----------------------------------------------------------------------------
(* The order in which the tokens are shown.  These operators speak of one  *)
(* client: text is what it shows, evs what waits in its subscription, p its *)
(* persisted sequence; r and m are the worker's run and sequence.          *)

InOrder(text) ==
    \A i, j \in 1..Len(text) : i < j /\ text[i][1] = text[j][1] => text[i][2] < text[j][2]

\* Every token of the text has been made.
Known(text, r, m) ==
    \A i \in 1..Len(text) : text[i][1] <= r /\ (text[i][1] = r => text[i][2] <= m)

RunOf(e) == e.data[1][1]

Genuine(e, r, m) ==
    /\ e.type = "token" => Len(e.data) = 1 /\ e.data[1][2] = e.seq /\ Known(e.data, r, m)
    /\ e.type = "content" => \E q \in 1..r : e.data = Text(q, e.seq) /\ (q = r => e.seq <= m)

\* What will be forwarded lies beyond what is shown, run by run.
Feed(text, evs, p, r, m) ==
    /\ Known(text, r, m)
    /\ InOrder(text)
    /\ \A i \in 1..Len(evs) : Genuine(evs[i], r, m)
    /\ \A i, j \in 1..Len(evs) :
         i < j /\ evs[i].type = "token" /\ evs[j].type = "token" /\ RunOf(evs[i]) = RunOf(evs[j])
           => evs[i].seq < evs[j].seq
    /\ \A i \in 1..Len(evs), k \in 1..Len(text) :
         evs[i].type = "token" /\ evs[i].seq > p /\ text[k][1] = RunOf(evs[i])
           => text[k][2] < evs[i].seq

OrderInv ==
    /\ partial # <<>> => \E q \in 1..run : partial = Text(q, saved) /\ (q = run => saved <= made)
    /\ \A c \in Clients : Feed(shown[c], events[c], persisted[c], run, made)

\* A token is a pair of numbers.
LEMMA TokensAreNumbers ==
  ASSUME NEW text \in Seq(Token), NEW i \in 1..Len(text)
  PROVE  text[i][1] \in 1..MaxRuns /\ text[i][2] \in 1..MaxTokens
<1>1. text[i] \in Token
  OBVIOUS
<1> QED
  BY <1>1 DEF Token

\* A text and one token more.
LEMMA OneMore ==
  ASSUME NEW text \in Seq(Token), NEW d \in Seq(Token), Len(d) = 1
  PROVE  /\ text \o d \in Seq(Token) /\ Len(text \o d) = Len(text) + 1
         /\ (text \o d)[Len(text) + 1] = d[1]
         /\ \A i \in 1..Len(text) : (text \o d)[i] = text[i]
<1>1. Len(text) \in Nat
  OBVIOUS
<1>2. /\ text \o d \in Seq(Token) /\ Len(text \o d) = Len(text) + Len(d)
      /\ \A i \in 1..Len(text) + Len(d) :
           (text \o d)[i] = IF i <= Len(text) THEN text[i] ELSE d[i - Len(text)]
  BY ConcatProperties
<1> QED
  BY <1>1, <1>2

\* An event that waits is an event.
LEMMA EventFields ==
  ASSUME NEW evs \in Seq(Event), NEW i \in 1..Len(evs)
  PROVE  evs[i] \in Event /\ evs[i].data \in Seq(Token) /\ evs[i].seq \in Nat
<1>1. evs[i] \in Event
  OBVIOUS
<1>2. \A e \in Event : e.data \in Seq(Token) /\ e.seq \in Nat
  BY StreamAssumption DEF StreamAssumption, Event
<1> QED
  BY <1>1, <1>2

\* The text of a run holds its tokens one by one.
LEMMA TextInOrder ==
  ASSUME NEW q \in 1..MaxRuns, NEW n \in 0..MaxTokens
  PROVE  /\ Len(Text(q, n)) = n
         /\ \A i \in 1..n : Text(q, n)[i][1] = q /\ Text(q, n)[i][2] = i
         /\ InOrder(Text(q, n))
<1>1. n \in Nat
  BY StreamAssumption DEF StreamAssumption
<1>2. Len(Text(q, n)) = n
  BY <1>1 DEF Text
<1>3. \A i \in 1..n : Text(q, n)[i] = <<q, i>>
  BY <1>1 DEF Text
<1> QED
  BY <1>1, <1>2, <1>3 DEF InOrder

\* The worker's progress takes nothing back.
LEMMA FeedGrows ==
  ASSUME NEW text \in Seq(Token), NEW evs \in Seq(Event), NEW p \in Nat,
         NEW r \in Nat, NEW m \in Nat, NEW r2 \in Nat, NEW m2 \in Nat,
         r2 > r \/ (r2 = r /\ m2 >= m), Feed(text, evs, p, r, m)
  PROVE  Feed(text, evs, p, r2, m2)
<1>1. ASSUME NEW some \in Seq(Token), Known(some, r, m) PROVE Known(some, r2, m2)
  <2> SUFFICES ASSUME NEW i \in 1..Len(some)
               PROVE  some[i][1] <= r2 /\ (some[i][1] = r2 => some[i][2] <= m2)
    BY DEF Known
  <2>1. some[i][1] \in Nat /\ some[i][2] \in Nat
    BY TokensAreNumbers, StreamAssumption DEF StreamAssumption
  <2>2. some[i][1] <= r /\ (some[i][1] = r => some[i][2] <= m)
    BY <1>1 DEF Known
  <2> QED
    BY <2>1, <2>2
<1>2. ASSUME NEW i \in 1..Len(evs), Genuine(evs[i], r, m) PROVE Genuine(evs[i], r2, m2)
  <2>1. evs[i].data \in Seq(Token) /\ evs[i].seq \in Nat
    BY EventFields
  <2>2. \A q \in 1..r : q \in 1..r2 /\ (q = r2 => q = r /\ r2 = r)
    OBVIOUS
  <2>3. evs[i].type = "content" =>
          \E q \in 1..r2 : evs[i].data = Text(q, evs[i].seq) /\ (q = r2 => evs[i].seq <= m2)
    BY <1>2, <2>1, <2>2 DEF Genuine
  <2> QED
    BY <1>1, <1>2, <2>1, <2>3 DEF Genuine
<1> QED
  BY <1>1, <1>2 DEF Feed

\* The next token of the run.
LEMMA FeedToken ==
  ASSUME NEW text \in Seq(Token), NEW evs \in Seq(Event), NEW p \in Nat,
         NEW r \in 1..MaxRuns, NEW m \in Nat, m + 1 \in 1..MaxTokens, Feed(text, evs, p, r, m)
  PROVE  Feed(text, Append(evs, TokenEvent(r, m + 1)), p, r, m + 1)
<1> DEFINE e == TokenEvent(r, m + 1)
           new == Append(evs, e)
<1>1. e \in Event /\ e.type = "token" /\ e.seq = m + 1 /\ e.data = <<<<r, m + 1>>>>
  BY EventsTyped DEF TokenEvent
<1>2. /\ Len(e.data) = 1
      /\ e.data[1][1] = r /\ e.data[1][2] = m + 1
  <2>1. \A t : Len(<<t>>) = 1 /\ <<t>>[1] = t
    OBVIOUS
  <2>2. <<r, m + 1>>[1] = r /\ <<r, m + 1>>[2] = m + 1
    OBVIOUS
  <2> QED
    BY <1>1, <2>1, <2>2
<1>3. Genuine(e, r, m + 1)
  BY <1>1, <1>2, StreamAssumption DEF StreamAssumption, Genuine, Known
<1>4. Feed(text, evs, p, r, m + 1)
  BY FeedGrows, StreamAssumption DEF StreamAssumption
<1>5. /\ new \in Seq(Event) /\ Len(new) = Len(evs) + 1
      /\ new[Len(evs) + 1] = e
      /\ \A i \in 1..Len(evs) : new[i] = evs[i]
  BY <1>1
<1>6. ASSUME NEW i \in 1..Len(evs), evs[i].type = "token", RunOf(evs[i]) = r
      PROVE  evs[i].seq < m + 1
  <2>1. Genuine(evs[i], r, m) /\ evs[i].data \in Seq(Token)
    BY EventFields DEF Feed
  <2>2. evs[i].data[1][2] = evs[i].seq /\ evs[i].data[1][2] <= m /\ evs[i].data[1][2] \in Nat
    BY <1>6, <2>1, TokensAreNumbers, StreamAssumption
       DEF StreamAssumption, Genuine, Known, RunOf
  <2> QED
    BY <2>2
<1>7. ASSUME NEW k \in 1..Len(text), text[k][1] = r PROVE text[k][2] < m + 1
  <2>1. text[k][2] <= m /\ text[k][2] \in Nat
    BY <1>7, TokensAreNumbers, StreamAssumption DEF StreamAssumption, Feed, Known
  <2> QED
    BY <2>1
<1>8. \A i \in 1..Len(new) : i \in 1..Len(evs) \/ i = Len(evs) + 1
  BY <1>5
<1> HIDE DEF e, new
<1>9. \A i \in 1..Len(new) : Genuine(new[i], r, m + 1)
  BY <1>3, <1>4, <1>5, <1>8 DEF Feed
<1>10. \A i, j \in 1..Len(new) :
          i < j /\ new[i].type = "token" /\ new[j].type = "token" /\ RunOf(new[i]) = RunOf(new[j])
            => new[i].seq < new[j].seq
  <2> SUFFICES ASSUME NEW i \in 1..Len(new), NEW j \in 1..Len(new), i < j,
                      new[i].type = "token", new[j].type = "token", RunOf(new[i]) = RunOf(new[j])
               PROVE  new[i].seq < new[j].seq
    OBVIOUS
  <2>1. i \in 1..Len(evs)
    BY <1>5
  <2>2. CASE j \in 1..Len(evs)
    BY <1>4, <1>5, <2>1, <2>2 DEF Feed
  <2>3. CASE j = Len(evs) + 1
    BY <1>1, <1>2, <1>5, <1>6, <2>1, <2>3 DEF RunOf
  <2> QED
    BY <1>8, <2>2, <2>3
<1>11. \A i \in 1..Len(new), k \in 1..Len(text) :
          new[i].type = "token" /\ new[i].seq > p /\ text[k][1] = RunOf(new[i])
            => text[k][2] < new[i].seq
  BY <1>1, <1>2, <1>4, <1>5, <1>7, <1>8 DEF Feed, RunOf
<1> QED
  BY <1>4, <1>9, <1>10, <1>11 DEF Feed, new, e

\* An event that brings no token.
LEMMA FeedOther ==
  ASSUME NEW text \in Seq(Token), NEW evs \in Seq(Event), NEW p \in Nat,
         NEW r \in Nat, NEW m \in Nat, NEW e \in Event, e.type # "token", Genuine(e, r, m),
         Feed(text, evs, p, r, m)
  PROVE  Feed(text, Append(evs, e), p, r, m)
<1> DEFINE new == Append(evs, e)
<1>1. /\ new \in Seq(Event) /\ Len(new) = Len(evs) + 1
      /\ new[Len(evs) + 1] = e
      /\ \A i \in 1..Len(evs) : new[i] = evs[i]
  OBVIOUS
<1>2. \A i \in 1..Len(new) : i \in 1..Len(evs) \/ i = Len(evs) + 1
  BY <1>1
<1> HIDE DEF new
<1> QED
  BY <1>1, <1>2 DEF Feed, new

\* An event is dropped.
LEMMA FeedDrop ==
  ASSUME NEW text \in Seq(Token), NEW evs \in Seq(Event), evs # <<>>, NEW p \in Nat,
         NEW r \in Nat, NEW m \in Nat, Feed(text, evs, p, r, m)
  PROVE  Feed(text, Tail(evs), p, r, m)
<1> DEFINE new == Tail(evs)
<1>1. /\ Len(new) = Len(evs) - 1 /\ Len(evs) \in Nat
      /\ \A i \in 1..Len(new) : i + 1 \in 1..Len(evs) /\ new[i] = evs[i + 1]
  OBVIOUS
<1> HIDE DEF new
<1> QED
  BY <1>1 DEF Feed, new

\* A token that lies beyond the persisted sequence is shown.
LEMMA FeedForward ==
  ASSUME NEW text \in Seq(Token), NEW evs \in Seq(Event), evs # <<>>, NEW p \in Nat,
         NEW r \in Nat, NEW m \in Nat, Head(evs).type = "token", Head(evs).seq > p,
         Feed(text, evs, p, r, m)
  PROVE  Feed(text \o Head(evs).data, Tail(evs), p, r, m)
<1> DEFINE e == Head(evs)
           new == text \o e.data
           rest == Tail(evs)
<1>1. e = evs[1] /\ 1 \in 1..Len(evs) /\ e \in Event
  OBVIOUS
<1>2. Genuine(e, r, m) /\ e.data \in Seq(Token) /\ e.type = "token"
  BY <1>1, EventFields DEF Feed
<1>3. /\ Len(e.data) = 1 /\ e.data[1][2] = e.seq
      /\ e.data[1][1] <= r /\ (e.data[1][1] = r => e.data[1][2] <= m)
  BY <1>2 DEF Genuine, Known
<1>4. /\ new \in Seq(Token) /\ Len(new) = Len(text) + 1
      /\ new[Len(text) + 1] = e.data[1]
      /\ \A i \in 1..Len(text) : new[i] = text[i]
  BY <1>2, <1>3, OneMore
<1>5. \A i \in 1..Len(new) : i \in 1..Len(text) \/ i = Len(text) + 1
  BY <1>4
<1>6. \A k \in 1..Len(text) : text[k][1] = RunOf(e) => text[k][2] < e.seq
  BY <1>1, <1>2 DEF Feed
<1>7. Feed(text, rest, p, r, m)
  BY FeedDrop
<1>8. \A i \in 1..Len(rest) : rest[i].type = "token" /\ RunOf(rest[i]) = RunOf(e)
                              => e.seq < rest[i].seq
  <2>1. \A i \in 1..Len(rest) : i + 1 \in 1..Len(evs) /\ 1 < i + 1 /\ rest[i] = evs[i + 1]
    OBVIOUS
  <2> QED
    BY <1>1, <1>2, <2>1 DEF Feed
<1> HIDE DEF e, new, rest
<1>9. Known(new, r, m)
  BY <1>3, <1>4, <1>5, <1>7 DEF Feed, Known
<1>10. InOrder(new)
  <2> SUFFICES ASSUME NEW i \in 1..Len(new), NEW j \in 1..Len(new), i < j, new[i][1] = new[j][1]
               PROVE  new[i][2] < new[j][2]
    BY DEF InOrder
  <2>1. i \in 1..Len(text)
    BY <1>4
  <2>2. CASE j \in 1..Len(text)
    BY <1>4, <1>7, <2>1, <2>2 DEF Feed, InOrder
  <2>3. CASE j = Len(text) + 1
    BY <1>3, <1>4, <1>6, <2>1, <2>3 DEF RunOf
  <2> QED
    BY <1>5, <2>2, <2>3
<1>11. \A i \in 1..Len(rest), k \in 1..Len(new) :
          rest[i].type = "token" /\ rest[i].seq > p /\ new[k][1] = RunOf(rest[i])
            => new[k][2] < rest[i].seq
  BY <1>3, <1>4, <1>5, <1>7, <1>8 DEF Feed, RunOf
<1> QED
  BY <1>7, <1>9, <1>10, <1>11 DEF Feed, new, rest, e

\* The text of a run replaces what is shown, and the sequence moves to it.
LEMMA FeedReplace ==
  ASSUME NEW text \in Seq(Token), NEW evs \in Seq(Event), NEW p \in Nat, NEW p2 \in Nat,
         NEW r \in 0..MaxRuns, NEW m \in Nat, Feed(text, evs, p, r, m),
         NEW q \in 1..r, NEW n \in 0..MaxTokens, q = r => n <= m, p <= p2, n <= p2
  PROVE  Feed(Text(q, n), evs, p2, r, m)
<1> DEFINE new == Text(q, n)
<1>1. q \in 1..MaxRuns /\ n \in Nat /\ r \in Nat
  BY StreamAssumption DEF StreamAssumption
<1>2. Len(new) = n /\ InOrder(new) /\ \A i \in 1..n : new[i][1] = q /\ new[i][2] = i
  BY <1>1, TextInOrder
<1> HIDE DEF new
<1>3. Known(new, r, m)
  BY <1>1, <1>2 DEF Known
<1>4. \A i \in 1..Len(evs) : evs[i].seq \in Nat
  BY EventFields
<1>5. \A i \in 1..Len(evs), k \in 1..Len(new) : evs[i].seq > p2 => new[k][2] < evs[i].seq
  BY <1>1, <1>2, <1>4
<1> QED
  BY <1>2, <1>3, <1>5 DEF Feed, new

\* The subscription is gone; the text stays, or is cleared.
LEMMA FeedClosed ==
  ASSUME NEW text \in Seq(Token), NEW evs \in Seq(Event), NEW p \in Nat,
         NEW r \in Nat, NEW m \in Nat, Feed(text, evs, p, r, m)
  PROVE  Feed(text, <<>>, 0, r, m) /\ Feed(<<>>, <<>>, 0, r, m)
<1>1. Len(<<>>) = 0 /\ \A i \in 1..0 : FALSE
  OBVIOUS
<1> QED
  BY <1>1 DEF Feed, Known, InOrder

\* Nothing is shown, and nothing waits.
LEMMA OrderInit == StreamInit => OrderInv
<1>1. Len(<<>>) = 0 /\ \A i \in 1..0 : FALSE
  OBVIOUS
<1> QED
  BY <1>1 DEF StreamInit, OrderInv, Feed, Known, InOrder

\* The worker's steps keep it.
LEMMA OrderWorker ==
  ASSUME TypeInv, OrderInv, WorkerStep \/ WorkerLost
  PROVE  OrderInv'
<1>t. /\ \A c \in Clients : shown[c] \in Seq(Token) /\ events[c] \in Seq(Event) /\ persisted[c] \in Nat
      /\ run \in Nat /\ run \in 0..MaxRuns /\ made \in Nat /\ made \in 0..MaxTokens
      /\ pc # "idle" => run \in 1..MaxRuns
  BY StreamAssumption DEF StreamAssumption, TypeInv, StreamTypeOK, RunNumbered
<1>p. ASSUME UNCHANGED <<partial, saved>>, run' \in Nat, made' \in Nat,
             run' > run \/ (run' = run /\ made' >= made)
      PROVE  partial' # <<>> => \E q \in 1..run' : partial' = Text(q, saved') /\ (q = run' => saved' <= made')
  <2> SUFFICES ASSUME partial # <<>>
               PROVE  \E q \in 1..run' : partial = Text(q, saved) /\ (q = run' => saved <= made')
    BY <1>p
  <2>1. PICK q \in 1..run : partial = Text(q, saved) /\ (q = run => saved <= made)
    BY DEF OrderInv
  <2>2. q \in 1..run' /\ (q = run' => saved <= made')
    BY <1>t, <1>p, <2>1, StreamAssumption DEF StreamAssumption, TypeInv, StreamTypeOK
  <2> QED
    BY <2>1, <2>2
<1>q. ASSUME Quiet, run' \in Nat, made' \in Nat, run' > run \/ (run' = run /\ made' >= made)
      PROVE  \A c \in Clients : Feed(shown'[c], events'[c], persisted'[c], run', made')
  BY <1>t, <1>q, FeedGrows DEF OrderInv, Quiet, relayVars, viewVars
<1>e. ASSUME NEW e \in Event, Publish(e), e.type # "token", Genuine(e, run, made),
             UNCHANGED <<rowVars, run, made>>
      PROVE  OrderInv'
  <2>1. UNCHANGED <<shown, persisted, partial, saved, run, made>>
    BY <1>e DEF Publish, rowVars, viewVars
  <2>2. \A c \in Clients : events'[c] = events[c] \/ events'[c] = Append(events[c], e)
    BY <1>e DEF Publish
  <2>3. \A c \in Clients : Feed(shown[c], Append(events[c], e), persisted[c], run, made)
    BY <1>t, <1>e, FeedOther DEF OrderInv
  <2> QED
    BY <2>1, <2>2, <2>3 DEF OrderInv
<1>1. CASE RunStarts
  <2>1. Quiet /\ run' = run + 1 /\ made' = 0 /\ UNCHANGED <<partial, saved>>
    BY <1>1 DEF RunStarts, rowVars
  <2> QED
    BY <1>t, <1>p, <1>q, <2>1 DEF OrderInv
<1>2. CASE TokenMade
  <2>1. /\ run' = run /\ made' = made + 1 /\ UNCHANGED <<partial, saved, shown, persisted>>
        /\ Publish(TokenEvent(run, made + 1)) /\ run \in 1..MaxRuns /\ made + 1 \in 1..MaxTokens
    BY <1>t, <1>2, StreamAssumption DEF StreamAssumption, TokenMade, Publish, rowVars, viewVars
  <2>2. \A c \in Clients : \/ events'[c] = events[c]
                           \/ events'[c] = Append(events[c], TokenEvent(run, made + 1))
    BY <2>1 DEF Publish
  <2>3. \A c \in Clients :
          /\ Feed(shown[c], events[c], persisted[c], run, made + 1)
          /\ Feed(shown[c], Append(events[c], TokenEvent(run, made + 1)), persisted[c], run, made + 1)
    <3> SUFFICES ASSUME NEW c \in Clients
                 PROVE  /\ Feed(shown[c], events[c], persisted[c], run, made + 1)
                        /\ Feed(shown[c], Append(events[c], TokenEvent(run, made + 1)), persisted[c],
                                run, made + 1)
      OBVIOUS
    <3>1. Feed(shown[c], events[c], persisted[c], run, made)
      BY DEF OrderInv
    <3>2. made + 1 \in Nat /\ made + 1 >= made
      BY <1>t
    <3>3. Feed(shown[c], events[c], persisted[c], run, made + 1)
      BY <1>t, <3>1, <3>2, FeedGrows
    <3>4. Feed(shown[c], Append(events[c], TokenEvent(run, made + 1)), persisted[c], run, made + 1)
      BY <1>t, <2>1, <3>1, FeedToken
    <3> QED
      BY <3>3, <3>4
  <2>4. run' \in Nat /\ made' \in Nat /\ made' >= made
    BY <1>t, <2>1
  <2>5. \A c \in Clients : Feed(shown'[c], events'[c], persisted'[c], run', made')
    BY <2>1, <2>2, <2>3
  <2> QED
    BY <1>p, <2>1, <2>4, <2>5 DEF OrderInv
<1>3. CASE PartialSaved
  <2>1. /\ Quiet /\ UNCHANGED <<run, made>> /\ run \in 1..run
        /\ partial' = Text(run, made) /\ saved' = made
    BY <1>t, <1>3 DEF PartialSaved
  <2> QED
    BY <1>t, <1>q, <2>1 DEF OrderInv
<1>4. CASE PartialPublished
  <2>1. run \in 1..MaxRuns /\ ContentEvent(run, made) \in Event
    BY <1>t, <1>4, EventsTyped DEF PartialPublished
  <2>2. Genuine(ContentEvent(run, made), run, made)
    <3>1. run \in 1..run /\ made <= made
      BY <1>t, <2>1
    <3> QED
      BY <3>1 DEF Genuine, ContentEvent
  <2>3. ContentEvent(run, made).type # "token"
    BY DEF ContentEvent
  <2> QED
    BY <1>e, <1>4, <2>1, <2>2, <2>3 DEF PartialPublished
<1>5. CASE Completed \/ Finalized
  <2>1. Quiet /\ UNCHANGED <<run, made>> /\ partial' = <<>>
    BY <1>5 DEF Completed, Finalized, runVars
  <2> QED
    BY <1>t, <1>q, <2>1 DEF OrderInv
<1>6. CASE DonePublished
  <2> DEFINE e == DoneEvent(Text(run, made))
  <2>1. e \in Event
    BY <1>t, <1>6, EventsTyped, TextTyped DEF DonePublished
  <2>2. e.type = "done"
    BY DEF DoneEvent
  <2>3. Genuine(e, run, made)
    BY <2>2 DEF Genuine
  <2> QED
    BY <1>e, <1>6, <2>1, <2>2, <2>3 DEF DonePublished
<1>7. CASE ErrorPublished
  <2>1. ErrorEvent \in Event /\ ErrorEvent.type = "error"
    BY EventsTyped DEF ErrorEvent
  <2>2. Genuine(ErrorEvent, run, made)
    BY <2>1 DEF Genuine
  <2> QED
    BY <1>e, <1>7, <2>1, <2>2 DEF ErrorPublished
<1>8. CASE RunFails \/ WorkerLost
  <2>1. Quiet /\ UNCHANGED <<run, made, partial, saved>>
    BY <1>8 DEF RunFails, WorkerLost, rowVars
  <2> QED
    BY <1>t, <1>p, <1>q, <2>1 DEF OrderInv
<1> QED
  BY <1>1, <1>2, <1>3, <1>4, <1>5, <1>6, <1>7, <1>8 DEF WorkerStep

\* So do the clients': what is forwarded is what lies beyond what is shown.
LEMMA OrderClient ==
  ASSUME TypeInv, OrderInv, NEW c \in Clients,
         RelayStep(c) \/ RelayFails(c) \/ ConnectionLost(c)
         \/ Connects(c) \/ ConnectFails(c) \/ Aborts(c)
  PROVE  OrderInv'
<1>t. /\ shown \in [Clients -> Seq(Token)] /\ events \in [Clients -> Seq(Event)]
      /\ persisted \in [Clients -> 0..MaxTokens] /\ \A d \in Clients : persisted[d] \in Nat
      /\ run \in Nat /\ run \in 0..MaxRuns /\ made \in Nat /\ saved \in 0..MaxTokens
      /\ saved \in Nat
  BY StreamAssumption DEF StreamAssumption, TypeInv, StreamTypeOK
<1>0. UNCHANGED <<rowVars, runVars>>
  BY DEF RelayStep, Subscribes, Snapshot, Polls, Forwards, RelayFails, ConnectionLost,
         Connects, ConnectFails, Aborts
<1>1. ASSUME Feed(shown'[c], events'[c], persisted'[c], run, made),
             \A d \in Clients \ {c} :
               shown'[d] = shown[d] /\ events'[d] = events[d] /\ persisted'[d] = persisted[d]
      PROVE  OrderInv'
  BY <1>0, <1>1 DEF OrderInv, rowVars, runVars
<1>2. ASSUME UNCHANGED <<shown, events, persisted>> PROVE OrderInv'
  BY <1>1, <1>2 DEF OrderInv
<1>3. Feed(shown[c], events[c], persisted[c], run, made)
  BY DEF OrderInv
<1>4. ASSUME NEW end, Closed(c, end), shown' = shown \/ shown' = [shown EXCEPT ![c] = <<>>]
      PROVE  OrderInv'
  <2>1. Feed(shown[c], <<>>, 0, run, made) /\ Feed(<<>>, <<>>, 0, run, made)
    BY <1>t, <1>3, FeedClosed
  <2> QED
    BY <1>t, <1>1, <1>4, <2>1 DEF Closed
<1>5. ASSUME RowRead(c) PROVE OrderInv'
  <2>1. CASE DoneRead(c, answer)
    BY <1>4, <2>1 DEF DoneRead
  <2>2. CASE ErrorRead(c)
    BY <1>4, <2>2 DEF ErrorRead, viewVars
  <2>3. CASE partial # <<>> /\ PartialRestored(c) /\ UNCHANGED events
    <3>1. PICK q \in 1..run : partial = Text(q, saved) /\ (q = run => saved <= made)
      BY <2>3 DEF OrderInv
    <3>2. PICK p2 \in Nat : p2 = IF saved > persisted[c] THEN saved ELSE persisted[c]
      BY <1>t
    <3>3. persisted[c] <= p2 /\ saved <= p2
      BY <1>t, <3>2
    <3>4. Feed(partial, events[c], p2, run, made)
      BY <1>t, <1>3, <3>1, <3>3, FeedReplace
    <3> QED
      BY <1>t, <1>1, <2>3, <3>2, <3>4 DEF PartialRestored, TextRead
  <2> QED
    BY <1>5, <2>1, <2>2, <2>3 DEF RowRead
<1>6. CASE Subscribes(c) \/ Connects(c) \/ ConnectFails(c)
  BY <1>2, <1>6 DEF Subscribes, Connects, ConnectFails, viewVars, relayVars
<1>7. CASE Snapshot(c) \/ Polls(c)
  BY <1>2, <1>5, <1>7 DEF Snapshot, Polls, viewVars
<1>8. CASE Forwards(c)
  <2> DEFINE e == Head(events[c])
  <2>1. events[c] # <<>> /\ e = events[c][1] /\ 1 \in 1..Len(events[c])
    BY <1>t, <1>8 DEF Forwards
  <2>2. e \in Event /\ e.seq \in Nat /\ Genuine(e, run, made)
    BY <1>t, <1>3, <2>1, EventFields DEF Feed
  <2>3. Feed(shown[c], Tail(events[c]), persisted[c], run, made) /\ Tail(events[c]) \in Seq(Event)
    BY <1>t, <1>3, <2>1, FeedDrop
  <2> HIDE DEF e
  <2>4. CASE ErrorRead(c) \/ DoneRead(c, e.data)
    BY <1>4, <2>4 DEF ErrorRead, DoneRead, viewVars
  <2>5. CASE events' = [events EXCEPT ![c] = Tail(@)] /\ UNCHANGED <<persisted, shown>>
    BY <1>t, <1>1, <2>3, <2>5
  <2>6. CASE /\ e.type = "token" /\ ~Seen(c, e)
             /\ events' = [events EXCEPT ![c] = Tail(@)]
             /\ shown' = [shown EXCEPT ![c] = shown[c] \o e.data] /\ UNCHANGED persisted
    <3>1. e.seq > persisted[c]
      BY <1>t, <2>2, <2>6 DEF Seen
    <3>2. Feed(shown[c] \o e.data, Tail(events[c]), persisted[c], run, made)
      BY <1>t, <1>3, <2>1, <2>6, <3>1, FeedForward DEF e
    <3> QED
      BY <1>t, <1>1, <2>6, <3>2
  <2>7. CASE /\ e.type = "content" /\ ~Seen(c, e)
             /\ events' = [events EXCEPT ![c] = Tail(@)]
             /\ shown' = [shown EXCEPT ![c] = e.data] /\ persisted' = [persisted EXCEPT ![c] = e.seq]
    <3>1. e.seq > persisted[c] /\ e.seq \in 0..MaxTokens
      BY <1>t, <2>2, <2>7 DEF Seen, Event
    <3>2. PICK q \in 1..run : e.data = Text(q, e.seq) /\ (q = run => e.seq <= made)
      BY <2>2, <2>7 DEF Genuine
    <3>3. PICK n \in 0..MaxTokens : n = e.seq
      BY <3>1
    <3>4. n \in Nat /\ persisted[c] <= n /\ n <= n /\ (q = run => n <= made)
      BY <1>t, <2>2, <3>1, <3>2, <3>3
    <3>5. Feed(Text(q, n), Tail(events[c]), n, run, made)
      BY <1>t, <2>3, <3>4, FeedReplace
    <3>6. Feed(e.data, Tail(events[c]), e.seq, run, made)
      BY <3>2, <3>3, <3>5
    <3> QED
      BY <1>t, <1>1, <2>7, <3>6
  <2> QED
    BY <1>8, <2>4, <2>5, <2>6, <2>7 DEF Forwards, TextRead, viewVars, e
<1>9. CASE RelayFails(c) \/ ConnectionLost(c)
  BY <1>4, <1>9 DEF RelayFails, ConnectionLost, Interrupted, viewVars
<1>10. CASE Aborts(c)
  BY <1>4, <1>10 DEF Aborts, viewVars
<1> QED
  BY <1>6, <1>7, <1>8, <1>9, <1>10 DEF RelayStep

\* While an answer streams, no token of a run is shown twice or behind a later
\* one, whatever is restored, restated, repeated or lost on the way.
THEOREM TokensInOrder == StreamSpec => []ShownInOrder
<1>1. StreamInit => TypeInv /\ OrderInv
  BY InitTyped, OrderInit
<1>2. TypeInv /\ OrderInv /\ [StreamNext]_streamVars => (TypeInv /\ OrderInv)'
  <2> SUFFICES ASSUME TypeInv, OrderInv, [StreamNext]_streamVars PROVE OrderInv'
    BY TypePreserved
  <2>1. CASE UNCHANGED streamVars
    BY <2>1 DEF streamVars, rowVars, runVars, relayVars, viewVars, OrderInv
  <2> QED
    BY <2>1, OrderWorker, OrderClient DEF StreamNext
<1>3. OrderInv => ShownInOrder
  BY DEF OrderInv, Feed, InOrder, ShownInOrder
<1> QED
  BY <1>1, <1>2, <1>3, PTL DEF StreamSpec
=============================================================================
