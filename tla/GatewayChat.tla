---------------------------- MODULE GatewayChat ----------------------------
(***************************************************************************)
(* The local-gpu chat route of the AI gateway on top of the provider pool: *)
(* each request walks its candidates, with failover before the first       *)
(* output and none after it                                                *)
(* (infra/ai-gateway/routes/chat.py, _handle_local and _stream_response).  *)
(*                                                                         *)
(* The callers of ProviderPool are the request handlers; a handler serves  *)
(* one request after the other.  Every step that touches the pool is a     *)
(* pool action conjoined with the handler's own assignments, so the module *)
(* implements PoolSpec.  Between two awaits of a handler other handlers    *)
(* run.                                                                    *)
(***************************************************************************)
EXTENDS ProviderPool, SequencesExt

CONSTANTS
    Codex,              \* the provider behind the codex-* models
    Route,              \* routes of the policy: workload -> provider list
    Remote,             \* the providers whose scope is "remote"
    MinLevel, MaxLevel, \* reasoning_min and reasoning_max as _REASONING levels
    HighLevel,          \* the level of "high"
    Requests            \* the requests that may arrive

Profile == [workload : DOMAIN Route, level : 0..HighLevel, remote_allowed : BOOLEAN]

ASSUME ChatAssumption ==
    /\ "chat" \in DOMAIN Route
    /\ Route \in [DOMAIN Route -> Seq(Providers)]
    /\ \A w \in DOMAIN Route : IsInjective(Route[w])
    /\ Remote \subseteq Providers
    /\ HighLevel \in Nat
    /\ MinLevel \in [Providers -> 0..HighLevel]
    /\ MaxLevel \in [Providers -> 0..HighLevel]
    /\ Requests \subseteq [explicit : BOOLEAN, profile : Profile, stream : BOOLEAN]

VARIABLES
    pc,                 \* where the handler is
    request,            \* the request it serves
    attempted,          \* attempted
    use_explicit,       \* use_explicit
    saw_overload,       \* saw_overload
    after,              \* what follows the release of the lease
    trail               \* history: the providers opened, with the outcome of each

handlerVars == <<pc, request, attempted, use_explicit, saw_overload, after, trail>>
chatVars == <<poolVars, handlerVars>>

Outcomes == {"pending", "retryable", "overloaded", "invalid_request", "cancelled",
             "ok", "broken"}
Responses == {"ok", "invalid_request", "cancelled", "broken", "unavailable", "overloaded"}

ChatTypeOK ==
    /\ pc \in [Callers -> {"idle", "select", "admission", "opening", "streaming",
                           "closing", "done"}]
    /\ request \in [Callers -> Requests]
    /\ attempted \in [Callers -> SUBSET (Providers \union {Codex})]
    /\ use_explicit \in [Callers -> BOOLEAN]
    /\ saw_overload \in [Callers -> BOOLEAN]
    /\ after \in [Callers -> Responses \union {"select"}]
    /\ trail \in [Callers -> Seq([provider : Providers, outcome : Outcomes])]

ChatInit ==
    /\ PoolInit
    /\ pc = [r \in Callers |-> "idle"]
    /\ \E q \in Requests : request = [r \in Callers |-> q]
    /\ attempted = [r \in Callers |-> {}]
    /\ use_explicit = [r \in Callers |-> FALSE]
    /\ saw_overload = [r \in Callers |-> FALSE]
    /\ after = [r \in Callers |-> "select"]
    /\ trail = [r \in Callers |-> <<>>]

-----------------------------------------------------------------------------
\* Faulty variant: allow_remote is not looked at.
EligibleAnyScope(profile, exclude) ==
    {p \in Range(Route[profile.workload]) :
        /\ p \notin exclude
        /\ MinLevel[p] <= profile.level /\ profile.level <= MaxLevel[p]}

\* _eligible_specs: the providers of the route, without the excluded names, within
\* the reasoning range, and local unless remote execution is allowed.
Eligible(profile, exclude) ==
    {p \in Range(Route[profile.workload]) :
        /\ p \notin exclude
        /\ MinLevel[p] <= profile.level /\ profile.level <= MaxLevel[p]
        /\ p \in Remote => profile.remote_allowed}

\* specs lists the providers of S in the order of the route.
InRouteOrder(specs, S, route) ==
    /\ Range(specs) = S
    /\ \A i, j \in DOMAIN specs : i < j =>
          \E k, l \in DOMAIN route : k < l /\ route[k] = specs[i] /\ route[l] = specs[j]

\* An explicit codex-* request that has fallen back is served as chat/high/local_only.
Fallback == [workload |-> "chat", level |-> HighLevel, remote_allowed |-> FALSE]
RouteProfile(r) == IF request[r].explicit THEN Fallback ELSE request[r].profile

\* specs is the list of the next acquire; empty means NoEligibleProvider.
Candidates(r, specs) ==
    IF use_explicit[r]
    THEN specs = IF Codex \in Providers THEN <<Codex>> ELSE <<>>
    ELSE InRouteOrder(specs, Eligible(RouteProfile(r), attempted[r]),
                      Route[RouteProfile(r).workload])

Arrive(r) ==
    /\ pc[r] \in {"idle", "done"}
    /\ Started
    /\ \E q \in Requests :
         /\ request' = [request EXCEPT ![r] = q]
         /\ use_explicit' = [use_explicit EXCEPT ![r] = q.explicit]
    /\ pc' = [pc EXCEPT ![r] = "select"]
    /\ attempted' = [attempted EXCEPT ![r] = {}]
    /\ saw_overload' = [saw_overload EXCEPT ![r] = FALSE]
    /\ after' = [after EXCEPT ![r] = "select"]
    /\ trail' = [trail EXCEPT ![r] = <<>>]
    /\ UNCHANGED poolVars

Respond(r, response) ==
    /\ pc' = [pc EXCEPT ![r] = "done"]
    /\ after' = [after EXCEPT ![r] = response]
    /\ UNCHANGED <<request, attempted, use_explicit, saw_overload, trail>>

\* Faulty variant: the lease's provider is not added to attempted.
LeasedForgotten(r) ==
    /\ pc' = [pc EXCEPT ![r] = "opening"]
    /\ trail' = [trail EXCEPT ![r] = Append(@, [provider |-> lease'[r].provider,
                                               outcome  |-> "pending"])]
    /\ UNCHANGED <<request, attempted, use_explicit, saw_overload, after>>

\* acquire returned a lease
Leased(r) ==
    /\ pc' = [pc EXCEPT ![r] = "opening"]
    /\ attempted' = [attempted EXCEPT ![r] = @ \union {lease'[r].provider}]
    /\ trail' = [trail EXCEPT ![r] = Append(@, [provider |-> lease'[r].provider,
                                               outcome  |-> "pending"])]
    /\ UNCHANGED <<request, use_explicit, saw_overload, after>>

\* Faulty variant: the exception's own code is the answer.
NoProviderCode(r) ==
    \/ /\ use_explicit[r]
       /\ attempted' = [attempted EXCEPT ![r] = @ \union {Codex}]
       /\ use_explicit' = [use_explicit EXCEPT ![r] = FALSE]
       /\ pc' = [pc EXCEPT ![r] = "select"]
       /\ UNCHANGED <<request, saw_overload, after, trail>>
    \/ ~use_explicit[r] /\ Respond(r, "no_healthy_provider")

\* except (NoEligibleProvider, NoHealthyProvider)
NoProvider(r) ==
    \/ /\ use_explicit[r]
       /\ attempted' = [attempted EXCEPT ![r] = @ \union {Codex}]
       /\ use_explicit' = [use_explicit EXCEPT ![r] = FALSE]
       /\ pc' = [pc EXCEPT ![r] = "select"]
       /\ UNCHANGED <<request, saw_overload, after, trail>>
    \/ /\ ~use_explicit[r]
       /\ Respond(r, IF saw_overload[r] THEN "overloaded" ELSE "unavailable")

Select(r) ==
    /\ pc[r] = "select"
    /\ \E specs \in SpecLists \union {<<>>} :
         /\ Candidates(r, specs)
         /\ \/ specs = <<>> /\ NoProvider(r) /\ UNCHANGED poolVars
            \/ AcquireGrant(r, specs) /\ Leased(r)
            \/ specs # <<>> /\ AcquireNoHealthy(r, specs) /\ NoProvider(r)
            \/ /\ AcquireBlock(r, specs)
               /\ pc' = [pc EXCEPT ![r] = "admission"]
               /\ UNCHANGED <<request, attempted, use_explicit, saw_overload, after, trail>>

\* Faulty variant: a request whose admission timed out is queued again.
AdmissionRetried(r) ==
    /\ pc[r] = "admission"
    /\ \/ RecheckGrant(r) /\ Leased(r)
       \/ RecheckNoHealthy(r) /\ NoProvider(r)
       \/ RecheckBlock(r) /\ UNCHANGED handlerVars
       \/ /\ AdmissionExpires(r)
          /\ pc' = [pc EXCEPT ![r] = "select"]
          /\ UNCHANGED <<request, attempted, use_explicit, saw_overload, after, trail>>

Admission(r) ==
    /\ pc[r] = "admission"
    /\ \/ RecheckGrant(r) /\ Leased(r)
       \/ RecheckNoHealthy(r) /\ NoProvider(r)
       \/ RecheckBlock(r) /\ UNCHANGED handlerVars
       \/ AdmissionExpires(r) /\ Respond(r, "overloaded")

\* The client goes away while the handler waits: CancelledError passes through.
WaitCancelled(r) ==
    /\ pc[r] = "admission"
    /\ AdmissionCancelled(r)
    /\ Respond(r, "cancelled")

-----------------------------------------------------------------------------
\* The attempt ends with an outcome; the lease is released next.
Finish(r, outcome, next) ==
    /\ pc' = [pc EXCEPT ![r] = "closing"]
    /\ after' = [after EXCEPT ![r] = next]
    /\ trail' = [trail EXCEPT ![r][Len(trail[r])].outcome = outcome]
    /\ UNCHANGED <<request, attempted>>

\* _open_upstream fails before the first output.
OpenRetryable(r) ==
    /\ pc[r] = "opening"
    /\ RecordFailure(r)
    /\ Finish(r, "retryable", "select")
    /\ use_explicit' = [use_explicit EXCEPT ![r] = FALSE]
    /\ UNCHANGED saw_overload

\* Faulty variant: saw_overload is not set.
OpenOverloadedForgotten(r) ==
    /\ pc[r] = "opening"
    /\ Finish(r, "overloaded", "select")
    /\ use_explicit' = [use_explicit EXCEPT ![r] = FALSE]
    /\ UNCHANGED <<poolVars, saw_overload>>

OpenOverloaded(r) ==
    /\ pc[r] = "opening"
    /\ Finish(r, "overloaded", "select")
    /\ use_explicit' = [use_explicit EXCEPT ![r] = FALSE]
    /\ saw_overload' = [saw_overload EXCEPT ![r] = TRUE]
    /\ UNCHANGED poolVars

OpenRejected(r) ==
    /\ pc[r] = "opening"
    /\ \E outcome \in {"invalid_request", "cancelled"} : Finish(r, outcome, outcome)
    /\ UNCHANGED <<poolVars, use_explicit, saw_overload>>

\* _open_upstream returns: a whole payload, or a stream and its first chunk.
OpenPayload(r) ==
    /\ pc[r] = "opening" /\ ~request[r].stream
    /\ RecordSuccess(r)
    /\ Finish(r, "ok", "ok")
    /\ UNCHANGED <<use_explicit, saw_overload>>

OpenStream(r) ==
    /\ pc[r] = "opening" /\ request[r].stream
    /\ pc' = [pc EXCEPT ![r] = "streaming"]
    /\ UNCHANGED <<poolVars, request, attempted, use_explicit, saw_overload, after, trail>>

\* generate(): on_success, on_failure, or neither when the client goes away.
StreamEnds(r) ==
    /\ pc[r] = "streaming"
    /\ RecordSuccess(r)
    /\ Finish(r, "ok", "ok")
    /\ UNCHANGED <<use_explicit, saw_overload>>

StreamBreaks(r) ==
    /\ pc[r] = "streaming"
    /\ RecordFailure(r)
    /\ Finish(r, "broken", "broken")
    /\ UNCHANGED <<use_explicit, saw_overload>>

\* Faulty variants: the lease of a cancelled stream is kept; its cancellation is
\* recorded as a failure.
StreamCancelledLeaks(r) ==
    /\ pc[r] = "streaming"
    /\ pc' = [pc EXCEPT ![r] = "done"]
    /\ after' = [after EXCEPT ![r] = "cancelled"]
    /\ trail' = [trail EXCEPT ![r][Len(trail[r])].outcome = "cancelled"]
    /\ UNCHANGED <<poolVars, request, attempted, use_explicit, saw_overload>>
StreamCancelledCounts(r) ==
    /\ pc[r] = "streaming"
    /\ RecordFailure(r)
    /\ Finish(r, "cancelled", "cancelled")
    /\ UNCHANGED <<use_explicit, saw_overload>>

StreamCancelled(r) ==
    /\ pc[r] = "streaming"
    /\ Finish(r, "cancelled", "cancelled")
    /\ UNCHANGED <<poolVars, use_explicit, saw_overload>>

\* Faulty variant: the handler lowers inflight itself and wakes nobody.
CloseSilently(r) ==
    /\ pc[r] = "closing"
    /\ inflight' = [inflight EXCEPT ![lease[r].provider] = @ - 1]
    /\ lease' = [lease EXCEPT ![r] = NoLease]
    /\ pc' = [pc EXCEPT ![r] = IF after[r] = "select" THEN "select" ELSE "done"]
    /\ UNCHANGED <<health, breaker, half_open_probe, waiting,
                   request, attempted, use_explicit, saw_overload, after, trail>>

\* lease.release(), in every except branch and in generate()'s finally.
Close(r) ==
    /\ pc[r] = "closing"
    /\ Release(r)
    /\ pc' = [pc EXCEPT ![r] = IF after[r] = "select" THEN "select" ELSE "done"]
    /\ UNCHANGED <<request, attempted, use_explicit, saw_overload, after, trail>>

OpenEnds(r) == \/ OpenRetryable(r) \/ OpenOverloaded(r) \/ OpenRejected(r)
               \/ OpenPayload(r) \/ OpenStream(r)

\* A tick is longer than the closing of an upstream stream.
ChatTick ==
    /\ \A r \in Callers : pc[r] # "closing"
    /\ Tick
    /\ UNCHANGED handlerVars

ChatProbe == /\ \E p \in Providers, healthy \in BOOLEAN : Probe(p, healthy)
             /\ UNCHANGED handlerVars

ChatNext ==
    \/ \E r \in Callers :
         \/ Arrive(r)
         \/ Select(r)
         \/ Admission(r)
         \/ WaitCancelled(r)
         \/ OpenEnds(r)
         \/ StreamEnds(r)
         \/ StreamBreaks(r)
         \/ StreamCancelled(r)
         \/ Close(r)
    \/ ChatProbe
    \/ ChatTick

ChatSpec == ChatInit /\ [][ChatNext]_chatVars

\* The event loop runs every task that can run; an upstream answers, or its first
\* output timeout ends the attempt.  The clock runs even while streams are being
\* closed again and again, hence strong fairness.  A stream may last for ever.
ChatFairness ==
    /\ SF_chatVars(ChatTick)
    /\ \A r \in Callers : WF_chatVars(Select(r) \/ Admission(r) \/ OpenEnds(r) \/ Close(r))

FairChatSpec == ChatSpec /\ ChatFairness

-----------------------------------------------------------------------------
\* A request asks no provider twice, whichever way it fell back, so that its
\* failover ends (attempted in _handle_local).
NoSecondTry ==
    \A r \in Callers : \A i, j \in DOMAIN trail[r] :
        trail[r][i].provider = trail[r][j].provider => i = j

\* A prompt leaves the machine only for a request that allows it, or as the
\* first try of one that names codex: no fallback widens the scope
\* (_eligible_specs, route_profile in _handle_local).
ScopeRespected ==
    \A r \in Callers : \A i \in DOMAIN trail[r] :
        trail[r][i].provider \in Remote =>
            \/ request[r].explicit /\ i = 1
            \/ ~request[r].explicit /\ request[r].profile.remote_allowed

\* A handler that has answered holds no slot and waits for none, and one that is
\* between two attempts has given the last one back, whichever of the ten paths
\* it took (_handle_local, generate).
NoSlotLeft ==
    \A r \in Callers : pc[r] \in {"idle", "select", "done"} => Idle(r)

\* The answer says what happened: "unavailable", which callers do not retry, is
\* never given once a provider answered 429 (saw_overload); a payload or stream
\* follows only the attempt that succeeded; nothing follows a first chunk
\* (_handle_local).
AnswerExplained ==
    \A r \in Callers : pc[r] = "done" =>
        LET seen == {trail[r][i].outcome : i \in DOMAIN trail[r]} IN
        /\ after[r] = "unavailable" => "overloaded" \notin seen
        /\ after[r] \in {"unavailable", "overloaded"} => seen \subseteq {"retryable", "overloaded"}
        /\ after[r] \in {"ok", "broken", "invalid_request"} => Last(trail[r]).outcome = after[r]
        /\ after[r] = "cancelled" => seen \subseteq {"retryable", "overloaded", "cancelled"}
        /\ \A i \in 1..(Len(trail[r]) - 1) : trail[r][i].outcome \in {"retryable", "overloaded"}

\* Only a failure that says something about the provider counts towards its
\* circuit: a bad request, a 429 and a client that went away do not
\* (_classify_upstream_error, _handle_local, generate).
OnlyFailuresCount ==
    [][\A p \in Providers :
         request_failures'[p] > request_failures[p] \/ cooldown'[p] > cooldown[p] =>
            \E r \in Callers :
               /\ trail[r] # <<>> /\ Last(trail[r]).provider = p
               /\ Last(trail[r]).outcome = "pending"
               /\ Last(trail'[r]).outcome \in {"retryable", "broken"}]_chatVars

\* Every request is answered, or its stream begins, whatever the providers, the
\* probes and the other requests do.
EveryRequestAnswered ==
    \A r \in Callers : pc[r] = "select" ~> pc[r] \in {"streaming", "done"}

\* The handlers use the pool only through its interface.
ImplementsPool == PoolSpec
=============================================================================
